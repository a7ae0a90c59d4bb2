-------------------------- MODULE DataObjectsProofs --------------------------
(***************************************************************************)
(* Theorems of the objects that are no actors: the statistics of the       *)
(* service, the HTTP codec filter, the address filters, the buffer and the *)
(* header map.                                                             *)
(***************************************************************************)
EXTENDS DataObjects, DataLemmas

-----------------------------------------------------------------------------
(* ServiceStatistics *)

StatisticsTypes ==
    /\ bytes \in [Threads -> 0..MaxBytes] /\ lastTime \in [Threads -> 0..MaxTime]
    /\ counting \in [Threads -> BOOLEAN]
    /\ now \in 0..MaxTime /\ at \in 0..(WorkThreads + 1)
    /\ currentTime \in 0..MaxTime /\ lastUpdate \in 0..MaxTime
    /\ latest \in 0..MaxTime /\ totalTime \in 0..MaxTime

\* What the last update found in the counters, thread by thread, and what this one has
\* found so far: a counter may have gone on since it was read.
Readings(found, soFar) ==
    /\ total = Total(found) /\ lastBytes = total /\ sum = Total(soFar)
    /\ \A t \in Threads : found[t] <= bytes[t] /\ soFar[t] <= bytes[t]
    /\ \A t \in Threads : IF at # 0 /\ t < at THEN found[t] <= soFar[t] ELSE soFar[t] = 0

ReadingsInv == \E found, soFar \in [Threads -> 0..MaxBytes] : Readings(found, soFar)

\* The throughput is the one of the last interval.
RatesInv ==
    /\ ~Exceeds(throughput, largest)
    /\ lastUpdate # 0 =>
          IF at = 0 THEN currentTime = lastUpdate ELSE currentTime - lastUpdate \in Intervals

StatisticsInv == StatisticsTypes /\ ReadingsInv /\ RatesInv

LEMMA ThreadsFinite == /\ IsFiniteSet(Threads) /\ WorkThreads \in Nat /\ Threads = 1..WorkThreads
                       /\ MaxBytes \in Nat /\ MaxTime \in Nat /\ MaxInterval \in Nat
                       /\ \A f \in [Threads -> 0..MaxBytes] :
                             f \in [Threads -> Nat] /\ Total(f) \in Nat
<1>1. WorkThreads \in Nat /\ MaxBytes \in Nat /\ MaxTime \in Nat /\ MaxInterval \in Nat
  BY StatisticsAssumption
<1>2. IsFiniteSet(Threads)
  BY <1>1, FS_Interval DEF Threads
<1>3. ASSUME NEW f \in [Threads -> 0..MaxBytes]
      PROVE  f \in [Threads -> Nat] /\ Total(f) \in Nat
  <2>1. f \in [Threads -> Nat]
    BY <1>1
  <2>2. DOMAIN f = Threads /\ \A t \in DOMAIN f : f[t] \in Nat
    BY <2>1
  <2>3. Total(f) \in Nat
    BY <1>2, <2>2, TotalType
  <2> QED
    BY <2>1, <2>3
<1> QED
  BY <1>1, <1>2, <1>3 DEF Threads

LEMMA StatisticsInitInv == StatisticsInit => StatisticsInv
<1> SUFFICES ASSUME StatisticsInit PROVE StatisticsInv
  OBVIOUS
<1>1. WorkThreads \in Nat /\ MaxBytes \in Nat /\ MaxTime \in Nat
  BY ThreadsFinite
<1>2. StatisticsTypes
  BY <1>1 DEF StatisticsInit, StatisticsTypes
<1>3. ReadingsInv
  <2> DEFINE none == [t \in Threads |-> 0]
  <2>1. none \in [Threads -> 0..MaxBytes]
    BY <1>1
  <2>2. Total(none) = 0
    <3>1. DOMAIN none = Threads /\ \A t \in DOMAIN none : none[t] \in Nat /\ none[t] = 0
      OBVIOUS
    <3> HIDE DEF none
    <3> QED
      BY <3>1, ThreadsFinite, TotalType
  <2>3. \A t \in Threads : none[t] = 0
    OBVIOUS
  <2> HIDE DEF none
  <2>4. Readings(none, none)
    BY <1>1, <2>2, <2>3 DEF Readings, StatisticsInit
  <2> QED
    BY <2>1, <2>4 DEF ReadingsInv
<1>4. RatesInv
  BY DEF RatesInv, StatisticsInit, Exceeds, Over
<1> QED
  BY <1>2, <1>3, <1>4 DEF StatisticsInv

\* The counters only go up, what has been read of them stays as it is.
LEMMA ReadingsStay ==
    ASSUME ReadingsInv, UNCHANGED <<at, sum, total, lastBytes>>,
           bytes \in [Threads -> 0..MaxBytes], bytes' \in [Threads -> 0..MaxBytes],
           \A t \in Threads : bytes[t] <= bytes'[t]
    PROVE  ReadingsInv'
<1>1. PICK found \in [Threads -> 0..MaxBytes], soFar \in [Threads -> 0..MaxBytes] :
          Readings(found, soFar)
  BY DEF ReadingsInv
<1>2. \A t \in Threads : found[t] <= bytes'[t] /\ soFar[t] <= bytes'[t]
  <2> TAKE t \in Threads
  <2>1. found[t] <= bytes[t] /\ soFar[t] <= bytes[t] /\ bytes[t] <= bytes'[t]
    BY <1>1 DEF Readings
  <2>2. {found[t], soFar[t], bytes[t], bytes'[t]} \subseteq 0..MaxBytes
    OBVIOUS
  <2>3. MaxBytes \in Nat
    BY ThreadsFinite
  <2> QED
    BY <2>1, <2>2, <2>3
<1>3. Readings(found, soFar)'
  BY <1>1, <1>2 DEF Readings
<1> QED
  BY <1>3 DEF ReadingsInv

LEMMA CountingStep ==
    ASSUME StatisticsInv,
           Tick \/ (\E t \in Threads : CountBytes(t) \/ NoteTime(t)) \/ UNCHANGED statisticsVars
    PROVE  StatisticsInv'
<1>1. StatisticsTypes /\ ReadingsInv /\ RatesInv /\ MaxBytes \in Nat /\ MaxTime \in Nat
  BY ThreadsFinite DEF StatisticsInv
<1>2. UNCHANGED <<at, currentTime, sum, latest, total, totalTime, lastBytes, lastUpdate,
                  throughput, largest>>
  BY DEF Tick, CountBytes, NoteTime, statisticsVars
<1>3. /\ now' \in 0..MaxTime
      /\ bytes' \in [Threads -> 0..MaxBytes] /\ lastTime' \in [Threads -> 0..MaxTime]
      /\ counting' \in [Threads -> BOOLEAN] /\ \A t \in Threads : bytes[t] <= bytes'[t]
  <2>1. CASE Tick
    BY <1>1, <2>1 DEF Tick, StatisticsTypes
  <2>2. ASSUME NEW t \in Threads, CountBytes(t)
        PROVE  <1>3
    <3>1. bytes[t] + 1 \in 0..MaxBytes /\ \A u \in Threads : bytes[u] \in 0..MaxBytes
      BY <1>1, <2>2 DEF CountBytes, StatisticsTypes
    <3>2. bytes' = [bytes EXCEPT ![t] = bytes[t] + 1] /\ counting' = [counting EXCEPT ![t] = TRUE]
          /\ UNCHANGED <<now, lastTime>>
      BY <2>2 DEF CountBytes
    <3> QED
      BY <1>1, <3>1, <3>2 DEF StatisticsTypes
  <2>3. ASSUME NEW t \in Threads, NoteTime(t)
        PROVE  <1>3
    BY <1>1, <2>3 DEF NoteTime, StatisticsTypes
  <2>4. CASE UNCHANGED statisticsVars
    BY <1>1, <2>4 DEF statisticsVars, StatisticsTypes
  <2> QED
    BY <2>1, <2>2, <2>3, <2>4
<1>4. StatisticsTypes'
  BY <1>1, <1>2, <1>3 DEF StatisticsTypes
<1>5. ReadingsInv'
  <2>1. bytes \in [Threads -> 0..MaxBytes]
    BY <1>1 DEF StatisticsTypes
  <2> QED
    BY <1>1, <1>2, <1>3, <2>1, ReadingsStay
<1>6. RatesInv'
  BY <1>1, <1>2 DEF RatesInv
<1> QED
  BY <1>4, <1>5, <1>6 DEF StatisticsInv

LEMMA BeginUpdateStep ==
    ASSUME StatisticsInv, NEW interval \in Intervals, BeginUpdate(interval)
    PROVE  StatisticsInv'
<1>1. /\ StatisticsTypes /\ ReadingsInv /\ RatesInv /\ WorkThreads \in Nat /\ MaxTime \in Nat
      /\ MaxInterval \in Nat /\ MaxBytes \in Nat
  BY ThreadsFinite DEF StatisticsInv
<1>2. interval \in Nat
  BY <1>1, StatisticsAssumption
<1>3. /\ at = 0 /\ currentTime + interval <= MaxTime
      /\ at' = 1 /\ currentTime' = currentTime + interval /\ sum' = 0 /\ latest' = totalTime
      /\ UNCHANGED <<now, bytes, lastTime, counting, total, totalTime, lastBytes, lastUpdate,
                     throughput, largest>>
  BY DEF BeginUpdate
<1>4. StatisticsTypes'
  BY <1>1, <1>2, <1>3 DEF StatisticsTypes
<1>5. ReadingsInv'
  <2>1. PICK found \in [Threads -> 0..MaxBytes], soFar \in [Threads -> 0..MaxBytes] :
            Readings(found, soFar)
    BY <1>1 DEF ReadingsInv
  <2>2. /\ total = Total(found) /\ lastBytes = total /\ sum = Total(soFar)
        /\ \A t \in Threads : found[t] <= bytes[t] /\ soFar[t] <= bytes[t] /\ soFar[t] = 0
    BY <1>3, <2>1 DEF Readings
  <2>3. Total(soFar) = 0
    <3>1. DOMAIN soFar = Threads /\ \A t \in DOMAIN soFar : soFar[t] \in Nat /\ soFar[t] = 0
      BY <2>2
    <3> QED
      BY <3>1, ThreadsFinite, TotalType
  <2>4. \A t \in Threads : ~(t < 1)
    BY ThreadsFinite
  <2>5. Readings(found, soFar)'
    BY <1>3, <2>2, <2>3, <2>4 DEF Readings
  <2> QED
    BY <1>3, <2>5 DEF ReadingsInv
<1>6. RatesInv'
  <2>1. ~Exceeds(throughput', largest')
    BY <1>1, <1>3 DEF RatesInv
  <2>2. lastUpdate # 0 => currentTime' - lastUpdate' \in Intervals
    <3>1. lastUpdate # 0 => currentTime = lastUpdate
      BY <1>1, <1>3 DEF RatesInv
    <3>2. currentTime \in Nat
      BY <1>1 DEF StatisticsTypes
    <3>3. lastUpdate # 0 => currentTime' - lastUpdate' = interval
      BY <1>2, <1>3, <3>1, <3>2
    <3> QED
      BY <3>3
  <2> QED
    BY <1>3, <2>1, <2>2 DEF RatesInv
<1> QED
  BY <1>4, <1>5, <1>6 DEF StatisticsInv

LEMMA ReadThreadStep ==
    ASSUME StatisticsInv, ReadThread
    PROVE  StatisticsInv'
<1>1. /\ StatisticsTypes /\ ReadingsInv /\ RatesInv /\ WorkThreads \in Nat /\ MaxTime \in Nat
      /\ MaxBytes \in Nat
  BY ThreadsFinite DEF StatisticsInv
<1>2. /\ at \in Threads /\ sum' = sum + bytes[at] /\ at' = at + 1
      /\ latest' = IF lastTime[at] > latest THEN lastTime[at] ELSE latest
      /\ UNCHANGED <<now, bytes, lastTime, counting, currentTime, total, totalTime, lastBytes,
                     lastUpdate, throughput, largest>>
  BY DEF ReadThread
<1>3. at \in 1..WorkThreads
  BY <1>2 DEF Threads
<1>4. StatisticsTypes'
  <2>1. lastTime[at] \in 0..MaxTime
    BY <1>1, <1>2 DEF StatisticsTypes
  <2>2. latest' \in 0..MaxTime /\ at' \in 0..(WorkThreads + 1)
    BY <1>1, <1>2, <1>3, <2>1 DEF StatisticsTypes
  <2> QED
    BY <1>1, <1>2, <2>2 DEF StatisticsTypes
<1>5. ReadingsInv'
  <2>1. PICK found \in [Threads -> 0..MaxBytes], soFar \in [Threads -> 0..MaxBytes] :
            Readings(found, soFar)
    BY <1>1 DEF ReadingsInv
  <2>2. /\ total = Total(found) /\ lastBytes = total /\ sum = Total(soFar)
        /\ \A t \in Threads : found[t] <= bytes[t] /\ soFar[t] <= bytes[t]
        /\ \A t \in Threads : IF t < at THEN found[t] <= soFar[t] ELSE soFar[t] = 0
    <3>1. at # 0
      BY <1>3
    <3> QED
      BY <2>1, <3>1 DEF Readings
  <2>3. bytes[at] \in 0..MaxBytes /\ soFar[at] = 0
    <3>1. bytes[at] \in 0..MaxBytes
      BY <1>1, <1>2 DEF StatisticsTypes
    <3>2. ~(at < at)
      BY <1>3
    <3> QED
      BY <1>2, <2>2, <3>1, <3>2
  <2>4. PICK more \in [Threads -> 0..MaxBytes] :
            more[at] = bytes[at] /\ \A t \in Threads \ {at} : more[t] = soFar[t]
    <3>1. [soFar EXCEPT ![at] = bytes[at]] \in [Threads -> 0..MaxBytes]
      BY <1>2, <2>3
    <3> QED
      BY <1>2, <3>1
  <2>5. Total(more) = Total(soFar) + bytes[at]
    <3>1. soFar \in [Threads -> Nat] /\ more \in [Threads -> Nat] /\ bytes[at] \in Nat
      BY <2>3, <2>4, ThreadsFinite
    <3>2. more[at] = soFar[at] + bytes[at]
      BY <2>3, <2>4, <3>1
    <3>3. IsFiniteSet(Threads) /\ at \in Threads
      BY <1>2, ThreadsFinite
    <3>4. PICK t \in Threads, k \in Nat : t = at /\ k = bytes[at]
      BY <3>1, <3>3
    <3>5. more[t] = soFar[t] + k /\ \A i \in Threads \ {t} : more[i] = soFar[i]
      BY <2>4, <3>2, <3>4
    <3>6. Total(more) = Total(soFar) + k
      BY <3>1, <3>3, <3>5, TotalGrows
    <3> QED
      BY <3>4, <3>6
  <2>6. ASSUME NEW t \in Threads
        PROVE  /\ more[t] <= bytes[t]
               /\ IF t < at + 1 THEN found[t] <= more[t] ELSE more[t] = 0
    <3>1. t \in Int /\ at \in Int
      BY <1>3, ThreadsFinite
    <3>2. CASE t = at
      <4>1. found[at] <= bytes[at] /\ found[at] \in 0..MaxBytes
        BY <1>2, <2>2
      <4> QED
        BY <2>3, <2>4, <3>1, <3>2, <4>1
    <3>3. CASE t # at
      <4>1. more[t] = soFar[t]
        BY <2>4, <3>3
      <4>2. t < at + 1 <=> t < at
        BY <3>1, <3>3
      <4> QED
        BY <2>2, <4>1, <4>2
    <3> QED
      BY <3>2, <3>3
  <2>7. at' # 0
    BY <1>2, <1>3
  <2>8. Readings(found, more)'
    BY <1>2, <2>2, <2>5, <2>6, <2>7 DEF Readings
  <2> QED
    BY <2>4, <2>8 DEF ReadingsInv
<1>6. RatesInv'
  <2>1. at # 0 /\ at' # 0
    BY <1>2, <1>3
  <2> QED
    BY <1>1, <1>2, <2>1 DEF RatesInv
<1> QED
  BY <1>4, <1>5, <1>6 DEF StatisticsInv

\* What updateThroughput() has found in all threads is no less than the last time, and no
\* more than there is.
LEMMA AllRead ==
    ASSUME StatisticsInv, at = WorkThreads + 1
    PROVE  /\ {sum, total, lastBytes, Total(bytes)} \subseteq Nat
           /\ total <= sum /\ lastBytes <= sum /\ sum <= Total(bytes)
<1>1. /\ StatisticsTypes /\ ReadingsInv /\ WorkThreads \in Nat
  BY ThreadsFinite DEF StatisticsInv
<1>2. PICK found \in [Threads -> 0..MaxBytes], soFar \in [Threads -> 0..MaxBytes] :
          Readings(found, soFar)
  BY <1>1 DEF ReadingsInv
<1>3. \A t \in Threads : found[t] <= soFar[t] /\ soFar[t] <= bytes[t]
  <2>1. at # 0 /\ \A t \in Threads : t < at
    BY <1>1, ThreadsFinite
  <2> QED
    BY <1>2, <2>1 DEF Readings
<1>4. /\ found \in [Threads -> Nat] /\ soFar \in [Threads -> Nat] /\ bytes \in [Threads -> Nat]
      /\ Total(found) \in Nat /\ Total(soFar) \in Nat /\ Total(bytes) \in Nat
  <2>1. bytes \in [Threads -> 0..MaxBytes]
    BY <1>1 DEF StatisticsTypes
  <2> QED
    BY <2>1, ThreadsFinite
<1>5. Total(found) <= Total(soFar)
  BY <1>3, <1>4, ThreadsFinite, TotalMonotone
<1>6. Total(soFar) <= Total(bytes)
  BY <1>3, <1>4, ThreadsFinite, TotalMonotone
<1>7. total = Total(found) /\ lastBytes = total /\ sum = Total(soFar)
  BY <1>2 DEF Readings
<1> QED
  BY <1>4, <1>5, <1>6, <1>7

LEMMA EndUpdateStep ==
    ASSUME StatisticsInv, EndUpdate
    PROVE  StatisticsInv'
<1>1. /\ StatisticsTypes /\ ReadingsInv /\ RatesInv /\ WorkThreads \in Nat /\ MaxTime \in Nat
      /\ MaxInterval \in Nat
  BY ThreadsFinite DEF StatisticsInv
<1> DEFINE rate == Over(sum - lastBytes, ToInt(currentTime - lastUpdate))
<1>2. /\ at = WorkThreads + 1 /\ total' = sum
      /\ totalTime' = IF latest > totalTime THEN latest ELSE totalTime
      /\ throughput' = rate /\ largest' = IF Exceeds(rate, largest) THEN rate ELSE largest
      /\ lastBytes' = sum /\ lastUpdate' = currentTime
      /\ at' = 0 /\ sum' = 0 /\ latest' = 0
      /\ UNCHANGED <<now, bytes, lastTime, counting, currentTime>>
  BY DEF EndUpdate
<1>3. StatisticsTypes'
  <2>1. totalTime' \in 0..MaxTime
    BY <1>1, <1>2 DEF StatisticsTypes
  <2> QED
    BY <1>1, <1>2, <2>1 DEF StatisticsTypes
<1>4. ReadingsInv'
  <2>1. PICK found \in [Threads -> 0..MaxBytes], soFar \in [Threads -> 0..MaxBytes] :
            Readings(found, soFar)
    BY <1>1 DEF ReadingsInv
  <2> DEFINE none == [t \in Threads |-> 0]
  <2>2. none \in [Threads -> 0..MaxBytes] /\ \A t \in Threads : none[t] = 0
    BY ThreadsFinite
  <2>3. Total(none) = 0
    <3>1. DOMAIN none = Threads /\ \A t \in DOMAIN none : none[t] \in Nat /\ none[t] = 0
      OBVIOUS
    <3> HIDE DEF none
    <3> QED
      BY <3>1, ThreadsFinite, TotalType
  <2> HIDE DEF none
  <2>4. \A t \in Threads : soFar[t] <= bytes[t] /\ none[t] <= bytes[t]
    <3>1. \A t \in Threads : bytes[t] \in Nat
      BY <1>1, ThreadsFinite DEF StatisticsTypes
    <3> QED
      BY <2>1, <2>2, <3>1 DEF Readings
  <2>5. sum = Total(soFar)
    BY <2>1 DEF Readings
  <2>6. Readings(soFar, none)'
    BY <1>2, <2>2, <2>3, <2>4, <2>5 DEF Readings
  <2> QED
    BY <2>2, <2>6 DEF ReadingsInv
<1>5. RatesInv'
  <2>1. rate.bytes \in Int /\ rate.interval \in Int
    <3>1. sum - lastBytes \in Int
      BY <1>2, AllRead
    <3>2. ToInt(currentTime - lastUpdate) \in Int
      BY <1>1 DEF ToInt, StatisticsTypes
    <3> QED
      BY <3>1, <3>2 DEF Over
  <2> HIDE DEF rate
  <2>2. ~Exceeds(rate, rate)
    BY <2>1 DEF Exceeds
  <2>3. ~Exceeds(throughput', largest')
    BY <1>2, <2>2
  <2> QED
    BY <1>2, <2>3 DEF RatesInv
<1> QED
  BY <1>3, <1>4, <1>5 DEF StatisticsInv

THEOREM StatisticsInvariant == StatisticsSpec => []StatisticsInv
<1>1. StatisticsInit => StatisticsInv
  BY StatisticsInitInv
<1>2. StatisticsInv /\ [StatisticsNext]_statisticsVars => StatisticsInv'
  <2> SUFFICES ASSUME StatisticsInv, [StatisticsNext]_statisticsVars PROVE StatisticsInv'
    OBVIOUS
  <2> USE DEF StatisticsNext
  <2>1. CASE Tick \/ (\E t \in Threads : CountBytes(t) \/ NoteTime(t)) \/ UNCHANGED statisticsVars
    BY <2>1, CountingStep
  <2>2. ASSUME NEW interval \in Intervals, BeginUpdate(interval) PROVE StatisticsInv'
    BY <2>2, BeginUpdateStep
  <2>3. CASE ReadThread
    BY <2>3, ReadThreadStep
  <2>4. CASE EndUpdate
    BY <2>4, EndUpdateStep
  <2> QED
    BY <2>1, <2>2, <2>3, <2>4
<1> QED
  BY <1>1, <1>2, PTL DEF StatisticsSpec

LEMMA SmallRemainder ==
    ASSUME NEW n \in Nat, NEW k \in Nat, n < k
    PROVE  n % k = n
OBVIOUS

\* What every step keeps of the totals.
LEMMA GrowingTotals ==
    ASSUME StatisticsInv
    PROVE  {total, totalTime, Total(bytes)} \subseteq Nat /\ total <= Total(bytes)
<1>1. /\ StatisticsTypes /\ ReadingsInv /\ IsFiniteSet(Threads) /\ MaxBytes \in Nat /\ MaxTime \in Nat
  BY ThreadsFinite DEF StatisticsInv
<1>2. PICK found \in [Threads -> 0..MaxBytes], soFar \in [Threads -> 0..MaxBytes] :
          Readings(found, soFar)
  BY <1>1 DEF ReadingsInv
<1>3. /\ found \in [Threads -> Nat] /\ Total(found) \in Nat
      /\ bytes \in [Threads -> Nat] /\ Total(bytes) \in Nat
  <2>1. bytes \in [Threads -> 0..MaxBytes]
    BY <1>1 DEF StatisticsTypes
  <2> QED
    BY <2>1, ThreadsFinite
<1>4. \A t \in Threads : found[t] <= bytes[t]
  BY <1>2 DEF Readings
<1>5. Total(found) <= Total(bytes)
  BY <1>1, <1>3, <1>4, TotalMonotone
<1>6. total = Total(found)
  BY <1>2 DEF Readings
<1>7. totalTime \in Nat
  BY <1>1 DEF StatisticsTypes
<1> QED
  BY <1>3, <1>5, <1>6, <1>7

LEMMA PublishedGrow ==
    ASSUME StatisticsInv, StatisticsInv', EndUpdate
    PROVE  /\ total' >= total /\ totalTime' >= totalTime /\ total' <= Total(bytes)
           /\ ~Exceeds(throughput', largest')
           /\ lastUpdate # 0 => throughput'.bytes >= 0 /\ throughput'.interval \in Intervals
<1>1. at = WorkThreads + 1 /\ total' = sum
  BY DEF EndUpdate
<1>6. totalTime' = IF latest > totalTime THEN latest ELSE totalTime
  BY DEF EndUpdate
<1>7. throughput' = Over(sum - lastBytes, ToInt(currentTime - lastUpdate))
  BY DEF EndUpdate
<1>2. total' >= total /\ total' <= Total(bytes)
  BY <1>1, AllRead
<1>3. totalTime' >= totalTime
  <2>1. latest \in 0..MaxTime /\ totalTime \in 0..MaxTime
    BY DEF StatisticsInv, StatisticsTypes
  <2>2. latest \in Int /\ totalTime \in Int
    BY <2>1
  <2> QED
    BY <1>6, <2>2
<1>4. ~Exceeds(throughput', largest')
  BY DEF StatisticsInv, RatesInv
<1>5. ASSUME lastUpdate # 0
      PROVE  throughput'.bytes >= 0 /\ throughput'.interval \in Intervals
  <2>1. PICK interval \in Intervals : interval = currentTime - lastUpdate
    <3>1. at # 0
      BY <1>1, ThreadsFinite
    <3> QED
      BY <1>5, <3>1 DEF StatisticsInv, RatesInv
  <2>2. interval \in Nat /\ MaxInterval \in Nat /\ interval <= MaxInterval
    BY StatisticsAssumption
  <2>3. ToInt(interval) = interval
    <3>1. PICK n \in Nat : n = interval + MaxInterval + 1
      BY <2>2
    <3>2. PICK k \in Nat : k = 2 * (MaxInterval + 1)
      BY <2>2
    <3>3. n % k = n
      BY <2>2, <3>1, <3>2, SmallRemainder
    <3>4. ToInt(interval) = (n % k) - (MaxInterval + 1)
      BY <3>1, <3>2 DEF ToInt
    <3> QED
      BY <2>2, <3>1, <3>3, <3>4
  <2>4. PICK more \in Nat : more = sum - lastBytes
    BY <1>1, AllRead
  <2>5. throughput' = Over(more, interval)
    BY <1>7, <2>1, <2>3, <2>4
  <2>6. Over(more, interval) = [bytes |-> more, interval |-> interval]
    BY <2>2 DEF Over
  <2> QED
    BY <2>5, <2>6
<1> QED
  BY <1>2, <1>3, <1>4, <1>5

\* The action property TotalsGrow of the service's statistics: whatever the threads count
\* while updateThroughput() reads them one after the other, what it publishes never goes
\* back, is no more than was counted, and the largest throughput stays the largest.
THEOREM StatisticsGrow == StatisticsSpec => TotalsGrow
<1> DEFINE Grow == /\ total' >= total /\ totalTime' >= totalTime
                   /\ total' <= Total(bytes)
                   /\ ~Exceeds(throughput', largest')
                   /\ throughput' # throughput /\ lastUpdate # 0 =>
                         throughput'.bytes >= 0 /\ throughput'.interval \in Intervals
<1>1. StatisticsInv /\ StatisticsInv' /\ [StatisticsNext]_statisticsVars => [Grow]_statisticsVars
  <2> SUFFICES ASSUME StatisticsInv, StatisticsInv', StatisticsNext PROVE Grow
    OBVIOUS
  <2>1. {total, totalTime, Total(bytes)} \subseteq Nat /\ total <= Total(bytes)
    BY GrowingTotals
  <2>2. ~Exceeds(throughput', largest')
    BY DEF StatisticsInv, RatesInv
  <2>3. CASE EndUpdate
    BY <2>3, PublishedGrow
  <2>4. CASE UNCHANGED <<total, totalTime, throughput>>
    BY <2>1, <2>2, <2>4
  <2>5. EndUpdate \/ UNCHANGED <<total, totalTime, throughput>>
    BY DEF StatisticsNext, Tick, CountBytes, NoteTime, BeginUpdate, ReadThread
  <2> QED
    BY <2>3, <2>4, <2>5
<1> QED
  BY <1>1, StatisticsInvariant, PTL DEF StatisticsSpec, TotalsGrow

-----------------------------------------------------------------------------
(* HttpCodecFilter *)

ByteSet == [message: Nat, number: Nat]

SizeOf(shape) == shape.head + shape.body

\* The bytes w are those of the messages from the oldest on, one message after the other;
\* start[m]: how many are before message m.
Laid(start, sent, count, oldest, w, length) ==
    /\ start[oldest] = 0 /\ start[count + 1] = length
    /\ \A m \in oldest..count :
          /\ start[m + 1] = start[m] + SizeOf(sent[m])
          /\ \A k \in (m + 1)..(count + 1) : start[m + 1] <= start[k]
          /\ \A j \in 1..SizeOf(sent[m]) : w[start[m] + j] = Byte(m, j)

Offsets == [Nat -> Nat]

InOrder(sent, oldest, w) == \E start \in Offsets : Laid(start, sent, Len(sent), oldest, w, Len(w))

LEMMA SizeOfType ==
    ASSUME NEW shape \in Shapes
    PROVE  /\ shape.head \in Nat \ {0} /\ shape.body \in Nat
           /\ SizeOf(shape) \in Nat \ {0} /\ shape.head <= SizeOf(shape)
BY CodecFilterAssumption DEF SizeOf

LEMMA BytesType ==
    ASSUME NEW m \in Nat, NEW shape \in Shapes
    PROVE  /\ Bytes(m, shape) \in Seq(ByteSet) /\ Len(Bytes(m, shape)) = SizeOf(shape)
           /\ \A j \in 1..SizeOf(shape) : Bytes(m, shape)[j] = Byte(m, j)
<1>1. PICK n \in Nat : n = SizeOf(shape)
  BY SizeOfType
<1>2. Bytes(m, shape) = [j \in 1..n |-> Byte(m, j)]
  BY <1>1 DEF Bytes, SizeOf
<1>3. \A j \in 1..n : Byte(m, j) \in ByteSet
  BY DEF Byte, ByteSet
<1>4. [j \in 1..n |-> Byte(m, j)] \in Seq(ByteSet)
  BY <1>3
<1> QED
  BY <1>1, <1>2, <1>4

\* The oldest message is at the beginning.
LEMMA FirstMessage ==
    ASSUME NEW sent \in Seq(Shapes), NEW oldest \in 1..Len(sent), NEW w \in Seq(ByteSet),
           InOrder(sent, oldest, w)
    PROVE  /\ SizeOf(sent[oldest]) <= Len(w)
           /\ \A j \in 1..SizeOf(sent[oldest]) : w[j] = Byte(oldest, j)
<1>1. PICK start \in Offsets : Laid(start, sent, Len(sent), oldest, w, Len(w))
  BY DEF InOrder
<1>2. Len(sent) \in Nat /\ Len(w) \in Nat /\ oldest \in oldest..Len(sent)
  OBVIOUS
<1>3. PICK size \in Nat : size = SizeOf(sent[oldest])
  BY SizeOfType
<1>4. start[oldest] = 0 /\ start[oldest + 1] = start[oldest] + size
      /\ start[Len(sent) + 1] = Len(w)
  BY <1>1, <1>2, <1>3 DEF Laid
<1>5. start[oldest + 1] <= start[Len(sent) + 1]
  BY <1>1, <1>2 DEF Laid
<1>6. \A j \in 1..size : w[start[oldest] + j] = Byte(oldest, j)
  BY <1>1, <1>2, <1>3 DEF Laid
<1>7. \A j \in 1..size : w[j] = Byte(oldest, j)
  BY <1>4, <1>6
<1> QED
  BY <1>3, <1>4, <1>5, <1>7

LEMMA NothingLeft ==
    ASSUME NEW sent \in Seq(Shapes), NEW w \in Seq(ByteSet), InOrder(sent, Len(sent) + 1, w)
    PROVE  w = << >>
<1>1. Len(w) = 0
  BY DEF InOrder, Laid
<1> QED
  BY <1>1, EmptySeq

LEMMA LaidSends ==
    ASSUME NEW count \in Nat, NEW oldest \in 1..(count + 1), NEW sent, NEW more,
           \A m \in 1..count : sent[m] \in Shapes /\ more[m] = sent[m],
           NEW size \in Nat \ {0}, size = SizeOf(more[count + 1]),
           NEW length \in Nat, NEW w, NEW v,
           \A i \in 1..length : v[i] = w[i],
           \A j \in 1..size : v[length + j] = Byte(count + 1, j),
           NEW start \in Offsets, Laid(start, sent, count, oldest, w, length)
    PROVE  \E next \in Offsets : Laid(next, more, count + 1, oldest, v, length + size)
<1>1. PICK next \in Offsets :
          /\ next[count + 2] = length + size
          /\ \A k \in Nat \ {count + 2} : next[k] = start[k]
  <2>1. length + size \in Nat /\ count + 2 \in Nat
    OBVIOUS
  <2> DEFINE next == [start EXCEPT ![count + 2] = length + size]
  <2>2. next \in Offsets
    BY <2>1 DEF Offsets
  <2>3. next[count + 2] = length + size
    BY <2>1 DEF Offsets
  <2>4. \A k \in Nat \ {count + 2} : next[k] = start[k]
    BY <2>1 DEF Offsets
  <2> HIDE DEF next
  <2> QED
    BY <2>2, <2>3, <2>4
<1>2. /\ start[oldest] = 0 /\ start[count + 1] = length
      /\ \A m \in oldest..count :
             /\ start[m + 1] = start[m] + SizeOf(sent[m])
             /\ \A k \in (m + 1)..(count + 1) : start[m + 1] <= start[k]
             /\ \A j \in 1..SizeOf(sent[m]) : w[start[m] + j] = Byte(m, j)
  BY DEF Laid
<1>3. /\ \A k \in oldest..(count + 1) : next[k] = start[k]
      /\ next[oldest] = 0 /\ next[count + 1] = length
  <2>1. \A k \in oldest..(count + 1) : k \in Nat \ {count + 2}
    OBVIOUS
  <2>2. oldest \in oldest..(count + 1) /\ count + 1 \in oldest..(count + 1)
    OBVIOUS
  <2> QED
    BY <1>1, <1>2, <2>1, <2>2
<1>4. ASSUME NEW m \in oldest..count
      PROVE  /\ next[m + 1] = next[m] + SizeOf(more[m])
             /\ \A k \in (m + 1)..(count + 2) : next[m + 1] <= next[k]
             /\ \A j \in 1..SizeOf(more[m]) : v[next[m] + j] = Byte(m, j)
  <2>1. /\ m \in 1..count /\ m \in oldest..(count + 1) /\ m + 1 \in oldest..(count + 1)
        /\ m \in Nat /\ m + 1 \in Nat
    OBVIOUS
  <2>2. next[m] = start[m] /\ next[m + 1] = start[m + 1]
    BY <1>3, <2>1
  <2>3. more[m] = sent[m]
    BY <2>1
  <2>4. PICK s \in Nat : s = SizeOf(sent[m])
    <3>1. sent[m] \in Shapes
      BY <2>1
    <3> QED
      BY <3>1, SizeOfType
  <2>5. start[m] \in Nat /\ start[m + 1] \in Nat /\ start[m + 1] = start[m] + s
    <3>1. start[m] \in Nat /\ start[m + 1] \in Nat
      BY <2>1 DEF Offsets
    <3> QED
      BY <1>2, <2>4, <3>1
  <2>6. start[m + 1] <= length
    <3>1. count + 1 \in (m + 1)..(count + 1)
      BY <2>1
    <3> QED
      BY <1>2, <3>1
  <2>7. ASSUME NEW k \in (m + 1)..(count + 2)
        PROVE  next[m + 1] <= next[k]
    <3>1. CASE k = count + 2
      <4>1. next[k] = length + size
        BY <1>1, <3>1
      <4> QED
        BY <2>2, <2>5, <2>6, <4>1
    <3>2. CASE k # count + 2
      <4>1. k \in (m + 1)..(count + 1) /\ k \in oldest..(count + 1)
        BY <2>1, <3>2
      <4>2. next[k] = start[k]
        BY <1>3, <4>1
      <4>3. start[m + 1] <= start[k]
        BY <1>2, <4>1
      <4> QED
        BY <2>2, <4>2, <4>3
    <3> QED
      BY <3>1, <3>2
  <2>8. ASSUME NEW j \in 1..s
        PROVE  v[next[m] + j] = Byte(m, j)
    <3>1. start[m] + j \in 1..length
      BY <2>5, <2>6
    <3>2. v[start[m] + j] = w[start[m] + j]
      BY <3>1
    <3>3. w[start[m] + j] = Byte(m, j)
      BY <1>2, <2>4
    <3> QED
      BY <2>2, <3>2, <3>3
  <2>9. next[m + 1] = next[m] + s
    BY <2>2, <2>5
  <2> QED
    BY <2>3, <2>4, <2>7, <2>8, <2>9
<1>5. /\ next[(count + 1) + 1] = next[count + 1] + SizeOf(more[count + 1])
      /\ \A k \in ((count + 1) + 1)..(count + 2) : next[(count + 1) + 1] <= next[k]
      /\ \A j \in 1..SizeOf(more[count + 1]) : v[next[count + 1] + j] = Byte(count + 1, j)
  <2>1. (count + 1) + 1 = count + 2
    OBVIOUS
  <2>2. \A k \in (count + 2)..(count + 2) : next[count + 2] <= next[k]
    <3>1. \A k \in (count + 2)..(count + 2) : k = count + 2
      OBVIOUS
    <3> QED
      BY <1>1, <3>1
  <2>3. next[count + 2] = next[count + 1] + SizeOf(more[count + 1])
    BY <1>1, <1>3
  <2>4. \A j \in 1..SizeOf(more[count + 1]) : v[next[count + 1] + j] = Byte(count + 1, j)
    BY <1>3
  <2> QED
    BY <2>1, <2>2, <2>3, <2>4
<1>6. \A m \in oldest..(count + 1) :
          /\ next[m + 1] = next[m] + SizeOf(more[m])
          /\ \A k \in (m + 1)..((count + 1) + 1) : next[m + 1] <= next[k]
          /\ \A j \in 1..SizeOf(more[m]) : v[next[m] + j] = Byte(m, j)
  <2>1. \A m \in oldest..(count + 1) : m \in oldest..count \/ m = count + 1
    OBVIOUS
  <2>2. (count + 1) + 1 = count + 2
    OBVIOUS
  <2> QED
    BY <1>4, <1>5, <2>1, <2>2
<1>7. next[(count + 1) + 1] = length + size
  <2>1. (count + 1) + 1 = count + 2
    OBVIOUS
  <2> QED
    BY <1>1, <2>1
<1>8. Laid(next, more, count + 1, oldest, v, length + size)
  BY <1>3, <1>6, <1>7 DEF Laid
<1> QED
  BY <1>8

\* One more message is sent.
LEMMA InOrderSends ==
    ASSUME NEW sent \in Seq(Shapes), NEW oldest \in 1..(Len(sent) + 1), NEW w \in Seq(ByteSet),
           NEW shape \in Shapes, InOrder(sent, oldest, w)
    PROVE  InOrder(Append(sent, shape), oldest, w \o Bytes(Len(sent) + 1, shape))
<1>1. PICK start \in Offsets : Laid(start, sent, Len(sent), oldest, w, Len(w))
  BY DEF InOrder
<1>2. PICK count \in Nat : count = Len(sent)
  OBVIOUS
<1>3. PICK length \in Nat : length = Len(w)
  OBVIOUS
<1>4. PICK size \in Nat : size = SizeOf(shape) /\ size # 0
  <2>1. SizeOf(shape) \in Nat \ {0}
    BY SizeOfType
  <2> QED
    BY <2>1
<1>5. PICK more \in Seq(Shapes) : more = Append(sent, shape)
  <2>1. Append(sent, shape) \in Seq(Shapes)
    OBVIOUS
  <2> QED
    BY <2>1
<1>6. /\ Len(more) = count + 1 /\ more[count + 1] = shape
      /\ \A m \in 1..count : more[m] = sent[m]
  BY <1>2, <1>5
<1>7. PICK added \in Seq(ByteSet) : added = Bytes(count + 1, shape)
  <2>1. count + 1 \in Nat
    OBVIOUS
  <2>2. Bytes(count + 1, shape) \in Seq(ByteSet)
    BY <2>1, BytesType
  <2> QED
    BY <2>2
<1>8. Len(added) = size /\ \A j \in 1..size : added[j] = Byte(count + 1, j)
  <2>1. count + 1 \in Nat
    OBVIOUS
  <2> QED
    BY <1>4, <1>7, <2>1, BytesType
<1>9. PICK v \in Seq(ByteSet) : v = w \o added
  <2>1. w \o added \in Seq(ByteSet)
    OBVIOUS
  <2> QED
    BY <2>1
<1>10. Len(v) = length + size
  <2>1. Len(v) = Len(w) + Len(added)
    BY <1>9
  <2> QED
    BY <1>3, <1>8, <2>1
<1>11. \A i \in 1..(length + size) : v[i] = IF i <= length THEN w[i] ELSE added[i - length]
  <2>1. \A i \in 1..(Len(w) + Len(added)) : v[i] = IF i <= Len(w) THEN w[i] ELSE added[i - Len(w)]
    BY <1>9, ConcatProperties
  <2> QED
    BY <1>3, <1>8, <2>1
<1>12. \A i \in 1..length : v[i] = w[i]
  <2>1. \A i \in 1..length : i \in 1..(length + size) /\ i <= length
    OBVIOUS
  <2> QED
    BY <1>11, <2>1
<1>13. \A j \in 1..size : v[length + j] = Byte(count + 1, j)
  <2> TAKE j \in 1..size
  <2>1. length + j \in 1..(length + size) /\ ~(length + j <= length) /\ (length + j) - length = j
    OBVIOUS
  <2>2. v[length + j] = added[j]
    BY <1>11, <2>1
  <2> QED
    BY <1>8, <2>2
<1>14. \A m \in 1..count : sent[m] \in Shapes /\ more[m] = sent[m]
  <2>1. \A m \in 1..count : sent[m] \in Shapes
    BY <1>2, ElementOfSeq
  <2> QED
    BY <1>6, <2>1
<1>15. oldest \in 1..(count + 1) /\ Laid(start, sent, count, oldest, w, length)
  BY <1>1, <1>2, <1>3
<1>16. size \in Nat \ {0} /\ size = SizeOf(more[count + 1])
  BY <1>4, <1>6
<1> HIDE <1>1, <1>2, <1>3
<1>17. \E next \in Offsets : Laid(next, more, count + 1, oldest, v, length + size)
  BY <1>12, <1>13, <1>14, <1>15, <1>16, LaidSends
<1>18. InOrder(more, oldest, v)
  BY <1>6, <1>10, <1>17 DEF InOrder
<1> QED
  BY <1>2, <1>5, <1>7, <1>9, <1>18


LEMMA LaidCut ==
    ASSUME NEW count \in Nat, NEW oldest \in 1..count, NEW sent,
           \A m \in 1..count : sent[m] \in Shapes,
           NEW size \in Nat, size = SizeOf(sent[oldest]),
           NEW length \in Nat, size <= length, NEW w, NEW v,
           \A i \in 1..(length - size) : v[i] = w[size + i],
           NEW start \in Offsets, Laid(start, sent, count, oldest, w, length)
    PROVE  \E next \in Offsets : Laid(next, sent, count, oldest + 1, v, length - size)
<1>1. PICK next \in Offsets :
          \A k \in Nat : next[k] = IF size <= start[k] THEN start[k] - size ELSE 0
  <2> DEFINE next == [k \in Nat |-> IF size <= start[k] THEN start[k] - size ELSE 0]
  <2>1. \A k \in Nat : start[k] \in Nat
    BY DEF Offsets
  <2>2. \A k \in Nat : next[k] \in Nat
    BY <2>1
  <2>3. next \in Offsets
    BY <2>2 DEF Offsets
  <2>4. \A k \in Nat : next[k] = IF size <= start[k] THEN start[k] - size ELSE 0
    OBVIOUS
  <2> HIDE DEF next
  <2> QED
    BY <2>3, <2>4
<1>2. /\ start[oldest] = 0 /\ start[count + 1] = length
      /\ \A m \in oldest..count :
             /\ start[m + 1] = start[m] + SizeOf(sent[m])
             /\ \A k \in (m + 1)..(count + 1) : start[m + 1] <= start[k]
             /\ \A j \in 1..SizeOf(sent[m]) : w[start[m] + j] = Byte(m, j)
  BY DEF Laid
<1>3. oldest \in oldest..count /\ start[oldest + 1] = size
  <2>1. oldest \in oldest..count
    OBVIOUS
  <2>2. start[oldest + 1] = 0 + size
    BY <1>2, <2>1
  <2> QED
    BY <2>1, <2>2
<1>4. ASSUME NEW k \in (oldest + 1)..(count + 1)
      PROVE  start[k] \in Nat /\ size <= start[k] /\ next[k] = start[k] - size
  <2>1. k \in Nat
    OBVIOUS
  <2>2. start[k] \in Nat
    BY <2>1 DEF Offsets
  <2>3. size <= start[k]
    BY <1>2, <1>3
  <2> QED
    BY <1>1, <2>1, <2>2, <2>3
<1>5. next[oldest + 1] = 0
  <2>1. oldest + 1 \in (oldest + 1)..(count + 1)
    OBVIOUS
  <2> QED
    BY <1>3, <1>4, <2>1
<1>6. next[count + 1] = length - size
  <2>1. count + 1 \in (oldest + 1)..(count + 1)
    OBVIOUS
  <2> QED
    BY <1>2, <1>4, <2>1
<1>7. ASSUME NEW m \in (oldest + 1)..count
      PROVE  /\ next[m + 1] = next[m] + SizeOf(sent[m])
             /\ \A k \in (m + 1)..(count + 1) : next[m + 1] <= next[k]
             /\ \A j \in 1..SizeOf(sent[m]) : v[next[m] + j] = Byte(m, j)
  <2>1. /\ m \in 1..count /\ m \in oldest..count
        /\ m \in (oldest + 1)..(count + 1) /\ m + 1 \in (oldest + 1)..(count + 1)
    OBVIOUS
  <2>2. PICK s \in Nat : s = SizeOf(sent[m])
    <3>1. sent[m] \in Shapes
      BY <2>1
    <3> QED
      BY <3>1, SizeOfType
  <2>3. /\ start[m] \in Nat /\ size <= start[m] /\ next[m] = start[m] - size
        /\ start[m + 1] \in Nat /\ next[m + 1] = start[m + 1] - size
    BY <1>4, <2>1
  <2>4. start[m + 1] = start[m] + s
    BY <1>2, <2>1, <2>2
  <2>5. next[m + 1] = next[m] + s
    BY <2>3, <2>4
  <2>6. ASSUME NEW k \in (m + 1)..(count + 1)
        PROVE  next[m + 1] <= next[k]
    <3>1. k \in (oldest + 1)..(count + 1)
      OBVIOUS
    <3>2. start[k] \in Nat /\ next[k] = start[k] - size
      BY <1>4, <3>1
    <3>3. start[m + 1] <= start[k]
      BY <1>2, <2>1
    <3> QED
      BY <2>3, <3>2, <3>3
  <2>7. ASSUME NEW j \in 1..s
        PROVE  v[next[m] + j] = Byte(m, j)
    <3>1. start[m + 1] <= length
      <4>1. count + 1 \in (m + 1)..(count + 1)
        OBVIOUS
      <4> QED
        BY <1>2, <2>1, <4>1
    <3>2. next[m] + j \in 1..(length - size) /\ size + (next[m] + j) = start[m] + j
      BY <2>3, <2>4, <3>1
    <3>3. v[next[m] + j] = w[start[m] + j]
      BY <3>2
    <3>4. w[start[m] + j] = Byte(m, j)
      BY <1>2, <2>1, <2>2
    <3> QED
      BY <3>3, <3>4
  <2> QED
    BY <2>2, <2>5, <2>6, <2>7
<1>8. Laid(next, sent, count, oldest + 1, v, length - size)
  BY <1>5, <1>6, <1>7 DEF Laid
<1> QED
  BY <1>8

\* The first message is cut off.
LEMMA InOrderCut ==
    ASSUME NEW sent \in Seq(Shapes), NEW oldest \in 1..Len(sent), NEW w \in Seq(ByteSet),
           InOrder(sent, oldest, w), NEW size \in Nat, size = SizeOf(sent[oldest])
    PROVE  /\ SubSeq(w, 1, size) = Bytes(oldest, sent[oldest])
           /\ SubSeq(w, size + 1, Len(w)) \in Seq(ByteSet)
           /\ InOrder(sent, oldest + 1, SubSeq(w, size + 1, Len(w)))
<1>1. PICK start \in Offsets : Laid(start, sent, Len(sent), oldest, w, Len(w))
  BY DEF InOrder
<1>2. PICK count \in Nat : count = Len(sent)
  OBVIOUS
<1>3. PICK length \in Nat : length = Len(w)
  OBVIOUS
<1>4. size <= length /\ \A j \in 1..size : w[j] = Byte(oldest, j)
  BY <1>3, FirstMessage
<1>5. sent[oldest] \in Shapes /\ oldest \in Nat
  BY ElementOfSeq
<1>6. \A i \in 1..length : w[i] \in ByteSet
  BY <1>3, ElementOfSeq
<1>7. SubSeq(w, 1, size) = Bytes(oldest, sent[oldest])
  <2>1. PICK b \in Seq(ByteSet) : b = Bytes(oldest, sent[oldest])
    <3>1. Bytes(oldest, sent[oldest]) \in Seq(ByteSet)
      BY <1>5, BytesType
    <3> QED
      BY <3>1
  <2>2. Len(b) = size /\ \A j \in 1..size : b[j] = Byte(oldest, j)
    BY <1>5, <2>1, BytesType
  <2>3. \A i \in 1..size : w[i] \in ByteSet
    BY <1>4, <1>6
  <2>4. /\ SubSeq(w, 1, size) \in Seq(ByteSet)
        /\ Len(SubSeq(w, 1, size)) = IF 1 <= size THEN size - 1 + 1 ELSE 0
        /\ \A i \in 1..(size - 1 + 1) : SubSeq(w, 1, size)[i] = w[1 + i - 1]
    BY <2>3, SubSeqProperties
  <2>5. PICK a \in Seq(ByteSet) : a = SubSeq(w, 1, size)
    BY <2>4
  <2>6. Len(a) = size
    BY <2>4, <2>5
  <2>7. \A i \in 1..size : a[i] = b[i]
    <3> TAKE i \in 1..size
    <3>1. i \in 1..(size - 1 + 1) /\ 1 + i - 1 = i
      OBVIOUS
    <3>2. a[i] = w[i]
      BY <2>4, <2>5, <3>1
    <3> QED
      BY <1>4, <2>2, <3>2
  <2>8. a = b
    BY <2>2, <2>6, <2>7, SeqEqual
  <2> QED
    BY <2>1, <2>5, <2>8
<1>8. PICK v : v = SubSeq(w, size + 1, length)
  OBVIOUS
<1>9. /\ v \in Seq(ByteSet) /\ Len(v) = length - size
      /\ \A i \in 1..(length - size) : v[i] = w[size + i]
  <2>1. \A i \in (size + 1)..length : w[i] \in ByteSet
    BY <1>6
  <2>2. size + 1 \in Int /\ length \in Int
    OBVIOUS
  <2>3. /\ v \in Seq(ByteSet)
        /\ Len(v) = IF size + 1 <= length THEN length - (size + 1) + 1 ELSE 0
        /\ \A i \in 1..(length - (size + 1) + 1) : v[i] = w[(size + 1) + i - 1]
    <3>1. PICK first \in Int, end \in Int : first = size + 1 /\ end = length
      BY <2>2
    <3>2. \A i \in first..end : w[i] \in ByteSet
      BY <2>1, <3>1
    <3>3. /\ SubSeq(w, first, end) \in Seq(ByteSet)
          /\ Len(SubSeq(w, first, end)) = IF first <= end THEN end - first + 1 ELSE 0
          /\ \A i \in 1..(end - first + 1) : SubSeq(w, first, end)[i] = w[first + i - 1]
      BY <3>2, SubSeqProperties
    <3>4. SubSeq(w, first, end) = v
      BY <1>8, <3>1
    <3> QED
      BY <3>1, <3>3, <3>4
  <2>4. \A i \in 1..(length - size) : i \in 1..(length - (size + 1) + 1) /\ (size + 1) + i - 1 = size + i
    OBVIOUS
  <2>5. Len(v) = length - size
    BY <1>4, <2>3
  <2>6. ASSUME NEW i \in 1..(length - size)
        PROVE  v[i] = w[size + i]
    <3>1. v[i] = w[(size + 1) + i - 1]
      BY <2>3, <2>4
    <3> QED
      BY <2>4, <3>1
  <2> QED
    BY <2>3, <2>5, <2>6
<1>10. oldest \in 1..count /\ \A m \in 1..count : sent[m] \in Shapes
  BY <1>2, ElementOfSeq
<1>11. Laid(start, sent, count, oldest, w, length)
  BY <1>1, <1>2, <1>3
<1>12. \E next \in Offsets : Laid(next, sent, count, oldest + 1, v, length - size)
  BY <1>4, <1>9, <1>10, <1>11, LaidCut
<1>13. InOrder(sent, oldest + 1, v)
  BY <1>2, <1>9, <1>12 DEF InOrder
<1> QED
  BY <1>3, <1>7, <1>8, <1>9, <1>13

\* What HeaderLength() finds, when the first header ends at i, or not at all.
LEMMA HeaderFound ==
    ASSUME NEW chunk, NEW h \in 1..Len(chunk), Len(chunk) \in Nat,
           chunk[h].number = sentMessages[chunk[h].message].head,
           \A i \in 1..(h - 1) : chunk[i].number # sentMessages[chunk[i].message].head
    PROVE  HeaderLength(chunk) = h
<1> DEFINE Ends == {i \in 1..Len(chunk) : chunk[i].number = sentMessages[chunk[i].message].head}
<1>1. HeaderLength(chunk) = IF Ends # {} THEN CHOOSE x \in Ends : \A y \in Ends : x <= y ELSE 0
  BY DEF HeaderLength, SelectInSeq, Min
<1>2. h \in Ends
  OBVIOUS
<1>3. \A y \in Ends : h <= y
  <2> TAKE y \in Ends
  <2>1. y \in 1..Len(chunk)
    OBVIOUS
  <2>2. y \notin 1..(h - 1)
    OBVIOUS
  <2> HIDE DEF Ends
  <2> QED
    BY <2>1, <2>2
<1>4. \A x \in Ends : x \in Int
  OBVIOUS
<1> HIDE DEF Ends
<1>5. \A x \in Ends : (\A y \in Ends : x <= y) => x = h
  BY <1>2, <1>3, <1>4
<1>6. (CHOOSE x \in Ends : \A y \in Ends : x <= y) = h
  BY <1>2, <1>3, <1>5
<1> QED
  BY <1>1, <1>2, <1>6

LEMMA NoHeader ==
    ASSUME NEW chunk, \A i \in 1..Len(chunk) : chunk[i].number # sentMessages[chunk[i].message].head
    PROVE  HeaderLength(chunk) = 0
BY DEF HeaderLength, SelectInSeq, Min

\* The bytes at the beginning of what is in order give the length of the first message as
\* soon as they hold its header.
LEMMA HttpLengthFound ==
    ASSUME sentMessages \in Seq(Shapes), NEW oldest \in 1..Len(sentMessages),
           NEW chunk \in Seq(ByteSet), NEW rest \in Seq(ByteSet),
           InOrder(sentMessages, oldest, chunk \o rest)
    PROVE  HttpLength(chunk) = IF sentMessages[oldest].head <= Len(chunk)
                               THEN SizeOf(sentMessages[oldest]) ELSE 0
<1>1. PICK length \in Nat : length = Len(chunk)
  OBVIOUS
<1>2. sentMessages[oldest] \in Shapes /\ oldest \in Nat
  BY ElementOfSeq
<1>3. PICK head \in Nat : head # 0 /\ head = sentMessages[oldest].head
  <2>1. sentMessages[oldest].head \in Nat \ {0}
    BY <1>2, SizeOfType
  <2> QED
    BY <2>1
<1>4. PICK size \in Nat : size = SizeOf(sentMessages[oldest])
  BY <1>2, SizeOfType
<1>5. head <= size
  BY <1>2, <1>3, <1>4, SizeOfType
<1>6. \A j \in 1..size : j <= length => chunk[j] = Byte(oldest, j)
  <2>1. PICK w \in Seq(ByteSet) : w = chunk \o rest
    <3>1. chunk \o rest \in Seq(ByteSet)
      OBVIOUS
    <3> QED
      BY <3>1
  <2>2. \A j \in 1..size : w[j] = Byte(oldest, j)
    BY <1>4, <2>1, FirstMessage
  <2>3. \A j \in 1..length : w[j] = chunk[j]
    <3>1. PICK more \in Nat : more = Len(rest)
      OBVIOUS
    <3>2. \A i \in 1..(length + more) : w[i] = IF i <= length THEN chunk[i] ELSE rest[i - length]
      BY <1>1, <2>1, <3>1, ConcatProperties
    <3>3. \A j \in 1..length : j \in 1..(length + more) /\ j <= length
      OBVIOUS
    <3> QED
      BY <3>2, <3>3
  <2>4. \A j \in 1..size : j <= length => j \in 1..length
    OBVIOUS
  <2> QED
    BY <2>2, <2>3, <2>4
<1>7. ASSUME NEW j \in 1..size, j <= length
      PROVE  chunk[j].number = j /\ chunk[j].message = oldest
  <2>1. chunk[j] = Byte(oldest, j)
    BY <1>6, <1>7
  <2>2. Byte(oldest, j).number = j /\ Byte(oldest, j).message = oldest
    BY DEF Byte
  <2> QED
    BY <2>1, <2>2
<1>8. CASE head <= length
  <2>1. head \in 1..size /\ head \in 1..length
    BY <1>3, <1>5, <1>8
  <2>2. chunk[head].number = head /\ chunk[head].message = oldest
    BY <1>7, <1>8, <2>1
  <2>3. \A i \in 1..(head - 1) : chunk[i].number # sentMessages[chunk[i].message].head
    <3> TAKE i \in 1..(head - 1)
    <3>1. i \in 1..size /\ i <= length /\ i # head
      BY <1>5, <1>8
    <3>2. chunk[i].number = i /\ chunk[i].message = oldest
      BY <1>7, <3>1
    <3> QED
      BY <1>3, <3>1, <3>2
  <2>4. HeaderLength(chunk) = head
    BY <1>1, <1>3, <2>1, <2>2, <2>3, HeaderFound
  <2>5. HttpLength(chunk) = head + sentMessages[oldest].body
    BY <1>3, <2>2, <2>4 DEF HttpLength
  <2> QED
    BY <1>1, <1>3, <1>8, <2>5 DEF SizeOf
<1>9. CASE ~(head <= length)
  <2>1. \A i \in 1..Len(chunk) : chunk[i].number # sentMessages[chunk[i].message].head
    <3> TAKE i \in 1..Len(chunk)
    <3>1. i \in 1..size /\ i <= length /\ i # head
      BY <1>1, <1>5, <1>9
    <3>2. chunk[i].number = i /\ chunk[i].message = oldest
      BY <1>7, <3>1
    <3> QED
      BY <1>3, <3>1, <3>2
  <2>2. HeaderLength(chunk) = 0
    BY <2>1, NoHeader
  <2>3. HttpLength(chunk) = 0
    BY <2>2 DEF HttpLength
  <2> QED
    BY <1>1, <1>3, <1>9, <2>3
<1> QED
  BY <1>8, <1>9


\* A part at the beginning of two sequences, one after the other.
LEMMA PrefixOfConcat ==
    ASSUME NEW s \in Seq(ByteSet), NEW r \in Seq(ByteSet), NEW n \in Nat, n <= Len(s)
    PROVE  /\ SubSeq(s \o r, 1, n) = SubSeq(s, 1, n)
           /\ SubSeq(s, n + 1, Len(s)) \in Seq(ByteSet)
           /\ Len(SubSeq(s, n + 1, Len(s))) <= Len(s)
           /\ SubSeq(s \o r, n + 1, Len(s \o r)) = SubSeq(s, n + 1, Len(s)) \o r
<1>1. PICK k \in Nat : k = Len(s)
  OBVIOUS
<1>2. PICK l \in Nat : l = Len(r)
  OBVIOUS
<1>3. PICK w \in Seq(ByteSet) : w = s \o r
  <2>1. s \o r \in Seq(ByteSet)
    OBVIOUS
  <2> QED
    BY <2>1
<1>4. Len(w) = k + l /\ \A i \in 1..(k + l) : w[i] = IF i <= k THEN s[i] ELSE r[i - k]
  BY <1>1, <1>2, <1>3, ConcatProperties
<1>5. \A i \in 1..k : s[i] \in ByteSet
  BY <1>1, ElementOfSeq
<1>6. \A i \in 1..(k + l) : w[i] \in ByteSet
  BY <1>4, ElementOfSeq
<1>7. SubSeq(w, 1, n) = SubSeq(s, 1, n)
  <2>1. \A i \in 1..n : s[i] \in ByteSet /\ w[i] \in ByteSet /\ w[i] = s[i]
    <3>1. \A i \in 1..n : i \in 1..k /\ i \in 1..(k + l) /\ i <= k
      BY <1>1
    <3> QED
      BY <1>4, <1>5, <1>6, <3>1
  <2>2. PICK a \in Seq(ByteSet) : a = SubSeq(s, 1, n)
    <3>1. \A i \in 1..n : s[i] \in ByteSet
      BY <2>1
    <3>2. SubSeq(s, 1, n) \in Seq(ByteSet)
      BY <3>1, SubSeqProperties
    <3> QED
      BY <3>2
  <2>3. PICK b \in Seq(ByteSet) : b = SubSeq(w, 1, n)
    <3>1. \A i \in 1..n : w[i] \in ByteSet
      BY <2>1
    <3>2. SubSeq(w, 1, n) \in Seq(ByteSet)
      BY <3>1, SubSeqProperties
    <3> QED
      BY <3>2
  <2>4. /\ Len(a) = IF 1 <= n THEN n - 1 + 1 ELSE 0
        /\ \A i \in 1..(n - 1 + 1) : a[i] = s[1 + i - 1]
    BY <2>1, <2>2, SubSeqProperties
  <2>5. /\ Len(b) = IF 1 <= n THEN n - 1 + 1 ELSE 0
        /\ \A i \in 1..(n - 1 + 1) : b[i] = w[1 + i - 1]
    BY <2>1, <2>3, SubSeqProperties
  <2>6. \A i \in 1..n : i \in 1..(n - 1 + 1) /\ 1 + i - 1 = i
    OBVIOUS
  <2>7. \A i \in 1..n : a[i] = b[i]
    BY <2>1, <2>4, <2>5, <2>6
  <2>8. Len(a) = n /\ Len(b) = n
    BY <2>4, <2>5
  <2>9. a = b
    BY <2>7, <2>8, SeqEqual
  <2> QED
    BY <2>2, <2>3, <2>9
<1>8. \A i \in (n + 1)..k : s[i] \in ByteSet
  BY <1>5
<1>9. n + 1 \in Int /\ k \in Int /\ k + l \in Int
  OBVIOUS
<1>10. PICK a \in Seq(ByteSet) : a = SubSeq(s, n + 1, k)
  BY <1>8, <1>9, SubSeqProperties
<1>11. /\ Len(a) = k - n
       /\ \A i \in 1..(k - n) : a[i] = s[n + i]
  <2>1. /\ Len(a) = IF n + 1 <= k THEN k - (n + 1) + 1 ELSE 0
        /\ \A i \in 1..(k - (n + 1) + 1) : a[i] = s[(n + 1) + i - 1]
    BY <1>8, <1>9, <1>10, SubSeqProperties
  <2>2. \A i \in 1..(k - n) : i \in 1..(k - (n + 1) + 1) /\ (n + 1) + i - 1 = n + i
    OBVIOUS
  <2>3. Len(a) = k - n
    BY <1>1, <2>1
  <2> QED
    BY <2>1, <2>2, <2>3
<1>12. \A i \in (n + 1)..(k + l) : w[i] \in ByteSet
  BY <1>6
<1>13. PICK b \in Seq(ByteSet) : b = SubSeq(w, n + 1, k + l)
  BY <1>9, <1>12, SubSeqProperties
<1>14. /\ Len(b) = (k + l) - n
       /\ \A i \in 1..((k + l) - n) : b[i] = w[n + i]
  <2>1. /\ Len(b) = IF n + 1 <= k + l THEN (k + l) - (n + 1) + 1 ELSE 0
        /\ \A i \in 1..((k + l) - (n + 1) + 1) : b[i] = w[(n + 1) + i - 1]
    BY <1>9, <1>12, <1>13, SubSeqProperties
  <2>2. \A i \in 1..((k + l) - n) : i \in 1..((k + l) - (n + 1) + 1) /\ (n + 1) + i - 1 = n + i
    OBVIOUS
  <2>3. Len(b) = (k + l) - n
    BY <1>1, <2>1
  <2> QED
    BY <2>1, <2>2, <2>3
<1>15. PICK c \in Seq(ByteSet) : c = a \o r
  <2>1. a \o r \in Seq(ByteSet)
    OBVIOUS
  <2> QED
    BY <2>1
<1>16. PICK m \in Nat : m = k - n
  <2>1. k - n \in Nat
    BY <1>1
  <2> QED
    BY <2>1
<1>17. Len(c) = m + l /\ \A i \in 1..(m + l) : c[i] = IF i <= m THEN a[i] ELSE r[i - m]
  <2>1. Len(a) = m
    BY <1>11, <1>16
  <2> QED
    BY <1>2, <1>15, <2>1, ConcatProperties
<1>18. b = c
  <2>1. Len(b) = Len(c)
    BY <1>14, <1>16, <1>17
  <2>2. \A i \in 1..(m + l) : b[i] = c[i]
    <3> TAKE i \in 1..(m + l)
    <3>1. i \in 1..((k + l) - n) /\ n + i \in 1..(k + l)
      BY <1>16
    <3>2. b[i] = IF n + i <= k THEN s[n + i] ELSE r[(n + i) - k]
      BY <1>4, <1>14, <3>1
    <3>3. CASE i <= m
      <4>1. n + i <= k /\ i \in 1..(k - n)
        BY <1>16, <3>3
      <4> QED
        BY <1>11, <1>17, <3>2, <3>3, <4>1
    <3>4. CASE ~(i <= m)
      <4>1. ~(n + i <= k) /\ (n + i) - k = i - m
        BY <1>16, <3>4
      <4> QED
        BY <1>17, <3>2, <3>4, <4>1
    <3> QED
      BY <3>3, <3>4
  <2>3. \A i \in 1..Len(b) : b[i] = c[i]
    BY <1>17, <2>1, <2>2
  <2> QED
    BY <2>1, <2>3, SeqEqual
<1>19. Len(a) <= k
  BY <1>1, <1>11
<1> QED
  BY <1>1, <1>3, <1>4, <1>7, <1>10, <1>13, <1>15, <1>18, <1>19


\* A sequence is cut in two.
LEMMA CutInTwo ==
    ASSUME NEW s \in Seq(ByteSet), NEW n \in Nat, n <= Len(s)
    PROVE  /\ SubSeq(s, 1, n) \in Seq(ByteSet) /\ SubSeq(s, n + 1, Len(s)) \in Seq(ByteSet)
           /\ Len(SubSeq(s, 1, n)) = n
           /\ SubSeq(s, 1, n) \o SubSeq(s, n + 1, Len(s)) = s
<1>1. Len(s) \in Nat
  OBVIOUS
<1>2. \A i \in 1..Len(s) : s[i] \in ByteSet
  BY ElementOfSeq
<1>3. \A i \in 1..n : s[i] \in ByteSet
  BY <1>1, <1>2
<1>4. \A i \in (n + 1)..Len(s) : s[i] \in ByteSet
  BY <1>1, <1>2
<1>5. SubSeq(s, 1, n) \in Seq(ByteSet)
  BY <1>3, SubSeqProperties
<1>6. SubSeq(s, n + 1, Len(s)) \in Seq(ByteSet)
  BY <1>1, <1>4, SubSeqProperties
<1>7. Len(SubSeq(s, 1, n)) = n
  <2>1. Len(SubSeq(s, 1, n)) = IF 1 <= n THEN n - 1 + 1 ELSE 0
    BY <1>3, SubSeqProperties
  <2> QED
    BY <2>1
<1>8. SubSeq(s, 1, n) \o SubSeq(s, n + 1, Len(s)) = SubSeq(s, 1, Len(s))
  <2>1. 1 \in 1..Len(s) + 1 /\ n \in 1 - 1 .. Len(s) /\ Len(s) \in n..Len(s)
    BY <1>1
  <2> QED
    BY <2>1, ConcatAdjacentSubSeq
<1>9. SubSeq(s, 1, Len(s)) = s
  BY SubSeqFull
<1> QED
  BY <1>5, <1>6, <1>7, <1>8, <1>9

LEMMA BytesAssociate ==
    ASSUME NEW s \in Seq(ByteSet), NEW t \in Seq(ByteSet), NEW u \in Seq(ByteSet)
    PROVE  (s \o t) \o u = s \o (t \o u)
BY ConcatAssociative


CodecFilterTypes ==
    /\ sentMessages \in Seq(Shapes) /\ Len(sentMessages) <= MaxMessages
    /\ stream \in Seq(ByteSet)
    /\ cache \in Seq(ByteSet) /\ Len(cache) <= MaxHttpSize
    /\ reading \in {"idle", "socket", "end of file", "out of memory"}

\* What read() has returned.
DeliveredInv ==
    /\ delivered \in Seq(Seq(ByteSet)) /\ Len(delivered) <= Len(sentMessages)
    /\ \A i \in DOMAIN delivered : delivered[i] = Bytes(i, sentMessages[i])

\* What follows, until read() has given up and lost some bytes; when it waits, not a whole
\* message is there.
OutstandingInv ==
    LET oldest == Len(delivered) + 1
    IN  /\ reading # "out of memory" => InOrder(sentMessages, oldest, cache \o stream)
        /\ reading \in {"socket", "end of file"} /\ oldest <= Len(sentMessages) =>
              Len(cache) < SizeOf(sentMessages[oldest])

CodecFilterInv == CodecFilterTypes /\ DeliveredInv /\ OutstandingInv

\* messageReceived() with some bytes, of a stream in order.
LEMMA ReceivedStep ==
    ASSUME sentMessages \in Seq(Shapes), Len(sentMessages) <= MaxMessages, DeliveredInv,
           NEW chunk \in Seq(ByteSet), NEW rest \in Seq(ByteSet), Len(chunk) <= MaxHttpSize,
           InOrder(sentMessages, Len(delivered) + 1, chunk \o rest),
           MessageReceived(chunk), stream' = rest, UNCHANGED sentMessages
    PROVE  CodecFilterInv'
<1>1. PICK count \in Nat : count = Len(sentMessages)
  OBVIOUS
<1>2. PICK done \in Nat : done = Len(delivered)
  <2>1. delivered \in Seq(Seq(ByteSet))
    BY DEF DeliveredInv
  <2> QED
    BY <2>1
<1>3. PICK length \in Nat : length = Len(chunk)
  OBVIOUS
<1>4. done <= count /\ done + 1 \in Nat
  BY <1>1, <1>2 DEF DeliveredInv
<1>5. CASE done = count
  <2>1. chunk \o rest = << >>
    <3>1. Len(delivered) = Len(sentMessages)
      BY <1>1, <1>2, <1>5
    <3>2. InOrder(sentMessages, Len(sentMessages) + 1, chunk \o rest)
      BY <3>1
    <3>3. chunk \o rest \in Seq(ByteSet)
      OBVIOUS
    <3> QED
      BY <3>2, <3>3, NothingLeft
  <2>2. chunk = << >>
    BY <2>1, ConcatEqualIffEmpty
  <2>3. HttpLength(chunk) = 0
    <3>1. Len(chunk) = 0
      BY <2>2, EmptySeq
    <3>2. \A i \in 1..Len(chunk) : chunk[i].number # sentMessages[chunk[i].message].head
      BY <3>1
    <3>3. HeaderLength(chunk) = 0
      BY <3>2, NoHeader
    <3> QED
      BY <3>3 DEF HttpLength
  <2>4. cache' = chunk /\ reading' = "socket" /\ delivered' = delivered
    BY <2>3 DEF MessageReceived
  <2>5. CodecFilterTypes'
    BY <2>4 DEF CodecFilterTypes
  <2>6. DeliveredInv'
    BY <2>4 DEF DeliveredInv
  <2>7. OutstandingInv'
    <3>1. ~(Len(delivered') + 1 <= Len(sentMessages'))
      <4>1. Len(delivered') = done
        BY <1>2, <2>4
      <4>2. Len(sentMessages') = count
        BY <1>1
      <4> QED
        BY <1>5, <4>1, <4>2
    <3>2. InOrder(sentMessages', Len(delivered') + 1, cache' \o stream')
      BY <2>4
    <3> QED
      BY <3>1, <3>2 DEF OutstandingInv
  <2> QED
    BY <2>5, <2>6, <2>7 DEF CodecFilterInv
<1>6. CASE done < count
  <2>1. PICK oldest \in 1..count : oldest = done + 1
    BY <1>6
  <2>2. oldest \in 1..Len(sentMessages) /\ InOrder(sentMessages, oldest, chunk \o rest)
        /\ oldest \in Nat
    BY <1>1, <1>2, <2>1
  <2>3. sentMessages[oldest] \in Shapes
    BY <2>2, ElementOfSeq
  <2>4. PICK size \in Nat : size # 0 /\ size = SizeOf(sentMessages[oldest])
    <3>1. SizeOf(sentMessages[oldest]) \in Nat \ {0}
      BY <2>3, SizeOfType
    <3> QED
      BY <3>1
  <2>5. PICK head \in Nat : head = sentMessages[oldest].head /\ head <= size
    BY <2>3, <2>4, SizeOfType
  <2>6. HttpLength(chunk) = IF head <= length THEN size ELSE 0
    BY <1>3, <2>2, <2>4, <2>5, HttpLengthFound
  <2>7. CASE size <= length
    <3>1. HttpLength(chunk) = size /\ head <= length
      BY <2>5, <2>6, <2>7
    <3>2. /\ delivered' = Append(delivered, SubSeq(chunk, 1, size))
          /\ cache' = SubSeq(chunk, size + 1, Len(chunk)) /\ reading' = "idle"
      <4>1. HttpLength(chunk) > 0 /\ Len(chunk) >= HttpLength(chunk)
        BY <1>3, <2>4, <2>7, <3>1
      <4>2. /\ delivered' = Append(delivered, SubSeq(chunk, 1, HttpLength(chunk)))
            /\ cache' = SubSeq(chunk, HttpLength(chunk) + 1, Len(chunk)) /\ reading' = "idle"
        BY <4>1, Zenon DEF MessageReceived
      <4> QED
        BY <3>1, <4>2
    <3>3. PICK w \in Seq(ByteSet) : w = chunk \o rest
      <4>1. chunk \o rest \in Seq(ByteSet)
        OBVIOUS
      <4> QED
        BY <4>1
    <3>4. SubSeq(w, 1, size) = SubSeq(chunk, 1, size)
      BY <1>3, <2>4, <2>7, <3>3, PrefixOfConcat
    <3>5. SubSeq(w, size + 1, Len(w)) = SubSeq(chunk, size + 1, Len(chunk)) \o rest
          /\ SubSeq(chunk, size + 1, Len(chunk)) \in Seq(ByteSet)
          /\ Len(SubSeq(chunk, size + 1, Len(chunk))) <= Len(chunk)
      BY <1>3, <2>7, <3>3, PrefixOfConcat
    <3>6. /\ SubSeq(w, 1, size) = Bytes(oldest, sentMessages[oldest])
          /\ InOrder(sentMessages, oldest + 1, SubSeq(w, size + 1, Len(w)))
      BY <2>2, <2>4, <3>3, InOrderCut
    <3>7. CodecFilterTypes'
      <4>1. Len(cache') <= MaxHttpSize
        <5>1. MaxHttpSize \in Nat
          BY CodecFilterAssumption
        <5>2. Len(SubSeq(chunk, size + 1, Len(chunk))) \in Nat
          BY <3>5
        <5> QED
          BY <1>3, <3>2, <3>5, <5>1, <5>2
      <4> QED
        BY <3>2, <3>5, <4>1 DEF CodecFilterTypes
    <3>8. PICK message \in Seq(ByteSet) : message = Bytes(oldest, sentMessages[oldest])
      BY <2>2, <2>3, BytesType
    <3>9. delivered' = Append(delivered, message) /\ delivered \in Seq(Seq(ByteSet))
      BY <3>2, <3>4, <3>6, <3>8 DEF DeliveredInv
    <3>10. /\ delivered' \in Seq(Seq(ByteSet)) /\ Len(delivered') = oldest
           /\ DOMAIN delivered' = 1..oldest /\ DOMAIN delivered = 1..done
           /\ delivered'[oldest] = message /\ \A i \in 1..done : delivered'[i] = delivered[i]
      BY <1>2, <2>1, <3>9
    <3>11. DeliveredInv'
      <4>1. \A i \in DOMAIN delivered' : delivered'[i] = Bytes(i, sentMessages[i])
        <5> TAKE i \in DOMAIN delivered'
        <5>1. i \in 1..done \/ i = oldest
          BY <2>1, <3>10
        <5>2. CASE i \in 1..done
          BY <3>10, <5>2 DEF DeliveredInv
        <5>3. CASE i = oldest
          BY <3>8, <3>10, <5>3
        <5> QED
          BY <5>1, <5>2, <5>3
      <4>2. Len(delivered') <= Len(sentMessages)
        BY <1>1, <3>10
      <4> QED
        BY <3>10, <4>1, <4>2 DEF DeliveredInv
    <3>12. OutstandingInv'
      <4>1. InOrder(sentMessages, Len(delivered') + 1, cache' \o stream')
        BY <3>2, <3>5, <3>6, <3>10
      <4> QED
        BY <3>2, <4>1 DEF OutstandingInv
    <3> QED
      BY <3>7, <3>11, <3>12 DEF CodecFilterInv
  <2>8. CASE ~(size <= length)
    <3>1. cache' = chunk /\ reading' = "socket" /\ delivered' = delivered
      BY <1>3, <2>6, <2>8 DEF MessageReceived
    <3>2. CodecFilterTypes'
      BY <3>1 DEF CodecFilterTypes
    <3>3. DeliveredInv'
      BY <3>1 DEF DeliveredInv
    <3>4. OutstandingInv'
      <4>1. Len(chunk) < SizeOf(sentMessages[oldest])
        BY <1>3, <2>4, <2>8
      <4> QED
        BY <1>2, <2>1, <3>1, <4>1 DEF OutstandingInv
    <3> QED
      BY <3>2, <3>3, <3>4 DEF CodecFilterInv
  <2> QED
    BY <2>7, <2>8
<1> QED
  BY <1>4, <1>5, <1>6


LEMMA CodecFilterInitInv == CodecFilterInit => CodecFilterInv
<1> SUFFICES ASSUME CodecFilterInit PROVE CodecFilterInv
  OBVIOUS
<1>1. /\ sentMessages = << >> /\ stream = << >> /\ cache = << >>
      /\ reading = "idle" /\ delivered = << >>
  BY DEF CodecFilterInit
<1>2. MaxMessages \in Nat /\ MaxHttpSize \in Nat
  BY CodecFilterAssumption
<1>3. \A S : << >> \in Seq(S) /\ Len(<< >>) = 0
  OBVIOUS
<1>4. CodecFilterTypes
  BY <1>1, <1>2, <1>3 DEF CodecFilterTypes
<1>5. DeliveredInv
  <2>1. DOMAIN << >> = {}
    OBVIOUS
  <2> QED
    BY <1>1, <1>3, <2>1 DEF DeliveredInv
<1>6. InOrder(sentMessages, 1, cache \o stream)
  <2>1. cache \o stream = << >>
    BY <1>1
  <2> DEFINE start == [k \in Nat |-> 0]
  <2>2. start \in Offsets /\ start[1] = 0
    BY DEF Offsets
  <2> HIDE DEF start
  <2>3. Laid(start, << >>, 0, 1, << >>, 0)
    <3>1. \A m \in 1..0 : FALSE
      OBVIOUS
    <3>2. start[0 + 1] = 0
      BY <2>2
    <3> QED
      BY <2>2, <3>1, <3>2 DEF Laid
  <2> QED
    BY <1>1, <1>3, <2>1, <2>2, <2>3 DEF InOrder
<1>7. OutstandingInv
  <2>1. Len(delivered) + 1 = 1
    BY <1>1, <1>3
  <2> QED
    BY <1>1, <1>6, <2>1 DEF OutstandingInv
<1> QED
  BY <1>4, <1>5, <1>7 DEF CodecFilterInv

LEMMA ClientSendsStep ==
    ASSUME CodecFilterInv, NEW shape \in Shapes, ClientSends(shape)
    PROVE  CodecFilterInv'
<1>1. /\ CodecFilterTypes /\ DeliveredInv /\ OutstandingInv /\ MaxMessages \in Nat
  BY CodecFilterAssumption DEF CodecFilterInv
<1>2. sentMessages \in Seq(Shapes) /\ stream \in Seq(ByteSet) /\ cache \in Seq(ByteSet)
  BY <1>1 DEF CodecFilterTypes
<1>3. delivered \in Seq(Seq(ByteSet)) /\ Len(delivered) <= Len(sentMessages)
  BY <1>1 DEF DeliveredInv
<1>4. /\ Len(sentMessages) < MaxMessages
      /\ sentMessages' = Append(sentMessages, shape)
      /\ stream' = stream \o Bytes(Len(sentMessages) + 1, shape)
      /\ UNCHANGED <<cache, reading, delivered>>
  BY DEF ClientSends
<1>5. PICK count \in Nat : count = Len(sentMessages)
  BY <1>2
<1>6. PICK done \in Nat : done = Len(delivered)
  BY <1>3
<1>7. /\ sentMessages' \in Seq(Shapes) /\ Len(sentMessages') = count + 1
      /\ sentMessages'[count + 1] = shape
      /\ \A m \in 1..count : sentMessages'[m] = sentMessages[m]
  BY <1>2, <1>4, <1>5
<1>8. PICK added \in Seq(ByteSet) : added = Bytes(Len(sentMessages) + 1, shape)
  <2>1. Len(sentMessages) + 1 \in Nat
    BY <1>2
  <2> QED
    BY <2>1, BytesType
<1>9. done <= count
  BY <1>3, <1>5, <1>6
<1>10. CodecFilterTypes'
  <2>1. Len(sentMessages') <= MaxMessages
    BY <1>1, <1>4, <1>5, <1>7
  <2>2. stream' \in Seq(ByteSet)
    BY <1>2, <1>4, <1>8
  <2> QED
    BY <1>1, <1>4, <1>7, <2>1, <2>2 DEF CodecFilterTypes
<1>11. DeliveredInv'
  <2>1. DOMAIN delivered = 1..done
    BY <1>3, <1>6
  <2>2. \A i \in DOMAIN delivered : i \in 1..count
    BY <1>9, <2>1
  <2>3. \A i \in DOMAIN delivered' : delivered'[i] = Bytes(i, sentMessages'[i])
    BY <1>1, <1>4, <1>7, <2>2 DEF DeliveredInv
  <2>4. Len(delivered') <= Len(sentMessages')
    BY <1>4, <1>6, <1>7, <1>9
  <2> QED
    BY <1>3, <1>4, <2>3, <2>4 DEF DeliveredInv
<1>12. OutstandingInv'
  <2>1. ASSUME reading # "out of memory"
        PROVE  InOrder(sentMessages', Len(delivered) + 1, cache \o stream')
    <3>1. PICK w \in Seq(ByteSet) : w = cache \o stream
      <4>1. cache \o stream \in Seq(ByteSet)
        BY <1>2
      <4> QED
        BY <4>1
    <3>2. PICK oldest \in 1..(Len(sentMessages) + 1) : oldest = Len(delivered) + 1
      BY <1>5, <1>6, <1>9
    <3>3. InOrder(sentMessages, oldest, w)
      BY <1>1, <2>1, <3>1, <3>2 DEF OutstandingInv
    <3>4. InOrder(Append(sentMessages, shape), oldest, w \o Bytes(Len(sentMessages) + 1, shape))
      BY <1>2, <3>3, InOrderSends
    <3>5. cache \o (stream \o added) = w \o added
      <4>1. PICK a \in Seq(ByteSet), b \in Seq(ByteSet) : a = cache /\ b = stream
        BY <1>2
      <4>2. (a \o b) \o added = a \o (b \o added)
        BY BytesAssociate
      <4> QED
        BY <3>1, <4>1, <4>2
    <3> QED
      BY <1>4, <1>8, <3>2, <3>4, <3>5
  <2>2. ASSUME reading \in {"socket", "end of file"}, Len(delivered) + 1 <= Len(sentMessages')
        PROVE  Len(cache) < SizeOf(sentMessages'[Len(delivered) + 1])
    <3>1. PICK oldest \in 1..(count + 1) : oldest = Len(delivered) + 1
      BY <1>6, <1>9
    <3>2. CASE oldest \in 1..count
      <4>1. sentMessages'[oldest] = sentMessages[oldest]
        BY <1>7, <3>2
      <4>2. oldest <= Len(sentMessages)
        BY <1>5, <3>2
      <4>3. Len(cache) < SizeOf(sentMessages[oldest])
        BY <1>1, <2>2, <3>1, <4>2 DEF OutstandingInv
      <4> QED
        BY <3>1, <4>1, <4>3
    <3>3. CASE oldest = count + 1
      <4>1. InOrder(sentMessages, Len(sentMessages) + 1, cache \o stream)
        <5>1. reading # "out of memory"
          BY <2>2
        <5> QED
          BY <1>1, <1>5, <3>1, <3>3, <5>1 DEF OutstandingInv
      <4>2. cache \o stream = << >>
        <5>1. cache \o stream \in Seq(ByteSet)
          BY <1>2
        <5> QED
          BY <1>2, <4>1, <5>1, NothingLeft
      <4>3. cache = << >>
        BY <1>2, <4>2, ConcatEqualIffEmpty
      <4>4. Len(cache) = 0
        BY <4>3
      <4>5. SizeOf(shape) \in Nat \ {0}
        BY SizeOfType
      <4> QED
        BY <1>7, <3>1, <3>3, <4>4, <4>5
    <3> QED
      BY <3>2, <3>3
  <2> QED
    BY <1>4, <2>1, <2>2 DEF OutstandingInv
<1> QED
  BY <1>10, <1>11, <1>12 DEF CodecFilterInv

LEMMA CallReadStep ==
    ASSUME CodecFilterInv, CallRead
    PROVE  CodecFilterInv'
<1>1. /\ CodecFilterTypes /\ DeliveredInv /\ OutstandingInv
      /\ reading = "idle" /\ MessageReceived(cache) /\ UNCHANGED <<sentMessages, stream>>
  BY DEF CodecFilterInv, CallRead
<1>2. /\ sentMessages \in Seq(Shapes) /\ Len(sentMessages) <= MaxMessages
      /\ stream \in Seq(ByteSet) /\ cache \in Seq(ByteSet) /\ Len(cache) <= MaxHttpSize
  BY <1>1 DEF CodecFilterTypes
<1>3. InOrder(sentMessages, Len(delivered) + 1, cache \o stream)
  BY <1>1 DEF OutstandingInv
<1> QED
  BY <1>1, <1>2, <1>3, ReceivedStep

LEMMA ReadSocketStep ==
    ASSUME CodecFilterInv, NEW n \in 1..MaxRead, ReadSocket(n)
    PROVE  CodecFilterInv'
<1>1. CodecFilterTypes /\ DeliveredInv /\ OutstandingInv
  BY DEF CodecFilterInv
<1>2. /\ sentMessages \in Seq(Shapes) /\ Len(sentMessages) <= MaxMessages
      /\ stream \in Seq(ByteSet) /\ cache \in Seq(ByteSet)
  BY <1>1 DEF CodecFilterTypes
<1>3. /\ reading = "socket" /\ n <= Len(stream)
      /\ stream' = SubSeq(stream, n + 1, Len(stream)) /\ UNCHANGED sentMessages
  BY DEF ReadSocket
<1>4. n \in Nat /\ MaxHttpSize \in Nat
  BY CodecFilterAssumption
<1>5. /\ SubSeq(stream, 1, n) \in Seq(ByteSet) /\ SubSeq(stream, n + 1, Len(stream)) \in Seq(ByteSet)
      /\ Len(SubSeq(stream, 1, n)) = n
      /\ SubSeq(stream, 1, n) \o SubSeq(stream, n + 1, Len(stream)) = stream
  BY <1>2, <1>3, <1>4, CutInTwo
<1>6. CASE Len(cache) + n > MaxHttpSize
  <2>1. reading' = "out of memory" /\ UNCHANGED <<cache, delivered>>
    BY <1>6 DEF ReadSocket
  <2>2. CodecFilterTypes'
    BY <1>1, <1>3, <1>5, <2>1 DEF CodecFilterTypes
  <2>3. DeliveredInv'
    BY <1>1, <1>3, <2>1 DEF DeliveredInv
  <2>4. OutstandingInv'
    BY <2>1 DEF OutstandingInv
  <2> QED
    BY <2>2, <2>3, <2>4 DEF CodecFilterInv
<1>7. CASE ~(Len(cache) + n > MaxHttpSize)
  <2>1. MessageReceived(cache \o SubSeq(stream, 1, n))
    BY <1>7 DEF ReadSocket
  <2>2. PICK a \in Seq(ByteSet) : a = SubSeq(stream, 1, n)
    BY <1>5
  <2>3. PICK rest \in Seq(ByteSet) : rest = SubSeq(stream, n + 1, Len(stream))
    BY <1>5
  <2>4. PICK bytesRead \in Seq(ByteSet) : bytesRead = cache \o a
    <3>1. cache \o a \in Seq(ByteSet)
      BY <1>2
    <3> QED
      BY <3>1
  <2>5. Len(bytesRead) <= MaxHttpSize
    <3>1. Len(bytesRead) = Len(cache) + n
      BY <1>2, <1>5, <2>2, <2>4
    <3>2. Len(cache) \in Nat
      BY <1>2
    <3> QED
      BY <1>4, <1>7, <3>1, <3>2
  <2>6. bytesRead \o rest = cache \o stream
    <3>1. PICK held \in Seq(ByteSet) : held = cache
      BY <1>2
    <3>2. (held \o a) \o rest = held \o (a \o rest)
      BY BytesAssociate
    <3> QED
      BY <1>5, <2>2, <2>3, <2>4, <3>1, <3>2
  <2>7. InOrder(sentMessages, Len(delivered) + 1, bytesRead \o rest)
    <3>1. InOrder(sentMessages, Len(delivered) + 1, cache \o stream)
      BY <1>1, <1>3 DEF OutstandingInv
    <3> QED
      BY <2>6, <3>1
  <2>8. MessageReceived(bytesRead) /\ stream' = rest
    BY <1>3, <2>1, <2>2, <2>3, <2>4
  <2> QED
    BY <1>1, <1>2, <1>3, <2>5, <2>7, <2>8, ReceivedStep
<1> QED
  BY <1>6, <1>7

LEMMA EndOfFileStep ==
    ASSUME CodecFilterInv, EndOfFile \/ UNCHANGED codecFilterVars
    PROVE  CodecFilterInv'
<1>1. CodecFilterTypes /\ DeliveredInv /\ OutstandingInv
  BY DEF CodecFilterInv
<1>2. /\ UNCHANGED <<sentMessages, stream, cache, delivered>>
      /\ reading' = reading \/ (reading = "socket" /\ reading' = "end of file")
  BY DEF EndOfFile, codecFilterVars
<1>3. CodecFilterTypes'
  BY <1>1, <1>2 DEF CodecFilterTypes
<1>4. DeliveredInv'
  BY <1>1, <1>2 DEF DeliveredInv
<1>5. OutstandingInv'
  BY <1>1, <1>2 DEF OutstandingInv
<1> QED
  BY <1>3, <1>4, <1>5 DEF CodecFilterInv

LEMMA CodecFilterInvariant == CodecFilterSpec => []CodecFilterInv
<1>1. CodecFilterInit => CodecFilterInv
  BY CodecFilterInitInv
<1>2. CodecFilterInv /\ [CodecFilterNext]_codecFilterVars => CodecFilterInv'
  <2> SUFFICES ASSUME CodecFilterInv, [CodecFilterNext]_codecFilterVars PROVE CodecFilterInv'
    OBVIOUS
  <2> USE DEF CodecFilterNext
  <2>1. ASSUME NEW shape \in Shapes, ClientSends(shape) PROVE CodecFilterInv'
    BY <2>1, ClientSendsStep
  <2>2. CASE CallRead
    BY <2>2, CallReadStep
  <2>3. CASE EndOfFile \/ UNCHANGED codecFilterVars
    BY <2>3, EndOfFileStep
  <2>4. ASSUME NEW n \in 1..MaxRead, ReadSocket(n) PROVE CodecFilterInv'
    BY <2>4, ReadSocketStep
  <2> QED
    BY <2>1, <2>2, <2>3, <2>4
<1> QED
  BY <1>1, <1>2, PTL DEF CodecFilterSpec

\* The type of the filter's state: the cache never holds more than MAX_HTTP_SIZE bytes.
THEOREM CodecFilterTyped == CodecFilterSpec => []CodecFilterTypeOK
<1>1. CodecFilterInv => CodecFilterTypeOK
  BY DEF CodecFilterInv, CodecFilterTypes, CodecFilterTypeOK
<1> QED
  BY <1>1, CodecFilterInvariant, PTL

\* What EHttpCodecFilter makes of a connection's bytes are its messages, however they were
\* cut: whole, in order and each once; read() waits only for a message it has not all of.
THEOREM CodecFilterFramesExactly == CodecFilterSpec => []FramingExact
<1>1. CodecFilterInv => FramingExact
  <2> SUFFICES ASSUME CodecFilterInv PROVE FramingExact
    OBVIOUS
  <2>1. /\ sentMessages \in Seq(Shapes) /\ stream \in Seq(ByteSet) /\ cache \in Seq(ByteSet)
        /\ DeliveredInv /\ OutstandingInv
    BY DEF CodecFilterInv, CodecFilterTypes
  <2>2. delivered \in Seq(Seq(ByteSet)) /\ Len(delivered) <= Len(sentMessages)
        /\ \A i \in DOMAIN delivered : delivered[i] = Bytes(i, sentMessages[i])
    BY <2>1 DEF DeliveredInv
  <2>3. PICK rest \in Nat : rest = Len(delivered) + 1
    BY <2>2
  <2>4. ASSUME reading \in {"socket", "end of file"}
        PROVE  IF rest > Len(sentMessages) THEN cache = << >>
               ELSE LET b == Bytes(rest, sentMessages[rest])
                    IN  (\E n \in 0..Len(b) : cache = SubSeq(b, 1, n)) /\ cache # b
    <3>1. reading # "out of memory"
      BY <2>4
    <3>2. InOrder(sentMessages, rest, cache \o stream)
      BY <2>1, <2>3, <3>1 DEF OutstandingInv
    <3>3. CASE rest > Len(sentMessages)
      <4>1. rest = Len(sentMessages) + 1
        <5>1. Len(delivered) \in Nat /\ Len(sentMessages) \in Nat
          BY <2>1, <2>2
        <5> QED
          BY <2>2, <2>3, <3>3, <5>1
      <4>2. cache \o stream = << >>
        <5>1. cache \o stream \in Seq(ByteSet)
          BY <2>1
        <5>2. InOrder(sentMessages, Len(sentMessages) + 1, cache \o stream)
          BY <3>2, <4>1
        <5> QED
          BY <2>1, <5>1, <5>2, NothingLeft
      <4>3. cache = << >>
        BY <2>1, <4>2, ConcatEqualIffEmpty
      <4> QED
        BY <3>3, <4>3
    <3>4. CASE ~(rest > Len(sentMessages))
      <4>1. rest \in 1..Len(sentMessages)
        <5>1. Len(delivered) \in Nat /\ Len(sentMessages) \in Nat
          BY <2>1, <2>2
        <5> QED
          BY <2>3, <3>4, <5>1
      <4>2. Len(cache) < SizeOf(sentMessages[rest])
        <5>1. rest <= Len(sentMessages)
          BY <4>1
        <5>2. reading \in {"socket", "end of file"} /\ rest <= Len(sentMessages) =>
                 Len(cache) < SizeOf(sentMessages[rest])
          BY <2>1, <2>3 DEF OutstandingInv
        <5> QED
          BY <2>4, <5>1, <5>2
      <4>3. PICK n \in Nat : n = Len(cache)
        BY <2>1
      <4>4. sentMessages[rest] \in Shapes
        BY <2>1, <4>1, ElementOfSeq
      <4>5. PICK size \in Nat : size = SizeOf(sentMessages[rest])
        BY <4>4, SizeOfType
      <4>6. PICK b \in Seq(ByteSet) : b = Bytes(rest, sentMessages[rest])
        BY <4>4, BytesType
      <4>7. Len(b) = size /\ \A j \in 1..size : b[j] = Byte(rest, j)
        BY <4>4, <4>5, <4>6, BytesType
      <4>8. n < size
        BY <4>2, <4>3, <4>5
      <4>9. cache = SubSeq(b, 1, n)
        <5>1. PICK w \in Seq(ByteSet) : w = cache \o stream
          <6>1. cache \o stream \in Seq(ByteSet)
            BY <2>1
          <6> QED
            BY <6>1
        <5>2. \A j \in 1..size : w[j] = Byte(rest, j)
          BY <2>1, <3>2, <4>1, <4>5, <5>1, FirstMessage
        <5>3. SubSeq(w, 1, n) = SubSeq(cache, 1, n)
          <6>1. n <= Len(cache)
            BY <4>3
          <6> QED
            BY <2>1, <5>1, <6>1, PrefixOfConcat
        <5>4. SubSeq(cache, 1, n) = cache
          BY <2>1, <4>3, SubSeqFull
        <5>5. SubSeq(w, 1, n) = SubSeq(b, 1, n)
          <6>1. \A j \in 1..n : w[j] = b[j]
            <7>1. \A j \in 1..n : j \in 1..size
              BY <4>8
            <7> QED
              BY <4>7, <5>2, <7>1
          <6> QED
            BY <6>1
        <5> QED
          BY <5>3, <5>4, <5>5
      <4>10. cache # b
        BY <4>3, <4>7, <4>8
      <4>11. n \in 0..Len(b)
        BY <4>7, <4>8
      <4> QED
        BY <3>4, <4>6, <4>9, <4>10, <4>11
    <3> QED
      BY <3>3, <3>4
  <2> QED
    BY <2>2, <2>3, <2>4 DEF FramingExact
<1> QED
  BY <1>1, CodecFilterInvariant, PTL

-----------------------------------------------------------------------------
(* AddressFilter *)

\* The powers of two, which count the subsets.
LEMMA PowerType == ASSUME NEW n \in Nat PROVE 2^n \in Nat \ {0}
<1>1. IsFiniteSet(1..n) /\ Cardinality(1..n) = n
  BY FS_Interval
<1>2. IsFiniteSet(SUBSET (1..n)) /\ Cardinality(SUBSET (1..n)) = 2^n
  BY <1>1, FS_SUBSET
<1>3. Cardinality(SUBSET (1..n)) \in Nat
  BY <1>2, FS_CardinalityType
<1>4. Cardinality(SUBSET (1..n)) # 0
  <2>1. {} \in SUBSET (1..n)
    OBVIOUS
  <2> QED
    BY <1>2, <2>1, FS_EmptySet
<1> QED
  BY <1>2, <1>3, <1>4

LEMMA PowerSum ==
    ASSUME NEW m \in Nat, NEW n \in Nat
    PROVE  2^(m + n) = 2^m * 2^n
<1> DEFINE A == 1..m
           B == (m + 1)..(m + n)
           pair == [S \in SUBSET (1..(m + n)) |-> <<S \cap A, S \cap B>>]
<1>1. IsFiniteSet(A) /\ Cardinality(A) = m /\ IsFiniteSet(1..(m + n)) /\ Cardinality(1..(m + n)) = m + n
  <2>1. IsFiniteSet(1..m) /\ Cardinality(1..m) = m
    BY FS_Interval
  <2>2. m + n \in Nat
    OBVIOUS
  <2>3. IsFiniteSet(1..(m + n)) /\ Cardinality(1..(m + n)) = m + n
    BY <2>2, FS_Interval
  <2> QED
    BY <2>1, <2>3
<1>2. IsFiniteSet(B) /\ Cardinality(B) = n
  <2>1. m + 1 \in Int /\ m + n \in Int
    OBVIOUS
  <2>2. /\ IsFiniteSet((m + 1)..(m + n))
        /\ Cardinality((m + 1)..(m + n)) = IF m + 1 > m + n THEN 0 ELSE (m + n) - (m + 1) + 1
    BY <2>1, FS_Interval
  <2> QED
    BY <2>2
<1>3. A \cup B = 1..(m + n) /\ A \cap B = {}
  OBVIOUS
<1>4. pair \in Bijection(SUBSET (1..(m + n)), (SUBSET A) \X (SUBSET B))
  <2> HIDE DEF A, B
  <2>1. pair \in [SUBSET (1..(m + n)) -> (SUBSET A) \X (SUBSET B)]
    OBVIOUS
  <2>2. \A S, T \in SUBSET (1..(m + n)) : pair[S] = pair[T] => S = T
    <3> TAKE S, T \in SUBSET (1..(m + n))
    <3> HAVE pair[S] = pair[T]
    <3>1. S \cap A = T \cap A /\ S \cap B = T \cap B
      OBVIOUS
    <3>2. S = (S \cap A) \cup (S \cap B) /\ T = (T \cap A) \cup (T \cap B)
      BY <1>3
    <3> QED
      BY <3>1, <3>2
  <2>3. \A p \in (SUBSET A) \X (SUBSET B) : \E S \in SUBSET (1..(m + n)) : pair[S] = p
    <3> TAKE p \in (SUBSET A) \X (SUBSET B)
    <3>1. PICK U \in SUBSET A, V \in SUBSET B : p = <<U, V>>
      OBVIOUS
    <3>2. U \cup V \in SUBSET (1..(m + n))
      BY <1>3
    <3>3. (U \cup V) \cap A = U /\ (U \cup V) \cap B = V
      BY <1>3
    <3>4. pair[U \cup V] = <<U, V>>
      BY <3>2, <3>3
    <3> QED
      BY <3>1, <3>2, <3>4
  <2> HIDE DEF pair
  <2> QED
    BY <2>1, <2>2, <2>3, Fun_IsBij
<1> HIDE DEF A, B, pair
<1>5. IsFiniteSet(SUBSET A) /\ Cardinality(SUBSET A) = 2^m
  BY <1>1, FS_SUBSET
<1>6. IsFiniteSet(SUBSET B) /\ Cardinality(SUBSET B) = 2^n
  BY <1>2, FS_SUBSET
<1>7. IsFiniteSet(SUBSET (1..(m + n))) /\ Cardinality(SUBSET (1..(m + n))) = 2^(m + n)
  BY <1>1, FS_SUBSET
<1>8. Cardinality((SUBSET A) \X (SUBSET B)) = Cardinality(SUBSET A) * Cardinality(SUBSET B)
  BY <1>5, <1>6, FS_Product
<1>9. Cardinality((SUBSET A) \X (SUBSET B)) = Cardinality(SUBSET (1..(m + n)))
  <2>1. ExistsBijection(SUBSET (1..(m + n)), (SUBSET A) \X (SUBSET B))
    BY <1>4 DEF ExistsBijection
  <2> QED
    BY <1>7, <2>1, FS_Bijection
<1> QED
  BY <1>5, <1>6, <1>7, <1>8, <1>9

\* Division of an integer.
LEMMA Quotient ==
    ASSUME NEW a \in Int, NEW k \in Nat \ {0}, NEW q \in Int, NEW r \in Int,
           q = a \div k, r = a % k
    PROVE  r \in 0..(k - 1) /\ a = k * q + r
<1>1. k \in Int /\ k > 0
  OBVIOUS
<1>2. a = k * q + r
  BY <1>1
<1>3. r >= 0 /\ r < k
  OBVIOUS
<1> QED
  BY <1>2, <1>3

LEMMA ExactQuotient ==
    ASSUME NEW q \in Int, NEW k \in Nat \ {0}
    PROVE  (k * q) \div k = q
OBVIOUS

\* The mask of a suffix of at least 1 is that many bits.
LEMMA MaskOfSuffix ==
    ASSUME NEW suffix \in 1..Bits
    PROVE  /\ 2^(Bits - suffix) \in Nat \ {0}
           /\ SubnetMask(suffix) = -(2^(Bits - suffix))
<1>1. Bits \in Nat \ {0} /\ suffix \in Nat
  BY AddressFilterAssumption
<1>2. PICK m \in Nat, n \in Nat : m = Bits - suffix /\ n = suffix - 1
  BY <1>1
<1>3. (suffix - 1) % Bits = n
  <2>1. n < Bits
    BY <1>1, <1>2
  <2>2. n % Bits = n
    BY <1>1, <2>1, SmallRemainder
  <2> QED
    BY <1>2, <2>2
<1>4. m + n = Bits - 1
  BY <1>1, <1>2
<1>5. PICK p \in Nat \ {0} : p = 2^m
  BY PowerType
<1>6. PICK q \in Nat \ {0} : q = 2^n
  BY PowerType
<1>7. 2^(Bits - 1) = p * q
  BY <1>4, <1>5, <1>6, PowerSum
<1>8. (-(p * q)) \div q = -p
  <2>1. -(p * q) = q * (-p)
    OBVIOUS
  <2>2. PICK r \in Int : r = -p
    OBVIOUS
  <2>3. (q * r) \div q = r
    BY ExactQuotient
  <2> QED
    BY <2>1, <2>2, <2>3
<1>9. SubnetMask(suffix) = -p
  BY <1>3, <1>6, <1>7, <1>8 DEF SubnetMask
<1> QED
  BY <1>2, <1>5, <1>9

LEMMA SubnetType ==
    ASSUME NEW s \in Subnets
    PROVE  s \in [subnetInt: Addresses, suffix: 0..Bits] /\ s.subnetInt \in Int /\ s.suffix \in 0..Bits
<1>1. s \in [subnetInt: Addresses, suffix: 0..Bits]
  BY AddressFilterAssumption
<1>2. \A a \in Addresses : a \in Int
  BY DEF Addresses
<1> QED
  BY <1>1, <1>2

\* isInSubnet() is true of the addresses that have the bits of the subnet, and of no others.
LEMMA InSubnetWhenCovered ==
    ASSUME NEW s \in Subnets, Proper(s), NEW a \in Addresses, a # AnyLocal
    PROVE  InSubnet(s, a) <=> Covers(s, a)
<1>1. s.subnetInt \in Int /\ s.suffix \in 0..Bits /\ a \in Int
  <2>1. a \in Int
    BY DEF Addresses
  <2> QED
    BY <2>1, SubnetType
<1>2. PICK suffix \in 1..Bits : suffix = s.suffix
  BY <1>1, AddressFilterAssumption DEF Proper
<1>3. PICK k \in Nat \ {0} : k = 2^(Bits - suffix)
  BY MaskOfSuffix
<1>4. SubnetMask(suffix) = -k /\ Size(s) = k
  BY <1>2, <1>3, MaskOfSuffix DEF Size
<1>5. PICK b \in Int : b = s.subnetInt
  BY <1>1
<1>6. PICK qa \in Int, ra \in Int : qa = a \div k /\ ra = a % k
  BY <1>1
<1>7. PICK qb \in Int, rb \in Int : qb = b \div k /\ rb = b % k
  OBVIOUS
<1>8. a = k * qa + ra
  BY <1>1, <1>6, Quotient
<1>9. b = k * qb + rb
  BY <1>7, Quotient
<1>10. rb = 0
  BY <1>4, <1>5, <1>7 DEF Proper
<1>11. InSubnet(s, a) <=> a - ra = b
  <2>1. -(-k) = k
    OBVIOUS
  <2>2. ToSubnet(a, -k) = a - ra
    BY <1>6, <2>1 DEF ToSubnet
  <2> QED
    BY <1>2, <1>4, <1>5, <2>2 DEF InSubnet
<1>12. Covers(s, a) <=> qa = qb
  BY <1>4, <1>5, <1>6, <1>7 DEF Covers
<1>13. a - ra = b <=> k * qa = k * qb
  BY <1>1, <1>8, <1>9, <1>10
<1>14. k * qa = k * qb <=> qa = qb
  <2>1. ASSUME k * qa = k * qb PROVE qa = qb
    <3>1. (k * qa) \div k = qa /\ (k * qb) \div k = qb
      BY ExactQuotient
    <3> QED
      BY <2>1, <3>1
  <2> QED
    BY <2>1
<1> QED
  BY <1>11, <1>12, <1>13, <1>14

\* What a call has listed and none has taken away is an entry.
FilterInv ==
    /\ isBlacklist \in BOOLEAN
    /\ rules \in Seq(Subnets) /\ adding \in Seq(Subnets \cup {Null})
    /\ Len(rules) + Len(adding) <= MaxRules
    /\ listed \subseteq Subnets
    /\ \A s \in listed : \E i \in DOMAIN rules : rules[i] = s

LEMMA FilterInitInv == FilterInit => FilterInv
<1> SUFFICES ASSUME FilterInit PROVE FilterInv
  OBVIOUS
<1>1. \A S : << >> \in Seq(S) /\ Len(<< >>) = 0
  OBVIOUS
<1>2. MaxRules \in Nat
  BY AddressFilterAssumption
<1>3. Len(rules) + Len(adding) <= MaxRules
  BY <1>1, <1>2 DEF FilterInit
<1> QED
  BY <1>1, <1>3 DEF FilterInit, FilterInv

\* An entry is added.
LEMMA AddedStep ==
    ASSUME rules \in Seq(Subnets), listed \subseteq Subnets,
           \A s \in listed : \E i \in DOMAIN rules : rules[i] = s,
           NEW t \in Subnets, Added(t)
    PROVE  /\ rules' \in Seq(Subnets) /\ Len(rules') = Len(rules) + 1
           /\ listed' \subseteq Subnets
           /\ \A s \in listed' : \E i \in DOMAIN rules' : rules'[i] = s
<1>1. rules' = Append(rules, t) /\ listed' = listed \cup {t}
  BY DEF Added
<1>2. PICK n \in Nat : n = Len(rules) /\ DOMAIN rules = 1..n
  OBVIOUS
<1>3. /\ rules' \in Seq(Subnets) /\ Len(rules') = n + 1 /\ DOMAIN rules' = 1..(n + 1)
      /\ rules'[n + 1] = t /\ \A i \in 1..n : rules'[i] = rules[i]
  BY <1>1, <1>2
<1>4. ASSUME NEW s \in listed'
      PROVE  \E i \in 1..(n + 1) : rules'[i] = s
  <2>1. CASE s \in listed
    <3>1. PICK i \in 1..n : rules[i] = s
      BY <1>2, <2>1
    <3>2. i \in 1..(n + 1) /\ rules'[i] = s
      BY <1>3, <3>1
    <3> QED
      BY <3>2
  <2>2. CASE s = t
    <3>1. n + 1 \in 1..(n + 1)
      OBVIOUS
    <3> QED
      BY <1>3, <2>2, <3>1
  <2> QED
    BY <1>1, <2>1, <2>2
<1> QED
  BY <1>1, <1>2, <1>3, <1>4

LEMMA SetListStep ==
    ASSUME FilterInv, NEW n \in 0..MaxRules, NEW entries \in [1..n -> Subnets \cup {Null}],
           SetList(entries)
    PROVE  FilterInv'
<1>1. rules' = << >> /\ listed' = {} /\ adding' = entries /\ isBlacklist' = isBlacklist
  BY DEF SetList
<1>2. n \in Nat /\ n <= MaxRules
  BY AddressFilterAssumption
<1>3. entries \in Seq(Subnets \cup {Null}) /\ Len(entries) = n
  BY <1>2
<1>4. \A S : << >> \in Seq(S) /\ Len(<< >>) = 0
  OBVIOUS
<1>5. Len(rules') + Len(adding') <= MaxRules
  BY <1>1, <1>2, <1>3, <1>4
<1> QED
  BY <1>1, <1>3, <1>4, <1>5 DEF FilterInv

LEMMA SetNextStep ==
    ASSUME FilterInv, SetNext
    PROVE  FilterInv'
<1>1. /\ isBlacklist \in BOOLEAN /\ rules \in Seq(Subnets) /\ adding \in Seq(Subnets \cup {Null})
      /\ Len(rules) + Len(adding) <= MaxRules /\ listed \subseteq Subnets
      /\ \A s \in listed : \E i \in DOMAIN rules : rules[i] = s
  BY DEF FilterInv
<1>2. PICK m \in Nat, n \in Nat : m = Len(rules) /\ n = Len(adding)
  BY <1>1
<1>3. adding # << >> /\ isBlacklist' = isBlacklist
  BY DEF SetNext
<1>4. CASE Head(adding) = Null
  <2>1. adding' = << >> /\ UNCHANGED <<rules, listed>>
    BY <1>4 DEF SetNext
  <2>2. \A S : << >> \in Seq(S) /\ Len(<< >>) = 0
    OBVIOUS
  <2>3. Len(rules') + Len(adding') <= MaxRules
    BY <1>1, <1>2, <2>1, <2>2, AddressFilterAssumption
  <2> QED
    BY <1>1, <1>3, <2>1, <2>2, <2>3 DEF FilterInv
<1>5. CASE Head(adding) # Null
  <2>1. Added(Head(adding)) /\ adding' = Tail(adding)
    BY <1>5 DEF SetNext
  <2>2. PICK t \in Subnets : t = Head(adding)
    BY <1>1, <1>3, <1>5
  <2>3. /\ rules' \in Seq(Subnets) /\ Len(rules') = Len(rules) + 1
        /\ listed' \subseteq Subnets
        /\ \A s \in listed' : \E i \in DOMAIN rules' : rules'[i] = s
    BY <1>1, <2>1, <2>2, AddedStep
  <2>4. adding' \in Seq(Subnets \cup {Null}) /\ Len(adding') = n - 1
    BY <1>1, <1>2, <1>3, <2>1
  <2>5. Len(rules') + Len(adding') <= MaxRules
    BY <1>1, <1>2, <2>3, <2>4, AddressFilterAssumption
  <2> QED
    BY <1>1, <1>3, <2>3, <2>4, <2>5 DEF FilterInv
<1> QED
  BY <1>4, <1>5

LEMMA BlockStep ==
    ASSUME FilterInv, NEW t \in Subnets, Block(t)
    PROVE  FilterInv'
<1>1. /\ isBlacklist \in BOOLEAN /\ rules \in Seq(Subnets) /\ adding \in Seq(Subnets \cup {Null})
      /\ listed \subseteq Subnets
      /\ \A s \in listed : \E i \in DOMAIN rules : rules[i] = s
  BY DEF FilterInv
<1>2. Len(rules) + Len(adding) < MaxRules /\ Added(t) /\ UNCHANGED <<isBlacklist, adding>>
  BY DEF Block
<1>3. PICK m \in Nat, n \in Nat : m = Len(rules) /\ n = Len(adding)
  BY <1>1
<1>4. /\ rules' \in Seq(Subnets) /\ Len(rules') = Len(rules) + 1
      /\ listed' \subseteq Subnets
      /\ \A s \in listed' : \E i \in DOMAIN rules' : rules'[i] = s
  BY <1>1, <1>2, AddedStep
<1>5. Len(rules') + Len(adding') <= MaxRules
  <2>1. m + n < MaxRules /\ Len(rules') = m + 1 /\ Len(adding') = n
    BY <1>2, <1>3, <1>4
  <2> QED
    BY <2>1, AddressFilterAssumption
<1> QED
  BY <1>1, <1>2, <1>4, <1>5 DEF FilterInv

\* An entry is removed, the others stay.
LEMMA RemoveAtKeeps ==
    ASSUME NEW s \in Seq(Subnets), NEW first \in 1..Len(s)
    PROVE  /\ RemoveAt(s, first) \in Seq(Subnets) /\ Len(RemoveAt(s, first)) = Len(s) - 1
           /\ \A i \in 1..Len(s) : i # first =>
                 \E j \in 1..(Len(s) - 1) : RemoveAt(s, first)[j] = s[i]
<1>1. PICK n \in Nat : n = Len(s) /\ n # 0
  <2>1. Len(s) \in Nat
    OBVIOUS
  <2> QED
    BY <2>1
<1>11. \A i \in 1..n : s[i] \in Subnets
  BY <1>1, ElementOfSeq
<1>2. PICK a \in Seq(Subnets) : a = SubSeq(s, 1, first - 1)
  <2>1. \A i \in 1..(first - 1) : s[i] \in Subnets
    BY <1>1, <1>11
  <2>2. SubSeq(s, 1, first - 1) \in Seq(Subnets)
    BY <2>1, SubSeqProperties
  <2> QED
    BY <2>2
<1>3. PICK b \in Seq(Subnets) : b = SubSeq(s, first + 1, n)
  <2>1. \A i \in (first + 1)..n : s[i] \in Subnets
    BY <1>1, <1>11
  <2>2. SubSeq(s, first + 1, n) \in Seq(Subnets)
    BY <2>1, SubSeqProperties
  <2> QED
    BY <2>2
<1>4. Len(a) = first - 1 /\ \A i \in 1..(first - 1) : a[i] = s[i]
  BY <1>1, <1>2
<1>5. Len(b) = n - first /\ \A i \in 1..(n - first) : b[i] = s[first + i]
  BY <1>1, <1>3
<1>6. RemoveAt(s, first) = a \o b
  BY <1>1, <1>2, <1>3 DEF RemoveAt
<1>7. PICK r \in Seq(Subnets) : r = a \o b
  <2>1. a \o b \in Seq(Subnets)
    OBVIOUS
  <2> QED
    BY <2>1
<1>8. Len(r) = n - 1
  BY <1>1, <1>4, <1>5, <1>7
<1>9. \A j \in 1..(n - 1) : r[j] = IF j <= first - 1 THEN a[j] ELSE b[j - (first - 1)]
  BY <1>1, <1>4, <1>5, <1>7
<1>10. ASSUME NEW i \in 1..n, i # first
       PROVE  \E j \in 1..(n - 1) : r[j] = s[i]
  <2>1. CASE i < first
    <3>1. i \in 1..(n - 1) /\ i <= first - 1 /\ i \in 1..(first - 1)
      BY <1>1, <2>1
    <3>2. r[i] = s[i]
      BY <1>4, <1>9, <3>1
    <3> QED
      BY <3>1, <3>2
  <2>2. CASE i > first
    <3>1. PICK j \in 1..(n - 1) : j = i - 1
      BY <1>1, <2>2
    <3>2. /\ ~(j <= first - 1) /\ j - (first - 1) = i - first
          /\ i - first \in 1..(n - first) /\ first + (i - first) = i
      BY <1>1, <2>2, <3>1
    <3>3. r[j] = s[i]
      BY <1>5, <1>9, <3>2
    <3> QED
      BY <3>3
  <2> QED
    BY <1>10, <2>1, <2>2
<1> QED
  BY <1>1, <1>6, <1>7, <1>8, <1>10

LEMMA UnblockStep ==
    ASSUME FilterInv, NEW t \in Subnets, Unblock(t)
    PROVE  FilterInv'
<1> DEFINE found == {i \in DOMAIN rules : EqualSubnets(rules[i], t)}
           first == CHOOSE i \in found : \A j \in found : i <= j
<1>1. /\ isBlacklist \in BOOLEAN /\ rules \in Seq(Subnets) /\ adding \in Seq(Subnets \cup {Null})
      /\ Len(rules) + Len(adding) <= MaxRules /\ listed \subseteq Subnets
      /\ \A s \in listed : \E i \in DOMAIN rules : rules[i] = s
  BY DEF FilterInv
<1>2. /\ rules' = IF found = {} THEN rules ELSE RemoveAt(rules, first)
      /\ listed' = listed \ {t}
      /\ UNCHANGED <<isBlacklist, adding>>
  BY DEF Unblock
<1>3. PICK m \in Nat, n \in Nat : m = Len(rules) /\ n = Len(adding) /\ DOMAIN rules = 1..m
  BY <1>1
<1>4. CASE found = {}
  <2>1. rules' = rules
    BY <1>2, <1>4
  <2> QED
    BY <1>1, <1>2, <2>1 DEF FilterInv
<1>5. CASE found # {}
  <2>1. first \in found
    <3>1. found \in SUBSET Nat /\ found # {}
      BY <1>3, <1>5
    <3>2. \E i \in found : \A j \in found : i <= j
      <4> HIDE DEF found
      <4> QED
        BY <3>1, LeastNatural
    <3> QED
      BY <3>2
  <2>2. PICK f \in 1..m : f = first /\ EqualSubnets(rules[f], t)
    <3> HIDE DEF first
    <3> QED
      BY <1>3, <2>1
  <2>3. rules[f] = t
    <3>1. rules[f] \in Subnets
      BY <1>1, <1>3
    <3>2. /\ rules[f] \in [subnetInt: Addresses, suffix: 0..Bits]
          /\ t \in [subnetInt: Addresses, suffix: 0..Bits]
      BY <3>1, SubnetType
    <3> QED
      BY <2>2, <3>2 DEF EqualSubnets
  <2>4. rules' = RemoveAt(rules, f)
    <3> HIDE DEF first, found
    <3> QED
      BY <1>2, <1>5, <2>2
  <2> HIDE DEF first, found
  <2>5. /\ rules' \in Seq(Subnets) /\ Len(rules') = m - 1
        /\ \A i \in 1..m : i # f => \E j \in 1..(m - 1) : rules'[j] = rules[i]
    <3>1. f \in 1..Len(rules)
      BY <1>3
    <3> QED
      BY <1>1, <1>3, <2>4, <3>1, RemoveAtKeeps
  <2>6. DOMAIN rules' = 1..(m - 1)
    BY <2>5
  <2>7. \A s \in listed' : \E j \in DOMAIN rules' : rules'[j] = s
    <3> TAKE s \in listed'
    <3>1. s \in listed /\ s # t
      BY <1>2
    <3>2. PICK i \in 1..m : rules[i] = s
      BY <1>1, <1>3, <3>1
    <3>3. i # f
      BY <2>3, <3>1, <3>2
    <3> QED
      BY <2>5, <2>6, <3>2, <3>3
  <2>8. Len(rules') + Len(adding') <= MaxRules
    <3>1. m + n <= MaxRules /\ Len(adding') = n
      BY <1>1, <1>2, <1>3
    <3> QED
      BY <2>5, <3>1, AddressFilterAssumption
  <2> QED
    BY <1>1, <1>2, <2>5, <2>7, <2>8 DEF FilterInv
<1> QED
  BY <1>4, <1>5

LEMMA FilterInvariant == FilterSpec => []FilterInv
<1>1. FilterInit => FilterInv
  BY FilterInitInv
<1>2. FilterInv /\ [FilterNext]_filterVars => FilterInv'
  <2> SUFFICES ASSUME FilterInv, [FilterNext]_filterVars PROVE FilterInv'
    OBVIOUS
  <2> USE DEF FilterNext
  <2>1. ASSUME NEW n \in 0..MaxRules, NEW entries \in [1..n -> Subnets \cup {Null}],
               SetList(entries)
        PROVE  FilterInv'
    BY <2>1, SetListStep
  <2>2. CASE SetNext
    BY <2>2, SetNextStep
  <2>3. ASSUME NEW t \in Subnets, Block(t) PROVE FilterInv'
    BY <2>3, BlockStep
  <2>4. ASSUME NEW t \in Subnets, Unblock(t) PROVE FilterInv'
    BY <2>4, UnblockStep
  <2>5. CASE UNCHANGED filterVars
    BY <2>5 DEF filterVars, FilterInv
  <2> QED
    BY <2>1, <2>2, <2>3, <2>4, <2>5
<1> QED
  BY <1>1, <1>2, PTL DEF FilterSpec

\* The type of the filter's state.
THEOREM FilterTyped == FilterSpec => []FilterTypeOK
<1>1. FilterInv => FilterTypeOK
  <2> SUFFICES ASSUME FilterInv PROVE FilterTypeOK
    OBVIOUS
  <2>1. rules \in Seq(Subnets) /\ adding \in Seq(Subnets \cup {Null})
    BY DEF FilterInv
  <2>2. PICK m \in Nat, n \in Nat : m = Len(rules) /\ n = Len(adding)
    BY <2>1
  <2>3. Len(rules) <= MaxRules
    <3>1. m + n <= MaxRules
      BY <2>2 DEF FilterInv
    <3> QED
      BY <2>2, <3>1, AddressFilterAssumption
  <2> QED
    BY <2>1, <2>3 DEF FilterInv, FilterTypeOK
<1> QED
  BY <1>1, FilterInvariant, PTL

\* The black and the white list judge an address as it was listed, for addresses of any
\* width and any list of proper subnets.
THEOREM JudgesAsListed == FilterSpec => []JudgedAsListed
<1>1. FilterInv => JudgedAsListed
  <2> SUFFICES ASSUME FilterInv, NEW a \in Addresses, a # AnyLocal
               PROVE  /\ (\E s \in listed : Proper(s) /\ Covers(s, a)) => Accepts(a) = ~isBlacklist
                      /\ (\A i \in DOMAIN rules : Proper(rules[i]) /\ ~Covers(rules[i], a)) =>
                            Accepts(a) = isBlacklist
    BY DEF JudgedAsListed
  <2>1. /\ isBlacklist \in BOOLEAN /\ rules \in Seq(Subnets) /\ listed \subseteq Subnets
        /\ \A s \in listed : \E i \in DOMAIN rules : rules[i] = s
    BY DEF FilterInv
  <2>2. IsListed(a) \in BOOLEAN
    BY DEF IsListed
  <2>3. ASSUME NEW s \in listed, Proper(s), Covers(s, a)
        PROVE  IsListed(a)
    <3>1. s \in Subnets
      BY <2>1
    <3>2. InSubnet(s, a)
      BY <2>3, <3>1, InSubnetWhenCovered
    <3> QED
      BY <2>1, <3>2 DEF IsListed
  <2>4. ASSUME \A i \in DOMAIN rules : Proper(rules[i]) /\ ~Covers(rules[i], a)
        PROVE  ~IsListed(a)
    <3> SUFFICES ASSUME NEW i \in DOMAIN rules PROVE ~InSubnet(rules[i], a)
      BY DEF IsListed
    <3>1. PICK s \in Subnets : s = rules[i]
      BY <2>1
    <3>2. Proper(s) /\ ~Covers(s, a)
      BY <2>4, <3>1
    <3>3. ~InSubnet(s, a)
      BY <3>2, InSubnetWhenCovered
    <3> QED
      BY <3>1, <3>3
  <2>5. ASSUME IsListed(a) PROVE Accepts(a) = ~isBlacklist
    BY <2>1, <2>5 DEF Accepts
  <2>6. ASSUME ~IsListed(a) PROVE Accepts(a) = isBlacklist
    <3>1. IsListed(a) = FALSE
      BY <2>2, <2>6
    <3>2. Accepts(a) = (isBlacklist # FALSE)
      BY <3>1 DEF Accepts
    <3>3. CASE isBlacklist = TRUE
      BY <3>2, <3>3
    <3>4. CASE isBlacklist = FALSE
      BY <3>2, <3>4
    <3> QED
      BY <2>1, <3>3, <3>4
  <2>7. ASSUME \E s \in listed : Proper(s) /\ Covers(s, a) PROVE Accepts(a) = ~isBlacklist
    <3>1. IsListed(a)
      BY <2>3, <2>7
    <3> QED
      BY <2>5, <3>1
  <2>8. ASSUME \A i \in DOMAIN rules : Proper(rules[i]) /\ ~Covers(rules[i], a)
        PROVE  Accepts(a) = isBlacklist
    <3>1. ~IsListed(a)
      BY <2>4, <2>8
    <3> QED
      BY <2>6, <3>1
  <2> QED
    BY <2>7, <2>8
<1> QED
  BY <1>1, FilterInvariant, PTL

-----------------------------------------------------------------------------
(* IoBuffer *)

Errors == {"none", "argument", "state", "overflow", "underflow", "mark"}

BufferSet == [pos: Int, limit: Int, cap: Int, mark: Int, min: Int, expand: BOOLEAN, recap: BOOLEAN,
              mem: {0, 1}, spot: Int, shared: BOOLEAN, derived: [first: Int, size: Int], error: Errors]

\* The numbers are in order, and memory that others use is not replaced.
Sound(b) ==
    /\ b \in BufferSet
    /\ 0 <= b.pos /\ b.pos <= b.limit /\ b.limit <= b.cap /\ b.cap <= MaxInt
    /\ -1 <= b.mark /\ b.mark <= b.pos
    /\ 0 <= b.min /\ b.min <= MaxInt
    /\ b.shared => ~b.recap

\* What only some calls change.
Frame(b, c) ==
    /\ c.min = b.min /\ c.expand = b.expand /\ c.recap = b.recap /\ c.shared = b.shared
    /\ c.derived = b.derived

\* What moving in the buffer leaves alone.
Moved(b, c) == Frame(b, c) /\ c.cap = b.cap /\ c.mem = b.mem /\ c.spot = b.spot

LEMMA FailsEffect ==
    ASSUME NEW b \in BufferSet, Sound(b), NEW why \in Errors
    PROVE  /\ Fails(b, why) \in BufferSet /\ Sound(Fails(b, why)) /\ Moved(b, Fails(b, why))
           /\ Fails(b, why).pos = b.pos /\ Fails(b, why).limit = b.limit
           /\ Fails(b, why).mark = b.mark /\ Fails(b, why).error = why
<1>1. PICK c \in BufferSet : c = Fails(b, why)
  BY DEF BufferSet, Fails
<1>2. /\ c.pos = b.pos /\ c.limit = b.limit /\ c.cap = b.cap /\ c.mark = b.mark /\ c.min = b.min
      /\ c.expand = b.expand /\ c.recap = b.recap /\ c.mem = b.mem /\ c.spot = b.spot
      /\ c.shared = b.shared /\ c.derived = b.derived /\ c.error = why
  BY <1>1 DEF BufferSet, Fails
<1>3. Sound(c)
  BY <1>2 DEF Sound
<1>4. Moved(b, c)
  BY <1>2 DEF Moved, Frame
<1> QED
  BY <1>1, <1>2, <1>3, <1>4

LEMMA SetPositionEffect ==
    ASSUME NEW b \in BufferSet, Sound(b), NEW p \in Int
    PROVE  /\ SetPosition(b, p) \in BufferSet /\ Sound(SetPosition(b, p))
           /\ Moved(b, SetPosition(b, p))
           /\ SetPosition(b, p).limit = b.limit
           /\ Ok(b) /\ p \in 0..b.limit =>
                 /\ SetPosition(b, p).pos = p /\ Ok(SetPosition(b, p))
                 /\ b.mark <= p => SetPosition(b, p).mark = b.mark
           /\ ~(Ok(b) /\ p \in 0..b.limit) => SetPosition(b, p).error \in {b.error, "argument"}
<1>1. CASE ~Ok(b)
  BY <1>1 DEF SetPosition, Moved, Frame
<1>2. CASE Ok(b) /\ p \notin 0..b.limit
  <2>1. PICK why \in Errors : why = "argument"
    BY DEF Errors
  <2>2. SetPosition(b, p) = Fails(b, why)
    BY <1>2, <2>1 DEF SetPosition
  <2>3. /\ Fails(b, why) \in BufferSet /\ Sound(Fails(b, why)) /\ Moved(b, Fails(b, why))
        /\ Fails(b, why).limit = b.limit /\ Fails(b, why).error = why
    BY FailsEffect
  <2> QED
    BY <1>2, <2>1, <2>2, <2>3
<1>3. CASE Ok(b) /\ p \in 0..b.limit
  <2>1. PICK m \in Int : m = IF b.mark > p THEN -1 ELSE b.mark
    BY DEF BufferSet
  <2>2. SetPosition(b, p) = [b EXCEPT !.pos = p, !.mark = m]
    BY <1>3, <2>1 DEF SetPosition
  <2>3. PICK c \in BufferSet : c = [b EXCEPT !.pos = p, !.mark = m]
    BY DEF BufferSet
  <2>4. /\ c.pos = p /\ c.limit = b.limit /\ c.cap = b.cap /\ c.mark = m /\ c.min = b.min
        /\ c.expand = b.expand /\ c.recap = b.recap /\ c.mem = b.mem /\ c.spot = b.spot
        /\ c.shared = b.shared /\ c.derived = b.derived /\ c.error = b.error
    BY <2>3 DEF BufferSet
  <2>5. /\ b.mark \in Int /\ -1 <= b.mark /\ b.limit \in Int /\ 0 <= p /\ p <= b.limit
    BY <1>3 DEF BufferSet, Sound
  <2>6. -1 <= m /\ m <= p
    BY <2>1, <2>5
  <2>7. Sound(c)
    BY <2>4, <2>5, <2>6 DEF Sound
  <2>8. Moved(b, c)
    BY <2>4 DEF Moved, Frame
  <2>9. Ok(c) /\ (b.mark <= p => c.mark = b.mark)
    BY <1>3, <2>1, <2>4, <2>5 DEF Ok
  <2> QED
    BY <1>3, <2>2, <2>3, <2>4, <2>7, <2>8, <2>9
<1> QED
  BY <1>1, <1>2, <1>3

LEMMA SetLimitEffect ==
    ASSUME NEW b \in BufferSet, Sound(b), NEW l \in Int
    PROVE  /\ SetLimit(b, l) \in BufferSet /\ Sound(SetLimit(b, l)) /\ Moved(b, SetLimit(b, l))
           /\ Ok(b) /\ l \in 0..b.cap =>
                 /\ SetLimit(b, l).limit = l /\ SetLimit(b, l).pos = Smaller(b.pos, l)
                 /\ Ok(SetLimit(b, l))
                 /\ b.mark <= l => SetLimit(b, l).mark = b.mark
           /\ ~(Ok(b) /\ l \in 0..b.cap) => SetLimit(b, l).error \in {b.error, "argument"}
<1>1. CASE ~Ok(b)
  BY <1>1 DEF SetLimit, Moved, Frame
<1>2. CASE Ok(b) /\ l \notin 0..b.cap
  <2>1. PICK why \in Errors : why = "argument"
    BY DEF Errors
  <2>2. SetLimit(b, l) = Fails(b, why)
    BY <1>2, <2>1 DEF SetLimit
  <2>3. /\ Fails(b, why) \in BufferSet /\ Sound(Fails(b, why)) /\ Moved(b, Fails(b, why))
        /\ Fails(b, why).error = why
    BY FailsEffect
  <2> QED
    BY <1>2, <2>1, <2>2, <2>3
<1>3. CASE Ok(b) /\ l \in 0..b.cap
  <2>1. PICK m \in Int : m = IF b.mark > l THEN -1 ELSE b.mark
    BY DEF BufferSet
  <2>2. PICK p \in Int : p = Smaller(b.pos, l)
    BY DEF BufferSet, Smaller
  <2>3. SetLimit(b, l) = [b EXCEPT !.limit = l, !.pos = p, !.mark = m]
    BY <1>3, <2>1, <2>2 DEF SetLimit
  <2>4. PICK c \in BufferSet : c = [b EXCEPT !.limit = l, !.pos = p, !.mark = m]
    BY DEF BufferSet
  <2>5. /\ c.pos = p /\ c.limit = l /\ c.cap = b.cap /\ c.mark = m /\ c.min = b.min
        /\ c.expand = b.expand /\ c.recap = b.recap /\ c.mem = b.mem /\ c.spot = b.spot
        /\ c.shared = b.shared /\ c.derived = b.derived /\ c.error = b.error
    BY <2>4 DEF BufferSet
  <2>6. /\ b.mark \in Int /\ b.pos \in Int /\ b.cap \in Int /\ -1 <= b.mark /\ b.mark <= b.pos
        /\ 0 <= b.pos /\ 0 <= l /\ l <= b.cap
    BY <1>3 DEF BufferSet, Sound
  <2>7. -1 <= m /\ m <= p /\ 0 <= p /\ p <= l
    BY <2>1, <2>2, <2>6 DEF Smaller
  <2>8. Sound(c)
    BY <2>5, <2>6, <2>7 DEF Sound
  <2>9. Moved(b, c)
    BY <2>5 DEF Moved, Frame
  <2>10. Ok(c) /\ (b.mark <= l => c.mark = b.mark)
    BY <1>3, <2>1, <2>5, <2>6 DEF Ok
  <2> QED
    BY <1>3, <2>2, <2>3, <2>4, <2>5, <2>8, <2>9, <2>10
<1> QED
  BY <1>1, <1>2, <1>3

\* Bytes are written into the memory, the one at offset m is marked.
Written(b, c, m) == c.spot \in {b.spot, Overwritten} \/ (b.spot < 0 /\ m # NoByte)

Markable(b, m) == m = NoByte \/ (b.spot < 0 /\ m \in Nat)

LEMMA StoreEffect ==
    ASSUME NEW b \in BufferSet, Sound(b), NEW i \in Int, NEW n \in Int, NEW m \in Int,
           Markable(b, m)
    PROVE  /\ Store(b, i, n, m) \in BufferSet /\ Sound(Store(b, i, n, m))
           /\ Frame(b, Store(b, i, n, m)) /\ Written(b, Store(b, i, n, m), m)
           /\ Store(b, i, n, m).pos = b.pos /\ Store(b, i, n, m).limit = b.limit
           /\ Store(b, i, n, m).cap = b.cap /\ Store(b, i, n, m).mark = b.mark
           /\ Store(b, i, n, m).mem = b.mem /\ Store(b, i, n, m).error = b.error
<1>1. PICK s \in Int : s = IF m >= 0 THEN i + m
                           ELSE IF b.spot \in i..(i + n - 1) THEN Overwritten ELSE b.spot
  BY DEF BufferSet, Overwritten
<1>2. Store(b, i, n, m) = [b EXCEPT !.spot = s]
  BY <1>1 DEF Store
<1>3. PICK c \in BufferSet : c = [b EXCEPT !.spot = s]
  BY DEF BufferSet
<1>4. /\ c.pos = b.pos /\ c.limit = b.limit /\ c.cap = b.cap /\ c.mark = b.mark /\ c.min = b.min
      /\ c.expand = b.expand /\ c.recap = b.recap /\ c.mem = b.mem /\ c.spot = s
      /\ c.shared = b.shared /\ c.derived = b.derived /\ c.error = b.error
  BY <1>3 DEF BufferSet
<1>5. Sound(c)
  BY <1>4 DEF Sound
<1>6. Frame(b, c)
  BY <1>4 DEF Frame
<1>7. Written(b, c, m)
  BY <1>1, <1>4 DEF Written, Markable, NoByte
<1> QED
  BY <1>2, <1>3, <1>4, <1>5, <1>6, <1>7

LEMMA PutBytesEffect ==
    ASSUME NEW b \in BufferSet, Sound(b), NEW n \in Nat, NEW m \in Int, Markable(b, m)
    PROVE  /\ PutBytes(b, n, m) \in BufferSet /\ Sound(PutBytes(b, n, m))
           /\ Frame(b, PutBytes(b, n, m)) /\ Written(b, PutBytes(b, n, m), m)
           /\ PutBytes(b, n, m).limit = b.limit /\ PutBytes(b, n, m).cap = b.cap
           /\ PutBytes(b, n, m).mem = b.mem
           /\ PutBytes(b, n, m).error \in {b.error, "overflow"}
           /\ Ok(b) /\ b.pos + n <= b.limit =>
                 PutBytes(b, n, m).pos = b.pos + n /\ Ok(PutBytes(b, n, m))
<1> {b.pos, b.limit, b.cap, b.mark} \subseteq Int
  BY DEF BufferSet
<1>1. CASE ~Ok(b)
  BY <1>1 DEF PutBytes, Frame, Written
<1>2. CASE Ok(b) /\ n > b.limit - b.pos
  <2>1. PICK why \in Errors : why = "overflow"
    BY DEF Errors
  <2>2. PutBytes(b, n, m) = Fails(b, why)
    BY <1>2, <2>1 DEF PutBytes
  <2>3. /\ Fails(b, why) \in BufferSet /\ Sound(Fails(b, why)) /\ Moved(b, Fails(b, why))
        /\ Fails(b, why).error = why /\ Fails(b, why).limit = b.limit
    BY FailsEffect
  <2>4. Frame(b, Fails(b, why)) /\ Written(b, Fails(b, why), m)
        /\ Fails(b, why).cap = b.cap /\ Fails(b, why).mem = b.mem
    BY <2>3 DEF Moved, Written
  <2>5. ~(b.pos + n <= b.limit)
    BY <1>2
  <2> QED
    BY <2>1, <2>2, <2>3, <2>4, <2>5
<1>3. CASE Ok(b) /\ ~(n > b.limit - b.pos)
  <2>1. PICK a \in BufferSet : a = Store(b, b.pos, n, m)
    BY StoreEffect
  <2>2. /\ Sound(a) /\ Frame(b, a) /\ Written(b, a, m) /\ a.pos = b.pos /\ a.limit = b.limit
        /\ a.cap = b.cap /\ a.mark = b.mark /\ a.mem = b.mem /\ a.error = b.error
    BY <2>1, StoreEffect
  <2>3. PICK p \in Int : p = b.pos + n
    OBVIOUS
  <2>4. PutBytes(b, n, m) = [a EXCEPT !.pos = p]
    BY <1>3, <2>1, <2>2, <2>3 DEF PutBytes
  <2>5. PICK c \in BufferSet : c = [a EXCEPT !.pos = p]
    BY DEF BufferSet
  <2>6. /\ c.pos = p /\ c.limit = a.limit /\ c.cap = a.cap /\ c.mark = a.mark /\ c.min = a.min
        /\ c.expand = a.expand /\ c.recap = a.recap /\ c.mem = a.mem /\ c.spot = a.spot
        /\ c.shared = a.shared /\ c.derived = a.derived /\ c.error = a.error
    BY <2>5 DEF BufferSet
  <2>7. b.pos <= p /\ p <= b.limit
    BY <1>3, <2>3
  <2>8. Sound(c)
    <3>1. 0 <= a.pos /\ a.pos <= p /\ p <= a.limit /\ -1 <= a.mark /\ a.mark <= p
      BY <2>2, <2>3, <2>7 DEF Sound
    <3> QED
      BY <2>2, <2>6, <3>1 DEF Sound
  <2>9. Frame(b, c) /\ Written(b, c, m)
    BY <2>2, <2>6 DEF Frame, Written
  <2>10. c.pos = b.pos + n /\ Ok(c)
    BY <1>3, <2>2, <2>3, <2>6 DEF Ok
  <2> QED
    BY <2>2, <2>4, <2>5, <2>6, <2>9, <2>8, <2>10
<1> QED
  BY <1>1, <1>2, <1>3

\* What normalizeCapacity() returns: never less than was asked for, if that is a capacity
\* at all, and more for more.
LEMMA NormalizeType ==
    ASSUME NEW n \in Int, n <= MaxInt
    PROVE  /\ NormalizeCapacity(n) \in 0..MaxInt /\ n <= NormalizeCapacity(n)
           /\ n < 0 => NormalizeCapacity(n) = MaxInt
<1>1. MaxInt \in Nat
  BY IoBufferAssumption
<1> DEFINE P(p) == p \in Powers /\ n <= p /\ p < 2 * n
<1>2. CASE n = 0
  BY <1>1, <1>2 DEF NormalizeCapacity
<1>3. CASE n # 0 /\ \E p \in 1..MaxInt : P(p)
  <2>1. NormalizeCapacity(n) = CHOOSE p \in 1..MaxInt : P(p)
    BY <1>3 DEF NormalizeCapacity
  <2>2. NormalizeCapacity(n) \in 1..MaxInt /\ P(NormalizeCapacity(n))
    BY <1>3, <2>1
  <2> QED
    BY <1>1, <2>2
<1>4. CASE n # 0 /\ ~\E p \in 1..MaxInt : P(p)
  <2>1. NormalizeCapacity(n) = MaxInt
    BY <1>4 DEF NormalizeCapacity
  <2> QED
    BY <1>1, <2>1
<1> QED
  BY <1>2, <1>3, <1>4

LEMMA PowerNext == ASSUME NEW j \in Nat, NEW k \in Nat, j < k PROVE 2 * 2^j <= 2^k
<1>1. PICK r \in Nat : r = k - j - 1
  OBVIOUS
<1>2. PICK a \in Nat \ {0} : a = 2^j
  <2>1. 2^j \in Nat \ {0}
    BY PowerType
  <2> QED
    BY <2>1
<1>3. PICK d \in Nat \ {0} : d = 2^r
  <2>1. 2^r \in Nat \ {0}
    BY PowerType
  <2> QED
    BY <2>1
<1>4. 2^1 = 2
  OBVIOUS
<1>5. 2^(1 + j) = 2 * a
  <2>1. 2^(1 + j) = 2^1 * 2^j
    BY PowerSum
  <2> QED
    BY <1>2, <1>4, <2>1
<1>6. 2^((1 + j) + r) = 2^(1 + j) * d
  BY <1>3, PowerSum
<1>7. (1 + j) + r = k
  BY <1>1
<1>8. 2^k = (2 * a) * d
  BY <1>5, <1>6, <1>7
<1>9. 2 * a <= (2 * a) * d
  OBVIOUS
<1> QED
  BY <1>2, <1>8, <1>9

\* A power of two that is large enough leaves one that is just large enough.
LEMMA PowerBetween ==
    ASSUME NEW n \in Nat \ {0}, NEW q \in Powers, n <= q
    PROVE  \E p \in Powers : n <= p /\ p < 2 * n /\ p <= q /\ p \in Nat \ {0}
<1>1. PICK k \in 0..30 : q = 2^k
  BY DEF Powers
<1> DEFINE Enough == {j \in 0..30 : n <= 2^j}
<1>2. Enough \subseteq Nat /\ k \in Enough
  BY <1>1
<1>3. PICK j \in Enough : \A i \in Enough : j <= i
  BY <1>2, LeastNatural
<1>4. j \in 0..30 /\ n <= 2^j /\ j <= k
  BY <1>2, <1>3
<1>5. PICK p \in Nat \ {0} : p = 2^j
  BY <1>4, PowerType
<1>6. p < 2 * n
  <2>1. CASE j = 0
    <3>1. 2^0 = 1
      OBVIOUS
    <3> QED
      BY <1>5, <2>1, <3>1
  <2>2. CASE j > 0
    <3>1. PICK i \in 0..30 : i = j - 1
      BY <1>4, <2>2
    <3>2. i \notin Enough
      <4> HIDE DEF Enough
      <4> QED
        BY <1>3, <3>1, <1>4
    <3>3. PICK r \in Nat \ {0} : r = 2^i
      BY <3>1, PowerType
    <3>4. ~(n <= r)
      BY <3>2, <3>3
    <3>5. 2^(i + 1) = 2^i * 2^1
      <4>1. PICK u \in Nat : u = 1
        OBVIOUS
      <4>2. 2^(i + u) = 2^i * 2^u
        BY <3>1, PowerSum
      <4> QED
        BY <4>1, <4>2
    <3>6. 2^1 = 2
      OBVIOUS
    <3>7. p = 2 * r
      <4>1. i + 1 = j
        BY <1>4, <3>1
      <4> QED
        BY <1>5, <3>3, <3>5, <3>6, <4>1
    <3> QED
      BY <3>4, <3>7
  <2> QED
    BY <1>4, <2>1, <2>2
<1>7. p <= q
  <2>1. CASE j = k
    BY <1>1, <1>5, <2>1
  <2>2. CASE j < k
    <3>1. 2 * 2^j <= 2^k
      BY <1>4, <2>2, PowerNext
    <3>2. PICK r \in Nat : r = 2^k
      BY <1>1, PowerType
    <3> QED
      BY <1>1, <1>5, <3>1, <3>2
  <2> QED
    BY <1>4, <2>1, <2>2
<1>8. p \in Powers
  BY <1>4, <1>5 DEF Powers
<1> QED
  BY <1>4, <1>5, <1>6, <1>7, <1>8

LEMMA NormalizeMonotone ==
    ASSUME NEW m \in 0..MaxInt, NEW n \in 0..MaxInt, m <= n
    PROVE  NormalizeCapacity(m) <= NormalizeCapacity(n)
<1>1. MaxInt \in Nat
  BY IoBufferAssumption
<1>2. NormalizeCapacity(m) \in 0..MaxInt /\ NormalizeCapacity(n) \in 0..MaxInt
  BY <1>1, NormalizeType
<1> DEFINE P(x, p) == p \in Powers /\ x <= p /\ p < 2 * x
<1>3. CASE m = 0
  <2>1. NormalizeCapacity(m) = 0
    BY <1>3 DEF NormalizeCapacity
  <2> QED
    BY <1>1, <1>2, <2>1
<1>4. CASE m # 0 /\ ~\E q \in 1..MaxInt : P(n, q)
  <2>1. NormalizeCapacity(n) = MaxInt
    BY <1>1, <1>4 DEF NormalizeCapacity
  <2> QED
    BY <1>1, <1>2, <2>1
<1>5. CASE m # 0 /\ \E q \in 1..MaxInt : P(n, q)
  <2>1. n # 0
    BY <1>1, <1>5
  <2>2. NormalizeCapacity(n) = CHOOSE q \in 1..MaxInt : P(n, q)
    BY <1>5, <2>1 DEF NormalizeCapacity
  <2>3. PICK q \in 1..MaxInt : q = NormalizeCapacity(n) /\ P(n, q)
    BY <1>5, <2>2
  <2>4. \E p \in Powers : m <= p /\ p < 2 * m /\ p <= q /\ p \in Nat \ {0}
    BY <1>1, <1>5, <2>3, PowerBetween
  <2>5. \E p \in 1..MaxInt : P(m, p)
    BY <1>1, <2>3, <2>4
  <2>6. NormalizeCapacity(m) = CHOOSE p \in 1..MaxInt : P(m, p)
    BY <1>5, <2>5 DEF NormalizeCapacity
  <2>7. PICK p \in 1..MaxInt : p = NormalizeCapacity(m) /\ P(m, p)
    BY <2>5, <2>6
  <2>8. PICK j \in 0..30, k \in 0..30 : p = 2^j /\ q = 2^k
    BY <2>3, <2>7 DEF Powers
  <2>9. CASE k < j
    <3>1. 2 * 2^k <= 2^j
      BY <2>8, <2>9, PowerNext
    <3>2. 2 * q <= p
      BY <2>8, <3>1
    <3> QED
      BY <1>1, <2>3, <2>7, <3>2
  <2>10. CASE j = k
    BY <1>1, <2>3, <2>7, <2>8, <2>10
  <2>11. CASE j < k
    <3>1. 2 * 2^j <= 2^k
      BY <2>8, <2>11, PowerNext
    <3>2. 2 * p <= q
      BY <2>8, <3>1
    <3> QED
      BY <1>1, <2>3, <2>7, <3>2
  <2> QED
    BY <2>8, <2>9, <2>10, <2>11
<1> QED
  BY <1>3, <1>4, <1>5

\* New memory, with the bytes below l.
LEMMA ReplacedEffect ==
    ASSUME NEW b \in BufferSet, Sound(b), NEW n \in Int, NEW l \in Int,
           0 <= l, l <= n, n <= MaxInt
    PROVE  /\ Replaced(b, n, 0, l) \in BufferSet /\ Sound(Replaced(b, n, 0, l))
           /\ Frame(b, Replaced(b, n, 0, l))
           /\ Replaced(b, n, 0, l).pos = l /\ Replaced(b, n, 0, l).mark = -1
           /\ Replaced(b, n, 0, l).limit = n /\ Replaced(b, n, 0, l).cap = n
           /\ Replaced(b, n, 0, l).error = b.error
           /\ b.spot \in 0..(l - 1) => Replaced(b, n, 0, l).spot = b.spot
           /\ Replaced(b, n, 0, l).spot \in {b.spot, NoByte}
<1>1. PICK s \in Int : /\ s = IF b.spot \in 0..(l - 1) THEN b.spot - 0 ELSE NoByte
                       /\ s \in {b.spot, NoByte} /\ (b.spot \in 0..(l - 1) => s = b.spot)
  <2>1. b.spot \in Int /\ b.spot - 0 = b.spot /\ NoByte \in Int
    BY DEF BufferSet, NoByte
  <2> QED
    BY <2>1
<1>2. PICK m \in {0, 1} : m = 1 - b.mem
  BY DEF BufferSet
<1>3. PICK p \in Int : p = l - 0 /\ p = l
  OBVIOUS
<1> PICK k \in Int : k = -1
  OBVIOUS
<1>4. Replaced(b, n, 0, l) = [b EXCEPT !.mem = m, !.cap = n, !.limit = n, !.pos = p,
                                       !.mark = k, !.spot = s]
  BY <1>1, <1>2, <1>3 DEF Replaced
<1>5. PICK c \in BufferSet : c = [b EXCEPT !.mem = m, !.cap = n, !.limit = n, !.pos = p,
                                           !.mark = k, !.spot = s]
  BY DEF BufferSet
<1>6. /\ c.pos = l /\ c.limit = n /\ c.cap = n /\ c.mark = -1 /\ c.min = b.min
      /\ c.expand = b.expand /\ c.recap = b.recap /\ c.mem = m /\ c.spot = s
      /\ c.shared = b.shared /\ c.derived = b.derived /\ c.error = b.error
  BY <1>3, <1>5 DEF BufferSet
<1>7. Sound(c)
  BY <1>6 DEF Sound
<1>8. Frame(b, c)
  BY <1>6 DEF Frame
<1> QED
  BY <1>1, <1>4, <1>5, <1>6, <1>7, <1>8

\* More room, and everything where it was.
Grown(b, c) ==
    /\ Frame(b, c) /\ c.error = b.error
    /\ c.pos = b.pos /\ c.mark = b.mark /\ b.limit <= c.limit /\ b.cap <= c.cap
    /\ c.mem # b.mem => b.recap
    /\ b.spot \in 0..(b.cap - 1) => c.spot = b.spot
    /\ c.spot \in {b.spot, NoByte}

LEMMA GrownItself == ASSUME NEW b \in BufferSet PROVE Grown(b, b)
BY DEF BufferSet, Grown, Frame

LEMMA SetCapacityEffect ==
    ASSUME NEW b \in BufferSet, Sound(b), Ok(b), b.recap, NEW n \in Int, b.cap < n, n <= MaxInt
    PROVE  /\ SetCapacity(b, n) \in BufferSet /\ Sound(SetCapacity(b, n))
           /\ Grown(b, SetCapacity(b, n))
           /\ SetCapacity(b, n).cap = n /\ SetCapacity(b, n).limit = b.limit
<1>1. /\ b.pos \in Int /\ b.limit \in Int /\ b.cap \in Int /\ b.mark \in Int
      /\ 0 <= b.pos /\ b.pos <= b.limit /\ b.limit <= b.cap /\ -1 <= b.mark /\ b.mark <= b.pos
  BY DEF Sound, BufferSet
<1>2. PICK c0 \in BufferSet : c0 = Replaced(b, n, 0, b.cap)
  BY <1>1, ReplacedEffect
<1>3. /\ Sound(c0) /\ Frame(b, c0) /\ c0.pos = b.cap /\ c0.mark = -1 /\ c0.limit = n
      /\ c0.cap = n /\ c0.error = b.error
      /\ (b.spot \in 0..(b.cap - 1) => c0.spot = b.spot) /\ c0.spot \in {b.spot, NoByte}
  BY <1>1, <1>2, ReplacedEffect
<1>4. Ok(c0) /\ b.limit \in 0..c0.cap
  BY <1>1, <1>3 DEF Ok
<1>5. PICK c1 \in BufferSet : c1 = SetLimit(c0, b.limit)
  BY <1>1, <1>3, SetLimitEffect
<1>6. /\ Sound(c1) /\ Moved(c0, c1) /\ c1.limit = b.limit /\ c1.pos = b.limit /\ Ok(c1)
      /\ c1.mark = -1
  <2>1. /\ Sound(c1) /\ Moved(c0, c1) /\ c1.limit = b.limit /\ c1.pos = Smaller(c0.pos, b.limit)
        /\ Ok(c1) /\ (c0.mark <= b.limit => c1.mark = c0.mark)
    BY <1>1, <1>3, <1>4, <1>5, SetLimitEffect
  <2>2. Smaller(b.cap, b.limit) = b.limit
    BY <1>1 DEF Smaller
  <2> QED
    BY <1>1, <1>3, <2>1, <2>2
<1>7. PICK c3 \in BufferSet :
        /\ Sound(c3) /\ Moved(c0, c3) /\ c3.limit = b.limit /\ Ok(c3) /\ c3.mark = b.mark
        /\ c3 = IF b.mark >= 0 THEN [SetPosition(c1, b.mark) EXCEPT !.mark = b.mark] ELSE c1
  <2>1. CASE b.mark >= 0
    <3>1. Ok(c1) /\ b.mark \in 0..c1.limit
      BY <1>1, <1>6, <2>1
    <3>2. PICK c2 \in BufferSet : c2 = SetPosition(c1, b.mark)
      BY <1>1, <1>6, SetPositionEffect
    <3>3. /\ Sound(c2) /\ Moved(c1, c2) /\ c2.limit = c1.limit /\ c2.pos = b.mark /\ Ok(c2)
      BY <1>1, <1>6, <3>1, <3>2, SetPositionEffect
    <3>4. PICK c3 \in BufferSet : c3 = [c2 EXCEPT !.mark = b.mark]
      BY DEF BufferSet
    <3>5. /\ c3.pos = c2.pos /\ c3.limit = c2.limit /\ c3.cap = c2.cap /\ c3.mark = b.mark
          /\ c3.min = c2.min /\ c3.expand = c2.expand /\ c3.recap = c2.recap /\ c3.mem = c2.mem
          /\ c3.spot = c2.spot /\ c3.shared = c2.shared /\ c3.derived = c2.derived
          /\ c3.error = c2.error
      BY <3>4 DEF BufferSet
    <3>6. Sound(c3)
      BY <1>1, <3>3, <3>5 DEF Sound
    <3>7. Moved(c0, c3)
      BY <1>6, <3>3, <3>5 DEF Moved, Frame
    <3>8. Ok(c3)
      BY <3>3, <3>5 DEF Ok
    <3> QED
      BY <1>6, <2>1, <3>2, <3>3, <3>4, <3>5, <3>6, <3>7, <3>8
  <2>2. CASE ~(b.mark >= 0)
    BY <1>1, <1>6, <2>2
  <2> QED
    BY <2>1, <2>2
<1>8. PICK c \in BufferSet : c = SetPosition(c3, b.pos)
  BY <1>1, <1>7, SetPositionEffect
<1>9. /\ Sound(c) /\ Moved(c3, c) /\ c.limit = b.limit /\ c.pos = b.pos /\ Ok(c)
      /\ c.mark = b.mark
  <2>1. Ok(c3) /\ b.pos \in 0..c3.limit /\ c3.mark <= b.pos
    BY <1>1, <1>7
  <2> QED
    BY <1>1, <1>7, <1>8, <2>1, SetPositionEffect
<1>10. c = SetCapacity(b, n)
  BY <1>1, <1>2, <1>5, <1>7, <1>8 DEF SetCapacity
<1>11. c.cap = n /\ c.spot = c0.spot /\ Frame(b, c)
  BY <1>3, <1>7, <1>9 DEF Moved, Frame
<1>12. Grown(b, c)
  BY <1>1, <1>3, <1>9, <1>11 DEF Grown, Ok
<1> QED
  BY <1>9, <1>10, <1>11, <1>12

LEMMA Int32Value ==
    ASSUME NEW x \in Nat, x <= 2 * MaxInt + 1
    PROVE  /\ Int32(x) \in Int /\ Int32(x) <= MaxInt
           /\ x <= MaxInt => Int32(x) = x
           /\ x > MaxInt => Int32(x) < 0
<1>1. MaxInt \in Nat
  BY IoBufferAssumption
<1>2. CASE x <= MaxInt
  BY <1>1, <1>2 DEF Int32
<1>3. CASE x > MaxInt
  <2>1. Int32(x) = x - 2 * (MaxInt + 1)
    BY <1>3 DEF Int32
  <2> QED
    BY <1>1, <1>3, <2>1
<1> QED
  BY <1>1, <1>2, <1>3

\* There is room up to this end, and the capacity is as large as it would be made for it.
RoomUpTo(b, end) == 0 <= end => end <= b.limit
CapacityFor(b, end) == NormalizeCapacity(end) <= b.cap

LEMMA ExpandEffect ==
    ASSUME NEW b \in BufferSet, Sound(b), Ok(b), b.recap, NEW p \in Nat, NEW n \in Nat,
           p + n <= 2 * MaxInt + 1, NEW auto \in BOOLEAN
    PROVE  /\ Expand(b, p, n, auto) \in BufferSet /\ Sound(Expand(b, p, n, auto))
           /\ Grown(b, Expand(b, p, n, auto))
           /\ RoomUpTo(Expand(b, p, n, auto), Int32(p + n))
           /\ auto => CapacityFor(Expand(b, p, n, auto), Int32(p + n))
<1>0. MaxInt \in Nat
  BY IoBufferAssumption
<1>1. PICK end \in Int : end = Int32(p + n) /\ end <= MaxInt
  BY Int32Value
<1>2. PICK k \in Int : /\ k = IF auto THEN NormalizeCapacity(end) ELSE end
                       /\ k <= MaxInt /\ end <= k
  BY <1>0, <1>1, NormalizeType
<1>3. /\ b.pos \in Int /\ b.limit \in Int /\ b.cap \in Int /\ b.mark \in Int
      /\ 0 <= b.pos /\ b.pos <= b.limit /\ b.limit <= b.cap /\ -1 <= b.mark /\ b.mark <= b.pos
  BY DEF Sound, BufferSet
<1>4. PICK b2 \in BufferSet : /\ b2 = IF k > b.cap THEN SetCapacity(b, k) ELSE b
                              /\ Sound(b2) /\ Grown(b, b2) /\ b2.limit = b.limit /\ k <= b2.cap
  <2>1. CASE k > b.cap
    <3>1. b.cap < k
      BY <1>3, <2>1
    <3>2. /\ SetCapacity(b, k) \in BufferSet /\ Sound(SetCapacity(b, k))
          /\ Grown(b, SetCapacity(b, k))
          /\ SetCapacity(b, k).cap = k /\ SetCapacity(b, k).limit = b.limit
      BY <1>2, <3>1, SetCapacityEffect
    <3> QED
      BY <1>2, <2>1, <3>2
  <2>2. CASE ~(k > b.cap)
    <3>1. Grown(b, b)
      BY GrownItself
    <3> QED
      BY <1>3, <2>2, <3>1
  <2> QED
    BY <2>1, <2>2
<1>5. Expand(b, p, n, auto) = IF end > b2.limit THEN SetLimit(b2, end) ELSE b2
  BY <1>1, <1>2, <1>4 DEF Expand
<1>6. CASE end > b2.limit
  <2>1. PICK c \in BufferSet : c = SetLimit(b2, end)
    BY <1>4, SetLimitEffect
  <2>2. Ok(b2) /\ end \in 0..b2.cap /\ b2.pos = b.pos /\ b2.mark = b.mark /\ b2.mark <= end
        /\ b2.cap \in Int
    <3>1. b2.pos = b.pos /\ b2.mark = b.mark /\ b2.error = b.error /\ b2.cap \in Int
      BY <1>4 DEF Grown, BufferSet
    <3>2. b.limit < end /\ end <= k /\ k <= b2.cap
      BY <1>2, <1>3, <1>4, <1>6
    <3>3. 0 <= end /\ end <= b2.cap /\ b.mark <= end
      BY <1>3, <3>1, <3>2
    <3> QED
      BY <3>1, <3>3 DEF Ok
  <2>3. Smaller(b.pos, end) = b.pos
    <3>1. b.pos < end
      BY <1>3, <1>4, <1>6
    <3> QED
      BY <3>1 DEF Smaller
  <2>4. /\ Sound(c) /\ Moved(b2, c) /\ c.limit = end /\ c.pos = b.pos /\ c.mark = b.mark
        /\ c.error = b.error
    <3>1. /\ Sound(c) /\ Moved(b2, c) /\ c.limit = end /\ c.pos = Smaller(b2.pos, end)
          /\ c.mark = b2.mark /\ Ok(c)
      BY <1>4, <2>1, <2>2, SetLimitEffect
    <3> QED
      BY <2>2, <2>3, <3>1 DEF Ok
  <2>5. b.limit <= c.limit
    BY <1>3, <1>4, <1>6, <2>4
  <2>6. Grown(b, c)
    BY <1>4, <2>4, <2>5 DEF Grown, Moved, Frame
  <2>7. RoomUpTo(c, end)
    BY <2>4 DEF RoomUpTo
  <2>8. auto => CapacityFor(c, end)
    BY <1>2, <1>4, <2>4 DEF CapacityFor, Moved
  <2> QED
    BY <1>1, <1>5, <1>6, <2>1, <2>4, <2>6, <2>7, <2>8
<1>7. CASE ~(end > b2.limit)
  <2>1. RoomUpTo(b2, end)
    BY <1>3, <1>4, <1>7 DEF RoomUpTo
  <2>2. auto => CapacityFor(b2, end)
    BY <1>2, <1>4 DEF CapacityFor
  <2> QED
    BY <1>1, <1>4, <1>5, <1>7, <2>1, <2>2
<1> QED
  BY <1>6, <1>7

\* After autoExpand(): it grows only as it may, and then there is room.
Roomy(b, end) == b.expand /\ b.recap => RoomUpTo(b, end) /\ CapacityFor(b, end)

LEMMA AutoExpandEffect ==
    ASSUME NEW b \in BufferSet, Sound(b), Ok(b), NEW p \in Nat, NEW n \in Nat,
           p + n <= 2 * MaxInt + 1
    PROVE  /\ AutoExpand(b, p, n) \in BufferSet /\ Sound(AutoExpand(b, p, n))
           /\ Grown(b, AutoExpand(b, p, n)) /\ Ok(AutoExpand(b, p, n))
           /\ Roomy(AutoExpand(b, p, n), Int32(p + n))
<1>1. CASE b.expand /\ b.recap
  <2>1. AutoExpand(b, p, n) = Expand(b, p, n, TRUE)
    BY <1>1 DEF AutoExpand
  <2>2. PICK auto \in BOOLEAN : auto = TRUE
    OBVIOUS
  <2>3. /\ Expand(b, p, n, auto) \in BufferSet /\ Sound(Expand(b, p, n, auto))
        /\ Grown(b, Expand(b, p, n, auto))
        /\ RoomUpTo(Expand(b, p, n, auto), Int32(p + n))
        /\ auto => CapacityFor(Expand(b, p, n, auto), Int32(p + n))
    BY <1>1, ExpandEffect
  <2>4. Ok(Expand(b, p, n, auto))
    BY <2>3 DEF Grown, Ok
  <2> QED
    BY <2>1, <2>2, <2>3, <2>4 DEF Roomy
<1>2. CASE ~(b.expand /\ b.recap)
  BY <1>2, GrownItself DEF AutoExpand, Roomy
<1> QED
  BY <1>1, <1>2

\* Where there is room already, autoExpand() does nothing.
LEMMA AutoExpandAgain ==
    ASSUME NEW b \in BufferSet, Sound(b), Ok(b), NEW p \in Nat, NEW n \in Nat,
           p + n <= 2 * MaxInt + 1, Roomy(b, Int32(p + n))
    PROVE  AutoExpand(b, p, n) = b
<1>1. PICK end \in Int : end = Int32(p + n) /\ end <= MaxInt
  BY Int32Value
<1>2. CASE b.expand /\ b.recap
  <2>1. RoomUpTo(b, end) /\ CapacityFor(b, end)
    BY <1>1, <1>2 DEF Roomy
  <2>2. /\ NormalizeCapacity(end) \in 0..MaxInt /\ b.cap \in Int /\ b.limit \in Int
        /\ 0 <= b.limit
    BY <1>1, NormalizeType DEF Sound, BufferSet
  <2>3. ~(NormalizeCapacity(end) > b.cap)
    BY <2>1, <2>2, IoBufferAssumption DEF CapacityFor
  <2>4. ~(end > b.limit)
    BY <2>1, <2>2 DEF RoomUpTo
  <2> QED
    BY <1>1, <1>2, <2>3, <2>4 DEF AutoExpand, Expand
<1>3. CASE ~(b.expand /\ b.recap)
  BY <1>3 DEF AutoExpand
<1> QED
  BY <1>2, <1>3

\* Room for more is room for less.
LEMMA RoomyForLess ==
    ASSUME NEW b \in BufferSet, Sound(b), NEW x \in Nat, NEW y \in Nat, x <= y,
           y <= 2 * MaxInt + 1, x <= b.limit, Roomy(b, Int32(y))
    PROVE  Roomy(b, Int32(x))
<1>0. MaxInt \in Nat
  BY IoBufferAssumption
<1>1. b.limit \in Int /\ b.cap \in Int /\ b.limit <= b.cap /\ b.cap <= MaxInt
  BY DEF Sound, BufferSet
<1>2. Int32(x) = x /\ x \in 0..MaxInt
  BY <1>0, <1>1, Int32Value
<1>3. NormalizeCapacity(x) \in 0..MaxInt
  BY <1>0, <1>2, NormalizeType
<1>4. CASE y <= MaxInt
  <2>1. Int32(y) = y /\ y \in 0..MaxInt
    BY <1>0, <1>4, Int32Value
  <2>2. NormalizeCapacity(x) <= NormalizeCapacity(y) /\ NormalizeCapacity(y) \in 0..MaxInt
    BY <1>0, <1>2, <2>1, NormalizeMonotone, NormalizeType
  <2>3. NormalizeCapacity(y) <= b.cap => NormalizeCapacity(x) <= b.cap
    BY <1>0, <1>1, <1>3, <2>2
  <2> QED
    BY <1>1, <1>2, <2>1, <2>3 DEF Roomy, RoomUpTo, CapacityFor
<1>5. CASE y > MaxInt
  <2>1. Int32(y) < 0 /\ Int32(y) \in Int
    BY <1>5, Int32Value
  <2>2. NormalizeCapacity(Int32(y)) = MaxInt
    BY <1>0, <2>1, NormalizeType
  <2>3. NormalizeCapacity(Int32(y)) <= b.cap => NormalizeCapacity(x) <= b.cap
    BY <1>0, <1>1, <1>3, <2>2
  <2> QED
    BY <1>1, <1>2, <2>3 DEF Roomy, RoomUpTo, CapacityFor
<1> QED
  BY <1>0, <1>4, <1>5

(***************************************************************************)
(* What a call leaves of a buffer, the slices it gives away left aside.    *)
(***************************************************************************)
Kept(b, c) ==
    /\ c \in BufferSet /\ Sound(c) /\ c.derived = b.derived
    /\ c.mem # b.mem =>
          b.recap /\ (b.spot \in 0..(b.limit - 1) => c.spot \in {b.spot, Overwritten})
    /\ b.expand /\ b.recap /\ c.error = "overflow" => c.cap = MaxInt

\* Calls make room first, and then write or move.
LEMMA KeptWhenGrown ==
    ASSUME NEW b \in BufferSet, Sound(b), NEW a \in BufferSet, Grown(b, a),
           NEW c \in BufferSet, Sound(c), NEW m, Markable(b, m), Written(a, c, m),
           c.mem = a.mem, c.derived = a.derived,
           b.expand /\ b.recap /\ c.error = "overflow" => c.cap = MaxInt
    PROVE  Kept(b, c)
<1>1. ASSUME b.spot \in 0..(b.limit - 1)
      PROVE  c.spot \in {b.spot, Overwritten}
  <2>1. b.spot \in Int /\ b.limit \in Int /\ b.cap \in Int /\ b.limit <= b.cap
    BY DEF Sound, BufferSet
  <2>2. b.spot \in 0..(b.cap - 1) /\ ~(b.spot < 0)
    BY <1>1, <2>1
  <2>3. a.spot = b.spot
    BY <2>2 DEF Grown
  <2> QED
    BY <2>2, <2>3 DEF Written
<1>2. c.derived = b.derived /\ (c.mem # b.mem => b.recap)
  BY DEF Grown, Frame
<1> QED
  BY <1>1, <1>2 DEF Kept

\* Calls that stay in the memory.
LEMMA KeptInPlace ==
    ASSUME NEW b, NEW c \in BufferSet, Sound(c), c.mem = b.mem, c.derived = b.derived,
           c.error # "overflow"
    PROVE  Kept(b, c)
BY DEF Kept

LEMMA ErrorKinds == /\ "none" # "overflow" /\ "argument" # "overflow" /\ "state" # "overflow"
                    /\ "underflow" # "overflow" /\ "mark" # "overflow"
OBVIOUS

LEMMA FailsKept ==
    ASSUME NEW b \in BufferSet, Sound(b), NEW why \in Errors, why # "overflow"
    PROVE  Kept(b, Fails(b, why))
BY FailsEffect, KeptInPlace DEF Moved, Frame

LEMMA SetPositionKept ==
    ASSUME NEW b \in BufferSet, Sound(b), Ok(b), NEW p \in Int
    PROVE  Kept(b, SetPosition(b, p))
<1>1. PICK c \in BufferSet : c = SetPosition(b, p)
  BY SetPositionEffect
<1>2. Sound(c) /\ Moved(b, c) /\ c.error \in {"none", "argument"}
  BY <1>1, SetPositionEffect DEF Ok
<1> QED
  BY <1>1, <1>2, KeptInPlace, ErrorKinds DEF Moved, Frame

LEMMA PositionKept ==
    ASSUME NEW b \in BufferSet, Sound(b), Ok(b), NEW p \in Nat, p <= MaxInt
    PROVE  Kept(b, Position(b, p)) 
<1>1. MaxInt \in Nat /\ p + 0 <= 2 * MaxInt + 1
  BY IoBufferAssumption
<1>2. PICK a \in BufferSet : a = AutoExpand(b, p, 0) /\ Sound(a) /\ Grown(b, a) /\ Ok(a)
  BY <1>1, AutoExpandEffect
<1>3. PICK c \in BufferSet : c = SetPosition(a, p)
  BY <1>2, SetPositionEffect
<1>4. Sound(c) /\ Moved(a, c) /\ c.error \in {"none", "argument"}
  BY <1>2, <1>3, SetPositionEffect DEF Ok
<1>5. Written(a, c, NoByte) /\ Markable(b, NoByte)
  BY <1>4 DEF Written, Markable, Moved
<1>6. Kept(b, c)
  BY <1>2, <1>4, <1>5, KeptWhenGrown, ErrorKinds DEF Moved, Frame
<1> QED
  BY <1>2, <1>3, <1>6 DEF Position

LEMMA LimitKept ==
    ASSUME NEW b \in BufferSet, Sound(b), Ok(b), NEW l \in Nat, l <= MaxInt
    PROVE  Kept(b, Limit(b, l))
<1>1. MaxInt \in Nat /\ l + 0 <= 2 * MaxInt + 1
  BY IoBufferAssumption
<1>2. PICK a \in BufferSet : a = AutoExpand(b, l, 0) /\ Sound(a) /\ Grown(b, a) /\ Ok(a)
  BY <1>1, AutoExpandEffect
<1>3. PICK c \in BufferSet : c = SetLimit(a, l)
  BY <1>2, SetLimitEffect
<1>4. Sound(c) /\ Moved(a, c) /\ c.error \in {"none", "argument"}
  BY <1>2, <1>3, SetLimitEffect DEF Ok
<1>5. Written(a, c, NoByte) /\ Markable(b, NoByte)
  BY <1>4 DEF Written, Markable, Moved
<1>6. Kept(b, c)
  BY <1>2, <1>4, <1>5, KeptWhenGrown, ErrorKinds DEF Moved, Frame
<1> QED
  BY <1>2, <1>3, <1>6 DEF Limit

\* What was made room for in front of the position.
LEMMA RoomAhead ==
    ASSUME NEW b \in BufferSet, Sound(b), Ok(b), NEW n \in Nat, n <= MaxInt + 1
    PROVE  \E a \in BufferSet :
              /\ a = AutoExpand(b, b.pos, n) /\ Sound(a) /\ Grown(b, a) /\ Ok(a)
              /\ a.pos = b.pos /\ b.pos \in Nat /\ b.pos + n \in Nat
              /\ b.pos + n <= 2 * MaxInt + 1
              /\ Roomy(a, Int32(b.pos + n))
<1>1. MaxInt \in Nat
  BY IoBufferAssumption
<1>2. PICK p \in Nat : p = b.pos /\ p <= MaxInt
  BY <1>1 DEF Sound, BufferSet
<1>3. p + n <= 2 * MaxInt + 1
  BY <1>1, <1>2
<1>4. PICK a \in BufferSet : /\ a = AutoExpand(b, p, n) /\ Sound(a) /\ Grown(b, a) /\ Ok(a)
                             /\ Roomy(a, Int32(p + n))
  BY <1>3, AutoExpandEffect
<1> QED
  BY <1>2, <1>3, <1>4 DEF Grown

LEMMA SkipKept ==
    ASSUME NEW b \in BufferSet, Sound(b), Ok(b), NEW n \in Nat, n <= MaxInt + 1
    PROVE  Kept(b, Skip(b, n))
<1>1. PICK a \in BufferSet :
              /\ a = AutoExpand(b, b.pos, n) /\ Sound(a) /\ Grown(b, a) /\ Ok(a)
              /\ a.pos = b.pos /\ b.pos \in Nat /\ b.pos + n \in Nat
              /\ b.pos + n <= 2 * MaxInt + 1
              /\ Roomy(a, Int32(b.pos + n))
  BY RoomAhead
<1>2. PICK p \in Nat : p = b.pos + n
  BY <1>1
<1>3. p + 0 <= 2 * MaxInt + 1 /\ p + 0 = p
  BY <1>1, <1>2
<1>4. AutoExpand(a, p, 0) = a
  BY <1>1, <1>2, <1>3, AutoExpandAgain
<1>5. PICK c \in BufferSet : c = SetPosition(a, p)
  BY <1>1, SetPositionEffect
<1>6. Sound(c) /\ Moved(a, c) /\ c.error \in {"none", "argument"}
  <2>1. Sound(a) /\ Ok(a) /\ p \in Int
    BY <1>1, <1>2
  <2> QED
    BY <1>5, <2>1, SetPositionEffect DEF Ok
<1>7. Written(a, c, NoByte) /\ Markable(b, NoByte)
  BY <1>6 DEF Written, Markable, Moved
<1>8. Kept(b, c)
  BY <1>1, <1>6, <1>7, KeptWhenGrown, ErrorKinds DEF Moved, Frame
<1> QED
  BY <1>1, <1>2, <1>4, <1>5, <1>8 DEF Skip, Position

\* clear(), mark(), reset(), flip(), rewind() and compact() move within the buffer.
LEMMA ClearEffect ==
    ASSUME NEW b \in BufferSet, Sound(b), Ok(b)
    PROVE  /\ Clear(b) \in BufferSet /\ Sound(Clear(b)) /\ Moved(b, Clear(b)) /\ Ok(Clear(b))
           /\ Clear(b).limit = b.cap /\ Clear(b).pos = 0
<1>0. PICK z \in Int, k \in Int, l \in Int : z = 0 /\ k = -1 /\ l = b.cap
  BY DEF BufferSet
<1>1. Clear(b) = [b EXCEPT !.pos = z, !.limit = l, !.mark = k]
  BY <1>0 DEF Clear
<1>2. PICK c \in BufferSet : c = [b EXCEPT !.pos = z, !.limit = l, !.mark = k]
  BY DEF BufferSet
<1>3. /\ c.pos = 0 /\ c.limit = b.cap /\ c.cap = b.cap /\ c.mark = -1 /\ c.min = b.min
      /\ c.expand = b.expand /\ c.recap = b.recap /\ c.mem = b.mem /\ c.spot = b.spot
      /\ c.shared = b.shared /\ c.derived = b.derived /\ c.error = b.error
  BY <1>0, <1>2 DEF BufferSet
<1>4. 0 <= b.cap
  <2>1. b.pos \in Int /\ b.limit \in Int /\ b.cap \in Int
    BY DEF BufferSet
  <2>2. 0 <= b.pos /\ b.pos <= b.limit /\ b.limit <= b.cap
    BY DEF Sound
  <2> QED
    BY <2>1, <2>2
<1>5. Sound(c)
  <2>1. b.cap <= MaxInt /\ 0 <= b.min /\ b.min <= MaxInt /\ (b.shared => ~b.recap)
    BY DEF Sound
  <2>2. b.cap <= b.cap /\ 0 <= 0 /\ -1 <= -1 /\ -1 <= 0
    BY DEF BufferSet
  <2> QED
    BY <1>2, <1>3, <1>4, <2>1, <2>2 DEF Sound
<1>6. Moved(b, c) /\ Ok(c)
  BY <1>3 DEF Moved, Frame, Ok
<1> QED
  BY <1>1, <1>2, <1>3, <1>5, <1>6

LEMMA RearrangedKept ==
    ASSUME NEW b \in BufferSet, Sound(b), Ok(b),
           NEW p \in Int, NEW l \in Int, NEW m \in Int, NEW s \in Int,
           0 <= p, p <= l, l <= b.cap, -1 <= m, m <= p,
           NEW c, c = [b EXCEPT !.pos = p, !.limit = l, !.mark = m, !.spot = s]
    PROVE  Kept(b, c)
<1>1. c \in BufferSet
  BY DEF BufferSet
<1>2. /\ c.pos = p /\ c.limit = l /\ c.cap = b.cap /\ c.mark = m /\ c.min = b.min
      /\ c.expand = b.expand /\ c.recap = b.recap /\ c.mem = b.mem
      /\ c.shared = b.shared /\ c.derived = b.derived /\ c.error = "none"
  BY DEF BufferSet, Ok
<1>3. b.cap <= MaxInt /\ 0 <= b.min /\ b.min <= MaxInt /\ (b.shared => ~b.recap)
  BY DEF Sound
<1>4. Sound(c)
  BY <1>1, <1>2, <1>3 DEF Sound
<1> QED
  BY <1>1, <1>2, <1>4, KeptInPlace, ErrorKinds

LEMMA MovesKept ==
    ASSUME NEW b \in BufferSet, Sound(b), Ok(b)
    PROVE  /\ Kept(b, Clear(b)) /\ Kept(b, Mark(b)) /\ Kept(b, Reset(b)) /\ Kept(b, Flip(b))
           /\ Kept(b, Rewind(b)) /\ Kept(b, Compact(b))
<1> PICK k \in Int : k = -1
  OBVIOUS
<1> PICK z \in Int : z = 0
  OBVIOUS
<1>1. /\ b.pos \in Int /\ b.limit \in Int /\ b.cap \in Int /\ b.mark \in Int /\ b.spot \in Int
      /\ 0 <= b.pos /\ b.pos <= b.limit /\ b.limit <= b.cap /\ -1 <= b.mark /\ b.mark <= b.pos
  BY DEF Sound, BufferSet
<1>3. Kept(b, Clear(b))
  BY ClearEffect, KeptInPlace, ErrorKinds DEF Moved, Frame, Ok
<1>4. Kept(b, Mark(b))
  <2>1. Mark(b) = [b EXCEPT !.pos = b.pos, !.limit = b.limit, !.mark = b.pos, !.spot = b.spot]
    BY DEF Mark, BufferSet
  <2>2. -1 <= b.pos /\ b.pos <= b.pos
    BY <1>1
  <2> QED
    BY <1>1, <2>1, <2>2, RearrangedKept
<1>5. Kept(b, Reset(b))
  <2>1. CASE b.mark < 0
    <3>1. PICK why \in Errors : why = "mark"
      BY DEF Errors
    <3>2. Reset(b) = Fails(b, why)
      BY <2>1, <3>1 DEF Reset
    <3> QED
      BY <3>1, <3>2, FailsKept, ErrorKinds
  <2>2. CASE ~(b.mark < 0)
    <3>1. Reset(b) = [b EXCEPT !.pos = b.mark, !.limit = b.limit, !.mark = b.mark, !.spot = b.spot]
      BY <2>2 DEF Reset, BufferSet
    <3>2. 0 <= b.mark /\ b.mark <= b.limit
      BY <1>1, <2>2
    <3>3. b.mark <= b.mark
      BY <1>1
    <3> QED
      BY <1>1, <3>1, <3>2, <3>3, RearrangedKept
  <2> QED
    BY <2>1, <2>2
<1>6. Kept(b, Flip(b))
  <2>1. Flip(b) = [b EXCEPT !.pos = z, !.limit = b.pos, !.mark = k, !.spot = b.spot]
    BY DEF Flip, BufferSet
  <2>2. 0 <= z /\ z <= b.pos /\ b.pos <= b.cap /\ -1 <= k /\ k <= z
    BY <1>1
  <2> QED
    BY <1>1, <2>1, <2>2, RearrangedKept
<1>7. Kept(b, Rewind(b))
  <2>1. Rewind(b) = [b EXCEPT !.pos = z, !.limit = b.limit, !.mark = k, !.spot = b.spot]
    BY DEF Rewind, BufferSet
  <2>2. 0 <= z /\ z <= b.limit /\ -1 <= k /\ k <= z
    BY <1>1
  <2> QED
    BY <1>1, <2>1, <2>2, RearrangedKept
<1>8. Kept(b, Compact(b))
  <2>1. PICK n \in Int : n = b.limit - b.pos
    BY <1>1
  <2>2. PICK s \in Int : s = IF b.spot \in b.pos..(b.limit - 1) THEN b.spot - b.pos
                             ELSE IF b.spot \in 0..(n - 1) THEN Overwritten ELSE b.spot
    BY <1>1 DEF Overwritten
  <2>3. Compact(b) = [b EXCEPT !.pos = n, !.limit = b.cap, !.mark = k, !.spot = s]
    BY <2>1, <2>2 DEF Compact
  <2>4. 0 <= n /\ n <= b.cap /\ -1 <= k /\ k <= n /\ b.cap <= b.cap
    BY <1>1, <2>1
  <2> QED
    BY <1>1, <2>1, <2>3, <2>4, RearrangedKept
<1> QED
  BY <1>3, <1>4, <1>5, <1>6, <1>7, <1>8

LEMMA SettingsKept ==
    ASSUME NEW b \in BufferSet, Sound(b), Ok(b)
    PROVE  /\ \A flag \in BOOLEAN : Kept(b, [b EXCEPT !.expand = flag])
           /\ \A n \in 0..MaxInt : Kept(b, [b EXCEPT !.min = n])
<1>1. ASSUME NEW flag \in BOOLEAN
      PROVE  Kept(b, [b EXCEPT !.expand = flag])
  <2>1. PICK c \in BufferSet : c = [b EXCEPT !.expand = flag]
    BY DEF BufferSet
  <2>2. /\ c.pos = b.pos /\ c.limit = b.limit /\ c.cap = b.cap /\ c.mark = b.mark
        /\ c.min = b.min /\ c.recap = b.recap /\ c.mem = b.mem
        /\ c.shared = b.shared /\ c.derived = b.derived /\ c.error = "none"
    BY <2>1 DEF BufferSet, Ok
  <2>3. Sound(c)
    BY <2>2 DEF Sound
  <2> QED
    BY <2>1, <2>2, <2>3, KeptInPlace, ErrorKinds
<1>2. ASSUME NEW n \in 0..MaxInt
      PROVE  Kept(b, [b EXCEPT !.min = n])
  <2>0. MaxInt \in Nat /\ n \in Int /\ 0 <= n /\ n <= MaxInt
    BY IoBufferAssumption
  <2>1. PICK c \in BufferSet : c = [b EXCEPT !.min = n]
    BY <2>0 DEF BufferSet
  <2>2. /\ c.pos = b.pos /\ c.limit = b.limit /\ c.cap = b.cap /\ c.mark = b.mark
        /\ c.min = n /\ c.recap = b.recap /\ c.mem = b.mem
        /\ c.shared = b.shared /\ c.derived = b.derived /\ c.error = "none"
    BY <2>1 DEF BufferSet, Ok
  <2>3. Sound(c)
    BY <2>0, <2>2 DEF Sound
  <2> QED
    BY <2>1, <2>2, <2>3, KeptInPlace, ErrorKinds
<1> QED
  BY <1>1, <1>2

\* A buffer that expands lacks room only if it is as large as can be.
LEMMA RoomyOrLargest ==
    ASSUME NEW b \in BufferSet, Sound(b), b.expand, b.recap, NEW x \in Nat,
           x <= 2 * MaxInt + 1, Roomy(b, Int32(x)), ~(x <= b.limit)
    PROVE  b.cap = MaxInt
<1>0. MaxInt \in Nat
  BY IoBufferAssumption
<1>1. b.limit \in Int /\ b.cap \in Int /\ b.cap <= MaxInt
  BY DEF Sound, BufferSet
<1>2. CASE x <= MaxInt
  <2>1. Int32(x) = x
    BY <1>2, Int32Value
  <2> QED
    BY <2>1 DEF Roomy, RoomUpTo
<1>3. CASE x > MaxInt
  <2>1. Int32(x) < 0 /\ Int32(x) \in Int /\ Int32(x) <= MaxInt
    BY <1>3, Int32Value
  <2>2. NormalizeCapacity(Int32(x)) = MaxInt
    BY <2>1, NormalizeType
  <2>3. MaxInt <= b.cap
    BY <2>2 DEF Roomy, CapacityFor
  <2> QED
    BY <1>0, <1>1, <2>3
<1> QED
  BY <1>0, <1>2, <1>3

LEMMA MarkableWhenGrown ==
    ASSUME NEW b \in BufferSet, NEW a \in BufferSet, Grown(b, a), NEW m, Markable(b, m)
    PROVE  Markable(a, m)
<1>1. b.spot < 0 => a.spot < 0
  BY DEF Grown, NoByte
<1> QED
  BY <1>1 DEF Markable

LEMMA PutKept ==
    ASSUME NEW b \in BufferSet, Sound(b), Ok(b), NEW n \in Nat, n <= MaxInt + 1,
           NEW m \in Int, Markable(b, m)
    PROVE  Kept(b, Put(b, n, m))
<1>1. PICK a \in BufferSet :
              /\ a = AutoExpand(b, b.pos, n) /\ Sound(a) /\ Grown(b, a) /\ Ok(a)
              /\ a.pos = b.pos /\ b.pos \in Nat /\ b.pos + n \in Nat
              /\ b.pos + n <= 2 * MaxInt + 1
              /\ Roomy(a, Int32(b.pos + n))
  BY RoomAhead
<1>2. Markable(a, m)
  BY <1>1, MarkableWhenGrown
<1>3. PICK c \in BufferSet : c = PutBytes(a, n, m)
  BY <1>1, <1>2, PutBytesEffect
<1>4. /\ Sound(c) /\ Frame(a, c) /\ Written(a, c, m) /\ c.cap = a.cap /\ c.mem = a.mem
      /\ (a.pos + n <= a.limit => Ok(c))
  BY <1>1, <1>2, <1>3, PutBytesEffect
<1>5. b.expand /\ b.recap /\ c.error = "overflow" => c.cap = MaxInt
  <2> SUFFICES ASSUME b.expand, b.recap, c.error = "overflow"
               PROVE  c.cap = MaxInt
    OBVIOUS
  <2>1. ~Ok(c)
    BY DEF Ok
  <2>2. a.expand /\ a.recap
    BY <1>1 DEF Grown, Frame
  <2>3. PICK x \in Nat : x = b.pos + n
    BY <1>1
  <2>4. ~(x <= a.limit) /\ x <= 2 * MaxInt + 1 /\ Roomy(a, Int32(x)) /\ Sound(a)
    BY <1>1, <1>4, <2>1, <2>3
  <2>5. a.cap = MaxInt
    BY <2>2, <2>4, RoomyOrLargest
  <2> QED
    BY <1>4, <2>5
<1>6. Kept(b, c)
  BY <1>1, <1>4, <1>5, KeptWhenGrown DEF Frame
<1> QED
  BY <1>1, <1>3, <1>6 DEF Put

\* putString(val, fieldSize): no byte beyond the value is put into a field.
LEMMA PutFieldKept ==
    ASSUME NEW b \in BufferSet, Sound(b), Ok(b), NEW n \in Nat, n <= MaxInt,
           NEW size \in Nat, NEW m \in Int, Markable(b, m)
    PROVE  Kept(b, PutField(b, n, size, m))
<1>0. MaxInt \in Nat
  BY IoBufferAssumption
<1>1. PICK k \in Nat : k = Smaller(n, size) /\ k <= MaxInt
  BY <1>0 DEF Smaller
<1>2. PICK k1 \in Nat : k1 = k + 1 /\ k1 <= MaxInt + 1
  BY <1>0, <1>1
<1>3. PICK a \in BufferSet :
              /\ a = AutoExpand(b, b.pos, k1) /\ Sound(a) /\ Grown(b, a) /\ Ok(a)
              /\ a.pos = b.pos /\ b.pos \in Nat /\ b.pos + k1 \in Nat
              /\ b.pos + k1 <= 2 * MaxInt + 1
              /\ Roomy(a, Int32(b.pos + k1))
  BY <1>2, RoomAhead
<1>4. Markable(a, m)
  BY <1>3, MarkableWhenGrown
<1>5. PICK d \in BufferSet : d = PutBytes(a, k, m)
  BY <1>3, <1>4, PutBytesEffect
<1>6. /\ Sound(d) /\ Frame(a, d) /\ Written(a, d, m) /\ d.cap = a.cap /\ d.mem = a.mem
      /\ d.limit = a.limit
      /\ (a.pos + k <= a.limit => Ok(d) /\ d.pos = a.pos + k)
  <2>1. Sound(a) /\ Ok(a)
    BY <1>3
  <2> QED
    BY <1>4, <1>5, <2>1, PutBytesEffect
<1>7. Markable(d, NoByte) /\ NoByte \in Int
  BY DEF Markable, NoByte
<1>8. PICK c \in BufferSet : c = PutBytes(d, 1, NoByte)
  BY <1>6, <1>7, PutBytesEffect
<1>9. /\ Sound(c) /\ Frame(d, c) /\ Written(d, c, NoByte) /\ c.cap = d.cap /\ c.mem = d.mem
      /\ (Ok(d) /\ d.pos + 1 <= d.limit => Ok(c))
  BY <1>6, <1>7, <1>8, PutBytesEffect
<1>10. Written(a, c, m)
  <2>1. c.spot \in {d.spot, Overwritten}
    BY <1>9 DEF Written
  <2> QED
    BY <1>6, <2>1 DEF Written
<1>11. b.expand /\ b.recap /\ c.error = "overflow" => c.cap = MaxInt
  <2> SUFFICES ASSUME b.expand, b.recap, c.error = "overflow"
               PROVE  c.cap = MaxInt
    OBVIOUS
  <2>1. ~Ok(c)
    BY DEF Ok
  <2>2. a.expand /\ a.recap
    BY <1>3 DEF Grown, Frame
  <2>3. PICK x \in Nat : x = b.pos + k1
    BY <1>3
  <2>4. ~(x <= a.limit)
    <3> SUFFICES ASSUME x <= a.limit
                 PROVE  FALSE
      OBVIOUS
    <3>1. PICK p \in Nat, l \in Int : p = a.pos /\ l = a.limit
      BY <1>3 DEF BufferSet
    <3>2. p + k <= l /\ (p + k) + 1 <= l
      BY <1>2, <1>3, <2>3, <3>1
    <3>3. Ok(d) /\ d.pos = p + k /\ d.limit = l
      BY <1>6, <3>1, <3>2
    <3> QED
      BY <1>9, <2>1, <3>2, <3>3
  <2>5. x <= 2 * MaxInt + 1 /\ Roomy(a, Int32(x)) /\ Sound(a)
    BY <1>3, <2>3
  <2>6. a.cap = MaxInt
    BY <2>2, <2>4, <2>5, RoomyOrLargest
  <2> QED
    BY <1>6, <1>9, <2>6
<1>12. c.mem = a.mem /\ c.derived = a.derived
  BY <1>6, <1>9 DEF Frame
<1>13. Kept(b, c)
  BY <1>3, <1>9, <1>10, <1>11, <1>12, KeptWhenGrown
<1> QED
  BY <1>1, <1>2, <1>3, <1>5, <1>8, <1>13 DEF PutField

LEMMA PutTypedKept ==
    ASSUME NEW b \in BufferSet, Sound(b), Ok(b), NEW n \in Nat, n <= MaxInt + 1,
           NEW m \in Int, Markable(b, m)
    PROVE  Kept(b, PutTyped(b, n, m))
<1>1. PICK a \in BufferSet :
              /\ a = AutoExpand(b, b.pos, n) /\ Sound(a) /\ Grown(b, a) /\ Ok(a)
              /\ a.pos = b.pos /\ b.pos \in Nat /\ b.pos + n \in Nat
              /\ b.pos + n <= 2 * MaxInt + 1
              /\ Roomy(a, Int32(b.pos + n))
  BY RoomAhead
<1>2. Markable(a, m)
  BY <1>1, MarkableWhenGrown
<1>3. PICK d \in BufferSet : d = Store(a, a.pos, n, m)
  BY <1>1, <1>2, StoreEffect
<1>4. Sound(d) /\ Frame(a, d) /\ Written(a, d, m) /\ d.mem = a.mem /\ Ok(d)
  BY <1>1, <1>2, <1>3, StoreEffect DEF Ok
<1>5. PICK p \in Int : p = a.pos + n
  BY <1>1
<1>6. PICK c \in BufferSet : c = SetPosition(d, p)
  BY <1>4, SetPositionEffect
<1>7. Sound(c) /\ Moved(d, c) /\ c.error \in {"none", "argument"}
  BY <1>4, <1>6, SetPositionEffect DEF Ok
<1>8. Written(a, c, m)
  BY <1>4, <1>7 DEF Written, Moved
<1>9. c.mem = a.mem /\ c.derived = a.derived
  BY <1>4, <1>7 DEF Moved, Frame
<1>10. Kept(b, c)
  BY <1>1, <1>7, <1>8, <1>9, KeptWhenGrown, ErrorKinds
<1> QED
  BY <1>1, <1>3, <1>5, <1>6, <1>10 DEF PutTyped

LEMMA PutTypedAtKept ==
    ASSUME NEW b \in BufferSet, Sound(b), Ok(b), NEW i \in Nat, i <= MaxInt,
           NEW n \in Nat, n <= MaxInt + 1, NEW m \in Int, Markable(b, m)
    PROVE  Kept(b, PutTypedAt(b, i, n, m))
<1>1. MaxInt \in Nat /\ i + n <= 2 * MaxInt + 1
  BY IoBufferAssumption
<1>2. PICK a \in BufferSet : a = AutoExpand(b, i, n) /\ Sound(a) /\ Grown(b, a) /\ Ok(a)
  BY <1>1, AutoExpandEffect
<1>3. Markable(a, m) /\ a.pos + i \in Int
  BY <1>2, MarkableWhenGrown DEF BufferSet
<1>4. PICK c \in BufferSet : c = Store(a, a.pos + i, n, m)
  BY <1>2, <1>3, StoreEffect
<1>5. Sound(c) /\ Frame(a, c) /\ Written(a, c, m) /\ c.mem = a.mem /\ c.error = "none"
  BY <1>2, <1>3, <1>4, StoreEffect DEF Ok
<1>6. Kept(b, c)
  BY <1>2, <1>5, KeptWhenGrown, ErrorKinds DEF Frame
<1> QED
  BY <1>2, <1>4, <1>6 DEF PutTypedAt

LEMMA PutAtKept ==
    ASSUME NEW b \in BufferSet, Sound(b), Ok(b), NEW i \in Nat, i <= MaxInt,
           NEW m \in Int, Markable(b, m)
    PROVE  Kept(b, PutAt(b, i, m))
<1>1. MaxInt \in Nat /\ i + 1 <= 2 * MaxInt + 1 /\ i + 1 \in Nat
  BY IoBufferAssumption
<1>2. PICK a \in BufferSet : /\ a = AutoExpand(b, i, 1) /\ Sound(a) /\ Grown(b, a) /\ Ok(a)
                             /\ Roomy(a, Int32(i + 1))
  BY <1>1, AutoExpandEffect
<1>3. Markable(a, m)
  BY <1>2, MarkableWhenGrown
<1>4. CASE i >= a.limit
  <2>1. PICK why \in Errors : why = "overflow"
    BY DEF Errors
  <2>2. PICK c \in BufferSet : c = Fails(a, why)
    BY <1>2, FailsEffect
  <2>3. Sound(c) /\ Moved(a, c)
    BY <1>2, <2>2, FailsEffect
  <2>4. b.expand /\ b.recap => c.cap = MaxInt
    <3> SUFFICES ASSUME b.expand, b.recap
                 PROVE  c.cap = MaxInt
      OBVIOUS
    <3>1. a.expand /\ a.recap
      BY <1>2 DEF Grown, Frame
    <3>2. PICK x \in Nat : x = i + 1
      OBVIOUS
    <3>3. ~(x <= a.limit) /\ x <= 2 * MaxInt + 1 /\ Roomy(a, Int32(x))
      <4>1. a.limit \in Int
        BY DEF BufferSet
      <4> QED
        BY <1>1, <1>2, <1>4, <3>2, <4>1
    <3>4. a.cap = MaxInt
      BY <1>2, <3>1, <3>3, RoomyOrLargest
    <3> QED
      BY <2>3, <3>4 DEF Moved
  <2>5. Written(a, c, m)
    BY <2>3 DEF Written, Moved
  <2>6. c.mem = a.mem /\ c.derived = a.derived
    BY <2>3 DEF Moved, Frame
  <2>7. Kept(b, c)
    BY <1>2, <2>3, <2>4, <2>5, <2>6, KeptWhenGrown
  <2> QED
    BY <1>2, <1>4, <2>1, <2>2, <2>7 DEF PutAt
<1>5. CASE ~(i >= a.limit)
  <2>1. PICK c \in BufferSet : c = Store(a, i, 1, m)
    BY <1>2, <1>3, StoreEffect
  <2>2. Sound(c) /\ Frame(a, c) /\ Written(a, c, m) /\ c.mem = a.mem /\ c.error = "none"
    BY <1>2, <1>3, <2>1, StoreEffect DEF Ok
  <2>3. Kept(b, c)
    BY <1>2, <2>2, KeptWhenGrown, ErrorKinds DEF Frame
  <2> QED
    BY <1>2, <1>5, <2>1, <2>3 DEF PutAt
<1> QED
  BY <1>4, <1>5

\* fill() where there is room.
LEMMA FillInPlace ==
    ASSUME NEW b \in BufferSet, Sound(b), Ok(b), NEW n \in Nat, n <= MaxInt + 1,
           Roomy(b, Int32(b.pos + n))
    PROVE  /\ Fill(b, n) \in BufferSet /\ Sound(Fill(b, n)) /\ Frame(b, Fill(b, n))
           /\ Written(b, Fill(b, n), NoByte)
           /\ Fill(b, n).limit = b.limit /\ Fill(b, n).cap = b.cap /\ Fill(b, n).mem = b.mem
           /\ Fill(b, n).error \in {"none", "argument"}
<1>1. MaxInt \in Nat
  BY IoBufferAssumption
<1>2. PICK p \in Nat : p = b.pos /\ p <= MaxInt
  BY <1>1 DEF Sound, BufferSet
<1>3. PICK q \in Int : q \in Nat /\ q = p + n /\ q + 0 = q /\ q <= 2 * MaxInt + 1
  BY <1>1, <1>2
<1>4. AutoExpand(b, p, n) = b
  <2>1. Roomy(b, Int32(p + n)) /\ p + n <= 2 * MaxInt + 1
    BY <1>2, <1>3
  <2> QED
    BY <2>1, AutoExpandAgain
<1>5. PICK k \in Int : k = -1 /\ k = NoByte /\ Markable(b, k)
  BY DEF NoByte, Markable
<1>6. PICK d \in BufferSet : d = Store(b, p, n, k)
  BY <1>2, <1>5, StoreEffect
<1>7. /\ Sound(d) /\ Frame(b, d) /\ Written(b, d, NoByte) /\ d.limit = b.limit /\ d.cap = b.cap
      /\ d.mem = b.mem /\ Ok(d)
  BY <1>2, <1>5, <1>6, StoreEffect DEF Ok
<1>8. AutoExpand(d, q, 0) = d
  <2>1. Roomy(b, Int32(q))
    BY <1>2, <1>3
  <2>2. Roomy(d, Int32(q))
    BY <1>7, <2>1 DEF Roomy, RoomUpTo, CapacityFor, Frame
  <2>3. Roomy(d, Int32(q + 0)) /\ q + 0 <= 2 * MaxInt + 1
    BY <1>3, <2>2
  <2>4. Sound(d) /\ Ok(d) /\ q \in Nat
    BY <1>3, <1>7
  <2> QED
    BY <2>3, <2>4, AutoExpandAgain
<1>9. PICK c \in BufferSet : c = SetPosition(d, q)
  BY <1>7, SetPositionEffect
<1>10. Sound(c) /\ Moved(d, c) /\ c.limit = d.limit /\ c.error \in {"none", "argument"}
  <2>1. Sound(d) /\ Ok(d) /\ d.error = "none"
    BY <1>7 DEF Ok
  <2>2. Sound(c) /\ Moved(d, c) /\ c.limit = d.limit
    <3>1. Sound(d)
      BY <2>1
    <3> QED
      BY <1>9, <3>1, SetPositionEffect
  <2>3. c.error \in {"none", "argument"}
    <3>1. CASE q \in 0..d.limit
      BY <1>9, <2>1, <3>1, SetPositionEffect DEF Ok
    <3>2. CASE q \notin 0..d.limit
      BY <1>9, <2>1, <3>2, SetPositionEffect
    <3> QED
      BY <3>1, <3>2
  <2> QED
    BY <2>2, <2>3
<1>11. Fill(b, n) = c
  BY <1>2, <1>3, <1>4, <1>5, <1>6, <1>8, <1>9 DEF Fill, Position
<1>12. Written(b, c, NoByte)
  BY <1>7, <1>10 DEF Written, Moved
<1>13. Frame(b, c) /\ c.limit = b.limit /\ c.cap = b.cap /\ c.mem = b.mem
  BY <1>7, <1>10 DEF Moved, Frame
<1> QED
  BY <1>10, <1>11, <1>12, <1>13

LEMMA FillKept ==
    ASSUME NEW b \in BufferSet, Sound(b), Ok(b), NEW n \in Nat, n <= MaxInt + 1
    PROVE  Kept(b, Fill(b, n))
<1>1. PICK a \in BufferSet :
              /\ a = AutoExpand(b, b.pos, n) /\ Sound(a) /\ Grown(b, a) /\ Ok(a)
              /\ a.pos = b.pos /\ b.pos \in Nat /\ b.pos + n \in Nat
              /\ b.pos + n <= 2 * MaxInt + 1
              /\ Roomy(a, Int32(b.pos + n))
  BY RoomAhead
<1>2. AutoExpand(a, a.pos, n) = a
  <2>1. PICK p \in Nat : p = b.pos /\ p = a.pos
    BY <1>1
  <2>2. Roomy(a, Int32(p + n)) /\ p + n <= 2 * MaxInt + 1
    BY <1>1, <2>1
  <2>3. AutoExpand(a, p, n) = a
    BY <1>1, <2>2, AutoExpandAgain
  <2> QED
    BY <2>1, <2>3
<1>3. Fill(b, n) = Fill(a, n)
  BY <1>1, <1>2 DEF Fill
<1>4. Roomy(a, Int32(a.pos + n))
  BY <1>1
<1>5. PICK c \in BufferSet : c = Fill(a, n)
  BY <1>1, <1>4, FillInPlace
<1>6. /\ Sound(c) /\ Frame(a, c) /\ Written(a, c, NoByte) /\ c.mem = a.mem
      /\ c.error \in {"none", "argument"}
  BY <1>1, <1>4, <1>5, FillInPlace
<1>7. Markable(b, NoByte)
  BY DEF Markable
<1>8. Kept(b, c)
  BY <1>1, <1>6, <1>7, KeptWhenGrown, ErrorKinds DEF Frame
<1> QED
  BY <1>3, <1>5, <1>8

LEMMA WithError ==
    ASSUME NEW b \in BufferSet, Sound(b), NEW why \in Errors
    PROVE  /\ [b EXCEPT !.error = why] \in BufferSet /\ Sound([b EXCEPT !.error = why])
           /\ Moved(b, [b EXCEPT !.error = why])
           /\ [b EXCEPT !.error = why].pos = b.pos /\ [b EXCEPT !.error = why].limit = b.limit
           /\ [b EXCEPT !.error = why].error = why
<1>1. Fails(b, why) = [b EXCEPT !.error = why]
  BY DEF Fails
<1> QED
  BY <1>1, FailsEffect

\* fillAndReset() goes back to the position it came from, without another replacement.
LEMMA FillAndResetKept ==
    ASSUME NEW b \in BufferSet, Sound(b), Ok(b), NEW n \in Nat, n <= MaxInt + 1
    PROVE  Kept(b, FillAndReset(b, n))
<1>1. PICK a \in BufferSet :
              /\ a = AutoExpand(b, b.pos, n) /\ Sound(a) /\ Grown(b, a) /\ Ok(a)
              /\ a.pos = b.pos /\ b.pos \in Nat /\ b.pos + n \in Nat
              /\ b.pos + n <= 2 * MaxInt + 1
              /\ Roomy(a, Int32(b.pos + n))
  BY RoomAhead
<1>2. PICK p \in Nat, q \in Nat : p = b.pos /\ p = a.pos /\ q = p + n /\ p <= q /\ p + 0 = p
  BY <1>1
<1>3. q <= 2 * MaxInt + 1 /\ Roomy(a, Int32(q)) /\ Roomy(a, Int32(a.pos + n))
  BY <1>1, <1>2
<1>4. PICK d \in BufferSet : d = Fill(a, n)
  BY <1>1, <1>3, FillInPlace
<1>5. /\ Sound(d) /\ Frame(a, d) /\ Written(a, d, NoByte) /\ d.limit = a.limit
      /\ d.cap = a.cap /\ d.mem = a.mem /\ d.error \in {"none", "argument"}
  BY <1>1, <1>3, <1>4, FillInPlace
<1>6. PICK fine \in Errors : fine = "none"
  BY DEF Errors
<1>7. PICK e \in BufferSet : e = [d EXCEPT !.error = fine]
  BY <1>5, WithError
<1>8. Sound(e) /\ Moved(d, e) /\ e.limit = d.limit /\ Ok(e)
  BY <1>5, <1>6, <1>7, WithError DEF Ok
<1>9. AutoExpand(e, p, 0) = e
  <2>1. Roomy(e, Int32(q))
    BY <1>3, <1>5, <1>8 DEF Roomy, RoomUpTo, CapacityFor, Moved, Frame
  <2>2. p <= e.limit
    <3>1. a.pos <= a.limit
      BY <1>1 DEF Sound
    <3> QED
      BY <1>2, <1>5, <1>8, <3>1
  <2>3. Roomy(e, Int32(p))
    BY <1>2, <1>3, <1>8, <2>1, <2>2, RoomyForLess
  <2>4. Roomy(e, Int32(p + 0)) /\ p + 0 <= 2 * MaxInt + 1
    BY <1>2, <1>3, <2>3, IoBufferAssumption
  <2> QED
    BY <1>8, <2>4, AutoExpandAgain
<1>10. PICK g \in BufferSet : g = SetPosition(e, p)
  BY <1>8, SetPositionEffect
<1>11. Sound(g) /\ Moved(e, g)
  BY <1>8, <1>10, SetPositionEffect
<1>12. PICK why \in Errors : why = d.error /\ why # "overflow"
  BY <1>5, ErrorKinds DEF BufferSet
<1>13. PICK c \in BufferSet : c = [g EXCEPT !.error = why]
  BY <1>11, WithError
<1>14. Sound(c) /\ Moved(g, c) /\ c.error = why
  BY <1>11, <1>13, WithError
<1>15. FillAndReset(b, n) = c
  <2>1. FillAndReset(b, n) = [Position([d EXCEPT !.error = "none"], p) EXCEPT !.error = d.error]
    BY <1>1, <1>2, <1>4 DEF FillAndReset
  <2>2. Position(e, p) = g
    BY <1>9, <1>10 DEF Position
  <2> QED
    BY <1>6, <1>7, <1>12, <1>13, <2>1, <2>2
<1>16. Written(a, c, NoByte) /\ Markable(b, NoByte)
  BY <1>5, <1>8, <1>11, <1>14 DEF Written, Moved, Markable
<1>17. c.mem = a.mem /\ c.derived = a.derived
  BY <1>5, <1>8, <1>11, <1>14 DEF Moved, Frame
<1>18. Kept(b, c)
  BY <1>1, <1>12, <1>14, <1>16, <1>17, KeptWhenGrown
<1> QED
  BY <1>15, <1>18

LEMMA SweepKept ==
    ASSUME NEW b \in BufferSet, Sound(b), Ok(b)
    PROVE  Kept(b, Sweep(b))
<1>1. PICK d \in BufferSet : d = Clear(b)
  BY ClearEffect
<1>2. Sound(d) /\ Moved(b, d) /\ Ok(d) /\ d.limit = b.cap
  BY <1>1, ClearEffect
<1>3. PICK n \in Nat : n = b.cap /\ n <= MaxInt + 1
  <2>1. b.pos \in Int /\ b.limit \in Int /\ b.cap \in Int
    BY DEF BufferSet
  <2>2. 0 <= b.pos /\ b.pos <= b.limit /\ b.limit <= b.cap /\ b.cap <= MaxInt
    BY DEF Sound
  <2> QED
    BY <2>1, <2>2, IoBufferAssumption
<1>4. PICK c \in BufferSet : c = FillAndReset(d, n)
  BY <1>2, <1>3, FillAndResetKept DEF Kept
<1>5. Kept(d, c)
  BY <1>2, <1>3, <1>4, FillAndResetKept
<1>6. Sweep(b) = c
  BY <1>1, <1>3, <1>4 DEF Sweep
<1>7. b.spot \in 0..(b.limit - 1) => b.spot \in 0..(d.limit - 1)
  <2>1. b.limit \in Int /\ b.cap \in Int /\ b.spot \in Int
    BY DEF BufferSet
  <2>2. b.limit <= b.cap
    BY DEF Sound
  <2> QED
    BY <1>2, <2>1, <2>2
<1>8. /\ d.mem = b.mem /\ d.recap = b.recap /\ d.expand = b.expand /\ d.spot = b.spot
      /\ d.derived = b.derived
  BY <1>2 DEF Moved, Frame
<1>9. Kept(b, c)
  BY <1>5, <1>7, <1>8 DEF Kept
<1> QED
  BY <1>6, <1>9

LEMMA GetsKept ==
    ASSUME NEW b \in BufferSet, Sound(b), Ok(b), NEW n \in Nat
    PROVE  Kept(b, Get(b, n)) /\ Kept(b, Read(b, n)) /\ Kept(b, GetString(b, n))
<1>1. b.pos \in Int /\ b.limit \in Int
  BY DEF BufferSet
<1>2. Kept(b, Get(b, n))
  <2>1. CASE n > b.limit - b.pos
    <3>1. PICK why \in Errors : why = "underflow"
      BY DEF Errors
    <3>2. Get(b, n) = Fails(b, why)
      BY <2>1, <3>1 DEF Get
    <3> QED
      BY <3>1, <3>2, FailsKept, ErrorKinds
  <2>2. CASE ~(n > b.limit - b.pos)
    <3>1. PICK p \in Int : p = b.pos + n
      BY <1>1
    <3>2. Get(b, n) = SetPosition(b, p)
      BY <2>2, <3>1 DEF Get
    <3> QED
      BY <3>2, SetPositionKept
  <2> QED
    BY <2>1, <2>2
<1>3. Kept(b, Read(b, n))
  <2>1. PICK p \in Int : p = b.pos + Smaller(n, b.limit - b.pos)
    BY <1>1 DEF Smaller
  <2>2. Read(b, n) = SetPosition(b, p)
    BY <2>1 DEF Read
  <2> QED
    BY <2>2, SetPositionKept
<1> QED
  BY <1>2, <1>3 DEF GetString

LEMMA SetCapacityKept ==
    ASSUME NEW b \in BufferSet, Sound(b), Ok(b), NEW n \in Nat, n <= MaxInt
    PROVE  Kept(b, SetCapacity(b, n)) /\ SetCapacity(b, n).mark = b.mark
<1>1. CASE ~b.recap
  <2>1. PICK why \in Errors : why = "state"
    BY DEF Errors
  <2>2. SetCapacity(b, n) = Fails(b, why)
    BY <1>1, <2>1 DEF SetCapacity
  <2>3. Fails(b, why).mark = b.mark
    BY FailsEffect
  <2> QED
    BY <2>1, <2>2, <2>3, FailsKept, ErrorKinds
<1>2. CASE b.recap /\ b.cap < n
  <2>1. PICK c \in BufferSet : c = SetCapacity(b, n)
    BY <1>2, SetCapacityEffect
  <2>2. Sound(c) /\ Grown(b, c)
    BY <1>2, <2>1, SetCapacityEffect
  <2>3. Written(c, c, NoByte) /\ Markable(b, NoByte) /\ c.error = "none"
    BY <2>2 DEF Written, Markable, Grown, Ok
  <2>4. Kept(b, c)
    BY <2>2, <2>3, KeptWhenGrown, ErrorKinds
  <2> QED
    BY <2>1, <2>2, <2>4 DEF Grown
<1>3. CASE b.recap /\ ~(b.cap < n)
  <2>1. ~(n > b.cap)
    BY <1>3 DEF BufferSet
  <2>2. SetCapacity(b, n) = b
    BY <1>3, <2>1 DEF SetCapacity
  <2>3. Kept(b, b)
    BY KeptInPlace, ErrorKinds DEF Ok
  <2> QED
    BY <2>2, <2>3
<1> QED
  BY <1>1, <1>2, <1>3

LEMMA ExpandKept ==
    ASSUME NEW b \in BufferSet, Sound(b), Ok(b), NEW n \in Nat, n <= MaxInt + 1,
           NEW auto \in BOOLEAN
    PROVE  Kept(b, Expand(b, b.pos, n, auto))
<1>1. CASE ~b.recap
  <2>1. PICK why \in Errors : why = "state"
    BY DEF Errors
  <2>2. Expand(b, b.pos, n, auto) = Fails(b, why)
    BY <1>1, <2>1 DEF Expand
  <2> QED
    BY <2>1, <2>2, FailsKept, ErrorKinds
<1>2. CASE b.recap
  <2>1. PICK p \in Nat : p = b.pos /\ p + n <= 2 * MaxInt + 1
    BY IoBufferAssumption DEF Sound, BufferSet
  <2>2. PICK c \in BufferSet : c = Expand(b, p, n, auto)
    BY <1>2, <2>1, ExpandEffect
  <2>3. Sound(c) /\ Grown(b, c)
    BY <1>2, <2>1, <2>2, ExpandEffect
  <2>4. Written(c, c, NoByte) /\ Markable(b, NoByte) /\ c.error = "none"
    BY <2>3 DEF Written, Markable, Grown, Ok
  <2>5. Kept(b, c)
    BY <2>3, <2>4, KeptWhenGrown, ErrorKinds
  <2> QED
    BY <2>1, <2>2, <2>5
<1> QED
  BY <1>1, <1>2

\* shrink() keeps at least the bytes below the limit.
LEMMA ShrinkKept ==
    ASSUME NEW b \in BufferSet, Sound(b), Ok(b)
    PROVE  Kept(b, Shrink(b))
<1>0. MaxInt \in Nat
  BY IoBufferAssumption
<1>1. /\ b.pos \in Int /\ b.limit \in Int /\ b.cap \in Int /\ b.mark \in Int /\ b.min \in Int
      /\ b.spot \in Int
      /\ 0 <= b.pos /\ b.pos <= b.limit /\ b.limit <= b.cap /\ b.cap <= MaxInt
      /\ 0 <= b.min /\ b.min <= MaxInt
  BY DEF Sound, BufferSet
<1>2. PICK least \in Int : /\ least = Larger(b.min, b.limit) /\ b.limit <= least
                           /\ least <= MaxInt /\ 0 <= least
  BY <1>0, <1>1 DEF Larger
<1>3. PICK cap \in Int : cap = b.cap /\ 0 <= cap /\ cap <= MaxInt
  BY <1>1
<1>4. PICK h \in Int : h = Halved(cap, least) /\ h <= MaxInt
  <2> DEFINE P(x) == (\E p \in Powers : x = cap \div p) /\ least <= x /\ x \div 2 < least
  <2>1. CASE least = 0
    <3>1. PICK x \in Int : x = cap \div 2 /\ x <= cap
      BY <1>3
    <3> QED
      BY <1>0, <1>3, <2>1, <3>1 DEF Halved
  <2>2. CASE least # 0 /\ \E x \in 0..cap : P(x)
    <3>1. Halved(cap, least) = CHOOSE x \in 0..cap : P(x)
      BY <2>2 DEF Halved
    <3>2. Halved(cap, least) \in 0..cap
      BY <2>2, <3>1
    <3> QED
      BY <1>0, <1>3, <3>2
  <2>3. CASE least # 0 /\ ~\E x \in 0..cap : P(x)
    <3>1. Halved(cap, least) = cap
      BY <2>3 DEF Halved
    <3> QED
      BY <1>3, <3>1
  <2> QED
    BY <2>1, <2>2, <2>3
<1>5. PICK n \in Int : n = Larger(least, h) /\ least <= n /\ n <= MaxInt
  BY <1>2, <1>4 DEF Larger
<1>6. CASE ~b.recap
  <2>1. PICK why \in Errors : why = "state"
    BY DEF Errors
  <2>2. Shrink(b) = Fails(b, why)
    BY <1>6, <2>1 DEF Shrink
  <2> QED
    BY <2>1, <2>2, FailsKept, ErrorKinds
<1>7. CASE b.recap /\ (b.cap = b.limit \/ n = b.cap)
  <2>1. Shrink(b) = b
    BY <1>2, <1>3, <1>4, <1>5, <1>7 DEF Shrink
  <2>2. Kept(b, b)
    BY KeptInPlace, ErrorKinds DEF Ok
  <2> QED
    BY <2>1, <2>2
<1>8. CASE b.recap /\ ~(b.cap = b.limit \/ n = b.cap)
  <2>1. 0 <= b.limit /\ b.limit <= n
    BY <1>1, <1>2, <1>5
  <2> PICK l \in Int : l = b.limit
    BY <1>1
  <2>2. PICK d \in BufferSet : d = Replaced(b, n, 0, b.limit)
    <3>1. Replaced(b, n, 0, l) \in BufferSet
      BY <1>5, <2>1, ReplacedEffect
    <3> QED
      BY <3>1
  <2>3. /\ Sound(d) /\ Frame(b, d) /\ d.error = b.error
        /\ (b.spot \in 0..(b.limit - 1) => d.spot = b.spot)
    <3>1. 0 <= l /\ l <= n /\ n <= MaxInt /\ d = Replaced(b, n, 0, l)
      BY <1>5, <2>1, <2>2
    <3> QED
      BY <3>1, ReplacedEffect
  <2>4. PICK e \in BufferSet : e = SetPosition(d, b.pos)
    BY <1>1, <2>3, SetPositionEffect
  <2>5. Sound(e) /\ Moved(d, e) /\ e.error \in {d.error, "argument", "none"}
    <3>1. Sound(d) /\ Ok(d) /\ b.pos \in Int
      BY <1>1, <2>3 DEF Ok
    <3>2. Sound(e) /\ Moved(d, e)
      BY <2>4, <3>1, SetPositionEffect
    <3>3. e.error \in {d.error, "argument", "none"}
      <4> PICK p \in Int : p = b.pos /\ e = SetPosition(d, p)
        BY <2>4, <3>1
      <4>1. CASE p \in 0..d.limit
        <5>1. Ok(e)
          BY <3>1, <4>1, SetPositionEffect
        <5> QED
          BY <5>1 DEF Ok
      <4>2. CASE ~(Ok(d) /\ p \in 0..d.limit)
        BY <3>1, <4>2, SetPositionEffect
      <4> QED
        BY <3>1, <4>1, <4>2
    <3> QED
      BY <3>2, <3>3
  <2>6. PICK c \in BufferSet : c = SetLimit(e, b.limit)
    BY <1>1, <2>5, SetLimitEffect
  <2>7. Sound(c) /\ Moved(e, c) /\ c.error \in {e.error, "argument", "none"}
    <3>1. CASE Ok(e) /\ b.limit \in 0..e.cap
      BY <1>1, <2>5, <2>6, <3>1, SetLimitEffect DEF Ok
    <3>2. CASE ~(Ok(e) /\ b.limit \in 0..e.cap)
      BY <1>1, <2>5, <2>6, <3>2, SetLimitEffect
    <3> QED
      BY <3>1, <3>2
  <2>8. c.error # "overflow"
    BY <2>3, <2>5, <2>7, ErrorKinds DEF Ok
  <2>9. c.derived = b.derived /\ c.spot = d.spot
    BY <2>3, <2>5, <2>7 DEF Moved, Frame
  <2>10. Kept(b, c)
    BY <1>8, <2>3, <2>7, <2>8, <2>9 DEF Kept
  <2> QED
    BY <1>2, <1>3, <1>4, <1>5, <1>8, <2>2, <2>4, <2>6, <2>10 DEF Shrink
<1> QED
  BY <1>6, <1>7, <1>8

-----------------------------------------------------------------------------
(* Slices *)

\* What a call leaves that has given away a slice.
Sliced(b, c) ==
    /\ c \in BufferSet /\ Sound(c) /\ Ok(c)
    /\ c.mem # b.mem =>
          b.recap /\ (b.spot \in 0..(b.limit - 1) => c.spot \in {b.spot, Overwritten})
    /\ c.limit = b.limit
    /\ c.pos = b.pos \/ (c.derived.first = b.pos /\ c.pos = c.derived.first + c.derived.size)
    /\ c.derived.first + c.derived.size <= b.limit \/ c.derived = [first |-> 0, size |-> b.cap]

LEMMA DerivedIs ==
    ASSUME NEW b \in BufferSet, Sound(b), Ok(b), NEW i \in Int, NEW n \in Int
    PROVE  \E c \in BufferSet :
              /\ c = Derived(b, i, n) /\ Sound(c) /\ Ok(c)
              /\ c.pos = b.pos /\ c.limit = b.limit /\ c.cap = b.cap /\ c.mem = b.mem
              /\ c.spot = b.spot /\ ~c.recap
              /\ c.derived \in [first: Int, size: Int]
              /\ c.derived.first = i /\ c.derived.size = n
<1>1. PICK d \in [first: Int, size: Int] : d = [first |-> i, size |-> n]
  OBVIOUS
<1>2. d.first = i /\ d.size = n
  BY <1>1
<1>3. Derived(b, i, n) = [b EXCEPT !.recap = FALSE, !.shared = TRUE, !.derived = d]
  BY <1>1 DEF Derived
<1>4. PICK c \in BufferSet : c = [b EXCEPT !.recap = FALSE, !.shared = TRUE, !.derived = d]
  BY DEF BufferSet
<1>5. /\ c.pos = b.pos /\ c.limit = b.limit /\ c.cap = b.cap /\ c.mark = b.mark /\ c.min = b.min
      /\ c.mem = b.mem /\ c.spot = b.spot /\ c.error = b.error /\ c.derived = d
      /\ c.recap = FALSE /\ c.shared = TRUE
  BY <1>4 DEF BufferSet
<1>6. Sound(c) /\ Ok(c)
  BY <1>5 DEF Sound, Ok
<1>7. c = Derived(b, i, n)
  BY <1>3, <1>4
<1>8. ~c.recap
  BY <1>5
<1> QED
  BY <1>2, <1>5, <1>6, <1>7, <1>8

LEMMA WholeSliced ==
    ASSUME NEW b \in BufferSet, Sound(b), Ok(b)
    PROVE  Sliced(b, Duplicate(b)) /\ Sliced(b, Slice(b))
<1>1. PICK p \in Int, l \in Int, k \in Int, z \in Int :
         p = b.pos /\ l = b.limit /\ k = b.cap /\ z = 0
  BY DEF BufferSet
<1>2. PICK n \in Int : n = l - p /\ p + n <= l
  BY <1>1
<1>3. Sliced(b, Duplicate(b))
  <2>1. PICK c \in BufferSet :
           /\ c = Derived(b, z, k) /\ Sound(c) /\ Ok(c) /\ c.pos = b.pos /\ c.limit = b.limit
           /\ c.mem = b.mem
           /\ c.derived \in [first: Int, size: Int] /\ c.derived.first = z /\ c.derived.size = k
    BY DerivedIs
  <2>2. c.derived = [first |-> 0, size |-> b.cap]
    BY <1>1, <2>1
  <2>3. Sliced(b, c)
    BY <2>1, <2>2 DEF Sliced
  <2>4. Duplicate(b) = c
    BY <1>1, <2>1 DEF Duplicate
  <2> QED
    BY <2>3, <2>4
<1>4. Sliced(b, Slice(b))
  <2>1. PICK c \in BufferSet :
           /\ c = Derived(b, p, n) /\ Sound(c) /\ Ok(c) /\ c.pos = b.pos /\ c.limit = b.limit
           /\ c.mem = b.mem /\ c.derived.first = p /\ c.derived.size = n
    BY DerivedIs
  <2>2. c.derived.first + c.derived.size <= b.limit
    BY <1>1, <1>2, <2>1
  <2>3. Sliced(b, c)
    BY <2>1, <2>2 DEF Sliced
  <2>4. Slice(b) = c
    BY <1>1, <1>2, <2>1 DEF Slice
  <2> QED
    BY <2>3, <2>4
<1> QED
  BY <1>3, <1>4

\* A slice of what is below x, in a buffer that was made room up to x and cut there.
LEMMA CutUpTo ==
    ASSUME NEW b \in BufferSet, Sound(b), Ok(b), NEW x \in Nat, x <= b.cap, b.pos <= x
    PROVE  \E a \in BufferSet :
              /\ a = SetLimit(AutoExpand(b, x, 0), x) /\ Sound(a) /\ Ok(a)
              /\ a.limit = x /\ a.pos = b.pos /\ b.cap <= a.cap /\ a.recap = b.recap
              /\ a.mem # b.mem => b.recap
              /\ b.spot \in 0..(b.cap - 1) => a.spot = b.spot
              /\ Roomy(a, Int32(x))
<1>1. MaxInt \in Nat /\ b.cap \in Int /\ b.cap <= MaxInt /\ b.pos \in Int /\ b.limit \in Int
  BY IoBufferAssumption DEF Sound, BufferSet
<1>2. x + 0 = x /\ x + 0 <= 2 * MaxInt + 1
  BY <1>1
<1>3. PICK d \in BufferSet : /\ d = AutoExpand(b, x, 0) /\ Sound(d) /\ Grown(b, d) /\ Ok(d)
                             /\ Roomy(d, Int32(x))
  <2>1. /\ AutoExpand(b, x, 0) \in BufferSet /\ Sound(AutoExpand(b, x, 0))
        /\ Grown(b, AutoExpand(b, x, 0)) /\ Ok(AutoExpand(b, x, 0))
        /\ Roomy(AutoExpand(b, x, 0), Int32(x + 0))
    BY <1>2, AutoExpandEffect
  <2> QED
    BY <1>2, <2>1
<1>4. x \in 0..d.cap /\ d.cap \in Int /\ d.pos = b.pos /\ b.cap <= d.cap
  <2>1. d.cap \in Int /\ b.cap <= d.cap /\ d.pos = b.pos
    BY <1>3 DEF Grown, BufferSet
  <2> QED
    BY <1>1, <2>1
<1>5. PICK a \in BufferSet : a = SetLimit(d, x)
  BY <1>3, SetLimitEffect
<1>6. Sound(a) /\ Moved(d, a) /\ a.limit = x /\ a.pos = Smaller(d.pos, x) /\ Ok(a)
  BY <1>3, <1>4, <1>5, SetLimitEffect
<1>7. a.pos = b.pos
  <2>1. Smaller(b.pos, x) = b.pos
    BY <1>1 DEF Smaller
  <2> QED
    BY <1>4, <1>6, <2>1
<1>8. /\ b.cap <= a.cap /\ a.recap = b.recap /\ (a.mem # b.mem => b.recap)
      /\ (b.spot \in 0..(b.cap - 1) => a.spot = b.spot)
  BY <1>3, <1>4, <1>6 DEF Moved, Frame, Grown
<1>9. Roomy(a, Int32(x))
  <2>1. PICK y \in Int : y = Int32(x) /\ y = x
    BY <1>1, Int32Value
  <2>2. a.cap = d.cap /\ a.expand = d.expand /\ a.recap = d.recap
    BY <1>6 DEF Moved, Frame
  <2>3. RoomUpTo(a, y)
    BY <1>6, <2>1 DEF RoomUpTo
  <2> QED
    BY <1>3, <2>1, <2>2, <2>3 DEF Roomy, CapacityFor
<1> QED
  BY <1>3, <1>5, <1>6, <1>7, <1>8, <1>9

\* A buffer that must not be replaced does not expand.
LEMMA NoExpand == ASSUME NEW b, ~b.recap, NEW p, NEW n PROVE AutoExpand(b, p, n) = b
BY DEF AutoExpand

\* getSlice(length)
LEMMA NextSliced ==
    ASSUME NEW b \in BufferSet, Sound(b), Ok(b), NEW n \in Nat
    PROVE  Kept(b, NextSlice(b, n)) \/ Sliced(b, NextSlice(b, n))
<1>1. /\ b.pos \in Nat /\ b.limit \in Int /\ b.cap \in Int /\ b.spot \in Int
      /\ b.pos <= b.limit /\ b.limit <= b.cap
  BY DEF Sound, BufferSet
<1>2. PICK x \in Nat : x = b.pos + n /\ b.pos <= x
  BY <1>1
<1>3. CASE x > b.limit
  <2>1. PICK why \in Errors : why = "argument"
    BY DEF Errors
  <2>2. NextSlice(b, n) = Fails(b, why)
    BY <1>2, <1>3, <2>1 DEF NextSlice
  <2> QED
    BY <2>1, <2>2, FailsKept, ErrorKinds
<1>4. CASE ~(x > b.limit)
  <2>1. x <= b.cap /\ x <= b.limit
    BY <1>1, <1>4
  <2>2. PICK a \in BufferSet :
              /\ a = SetLimit(AutoExpand(b, x, 0), x) /\ Sound(a) /\ Ok(a)
              /\ a.limit = x /\ a.pos = b.pos /\ b.cap <= a.cap /\ a.recap = b.recap
              /\ a.mem # b.mem => b.recap
              /\ b.spot \in 0..(b.cap - 1) => a.spot = b.spot
    BY <1>2, <2>1, CutUpTo
  <2>3. PICK m \in Int, p \in Int, y \in Int : p = b.pos /\ m = x - p /\ p + m = x /\ y = x
    BY <1>1
  <2>4. PICK d \in BufferSet :
              /\ d = Derived(a, p, m) /\ Sound(d) /\ Ok(d)
              /\ d.pos = a.pos /\ d.limit = a.limit /\ d.cap = a.cap /\ d.mem = a.mem
              /\ d.spot = a.spot /\ ~d.recap
              /\ d.derived \in [first: Int, size: Int]
              /\ d.derived.first = p /\ d.derived.size = m
    <3>1. Sound(a) /\ Ok(a)
      BY <2>2
    <3> QED
      BY <3>1, DerivedIs
  <2>5. /\ Sound(d) /\ Ok(d) /\ d.pos = b.pos /\ d.limit = x /\ d.cap = a.cap /\ d.mem = a.mem
        /\ d.spot = a.spot /\ ~d.recap /\ d.derived.first = b.pos /\ d.derived.size = m
    BY <2>2, <2>3, <2>4
  <2>6. PICK e \in BufferSet : e = SetPosition(d, x)
    <3>1. \E e \in BufferSet : e = SetPosition(d, y)
      BY <2>5, SetPositionEffect
    <3> QED
      BY <2>3, <3>1
  <2>7. Sound(e) /\ Ok(e) /\ Moved(d, e) /\ e.pos = x /\ e.limit = x
    <3>1. x \in 0..d.limit
      BY <2>5
    <3> QED
      BY <2>5, <2>6, <3>1, SetPositionEffect
  <2>8. b.limit \in 0..e.cap /\ ~e.recap
    <3>1. e.cap = a.cap /\ ~e.recap /\ a.cap \in Int
      BY <2>5, <2>7 DEF Moved, Frame, BufferSet
    <3> QED
      BY <1>1, <2>1, <2>2, <3>1
  <2>9. PICK c \in BufferSet : c = SetLimit(e, b.limit)
    BY <1>1, <2>7, SetLimitEffect
  <2>10. Sound(c) /\ Ok(c) /\ Moved(e, c) /\ c.limit = b.limit /\ c.pos = x
    <3>1. Smaller(x, b.limit) = x
      BY <1>1, <2>1 DEF Smaller
    <3>2. /\ Sound(c) /\ Ok(c) /\ Moved(e, c) /\ c.limit = b.limit
          /\ c.pos = Smaller(e.pos, b.limit)
      BY <1>1, <2>7, <2>8, <2>9, SetLimitEffect
    <3> QED
      BY <2>7, <3>1, <3>2
  <2>11. c.mem = a.mem /\ c.spot = a.spot /\ c.derived.first = b.pos /\ c.derived.size = m
    BY <2>5, <2>7, <2>10 DEF Moved, Frame
  <2>12. b.spot \in 0..(b.limit - 1) => c.spot = b.spot
    <3>1. b.spot \in 0..(b.limit - 1) => b.spot \in 0..(b.cap - 1)
      BY <1>1
    <3> QED
      BY <2>2, <2>11, <3>1
  <2>13. Sliced(b, c)
    <3>1. c.derived.first = b.pos /\ c.pos = c.derived.first + c.derived.size
      BY <2>3, <2>10, <2>11
    <3>2. c.derived.first + c.derived.size <= b.limit
      BY <2>1, <2>3, <2>11
    <3>3. c.mem # b.mem => b.recap
      BY <2>2, <2>11
    <3> QED
      BY <2>10, <2>12, <3>1, <3>2, <3>3 DEF Sliced
  <2>14. NextSlice(b, n) = c
    <3>1. a.limit - a.pos = m
      BY <1>1, <2>2, <2>3
    <3>2. Slice(Limit(b, x)) = d
      <4>1. Limit(b, x) = a
        BY <2>2 DEF Limit
      <4>2. Slice(a) = Derived(a, a.pos, m)
        BY <3>1 DEF Slice
      <4> QED
        BY <2>2, <2>3, <2>4, <4>1, <4>2
    <3>3. Position(d, x) = e
      BY <2>5, <2>6, NoExpand DEF Position
    <3>4. Limit(e, b.limit) = c
      BY <2>8, <2>9, NoExpand DEF Limit
    <3> QED
      BY <1>2, <1>4, <3>2, <3>3, <3>4 DEF NextSlice
  <2> QED
    BY <2>13, <2>14
<1> QED
  BY <1>3, <1>4

\* getSlice(index, length)
LEMMA GetSliced ==
    ASSUME NEW b \in BufferSet, Sound(b), Ok(b), NEW i \in Nat, NEW n \in Nat
    PROVE  Kept(b, GetSlice(b, i, n)) \/ Sliced(b, GetSlice(b, i, n))
<1>1. /\ b.pos \in Nat /\ b.limit \in Int /\ b.cap \in Int /\ b.spot \in Int
      /\ b.pos <= b.limit /\ b.limit <= b.cap
  BY DEF Sound, BufferSet
<1>2. PICK x \in Nat : x = i + n /\ i <= x
  OBVIOUS
<1>3. CASE i > b.limit \/ x > b.limit
  <2>1. PICK why \in Errors : why = "argument"
    BY DEF Errors
  <2>2. GetSlice(b, i, n) = Fails(b, why)
    BY <1>2, <1>3, <2>1 DEF GetSlice
  <2> QED
    BY <2>1, <2>2, FailsKept, ErrorKinds
<1>4. CASE ~(i > b.limit \/ x > b.limit)
  <2>1. x <= b.cap /\ x <= b.limit
    BY <1>1, <1>4
  <2>2. PICK b0 \in BufferSet : b0 = Clear(b)
    BY ClearEffect
  <2>3. Sound(b0) /\ Moved(b, b0) /\ Ok(b0) /\ b0.pos = 0
    BY <2>2, ClearEffect
  <2>4. b0.cap = b.cap /\ b0.mem = b.mem /\ b0.spot = b.spot /\ b0.recap = b.recap
    BY <2>3 DEF Moved, Frame
  <2>5. PICK a \in BufferSet :
              /\ a = SetLimit(AutoExpand(b0, x, 0), x) /\ Sound(a) /\ Ok(a)
              /\ a.limit = x /\ b.cap <= a.cap /\ a.recap = b.recap
              /\ a.mem # b.mem => b.recap
              /\ b.spot \in 0..(b.cap - 1) => a.spot = b.spot
              /\ Roomy(a, Int32(x))
    <3>1. x <= b0.cap /\ b0.pos <= x
      BY <2>1, <2>3, <2>4
    <3> QED
      BY <2>3, <2>4, <3>1, CutUpTo
  <2>6. AutoExpand(a, i, 0) = a
    <3>1. MaxInt \in Nat /\ x <= 2 * MaxInt + 1 /\ i <= a.limit /\ i + 0 = i
      <4>1. b.cap <= MaxInt
        BY DEF Sound
      <4> QED
        BY <1>1, <1>2, <2>1, <2>5, <4>1, IoBufferAssumption
    <3>2. Roomy(a, Int32(i))
      BY <1>2, <2>5, <3>1, RoomyForLess
    <3>3. Roomy(a, Int32(i + 0)) /\ i + 0 <= 2 * MaxInt + 1
      BY <1>2, <3>1, <3>2
    <3> QED
      BY <2>5, <3>3, AutoExpandAgain
  <2>7. PICK a1 \in BufferSet : a1 = SetPosition(a, i)
    BY <2>5, SetPositionEffect
  <2>8. Sound(a1) /\ Ok(a1) /\ Moved(a, a1) /\ a1.pos = i /\ a1.limit = x
    <3>1. i \in 0..a.limit /\ i \in Int
      BY <1>2, <2>5
    <3>2. Sound(a) /\ Ok(a) /\ a.limit = x
      BY <2>5
    <3> QED
      BY <2>7, <3>1, <3>2, SetPositionEffect
  <2> PICK m \in Int, j \in Int : m = x - i /\ j = i /\ j + m = x
    OBVIOUS
  <2>9. PICK d \in BufferSet :
              /\ d = Derived(a1, j, m) /\ Sound(d) /\ Ok(d)
              /\ d.pos = a1.pos /\ d.limit = a1.limit /\ d.cap = a1.cap /\ d.mem = a1.mem
              /\ d.spot = a1.spot /\ ~d.recap
              /\ d.derived \in [first: Int, size: Int]
              /\ d.derived.first = j /\ d.derived.size = m
    <3>1. Sound(a1) /\ Ok(a1)
      BY <2>8
    <3> QED
      BY <3>1, DerivedIs
  <2>10. /\ Sound(d) /\ Ok(d) /\ d.pos = i /\ d.limit = x /\ d.cap = a1.cap /\ d.mem = a1.mem
         /\ d.spot = a1.spot /\ ~d.recap /\ d.derived.first = i /\ d.derived.size = x - i
    BY <2>8, <2>9
  <2>11. PICK e \in BufferSet : e = SetLimit(d, b.limit)
    BY <1>1, <2>10, SetLimitEffect
  <2>12. Sound(e) /\ Ok(e) /\ Moved(d, e) /\ e.limit = b.limit /\ ~e.recap
    <3>1. b.limit \in 0..d.cap
      <4>1. d.cap = a.cap /\ a.cap \in Int
        BY <2>8, <2>10 DEF Moved, BufferSet
      <4> QED
        BY <1>1, <2>1, <2>5, <4>1
    <3>2. Sound(e) /\ Ok(e) /\ Moved(d, e) /\ e.limit = b.limit
      BY <1>1, <2>10, <2>11, <3>1, SetLimitEffect
    <3> QED
      BY <2>10, <3>2 DEF Moved, Frame
  <2>13. PICK c \in BufferSet : c = SetPosition(e, b.pos)
    <3>1. b.pos \in Int
      BY <1>1
    <3> QED
      BY <2>12, <3>1, SetPositionEffect
  <2>14. Sound(c) /\ Ok(c) /\ Moved(e, c) /\ c.pos = b.pos /\ c.limit = b.limit
    <3>1. b.pos \in 0..e.limit /\ b.pos \in Int
      BY <1>1, <2>12
    <3> QED
      BY <2>12, <2>13, <3>1, SetPositionEffect
  <2>15. c.mem = a.mem /\ c.spot = a.spot /\ c.derived.first = i /\ c.derived.size = x - i
    BY <2>8, <2>10, <2>12, <2>14 DEF Moved, Frame
  <2>16. b.spot \in 0..(b.limit - 1) => c.spot = b.spot
    <3>1. b.spot \in 0..(b.limit - 1) => b.spot \in 0..(b.cap - 1)
      BY <1>1
    <3> QED
      BY <2>5, <2>15, <3>1
  <2>17. c.derived.first + c.derived.size <= b.limit
    BY <1>1, <1>2, <2>1, <2>15
  <2>18. Sliced(b, c)
    BY <2>5, <2>14, <2>15, <2>16, <2>17 DEF Sliced
  <2>19. GetSlice(b, i, n) = c
    <3>1. Position(Limit(Clear(b), x), i) = a1
      BY <2>2, <2>5, <2>6, <2>7 DEF Limit, Position
    <3>2. Slice(a1) = d
      BY <2>8, <2>9 DEF Slice
    <3>3. Limit(d, b.limit) = e
      BY <2>10, <2>11, NoExpand DEF Limit
    <3>4. Position(e, b.pos) = c
      BY <2>12, <2>13, NoExpand DEF Position
    <3> QED
      BY <1>2, <1>4, <3>1, <3>2, <3>3, <3>4 DEF GetSlice
  <2> QED
    BY <2>18, <2>19
<1> QED
  BY <1>3, <1>4

-----------------------------------------------------------------------------
IoBufferInv == iob \in BufferSet /\ Sound(iob)

\* What a call is given: the buffer of before, in which no call has failed.
Renewed(b) ==
    /\ b \in BufferSet /\ Sound(b) /\ Ok(b) /\ b = Fresh
    /\ b.mem = iob.mem /\ b.spot = iob.spot /\ b.pos = iob.pos /\ b.limit = iob.limit
    /\ b.cap = iob.cap /\ b.mark = iob.mark /\ b.recap = iob.recap /\ b.expand = iob.expand
    /\ b.shared = iob.shared /\ b.derived = NoSlice

LEMMA NoSliceIs == \E d \in [first: Int, size: Int] : d = NoSlice
<1>1. PICK z \in Int, k \in Int : z = 0 /\ k = -1
  OBVIOUS
<1>2. PICK d \in [first: Int, size: Int] : d = [first |-> z, size |-> k]
  OBVIOUS
<1> QED
  BY <1>1, <1>2 DEF NoSlice

LEMMA FreshRenewed == ASSUME IoBufferInv PROVE \E b : Renewed(b)
<1>1. iob \in BufferSet /\ Sound(iob)
  BY DEF IoBufferInv
<1>2. PICK why \in Errors : why = "none"
  BY DEF Errors
<1>3. PICK d \in [first: Int, size: Int] : d = NoSlice
  BY NoSliceIs
<1>4. PICK b \in BufferSet : b = [iob EXCEPT !.error = why, !.derived = d]
  BY <1>1 DEF BufferSet
<1>5. /\ b.pos = iob.pos /\ b.limit = iob.limit /\ b.cap = iob.cap /\ b.mark = iob.mark
      /\ b.min = iob.min /\ b.expand = iob.expand /\ b.recap = iob.recap /\ b.mem = iob.mem
      /\ b.spot = iob.spot /\ b.shared = iob.shared /\ b.derived = d /\ b.error = why
  BY <1>1, <1>4 DEF BufferSet
<1>6. Sound(b)
  <2>1. /\ 0 <= iob.pos /\ iob.pos <= iob.limit /\ iob.limit <= iob.cap /\ iob.cap <= MaxInt
        /\ -1 <= iob.mark /\ iob.mark <= iob.pos /\ 0 <= iob.min /\ iob.min <= MaxInt
        /\ (iob.shared => ~iob.recap)
    BY <1>1 DEF Sound
  <2> QED
    BY <1>5, <2>1 DEF Sound
<1>7. b = Fresh
  BY <1>2, <1>3, <1>4 DEF Fresh
<1>8. Ok(b)
  BY <1>2, <1>5 DEF Ok
<1> QED
  BY <1>3, <1>5, <1>6, <1>7, <1>8 DEF Renewed

LEMMA BufferInitial == ASSUME IoBufferInit PROVE IoBufferInv
<1>1. PICK n \in Initial, wrapped \in BOOLEAN : iob = Allocated(n, wrapped)
  BY DEF IoBufferInit
<1>2. n \in Int /\ 0 <= n /\ n <= MaxInt
  BY IoBufferAssumption
<1>3. PICK z \in Int, k \in Int, o \in {0, 1}, why \in Errors, d \in [first: Int, size: Int] :
         z = 0 /\ k = -1 /\ o = 0 /\ why = "none" /\ d = NoSlice
  <2>1. \E why \in Errors : why = "none"
    BY DEF Errors
  <2>2. \E z \in Int, k \in Int, o \in {0, 1} : z = 0 /\ k = -1 /\ o = 0
    OBVIOUS
  <2>3. \E d \in [first: Int, size: Int] : d = NoSlice
    BY NoSliceIs
  <2> QED
    BY <2>1, <2>2, <2>3
<1>4. PICK w \in BOOLEAN : w = ~wrapped
  OBVIOUS
<1>5. PICK b \in BufferSet :
         b = [pos |-> z, limit |-> n, cap |-> n, mark |-> k, min |-> n, expand |-> FALSE,
              recap |-> w, mem |-> o, spot |-> k, shared |-> FALSE, derived |-> d, error |-> why]
  BY <1>2 DEF BufferSet
<1>6. iob = b
  BY <1>1, <1>3, <1>4, <1>5 DEF Allocated, NoByte
<1>7. /\ b.pos = z /\ b.limit = n /\ b.cap = n /\ b.mark = k /\ b.min = n /\ b.shared = FALSE
  BY <1>5
<1>8. Sound(b)
  BY <1>2, <1>3, <1>7 DEF Sound
<1> QED
  BY <1>6, <1>8 DEF IoBufferInv

LEMMA AmountsAreInts == /\ MaxInt \in Nat
                        /\ \A n \in Amounts : n \in Nat /\ n \in Int /\ n <= MaxInt /\ n <= MaxInt + 1
                        /\ \A n \in Initial : n \in 0..MaxInt
BY IoBufferAssumption

LEMMA MarksMarkable ==
    ASSUME NEW b, Renewed(b), NEW n \in Nat, NEW m \in Marks(n)
    PROVE  m \in Int /\ Markable(b, m)
<1>1. b.spot = iob.spot
  BY DEF Renewed
<1> QED
  BY <1>1 DEF Marks, Markable, NoByte

\* What every call does to a buffer that no call has failed in.
LEMMA EveryCall ==
    ASSUME NEW b, Renewed(b), IoBufferNext
    PROVE  Kept(b, iob') \/ Sliced(b, iob')
<1>0. b \in BufferSet /\ Sound(b) /\ Ok(b) /\ b = Fresh /\ b.pos = iob.pos /\ b.recap = iob.recap
  BY DEF Renewed
<1>1. CASE Settings
  <2>1. ASSUME NEW flag \in BOOLEAN,
               Call(IF iob.recap THEN [Fresh EXCEPT !.expand = flag] ELSE Fails(Fresh, "state"))
        PROVE  Kept(b, iob')
    <3>1. PICK why \in Errors : why = "state" /\ why # "overflow"
      BY DEF Errors
    <3>2. Kept(b, [b EXCEPT !.expand = flag]) /\ Kept(b, Fails(b, why))
      BY <1>0, <3>1, SettingsKept, FailsKept
    <3>3. iob' = [b EXCEPT !.expand = flag] \/ iob' = Fails(b, why)
      BY <1>0, <2>1, <3>1 DEF Call
    <3> QED
      BY <3>2, <3>3
  <2>2. ASSUME NEW n \in Initial, Call([Fresh EXCEPT !.min = n])
        PROVE  Kept(b, iob')
    <3>1. Kept(b, [b EXCEPT !.min = n])
      BY <1>0, SettingsKept, AmountsAreInts
    <3> QED
      BY <1>0, <2>2, <3>1 DEF Call
  <2> QED
    BY <1>1, <2>1, <2>2 DEF Settings
<1>2. CASE Capacities
  <2>1. ASSUME NEW n \in Amounts PROVE Kept(b, SetCapacity(b, n)) /\ Kept(b, Expand(b, b.pos, n, FALSE))
    BY <1>0, AmountsAreInts, SetCapacityKept, ExpandKept
  <2>2. Kept(b, Shrink(b))
    BY <1>0, ShrinkKept
  <2> QED
    BY <1>0, <1>2, <2>1, <2>2 DEF Capacities, Call
<1>3. CASE Positions
  <2>1. ASSUME NEW n \in Amounts PROVE Kept(b, Position(b, n)) /\ Kept(b, Limit(b, n)) /\ Kept(b, Skip(b, n))
    BY <1>0, AmountsAreInts, PositionKept, LimitKept, SkipKept
  <2>2. /\ Kept(b, Clear(b)) /\ Kept(b, Mark(b)) /\ Kept(b, Reset(b)) /\ Kept(b, Flip(b))
        /\ Kept(b, Rewind(b)) /\ Kept(b, Compact(b))
    BY <1>0, MovesKept
  <2> QED
    BY <1>0, <1>3, <2>1, <2>2 DEF Positions, Call
<1>4. CASE Puts
  <2>1. ASSUME NEW n \in Amounts \ {0}, NEW m \in Marks(n)
        PROVE  /\ Kept(b, Put(b, n, m)) /\ Kept(b, PutString(b, n, m)) /\ Kept(b, PutTyped(b, n, m))
               /\ \A i \in Amounts : /\ Kept(b, PutTypedAt(b, i, n, m)) /\ Kept(b, PutAt(b, i, m))
                                     /\ Kept(b, PutField(b, n, i + 1, m))
    <3>1. n \in Nat /\ n <= MaxInt /\ n <= MaxInt + 1 /\ n + 1 <= MaxInt + 1 /\ n + 1 \in Nat
      BY AmountsAreInts
    <3>2. m \in Int /\ Markable(b, m)
      BY <3>1, MarksMarkable
    <3>3. Kept(b, Put(b, n, m)) /\ Kept(b, PutTyped(b, n, m))
      BY <1>0, <3>1, <3>2, PutKept, PutTypedKept
    <3>4. Kept(b, PutString(b, n, m))
      <4>1. PICK l \in Nat : l = n + 1 /\ l <= MaxInt + 1
        BY <3>1
      <4>2. Kept(b, Put(b, l, m))
        BY <1>0, <3>2, <4>1, PutKept
      <4> QED
        BY <4>1, <4>2 DEF PutString
    <3>5. ASSUME NEW i \in Amounts
          PROVE  /\ Kept(b, PutTypedAt(b, i, n, m)) /\ Kept(b, PutAt(b, i, m))
                 /\ Kept(b, PutField(b, n, i + 1, m))
      <4>1. i \in Nat /\ i <= MaxInt
        BY AmountsAreInts
      <4>2. PICK k \in Nat : k = i + 1
        BY <4>1
      <4>3. Kept(b, PutTypedAt(b, i, n, m)) /\ Kept(b, PutAt(b, i, m))
        BY <1>0, <3>1, <3>2, <4>1, PutTypedAtKept, PutAtKept
      <4>4. Kept(b, PutField(b, n, k, m))
        BY <1>0, <3>1, <3>2, PutFieldKept
      <4> QED
        BY <4>2, <4>3, <4>4
    <3> QED
      BY <3>3, <3>4, <3>5
  <2>2. PICK n \in Amounts \ {0} : \E m \in Marks(n) :
        \/ Call(Put(Fresh, n, m)) \/ Call(PutString(Fresh, n, m)) \/ Call(PutTyped(Fresh, n, m))
        \/ \E i \in Amounts : \/ Call(PutTypedAt(Fresh, i, n, m))
                              \/ Call(PutField(Fresh, n, i + 1, m))
                              \/ Call(PutAt(Fresh, i, m))
    BY <1>4 DEF Puts
  <2> QED
    BY <1>0, <2>1, <2>2 DEF Call
<1>5. CASE Fills
  <2>1. ASSUME NEW n \in Amounts PROVE Kept(b, Fill(b, n)) /\ Kept(b, FillAndReset(b, n))
    BY <1>0, AmountsAreInts, FillKept, FillAndResetKept
  <2>2. Kept(b, Sweep(b))
    BY <1>0, SweepKept
  <2> QED
    BY <1>0, <1>5, <2>1, <2>2 DEF Fills, Call
<1>6. CASE Gets
  <2>1. ASSUME NEW n \in Amounts PROVE Kept(b, Get(b, n)) /\ Kept(b, Read(b, n)) /\ Kept(b, GetString(b, n))
    BY <1>0, AmountsAreInts, GetsKept
  <2> QED
    BY <1>0, <1>6, <2>1 DEF Gets, Call
<1>7. CASE Slices
  <2>1. Sliced(b, Duplicate(b)) /\ Sliced(b, Slice(b))
    BY <1>0, WholeSliced
  <2>2. ASSUME NEW n \in Amounts
        PROVE  Kept(b, NextSlice(b, n)) \/ Sliced(b, NextSlice(b, n))
    BY <1>0, AmountsAreInts, NextSliced
  <2>3. ASSUME NEW n \in Amounts, NEW i \in Amounts
        PROVE  Kept(b, GetSlice(b, i, n)) \/ Sliced(b, GetSlice(b, i, n))
    BY <1>0, AmountsAreInts, GetSliced
  <2> QED
    BY <1>0, <1>7, <2>1, <2>2, <2>3 DEF Slices, Call
<1> QED
  BY <1>1, <1>2, <1>3, <1>4, <1>5, <1>6, <1>7 DEF IoBufferNext

\* The numbers of the buffer keep their type and order: 0 <= position <= limit <= capacity and
\* mark <= position, after every call and also after one that threw, and a buffer of whose memory
\* a slice was given away never gets other memory.
THEOREM BufferTyped == IoBufferSpec => []IoBufferTypeOK
<1>1. IoBufferInit => IoBufferInv
  BY BufferInitial
<1>2. IoBufferInv /\ [IoBufferNext]_iob => IoBufferInv'
  <2>1. ASSUME IoBufferInv, IoBufferNext PROVE IoBufferInv'
    <3>1. PICK b : Renewed(b)
      BY <2>1, FreshRenewed
    <3>2. Kept(b, iob') \/ Sliced(b, iob')
      BY <2>1, <3>1, EveryCall
    <3>3. iob' \in BufferSet /\ Sound(iob')
      BY <3>2 DEF Kept, Sliced
    <3> QED
      BY <3>3 DEF IoBufferInv, Sound
  <2>2. ASSUME IoBufferInv, UNCHANGED iob PROVE IoBufferInv'
    BY <2>2 DEF IoBufferInv, Sound
  <2> QED
    BY <2>1, <2>2
<1>3. IoBufferInv => IoBufferTypeOK
  BY DEF IoBufferInv, Sound, BufferSet, IoBufferTypeOK
<1> QED
  BY <1>1, <1>2, <1>3, PTL DEF IoBufferSpec

\* What EIoBuffer.hh promises of every sequence of calls, for buffers of any size: replacing the
\* memory keeps the bytes below the limit where they are and never happens under a slice, a buffer
\* that expands by itself overflows only at the largest size, and a slice is what was asked for.
THEOREM BufferPromises == IoBufferSpec => BufferAsPromised
<1>1. IoBufferInit => IoBufferInv
  BY BufferInitial
<1>2. IoBufferInv /\ [IoBufferNext]_iob => IoBufferInv' /\ [KeepsBytes /\ ExpandsOnPut /\ SlicesExact]_iob
  <2>1. ASSUME IoBufferInv, IoBufferNext
        PROVE  IoBufferInv' /\ KeepsBytes /\ ExpandsOnPut /\ SlicesExact
    <3>1. PICK b : Renewed(b)
      BY <2>1, FreshRenewed
    <3>2. Kept(b, iob') \/ Sliced(b, iob')
      BY <2>1, <3>1, EveryCall
    <3>3. IoBufferInv'
      BY <3>2 DEF Kept, Sliced, IoBufferInv, Sound
    <3>4. /\ b \in BufferSet /\ Sound(b) /\ Ok(b) /\ b = Fresh
          /\ b.mem = iob.mem /\ b.spot = iob.spot /\ b.pos = iob.pos /\ b.limit = iob.limit
          /\ b.cap = iob.cap /\ b.mark = iob.mark /\ b.recap = iob.recap /\ b.expand = iob.expand
          /\ b.shared = iob.shared /\ b.derived = NoSlice
      BY <3>1 DEF Renewed
    <3>5. KeepsBytes
      <4>1. ASSUME iob'.mem # iob.mem
            PROVE  /\ ~iob.shared
                   /\ iob.spot \in 0..(iob.limit - 1) => iob'.spot \in {iob.spot, Overwritten}
        <5>1. /\ b.recap
              /\ b.spot \in 0..(b.limit - 1) => iob'.spot \in {b.spot, Overwritten}
          BY <3>2, <3>4, <4>1 DEF Kept, Sliced
        <5>2. b.shared => ~b.recap
          BY <3>4 DEF Sound
        <5> QED
          BY <3>4, <5>1, <5>2
      <4>2. ASSUME NEW n \in Amounts, iob' = SetCapacity(Fresh, n)
            PROVE  iob'.mark = iob.mark
        <5>1. SetCapacity(b, n).mark = b.mark
          BY <3>4, AmountsAreInts, SetCapacityKept
        <5> QED
          BY <3>4, <4>2, <5>1
      <4> QED
        BY <4>1, <4>2 DEF KeepsBytes
    <3>6. ExpandsOnPut
      <4>1. CASE Kept(b, iob')
        BY <3>4, <4>1 DEF Kept, ExpandsOnPut
      <4>2. CASE Sliced(b, iob')
        BY <4>2 DEF Sliced, Ok, ExpandsOnPut
      <4> QED
        BY <3>2, <4>1, <4>2
    <3>7. SlicesExact
      <4>1. CASE Kept(b, iob')
        BY <3>4, <4>1 DEF Kept, SlicesExact
      <4>2. CASE Sliced(b, iob')
        BY <3>4, <4>2 DEF Sliced, SlicesExact
      <4> QED
        BY <3>2, <4>1, <4>2
    <3> QED
      BY <3>3, <3>5, <3>6, <3>7
  <2>2. ASSUME IoBufferInv, UNCHANGED iob PROVE IoBufferInv'
    BY <2>2 DEF IoBufferInv, Sound
  <2> QED
    BY <2>1, <2>2
<1> QED
  BY <1>1, <1>2, PTL DEF IoBufferSpec, BufferAsPromised
-----------------------------------------------------------------------------
(* Erasing elements of a list *)

\* g numbers the members of P in their order.
Enumerates(g, L, P) ==
    /\ L \in Nat /\ g \in [1..L -> P]
    /\ \A a, b \in 1..L : a < b => g[a] < g[b]
    /\ \A p \in P : \E a \in 1..L : g[a] = p

LEMMA EnumeratesOnce ==
    ASSUME NEW P \in SUBSET Nat, NEW g, NEW L, Enumerates(g, L, P), NEW h, NEW M, Enumerates(h, M, P)
    PROVE  L = M /\ g = h
<1> USE DEF Enumerates
<1>1. L \in Nat /\ M \in Nat /\ g \in [1..L -> P] /\ h \in [1..M -> P]
  OBVIOUS
<1>2. \A a \in 1..L, b \in 1..M : g[a] \in Nat /\ h[b] \in Nat
  BY <1>1
<1> DEFINE Differ == {i \in 1..L : i \in 1..M /\ g[i] # h[i]}
<1>3. CASE Differ # {}
  <2>1. PICK i \in Differ : \A j \in Differ : i <= j
    <3>1. Differ \in SUBSET Nat
      OBVIOUS
    <3> HIDE DEF Differ
    <3> QED
      BY <1>3, <3>1, LeastNatural
  <2>2. i \in 1..L /\ i \in 1..M /\ g[i] # h[i]
    OBVIOUS
  <2>3. \A j \in 1..L : j < i => g[j] = h[j]
    <3>1. \A j \in 1..L : j < i => j \in 1..M /\ ~(i <= j)
      BY <1>1, <2>2
    <3> QED
      BY <2>1, <3>1
  <2>4. CASE g[i] < h[i]
    <3>1. PICK b \in 1..M : h[b] = g[i]
      BY <1>1, <2>2
    <3>2. b < i
      <4>1. ASSUME ~(b < i) PROVE FALSE
        <5>1. b = i \/ i < b
          BY <1>1, <2>2, <4>1
        <5>2. h[b] = h[i] \/ h[i] < h[b]
          BY <2>2, <5>1
        <5> QED
          BY <1>2, <2>2, <2>4, <3>1, <5>2
      <4> QED
        BY <4>1
    <3>3. b \in 1..L /\ g[b] = h[b]
      BY <1>1, <2>2, <2>3, <3>2
    <3>4. g[b] < g[i]
      BY <2>2, <3>2, <3>3
    <3> QED
      BY <1>2, <2>2, <3>1, <3>3, <3>4
  <2>5. CASE h[i] < g[i]
    <3>1. PICK b \in 1..L : g[b] = h[i]
      BY <1>1, <2>2
    <3>2. b < i
      <4>1. ASSUME ~(b < i) PROVE FALSE
        <5>1. b = i \/ i < b
          BY <1>1, <2>2, <4>1
        <5>2. g[b] = g[i] \/ g[i] < g[b]
          BY <2>2, <5>1
        <5> QED
          BY <1>2, <2>2, <2>5, <3>1, <5>2
      <4> QED
        BY <4>1
    <3>3. b \in 1..M /\ g[b] = h[b]
      BY <1>1, <2>2, <2>3, <3>2
    <3>4. h[b] < h[i]
      BY <2>2, <3>2, <3>3
    <3> QED
      BY <1>2, <2>2, <3>1, <3>3, <3>4
  <2> QED
    BY <1>2, <2>2, <2>4, <2>5
<1>4. CASE Differ = {}
  <2>1. \A i \in 1..L : i \in 1..M => g[i] = h[i]
    BY <1>4
  <2>2. ASSUME L < M PROVE FALSE
    <3>1. L + 1 \in 1..M
      BY <1>1, <2>2
    <3>2. PICK a \in 1..L : g[a] = h[L + 1]
      BY <1>1, <3>1
    <3>3. a \in 1..M /\ a < L + 1
      BY <1>1, <2>2
    <3>4. h[a] = g[a] /\ h[a] < h[L + 1]
      BY <2>1, <3>1, <3>3
    <3> QED
      BY <1>2, <3>1, <3>2, <3>3, <3>4
  <2>3. ASSUME M < L PROVE FALSE
    <3>1. M + 1 \in 1..L
      BY <1>1, <2>3
    <3>2. PICK a \in 1..M : h[a] = g[M + 1]
      BY <1>1, <3>1
    <3>3. a \in 1..L /\ a < M + 1
      BY <1>1, <2>3
    <3>4. h[a] = g[a] /\ g[a] < g[M + 1]
      BY <2>1, <3>1, <3>3
    <3> QED
      BY <1>2, <3>1, <3>2, <3>3, <3>4
  <2>4. L = M
    BY <1>1, <2>2, <2>3
  <2>5. \A i \in 1..L : g[i] = h[i]
    BY <2>1, <2>4
  <2> QED
    BY <1>1, <2>4, <2>5
<1> QED
  BY <1>3, <1>4

LEMMA EnumeratesMore ==
    ASSUME NEW P, NEW L, NEW g, Enumerates(g, L, P), NEW i \in Nat, P \subseteq 1..(i - 1), i # 0
    PROVE  Enumerates([j \in 1..(L + 1) |-> IF j <= L THEN g[j] ELSE i], L + 1, P \cup {i})
<1> USE DEF Enumerates
<1>1. L \in Nat /\ L + 1 \in Nat /\ g \in [1..L -> P]
  OBVIOUS
<1>2. PICK h : h = [j \in 1..(L + 1) |-> IF j <= L THEN g[j] ELSE i]
  OBVIOUS
<1>3. (\A j \in 1..L : h[j] = g[j]) /\ h[L + 1] = i
  <2>1. L + 1 \in 1..(L + 1) /\ ~(L + 1 <= L) /\ \A j \in 1..L : j \in 1..(L + 1) /\ j <= L
    BY <1>1
  <2> QED
    BY <1>2, <2>1
<1>4. \A j \in 1..(L + 1) : j \in 1..L \/ j = L + 1
  BY <1>1
<1>5. \A j \in 1..(L + 1) : h[j] \in P \cup {i}
  BY <1>1, <1>3, <1>4
<1>6. h \in [1..(L + 1) -> P \cup {i}]
  BY <1>2, <1>5
<1>7. ASSUME NEW a \in 1..(L + 1), NEW b \in 1..(L + 1), a < b PROVE h[a] < h[b]
  <2>1. a \in 1..L
    BY <1>1, <1>7
  <2>2. CASE b \in 1..L
    BY <1>3, <1>7, <2>1, <2>2
  <2>3. CASE b = L + 1
    <3>1. h[a] \in 1..(i - 1) /\ h[b] = i
      BY <1>1, <1>3, <2>1, <2>3
    <3> QED
      BY <3>1
  <2> QED
    BY <1>4, <2>2, <2>3
<1>8. ASSUME NEW p \in P \cup {i} PROVE \E a \in 1..(L + 1) : h[a] = p
  <2>1. CASE p \in P
    <3>1. PICK a \in 1..L : g[a] = p
      BY <2>1
    <3>2. a \in 1..(L + 1) /\ h[a] = p
      BY <1>1, <1>3, <3>1
    <3> QED
      BY <3>2
  <2>2. CASE p = i
    <3>1. L + 1 \in 1..(L + 1)
      BY <1>1
    <3> QED
      BY <1>3, <2>2, <3>1
  <2> QED
    BY <2>1, <2>2
<1> QED
  BY <1>1, <1>2, <1>6, <1>7, <1>8

Erases(f, s, gone, k) ==
    f = [i \in 0..k |-> IF i = 0 THEN <<>> ELSE IF i \in gone THEN f[i - 1] ELSE Append(f[i - 1], s[i])]

\* t is what the first k elements of s leave.
Leaves(t, s, gone, k) ==
    /\ Len(t) <= k
    /\ \E g : /\ Enumerates(g, Len(t), (1..k) \ gone)
              /\ \A j \in 1..Len(t) : t[j] = s[g[j]]

\* The definition of Erase has one solution.
LEMMA ErasesOnce ==
    ASSUME NEW s, NEW gone, NEW k \in Nat, NEW f, NEW g, Erases(f, s, gone, k), Erases(g, s, gone, k)
    PROVE  f = g
<1> DEFINE Step(h, i) == IF i = 0 THEN <<>> ELSE IF i \in gone THEN h[i - 1] ELSE Append(h[i - 1], s[i])
           Differ == {i \in 0..k : f[i] # g[i]}
<1>1. f = [i \in 0..k |-> Step(f, i)] /\ g = [i \in 0..k |-> Step(g, i)]
  BY DEF Erases
<1>2. CASE Differ # {}
  <2>1. PICK i \in Differ : \A j \in Differ : i <= j
    <3>1. Differ \in SUBSET Nat
      OBVIOUS
    <3> HIDE DEF Differ
    <3> QED
      BY <1>2, <3>1, LeastNatural
  <2>2. i \in 0..k /\ f[i] # g[i]
    OBVIOUS
  <2>3. f[i] = Step(f, i) /\ g[i] = Step(g, i)
    <3> HIDE DEF Step
    <3> QED
      BY <1>1, <2>2
  <2>4. CASE i = 0
    BY <2>2, <2>3, <2>4
  <2>5. CASE i # 0
    <3>1. i - 1 \in 0..k /\ ~(i <= i - 1)
      BY <2>2, <2>5
    <3>2. f[i - 1] = g[i - 1]
      BY <2>1, <3>1
    <3> QED
      BY <2>2, <2>3, <2>5, <3>2
  <2> QED
    BY <2>4, <2>5
<1>3. CASE Differ = {}
  <2>1. \A i \in 0..k : f[i] = g[i]
    BY <1>3
  <2>2. f = [i \in 0..k |-> f[i]] /\ g = [i \in 0..k |-> g[i]]
    <3> HIDE DEF Step
    <3> QED
      BY <1>1
  <2> QED
    BY <2>1, <2>2
<1> QED
  BY <1>2, <1>3

LEMMA EraseIs ==
    ASSUME NEW s, Len(s) \in Nat, NEW gone, NEW f, Erases(f, s, gone, Len(s))
    PROVE  Erase(s, gone) = f[Len(s)]
<1>1. PICK k \in Nat : k = Len(s)
  OBVIOUS
<1>2. PICK g : g = CHOOSE h : Erases(h, s, gone, k)
  OBVIOUS
<1>3. Erases(g, s, gone, k) /\ Erases(f, s, gone, k)
  BY <1>1, <1>2
<1>4. g = f
  BY <1>3, ErasesOnce
<1>5. Erase(s, gone) = g[k]
  <2>1. g = CHOOSE h : h = [i \in 0..k |-> IF i = 0 THEN <<>> ELSE IF i \in gone THEN h[i - 1] ELSE Append(h[i - 1], s[i])]
    BY <1>2 DEF Erases
  <2> QED
    BY <1>1, <2>1 DEF Erase
<1> QED
  BY <1>1, <1>4, <1>5

LEMMA ErasesExist ==
    ASSUME NEW S, NEW s \in Seq(S), NEW gone
    PROVE  \E f : Erases(f, s, gone, Len(s)) /\ \A i \in 0..Len(s) : f[i] \in Seq(S) /\ Leaves(f[i], s, gone, i)
<1>1. PICK L \in Nat : L = Len(s)
  BY LenProperties
<1>2. \A i \in 1..L : s[i] \in S
  BY <1>1, ElementOfSeq
<1> DEFINE Holds(k) == \E f : Erases(f, s, gone, k) /\ \A i \in 0..k : f[i] \in Seq(S) /\ Leaves(f[i], s, gone, i)
           Bad == {k \in 0..L : ~Holds(k)}
<1>3. CASE Bad # {}
  <2>1. PICK k \in Bad : \A j \in Bad : k <= j
    <3>1. Bad \in SUBSET Nat
      OBVIOUS
    <3> HIDE DEF Bad
    <3> QED
      BY <1>3, <3>1, LeastNatural
  <2>2. k \in 0..L /\ ~Holds(k)
    OBVIOUS
  <2>3. CASE k = 0
    <3>1. PICK e : e = <<>> /\ e \in Seq(S) /\ Len(e) = 0
      <4>1. <<>> \in Seq(S) /\ Len(<<>>) = 0
        OBVIOUS
      <4> QED
        BY <4>1
    <3>2. PICK f : f = [i \in 0..0 |-> e]
      OBVIOUS
    <3>3. Erases(f, s, gone, 0)
      BY <3>1, <3>2 DEF Erases
    <3>4. Leaves(e, s, gone, 0)
      <4>1. PICK g : g = [j \in 1..0 |-> 0]
        OBVIOUS
      <4>2. (1..0) \ gone = {}
        OBVIOUS
      <4>3. g \in [1..0 -> {}]
        BY <4>1
      <4>4. Enumerates(g, 0, {})
        BY <4>3 DEF Enumerates
      <4> QED
        BY <3>1, <4>2, <4>4 DEF Leaves
    <3>5. \A i \in 0..0 : f[i] \in Seq(S) /\ Leaves(f[i], s, gone, i)
      BY <3>1, <3>2, <3>4
    <3> QED
      BY <2>2, <2>3, <3>3, <3>5
  <2>4. CASE k # 0
    <3>1. k - 1 \in 0..L /\ ~(k <= k - 1) /\ k \in 1..L /\ k \in Nat /\ k - 1 \in 0..(k - 1)
      BY <2>2, <2>4
    <3>2. Holds(k - 1)
      BY <2>1, <3>1
    <3>3. PICK g : Erases(g, s, gone, k - 1) /\ \A i \in 0..(k - 1) : g[i] \in Seq(S) /\ Leaves(g[i], s, gone, i)
      BY <3>2
    <3>4. PICK a \in Seq(S) : a = g[k - 1] /\ Leaves(a, s, gone, k - 1)
      BY <3>1, <3>3
    <3>5. PICK b \in S : b = s[k]
      BY <1>2, <3>1
    <3>6. PICK last \in Seq(S) : last = IF k \in gone THEN a ELSE Append(a, b)
      <4>1. Append(a, b) \in Seq(S)
        OBVIOUS
      <4> QED
        BY <4>1
    <3>7. Leaves(last, s, gone, k)
      <4>1. PICK A \in Nat : A = Len(a)
        BY LenProperties
      <4>2. PICK h : Enumerates(h, A, (1..(k - 1)) \ gone) /\ \A j \in 1..A : a[j] = s[h[j]]
        BY <3>4, <4>1 DEF Leaves
      <4>3. A <= k - 1
        BY <3>4, <4>1 DEF Leaves
      <4>4. CASE k \in gone
        <5>1. (1..(k - 1)) \ gone = (1..k) \ gone
          BY <3>1, <4>4
        <5>2. A <= k
          BY <3>1, <4>3
        <5> QED
          BY <3>6, <4>1, <4>2, <4>4, <5>1, <5>2 DEF Leaves
      <4>5. CASE k \notin gone
        <5>1. ((1..(k - 1)) \ gone) \cup {k} = (1..k) \ gone
          BY <3>1, <4>5
        <5>2. PICK q : q = [j \in 1..(A + 1) |-> IF j <= A THEN h[j] ELSE k]
          OBVIOUS
        <5>3. Enumerates(q, A + 1, (1..k) \ gone)
          <6>1. (1..(k - 1)) \ gone \subseteq 1..(k - 1)
            OBVIOUS
          <6>2. Enumerates([j \in 1..(A + 1) |-> IF j <= A THEN h[j] ELSE k], A + 1, ((1..(k - 1)) \ gone) \cup {k})
            BY <2>4, <3>1, <4>2, <6>1, EnumeratesMore
          <6> QED
            BY <5>1, <5>2, <6>2
        <5>4. last = Append(a, b)
          BY <3>6, <4>5
        <5>5. Len(last) = A + 1 /\ last[A + 1] = b /\ \A j \in 1..A : last[j] = a[j]
          BY <4>1, <5>4
        <5>6. ASSUME NEW j \in 1..(A + 1) PROVE last[j] = s[q[j]]
          <6>1. CASE j \in 1..A
            BY <4>2, <5>2, <5>5, <6>1
          <6>2. CASE j = A + 1
            <7>1. ~(j <= A) /\ q[j] = k
              BY <5>2, <6>2
            <7> QED
              BY <3>5, <5>5, <6>2, <7>1
          <6> QED
            BY <6>1, <6>2
        <5>7. A + 1 <= k
          BY <3>1, <4>3
        <5> QED
          BY <5>3, <5>5, <5>6, <5>7 DEF Leaves
      <4> QED
        BY <4>4, <4>5
    <3>8. PICK f : f = [i \in 0..k |-> IF i < k THEN g[i] ELSE last]
      OBVIOUS
    <3>9. ASSUME NEW i \in 0..k PROVE f[i] \in Seq(S) /\ Leaves(f[i], s, gone, i)
      <4>1. CASE i < k
        <5>1. i \in 0..(k - 1) /\ f[i] = g[i]
          BY <3>1, <3>8, <4>1
        <5> QED
          BY <3>3, <5>1
      <4>2. CASE i = k
        <5>1. f[i] = last
          BY <3>1, <3>8, <4>2
        <5> QED
          BY <3>6, <3>7, <4>2, <5>1
      <4> QED
        BY <3>1, <4>1, <4>2
    <3>10. Erases(f, s, gone, k)
      <4> DEFINE Step(h, i) == IF i = 0 THEN <<>> ELSE IF i \in gone THEN h[i - 1] ELSE Append(h[i - 1], s[i])
      <4>1. g = [i \in 0..(k - 1) |-> Step(g, i)]
        BY <3>3 DEF Erases
      <4>2. ASSUME NEW i \in 0..k PROVE f[i] = Step(f, i)
        <5>1. CASE i < k
          <6>1. i \in 0..(k - 1) /\ f[i] = g[i]
            BY <3>1, <3>8, <5>1
          <6>2. g[i] = Step(g, i)
            <7> HIDE DEF Step
            <7> QED
              BY <4>1, <6>1
          <6>3. i # 0 => f[i - 1] = g[i - 1]
            <7>1. i # 0 => (i - 1 \in 0..k /\ i - 1 < k)
              BY <3>1, <5>1
            <7> QED
              BY <3>8, <7>1
          <6> QED
            BY <6>1, <6>2, <6>3
        <5>2. CASE i = k
          <6>1. f[i] = last /\ i # 0
            BY <2>4, <3>1, <3>8, <5>2
          <6>2. f[i - 1] = g[k - 1]
            <7>1. i - 1 \in 0..k /\ i - 1 < k /\ i - 1 = k - 1
              BY <2>4, <3>1, <5>2
            <7> QED
              BY <3>8, <7>1
          <6> QED
            BY <3>4, <3>5, <3>6, <5>2, <6>1, <6>2
        <5> QED
          BY <3>1, <5>1, <5>2
      <4> HIDE DEF Step
      <4>3. f = [i \in 0..k |-> f[i]]
        BY <3>8
      <4>4. f = [i \in 0..k |-> Step(f, i)]
        BY <4>2, <4>3
      <4> QED
        BY <4>4 DEF Erases, Step
    <3> QED
      BY <2>2, <3>9, <3>10
  <2> QED
    BY <2>3, <2>4
<1>4. CASE Bad = {}
  <2>1. L \in 0..L
    OBVIOUS
  <2>2. Holds(L)
    BY <1>4, <2>1
  <2> QED
    BY <1>1, <2>2
<1> QED
  BY <1>3, <1>4

LEMMA EraseLeaves ==
    ASSUME NEW S, NEW s \in Seq(S), NEW gone
    PROVE  Erase(s, gone) \in Seq(S) /\ Leaves(Erase(s, gone), s, gone, Len(s))
<1>1. PICK f : Erases(f, s, gone, Len(s)) /\ \A i \in 0..Len(s) : f[i] \in Seq(S) /\ Leaves(f[i], s, gone, i)
  BY ErasesExist
<1>2. Len(s) \in Nat /\ Len(s) \in 0..Len(s)
  BY LenProperties
<1>3. Erase(s, gone) = f[Len(s)]
  BY <1>1, <1>2, EraseIs
<1> QED
  BY <1>1, <1>2, <1>3

\* What is left of a list is told by its positions.
LEMMA ErasedIs ==
    ASSUME NEW S, NEW s \in Seq(S), NEW gone, NEW t \in Seq(S), Leaves(t, s, gone, Len(s))
    PROVE  Erase(s, gone) = t
<1>1. PICK e \in Seq(S) : e = Erase(s, gone) /\ Leaves(e, s, gone, Len(s))
  BY EraseLeaves
<1>2. PICK A \in Nat, B \in Nat, n \in Nat : A = Len(e) /\ B = Len(t) /\ n = Len(s)
  BY LenProperties
<1>3. PICK P \in SUBSET Nat : P = (1..n) \ gone
  <2>1. (1..n) \ gone \in SUBSET Nat
    BY <1>2
  <2> QED
    BY <2>1
<1>4. PICK g : Enumerates(g, A, P) /\ \A j \in 1..A : e[j] = s[g[j]]
  BY <1>1, <1>2, <1>3 DEF Leaves
<1>5. PICK h : Enumerates(h, B, P) /\ \A j \in 1..B : t[j] = s[h[j]]
  BY <1>2, <1>3 DEF Leaves
<1>6. A = B /\ g = h
  BY <1>4, <1>5, EnumeratesOnce
<1>7. \A j \in 1..A : e[j] = t[j]
  BY <1>4, <1>5, <1>6
<1>8. e = [j \in 1..A |-> e[j]] /\ t = [j \in 1..A |-> t[j]]
  <2>1. \A x \in Seq(S) : x = [j \in 1..Len(x) |-> x[j]]
    OBVIOUS
  <2> QED
    BY <1>2, <1>6, <2>1
<1>9. e = t
  BY <1>7, <1>8
<1> QED
  BY <1>1, <1>9

LEMMA EraseNothing ==
    ASSUME NEW S, NEW s \in Seq(S), NEW gone, gone \cap (1..Len(s)) = {}
    PROVE  Erase(s, gone) = s
<1>1. PICK n \in Nat : n = Len(s)
  BY LenProperties
<1>2. (1..n) \ gone = 1..n
  BY <1>1
<1>3. PICK g : g = [j \in 1..n |-> j]
  OBVIOUS
<1>4. Enumerates(g, n, 1..n)
  BY <1>3 DEF Enumerates
<1>5. \A j \in 1..n : s[j] = s[g[j]]
  BY <1>3
<1>6. Leaves(s, s, gone, n)
  <2>1. Len(s) <= n
    BY <1>1
  <2>3. Enumerates(g, Len(s), (1..n) \ gone)
    BY <1>1, <1>2, <1>4, Zenon
  <2>2. \A j \in 1..Len(s) : s[j] = s[g[j]]
    BY <1>1, <1>5
  <2> QED
    BY <2>1, <2>2, <2>3 DEF Leaves
<1> QED
  BY <1>1, <1>6, ErasedIs

-----------------------------------------------------------------------------
(* The strings of headers *)

Texts == Names \cup Values \cup {<<>>}
Strings == [type : {"Inline", "Dynamic", "Reference"}, text : Texts, capacity : Nat]

\* A string within its storage, which if it is its own is not less than the inline one.
Sturdy(s) == s \in Strings /\ Fits(s) /\ (s.type # "Reference" => InlineSize <= s.capacity)

LEMMA TextLengths == /\ InlineSize \in Nat /\ InlineSize # 0
                     /\ \A t \in Texts : Len(t) \in Nat
                     /\ \A d \in Digits : d \in Texts /\ Len(d) + 1 <= InlineSize
<1>1. Len(<<>>) = 0
  OBVIOUS
<1>2. \A t \in Texts : Len(t) \in Nat
  BY <1>1, HeaderMapAssumption DEF Texts
<1>3. InlineSize \in Nat /\ InlineSize # 0
  BY HeaderStringAssumption
<1>4. ASSUME NEW d \in Digits PROVE d \in Texts /\ Len(d) + 1 <= InlineSize
  <2>1. d \in Texts /\ Len(d) < InlineSize
    BY HeaderMapAssumption DEF Texts
  <2>2. PICK l \in Nat : l = Len(d)
    BY <1>2, <2>1
  <2> QED
    BY <1>3, <2>1, <2>2
<1> QED
  BY <1>2, <1>3, <1>4

LEMMA EmptySturdy == /\ Sturdy(EmptyString) /\ EmptyString.type = "Inline" /\ EmptyString.text = <<>>
<1>1. EmptyString = [type |-> "Inline", text |-> <<>>, capacity |-> InlineSize]
  BY DEF EmptyString, Str
<1>2. Len(<<>>) = 0 /\ <<>> \in Texts
  BY DEF Texts
<1>3. Len(<<>>) + 1 <= InlineSize
  BY <1>2, TextLengths
<1> QED
  BY <1>1, <1>2, <1>3, TextLengths DEF Sturdy, Strings, Fits

LEMMA RefSturdy ==
    ASSUME NEW t \in Texts
    PROVE  Sturdy(RefTo(t)) /\ RefTo(t).type = "Reference" /\ RefTo(t).text = t
<1>1. PICK l \in Nat : l = Len(t)
  BY TextLengths
<1>2. PICK r : r = RefTo(t)
  OBVIOUS
<1>3. r = [type |-> "Reference", text |-> t, capacity |-> l + 1]
  BY <1>1, <1>2 DEF RefTo, Str
<1>4. r \in Strings
  <2>1. l + 1 \in Nat
    OBVIOUS
  <2> QED
    BY <1>3, <2>1 DEF Strings
<1>5. Fits(r)
  BY <1>1, <1>3 DEF Fits
<1>6. r.type = "Reference" /\ r.text = t
  BY <1>3
<1> QED
  BY <1>2, <1>4, <1>5, <1>6 DEF Sturdy

LEMMA OwnedSturdy ==
    ASSUME NEW s, Sturdy(s)
    PROVE  Sturdy(Owned(s)) /\ Owned(s).type # "Reference"
BY EmptySturdy DEF Owned

LEMMA CopySturdy ==
    ASSUME NEW s, Sturdy(s), NEW t \in Texts
    PROVE  Sturdy(SetCopy(s, t)) /\ SetCopy(s, t).type # "Reference" /\ SetCopy(s, t).text = t
<1>1. PICK o : o = Owned(s)
  OBVIOUS
<1>2. Sturdy(o) /\ o.type # "Reference"
  BY <1>1, OwnedSturdy
<1>3. PICK l \in Nat, n \in Nat : l = Len(t) /\ n = InlineSize /\ n # 0
  BY TextLengths
<1>4. PICK r : r = SetCopy(s, t)
  OBVIOUS
<1>5. r = Stored(o, t)
  BY <1>1, <1>4 DEF SetCopy
<1>6. o \in Strings /\ o.capacity \in Nat /\ n <= o.capacity
  BY <1>2, <1>3 DEF Sturdy, Strings
<1>7. CASE l + 1 <= o.capacity
  <2>1. r = [o EXCEPT !.text = t]
    BY <1>3, <1>5, <1>7 DEF Stored
  <2>2. r.type = o.type /\ r.text = t /\ r.capacity = o.capacity /\ r \in Strings
    BY <1>6, <2>1 DEF Strings
  <2>3. Fits(r)
    BY <1>3, <1>7, <2>2 DEF Fits
  <2> QED
    BY <1>2, <1>3, <1>4, <1>6, <2>2, <2>3 DEF Sturdy
<1>8. CASE ~(l + 1 <= o.capacity)
  <2>1. r = [type |-> "Dynamic", text |-> t, capacity |-> 2 * l]
    BY <1>3, <1>5, <1>8 DEF Stored, Str
  <2>2. 2 * l \in Nat /\ n <= 2 * l /\ l + 1 <= 2 * l
    BY <1>3, <1>6, <1>8
  <2>3. r.type = "Dynamic" /\ r.text = t /\ r.capacity = 2 * l
    BY <2>1
  <2>4. r \in Strings
    BY <2>1, <2>2 DEF Strings
  <2>5. Fits(r)
    BY <1>3, <2>2, <2>3 DEF Fits
  <2> QED
    BY <1>3, <1>4, <2>2, <2>3, <2>4, <2>5 DEF Sturdy
<1> QED
  BY <1>7, <1>8

LEMMA IntegerSturdy ==
    ASSUME NEW s, Sturdy(s), NEW d \in Digits
    PROVE  Sturdy(SetInteger(s, d)) /\ SetInteger(s, d).type # "Reference" /\ SetInteger(s, d).text = d
<1>1. PICK o : o = Owned(s)
  OBVIOUS
<1>2. Sturdy(o) /\ o.type # "Reference"
  BY <1>1, OwnedSturdy
<1>3. d \in Texts
  BY TextLengths
<1>4. PICK l \in Nat, n \in Nat : l = Len(d) /\ n = InlineSize /\ l + 1 <= n
  BY TextLengths
<1>5. PICK r : r = SetInteger(s, d)
  OBVIOUS
<1>6. r = [o EXCEPT !.text = d]
  BY <1>1, <1>5 DEF SetInteger
<1>7. o \in Strings /\ o.capacity \in Nat /\ n <= o.capacity
  BY <1>2, <1>4 DEF Sturdy, Strings
<1>8. r.type = o.type /\ r.text = d /\ r.capacity = o.capacity /\ r \in Strings
  BY <1>3, <1>6, <1>7 DEF Strings
<1>9. Fits(r)
  BY <1>4, <1>7, <1>8 DEF Fits
<1> QED
  BY <1>2, <1>4, <1>5, <1>7, <1>8, <1>9 DEF Sturdy

LEMMA NumberSturdy ==
    ASSUME NEW v \in Values, NEW number \in BOOLEAN, number => v \in Digits
    PROVE  LET s == NumberOrCopy(v, number) IN Sturdy(s) /\ s.type # "Reference" /\ s.text = v
<1>1. v \in Texts
  BY DEF Texts
<1>2. CASE number
  BY <1>2, EmptySturdy, IntegerSturdy DEF NumberOrCopy
<1>3. CASE ~number
  BY <1>1, <1>3, EmptySturdy, CopySturdy DEF NumberOrCopy, Copy
<1> QED
  BY <1>2, <1>3

\* A string of its own is empty once it has been moved or cleared.
LEMMA LeftEmpty ==
    ASSUME NEW s \in Strings, s.type # "Reference"
    PROVE  IsEmpty(MovedFrom(s)) /\ IsEmpty(Cleared(s))
<1>1. MovedFrom(s) = EmptyString
  BY DEF MovedFrom
<1>2. Cleared(s) = [s EXCEPT !.text = <<>>]
  BY DEF Cleared
<1>3. Cleared(s).text = <<>>
  BY <1>2 DEF Strings
<1> QED
  BY <1>1, <1>3, EmptySturdy DEF IsEmpty

-----------------------------------------------------------------------------
(* The header map *)

Entries == [address : Nat \ {0}, key : Strings, value : Strings]
Maps == [list : Seq(Entries), inline : [Inlines -> Nat], asserts : BOOLEAN]

Directly(e, inl) == e.key.text \in Inlines => inl[e.key.text] = e.address

\* Addresses tell entries apart, each entry of a name with direct access is the one its
\* pointer leads to, and a pointer leads to an entry of its name.
MapInv(m) ==
    /\ m \in Maps /\ m.asserts = TRUE
    /\ \A i \in 1..Len(m.list) : Sturdy(m.list[i].key) /\ Sturdy(m.list[i].value)
    /\ \A i, j \in 1..Len(m.list) : m.list[i].address = m.list[j].address => i = j
    /\ \A i \in 1..Len(m.list) : Directly(m.list[i], m.inline)
    /\ \A n \in Inlines : m.inline[n] # 0 =>
          \E i \in 1..Len(m.list) : m.list[i].address = m.inline[n] /\ m.list[i].key.text = n

\* The texts of a map, which is what the list of the abstraction is.
Pairs(list) == [i \in DOMAIN list |-> <<list[i].key.text, list[i].value.text>>]
PairSet == Texts \X Texts

LEMMA NamesKept == /\ Inlines \subseteq DOMAIN Canonical /\ Inlines \subseteq Texts
                   /\ \A k \in DOMAIN Canonical : Canonical[k] \in Inlines
                   /\ \A n \in Inlines : Canonical[n] = n
BY CanonicalAssumption, HeaderMapAssumption DEF Inlines, Texts

LEMMA ListOf ==
    ASSUME NEW m, MapInv(m)
    PROVE  /\ m.list \in Seq(Entries) /\ Len(m.list) \in Nat /\ DOMAIN m.list = 1..Len(m.list)
           /\ m.inline \in [Inlines -> Nat]
           /\ \A i \in 1..Len(m.list) : m.list[i] \in Entries
<1>1. m.list \in Seq(Entries) /\ m.inline \in [Inlines -> Nat]
  BY DEF MapInv, Maps
<1> QED
  BY <1>1, LenProperties, ElementOfSeq

LEMMA PairsOf ==
    ASSUME NEW s \in Seq(Entries)
    PROVE  /\ Pairs(s) \in Seq(PairSet) /\ Len(Pairs(s)) = Len(s) /\ DOMAIN Pairs(s) = 1..Len(s)
           /\ \A i \in 1..Len(s) : Pairs(s)[i] = <<s[i].key.text, s[i].value.text>>
<1>1. PICK n \in Nat : n = Len(s) /\ DOMAIN s = 1..n
  BY LenProperties
<1>2. PICK p : p = Pairs(s)
  OBVIOUS
<1>3. p = [i \in 1..n |-> <<s[i].key.text, s[i].value.text>>]
  BY <1>1, <1>2 DEF Pairs
<1>4. ASSUME NEW i \in 1..n PROVE <<s[i].key.text, s[i].value.text>> \in PairSet
  <2>1. s[i] \in Entries
    BY <1>1, ElementOfSeq
  <2> QED
    BY <2>1 DEF Entries, Strings, PairSet
<1>5. p \in [1..n -> PairSet]
  BY <1>3, <1>4
<1>6. p \in Seq(PairSet) /\ Len(p) = n
  BY <1>3, <1>5
<1> QED
  BY <1>1, <1>2, <1>3, <1>6

\* There is an address that no entry has.
LEMMA AddressFree ==
    ASSUME NEW m, MapInv(m)
    PROVE  /\ Address(m) \in Nat \ {0}
           /\ \A i \in 1..Len(m.list) : m.list[i].address # Address(m)
<1>1. PICK n \in Nat : n = Len(m.list) /\ DOMAIN m.list = 1..n
  BY ListOf
<1>2. PICK f : f = [i \in 1..n |-> m.list[i].address]
  OBVIOUS
<1>3. PICK R : R = {f[i] : i \in 1..n}
  OBVIOUS
<1>4. IsFiniteSet(1..n) /\ Cardinality(1..n) = n /\ IsFiniteSet(1..(n + 1)) /\ Cardinality(1..(n + 1)) = n + 1
  <2>1. PICK a \in Int, b \in Int, d \in Int : a = 1 /\ b = n /\ d = n + 1
    OBVIOUS
  <2>2. IsFiniteSet(a..b) /\ Cardinality(a..b) = IF a > b THEN 0 ELSE b-a+1
    BY FS_Interval
  <2>3. IsFiniteSet(a..d) /\ Cardinality(a..d) = IF a > d THEN 0 ELSE d-a+1
    BY FS_Interval
  <2> QED
    BY <2>1, <2>2, <2>3
<1>5. IsFiniteSet(R) /\ Cardinality(R) <= n
  <2>1. f \in [1..n -> R]
    BY <1>2, <1>3
  <2>2. f \in Surjection(1..n, R)
    BY <1>3, <2>1 DEF Surjection
  <2> QED
    BY <1>4, <2>2, FS_Surjection
<1>6. \E a \in 1..(n + 1) : a \notin R
  <2> SUFFICES ASSUME \A a \in 1..(n + 1) : a \in R PROVE FALSE
    OBVIOUS
  <2>1. 1..(n + 1) \in SUBSET R
    OBVIOUS
  <2>2. Cardinality(1..(n + 1)) <= Cardinality(R) /\ Cardinality(R) \in Nat
    BY <1>5, <2>1, FS_Subset, FS_CardinalityType
  <2> QED
    BY <1>4, <1>5, <2>2
<1>7. PICK b \in 1..(n + 1) : \A i \in 1..n : m.list[i].address # b
  BY <1>2, <1>3, <1>6
<1>8. PICK a : a = Address(m)
  OBVIOUS
<1>9. a = CHOOSE x \in 1..(n + 1) : \A i \in 1..n : m.list[i].address # x
  BY <1>1, <1>8 DEF Address
<1>10. a \in 1..(n + 1) /\ \A i \in 1..n : m.list[i].address # a
  BY <1>7, <1>9
<1> QED
  BY <1>1, <1>8, <1>10

LEMMA EntryAt ==
    ASSUME NEW m, MapInv(m), NEW i \in 1..Len(m.list)
    PROVE  At(m, m.list[i].address) = i
<1>1. DOMAIN m.list = 1..Len(m.list)
  BY ListOf
<1>2. PICK a : a = m.list[i].address
  OBVIOUS
<1>3. At(m, a) = CHOOSE j \in 1..Len(m.list) : m.list[j].address = a
  BY <1>1 DEF At
<1>4. \A j \in 1..Len(m.list) : m.list[j].address = a => j = i
  BY <1>2 DEF MapInv
<1> QED
  BY <1>2, <1>3, <1>4

\* lookup() finds what get() finds.
LEMMA PointerFinds ==
    ASSUME NEW m, MapInv(m), NEW n \in Inlines
    PROVE  /\ m.inline[n] = 0 => \A i \in 1..Len(m.list) : m.list[i].key.text # n
           /\ m.inline[n] # 0 =>
                 \E i \in 1..Len(m.list) :
                     /\ m.list[i].address = m.inline[n] /\ m.list[i].key.text = n
                     /\ \A j \in 1..Len(m.list) : m.list[j].key.text = n => j = i
<1>1. ASSUME NEW i \in 1..Len(m.list), m.list[i].key.text = n
      PROVE  m.inline[n] = m.list[i].address /\ m.list[i].address # 0
  <2>1. m.list[i] \in Entries
    BY ListOf
  <2>2. m.list[i].address # 0
    BY <2>1 DEF Entries
  <2>3. Directly(m.list[i], m.inline)
    BY DEF MapInv
  <2> QED
    BY <1>1, <2>2, <2>3 DEF Directly
<1>2. CASE m.inline[n] = 0
  BY <1>1, <1>2
<1>3. CASE m.inline[n] # 0
  <2>1. PICK i \in 1..Len(m.list) : m.list[i].address = m.inline[n] /\ m.list[i].key.text = n
    BY <1>3 DEF MapInv
  <2>2. ASSUME NEW j \in 1..Len(m.list), m.list[j].key.text = n PROVE j = i
    <3>1. m.list[j].address = m.list[i].address
      BY <1>1, <2>1, <2>2
    <3> QED
      BY <3>1 DEF MapInv
  <2> QED
    BY <1>3, <2>1, <2>2
<1> QED
  BY <1>2, <1>3

LEMMA AppendAt ==
    ASSUME NEW S, NEW s \in Seq(S), NEW e \in S
    PROVE  /\ Append(s, e) \in Seq(S) /\ Len(s) \in Nat /\ Len(Append(s, e)) = Len(s) + 1
           /\ Append(s, e)[Len(s) + 1] = e /\ \A i \in 1..Len(s) : Append(s, e)[i] = s[i]
           /\ \A i \in 1..(Len(s) + 1) : i \in 1..Len(s) \/ i = Len(s) + 1
OBVIOUS

LEMMA PairsAppend ==
    ASSUME NEW s \in Seq(Entries), NEW e \in Entries
    PROVE  Pairs(Append(s, e)) = Append(Pairs(s), <<e.key.text, e.value.text>>)
<1>1. PICK t \in Seq(Entries) : t = Append(s, e)
  BY AppendAt
<1>2. PICK n \in Nat : n = Len(s) /\ Len(t) = n + 1 /\ t[n + 1] = e /\ \A i \in 1..n : t[i] = s[i]
  BY <1>1, AppendAt
<1>3. PICK p \in Seq(PairSet) : p = Pairs(s) /\ Len(p) = n /\ \A i \in 1..n : p[i] = <<s[i].key.text, s[i].value.text>>
  BY <1>2, PairsOf
<1>4. PICK q \in Seq(PairSet) : q = Pairs(t) /\ Len(q) = n + 1 /\ \A i \in 1..(n + 1) : q[i] = <<t[i].key.text, t[i].value.text>>
  BY <1>2, PairsOf
<1>5. PICK d \in PairSet : d = <<e.key.text, e.value.text>>
  BY DEF Entries, Strings, PairSet
<1>10. Append(p, d) \in Seq(PairSet)
  BY AppendAt
<1>9. PICK r \in Seq(PairSet) : r = Append(p, d)
  BY <1>10
<1>6. Len(r) = n + 1 /\ r[n + 1] = d /\ \A i \in 1..n : r[i] = p[i]
  BY <1>3, <1>9, AppendAt
<1>7. ASSUME NEW i \in 1..(n + 1) PROVE q[i] = r[i]
  <2>1. CASE i \in 1..n
    BY <1>2, <1>3, <1>4, <1>6, <2>1
  <2>2. CASE i = n + 1
    BY <1>2, <1>4, <1>5, <1>6, <2>2
  <2> QED
    BY <2>1, <2>2
<1>8. q = r
  <2>1. \A x \in Seq(PairSet) : x = [j \in 1..Len(x) |-> x[j]]
    OBVIOUS
  <2>2. q = [j \in 1..(n + 1) |-> q[j]] /\ r = [j \in 1..(n + 1) |-> r[j]]
    BY <1>4, <1>6, <2>1
  <2> QED
    BY <1>7, <2>2
<1> QED
  BY <1>1, <1>3, <1>4, <1>5, <1>8, <1>9

\* The lists with one more header at the end.
PairsWith(m, k, v) == Append(Pairs(m.list), <<k, v>>)
ListWith(m, e) == Append(m.list, e)

\* A new entry at the end, with the pointer of its name if it has one.
WithEntry(r, m, a, key, value) ==
    /\ r \in Maps /\ a \in Nat \ {0} /\ \A i \in 1..Len(m.list) : m.list[i].address # a
    /\ r.list = Append(m.list, Entry(a, key, value)) /\ r.asserts = TRUE
    /\ key.text \in Inlines => m.inline[key.text] = 0
    /\ \A n \in Inlines : r.inline[n] = IF n = key.text THEN a ELSE m.inline[n]

LEMMA EntryAdded ==
    ASSUME NEW m, MapInv(m), NEW key, Sturdy(key), NEW value, Sturdy(value),
           NEW a, NEW r, WithEntry(r, m, a, key, value)
    PROVE  /\ MapInv(r) /\ Len(r.list) = Len(m.list) + 1
           /\ Pairs(r.list) = PairsWith(m, key.text, value.text)
<1>0. /\ r \in Maps /\ a \in Nat \ {0} /\ (\A i \in 1..Len(m.list) : m.list[i].address # a)
      /\ r.list = Append(m.list, Entry(a, key, value)) /\ r.asserts = TRUE
      /\ (key.text \in Inlines => m.inline[key.text] = 0)
      /\ \A n \in Inlines : r.inline[n] = IF n = key.text THEN a ELSE m.inline[n]
  BY DEF WithEntry
<1>1. PICK L \in Nat : L = Len(m.list) /\ DOMAIN m.list = 1..L
  BY ListOf
<1>2. PICK s \in Seq(Entries) : s = m.list
  BY ListOf
<1>3. PICK e \in Entries : e = Entry(a, key, value) /\ e.address = a /\ e.key = key /\ e.value = value
  <2>1. Entry(a, key, value) = [address |-> a, key |-> key, value |-> value]
    BY DEF Entry
  <2>2. key \in Strings /\ value \in Strings
    BY DEF Sturdy
  <2> QED
    BY <1>0, <2>1, <2>2 DEF Entries
<1>4. PICK t \in Seq(Entries) : t = r.list
  BY <1>0 DEF Maps
<1>5. t = Append(s, e)
  BY <1>0, <1>2, <1>3, <1>4
<1>6. Len(t) = L + 1 /\ t[L + 1] = e /\ (\A i \in 1..L : t[i] = s[i]) /\ \A i \in 1..(L + 1) : i \in 1..L \/ i = L + 1
  BY <1>1, <1>2, <1>5, AppendAt
<1>7. \A i \in 1..(L + 1) : Sturdy(t[i].key) /\ Sturdy(t[i].value)
  <2>1. \A i \in 1..L : Sturdy(s[i].key) /\ Sturdy(s[i].value)
    BY <1>1, <1>2 DEF MapInv
  <2> QED
    BY <1>3, <1>6, <2>1
<1>8. \A i, j \in 1..(L + 1) : t[i].address = t[j].address => i = j
  <2>1. \A i, j \in 1..L : s[i].address = s[j].address => i = j
    BY <1>1, <1>2 DEF MapInv
  <2>2. \A i \in 1..L : s[i].address # a
    BY <1>0, <1>1, <1>2
  <2> QED
    BY <1>3, <1>6, <2>1, <2>2
<1>9. ASSUME NEW i \in 1..(L + 1), t[i].key.text \in Inlines PROVE r.inline[t[i].key.text] = t[i].address
  <2>1. CASE i \in 1..L
    <3>1. Directly(s[i], m.inline)
      BY <1>1, <1>2, <2>1 DEF MapInv
    <3>2. t[i] = s[i] /\ m.inline[s[i].key.text] = s[i].address
      BY <1>6, <1>9, <2>1, <3>1 DEF Directly
    <3>3. s[i].address # 0
      <4>1. s[i] \in Entries
        BY <1>1, <1>2, <2>1, ElementOfSeq
      <4> QED
        BY <4>1 DEF Entries
    <3>4. s[i].key.text # key.text
      BY <1>0, <1>9, <3>2, <3>3
    <3> QED
      BY <1>0, <1>9, <3>2, <3>4
  <2>2. CASE i = L + 1
    BY <1>0, <1>3, <1>6, <1>9, <2>2
  <2> QED
    BY <1>6, <2>1, <2>2
<1>10. ASSUME NEW n \in Inlines, r.inline[n] # 0
       PROVE  \E i \in 1..(L + 1) : t[i].address = r.inline[n] /\ t[i].key.text = n
  <2>1. CASE n = key.text
    <3>1. L + 1 \in 1..(L + 1) /\ t[L + 1].address = r.inline[n] /\ t[L + 1].key.text = n
      BY <1>0, <1>3, <1>6, <2>1
    <3> QED
      BY <3>1
  <2>2. CASE n # key.text
    <3>1. PICK i \in 1..L : s[i].address = m.inline[n] /\ s[i].key.text = n
      BY <1>0, <1>1, <1>2, <1>10, <2>2 DEF MapInv
    <3>2. i \in 1..(L + 1) /\ t[i] = s[i]
      BY <1>6, <3>1
    <3> QED
      BY <1>0, <2>2, <3>1, <3>2
  <2> QED
    BY <2>1, <2>2
<1>11. \A i \in 1..Len(r.list) : Directly(r.list[i], r.inline)
  BY <1>4, <1>6, <1>9 DEF Directly
<1>12. MapInv(r)
  <2>1. r.list = t /\ Len(r.list) = L + 1
    BY <1>4, <1>6
  <2>2. \A i \in 1..Len(r.list) : Sturdy(r.list[i].key) /\ Sturdy(r.list[i].value)
    BY <1>7, <2>1
  <2>3. \A i, j \in 1..Len(r.list) : r.list[i].address = r.list[j].address => i = j
    BY <1>8, <2>1
  <2>4. \A n \in Inlines : r.inline[n] # 0 =>
            \E i \in 1..Len(r.list) : r.list[i].address = r.inline[n] /\ r.list[i].key.text = n
    BY <1>10, <2>1
  <2>5. r \in Maps /\ r.asserts = TRUE
    BY <1>0
  <2> QED
    BY <1>11, <2>2, <2>3, <2>4, <2>5 DEF MapInv
<1>13. Pairs(t) = Append(Pairs(s), <<key.text, value.text>>)
  BY <1>3, <1>5, PairsAppend
<1>14. Len(r.list) = Len(m.list) + 1
  BY <1>1, <1>4, <1>6
<1>15. Pairs(r.list) = PairsWith(m, key.text, value.text)
  BY <1>2, <1>4, <1>13, Zenon DEF PairsWith
<1> QED
  BY <1>12, <1>14, <1>15

\* maybeCreateInline() leaves an entry of the name, which keeps its value if it was there.
LEMMA CreateEffect ==
    ASSUME NEW m, MapInv(m), NEW n \in Inlines, NEW value, Sturdy(value),
           NEW r, r = MaybeCreateInline(m, n, value)
    PROVE  /\ MapInv(r) /\ r.inline[n] # 0 /\ Len(r.list) <= Len(m.list) + 1
           /\ m.inline[n] # 0 => r = m
           /\ m.inline[n] = 0 => /\ Pairs(r.list) = PairsWith(m, n, value.text)
                                 /\ r.list = ListWith(m, Entry(r.inline[n], RefTo(n), value))
<1>1. PICK L \in Nat : L = Len(m.list)
  BY ListOf
<1>2. r = MaybeCreateInline(m, n, value)
  OBVIOUS
<1>3. CASE m.inline[n] # 0
  <2>1. r = m
    BY <1>2, <1>3 DEF MaybeCreateInline
  <2> QED
    BY <1>1, <1>2, <1>3, <2>1
<1>4. CASE m.inline[n] = 0
  <2>1. PICK a : a = Address(m) /\ a \in Nat \ {0} /\ \A i \in 1..Len(m.list) : m.list[i].address # a
    BY AddressFree
  <2>2. PICK key : key = RefTo(n) /\ Sturdy(key) /\ key.text = n
    <3>1. n \in Texts
      BY NamesKept
    <3> QED
      BY <3>1, RefSturdy
  <2>3. PICK e \in Entries : e = Entry(a, key, value)
    <3>1. Entry(a, key, value) = [address |-> a, key |-> key, value |-> value]
      BY DEF Entry
    <3>2. key \in Strings /\ value \in Strings
      BY <2>2 DEF Sturdy
    <3> QED
      BY <2>1, <3>1, <3>2 DEF Entries
  <2>4. r = [m EXCEPT !.inline[n] = a, !.list = Append(@, e)]
    BY <1>2, <1>4, <2>1, <2>2, <2>3 DEF MaybeCreateInline
  <2>5. m \in Maps /\ m.asserts = TRUE
    BY DEF MapInv
  <2>6. Append(m.list, e) \in Seq(Entries)
    BY <2>5, AppendAt DEF Maps
  <2>7. PICK inl \in [Inlines -> Nat] : inl = [m.inline EXCEPT ![n] = a]
    BY <2>1, <2>5 DEF Maps
  <2>8. r = [m EXCEPT !.inline = inl, !.list = Append(m.list, e)]
    BY <2>4, <2>5, <2>7 DEF Maps
  <2>9. r \in Maps /\ r.list = Append(m.list, e) /\ r.inline = inl /\ r.asserts = TRUE
    BY <2>5, <2>6, <2>7, <2>8 DEF Maps
  <2>10. \A k \in Inlines : inl[k] = IF k = n THEN a ELSE m.inline[k]
    BY <2>5, <2>7 DEF Maps
  <2>11. MapInv(r) /\ Len(r.list) = Len(m.list) + 1 /\ Pairs(r.list) = PairsWith(m, key.text, value.text)
    <3>1. r.list = Append(m.list, Entry(a, key, value))
      BY <2>3, <2>9
    <3>2. key.text \in Inlines => m.inline[key.text] = 0
      BY <1>4, <2>2
    <3>3. \A k \in Inlines : r.inline[k] = IF k = key.text THEN a ELSE m.inline[k]
      BY <2>2, <2>9, <2>10
    <3>4. WithEntry(r, m, a, key, value)
      BY <2>1, <2>9, <3>1, <3>2, <3>3 DEF WithEntry
    <3> QED
      BY <2>2, <3>4, EntryAdded
  <2>12. r.inline[n] = a /\ a # 0
    BY <2>1, <2>9, <2>10
  <2>13. Len(r.list) <= Len(m.list) + 1
    BY <1>1, <2>11
  <2>14. r.list = ListWith(m, Entry(r.inline[n], RefTo(n), value))
    BY <2>2, <2>3, <2>9, <2>12, Zenon DEF ListWith
  <2>15. Pairs(r.list) = PairsWith(m, n, value.text)
    BY <2>2, <2>11
  <2> QED
    BY <1>2, <1>4, <2>11, <2>12, <2>13, <2>14, <2>15
<1> QED
  BY <1>3, <1>4

\* The name a header is kept under.
KeptAs(k) == IF k \in DOMAIN Canonical THEN Canonical[k] ELSE k
Pointed(m, k) == k \in DOMAIN Canonical /\ m.inline[Canonical[k]] # 0

LEMMA InsertEffect ==
    ASSUME NEW m, MapInv(m), NEW key, Sturdy(key), NEW value, Sturdy(value)
    PROVE  LET r == InsertByKey(m, key, value) IN
           /\ MapInv(r.map) /\ Len(r.map.list) <= Len(m.list) + 1
           /\ Pairs(r.map.list) = IF Pointed(m, key.text) THEN Pairs(m.list)
                                  ELSE PairsWith(m, KeptAs(key.text), value.text)
           /\ key.type # "Reference" => IsEmpty(r.key)
           /\ value.type # "Reference" => IsEmpty(r.value)
<1>1. PICK L \in Nat : L = Len(m.list)
  BY ListOf
<1>2. PICK r : r = InsertByKey(m, key, value)
  OBVIOUS
<1>3. key \in Strings /\ value \in Strings
  BY DEF Sturdy
<1>4. CASE key.text \in DOMAIN Canonical
  <2>1. PICK n : n = Canonical[key.text]
    OBVIOUS
  <2>2. n \in Inlines
    BY <1>4, <2>1, NamesKept
  <2>3. PICK c : c = MaybeCreateInline(m, n, value)
    OBVIOUS
  <2>4. /\ MapInv(c) /\ c.inline[n] # 0 /\ Len(c.list) <= Len(m.list) + 1
        /\ (m.inline[n] # 0 => c = m)
        /\ (m.inline[n] = 0 => Pairs(c.list) = PairsWith(m, n, value.text))
    BY <2>2, <2>3, CreateEffect
  <2>5. r = Inserted(c, Cleared(key), IF m.inline[n] # 0 THEN Cleared(value) ELSE MovedFrom(value))
    BY <1>2, <1>4, <2>1, <2>3, Zenon DEF InsertByKey
  <2>6. r.map = c /\ r.key = Cleared(key) /\ r.value = IF m.inline[n] # 0 THEN Cleared(value) ELSE MovedFrom(value)
    BY <2>5 DEF Inserted
  <2>7. (key.type # "Reference" => IsEmpty(r.key)) /\ (value.type # "Reference" => IsEmpty(r.value))
    BY <1>3, <2>6, LeftEmpty
  <2>8. KeptAs(key.text) = n
    BY <1>4, <2>1 DEF KeptAs
  <2>9. Pairs(c.list) = IF Pointed(m, key.text) THEN Pairs(m.list)
                        ELSE PairsWith(m, KeptAs(key.text), value.text)
    BY <1>4, <2>1, <2>4, <2>8 DEF Pointed
  <2> QED
    BY <1>2, <2>4, <2>6, <2>7, <2>9
<1>5. CASE key.text \notin DOMAIN Canonical
  <2>1. PICK a : a = Address(m) /\ a \in Nat \ {0} /\ \A i \in 1..Len(m.list) : m.list[i].address # a
    BY AddressFree
  <2>2. PICK e \in Entries : e = Entry(a, key, value)
    <3>1. Entry(a, key, value) = [address |-> a, key |-> key, value |-> value]
      BY DEF Entry
    <3> QED
      BY <1>3, <2>1, <3>1 DEF Entries
  <2>3. m \in Maps /\ m.asserts = TRUE
    BY DEF MapInv
  <2>4. PICK c : c = [m EXCEPT !.list = Append(@, e)]
    OBVIOUS
  <2>5. r = Inserted(c, MovedFrom(key), MovedFrom(value))
    BY <1>2, <1>5, <2>1, <2>2, <2>4 DEF InsertByKey
  <2>6. r.map = c /\ r.key = MovedFrom(key) /\ r.value = MovedFrom(value)
    BY <2>5 DEF Inserted
  <2>7. Append(m.list, e) \in Seq(Entries)
    BY <2>3, AppendAt DEF Maps
  <2>8. c \in Maps /\ c.list = Append(m.list, e) /\ c.inline = m.inline /\ c.asserts = TRUE
    BY <2>3, <2>4, <2>7 DEF Maps
  <2>9. key.text \notin Inlines
    BY <1>5, NamesKept
  <2>10. WithEntry(c, m, a, key, value)
    <3>1. \A n \in Inlines : c.inline[n] = IF n = key.text THEN a ELSE m.inline[n]
      BY <2>8, <2>9
    <3> QED
      BY <2>1, <2>2, <2>8, <2>9, <3>1 DEF WithEntry
  <2>11. MapInv(c) /\ Len(c.list) = Len(m.list) + 1 /\ Pairs(c.list) = PairsWith(m, key.text, value.text)
    BY <2>10, EntryAdded
  <2>12. Len(c.list) <= Len(m.list) + 1
    BY <1>1, <2>11
  <2>13. (key.type # "Reference" => IsEmpty(r.key)) /\ (value.type # "Reference" => IsEmpty(r.value))
    BY <1>3, <2>6, LeftEmpty
  <2>14. KeptAs(key.text) = key.text /\ ~Pointed(m, key.text)
    BY <1>5 DEF KeptAs, Pointed
  <2> QED
    BY <1>2, <2>6, <2>11, <2>12, <2>13, <2>14
<1> QED
  BY <1>4, <1>5

\* An assertion that holds leaves the map as it is.
LEMMA AssertingHolds ==
    ASSUME NEW r, MapInv(r.map), NEW keyToo \in BOOLEAN, IsEmpty(r.value), keyToo => IsEmpty(r.key)
    PROVE  Asserting(r, keyToo) = r.map
<1>1. PICK c : c = r.map
  OBVIOUS
<1>2. c \in Maps /\ c.asserts = TRUE
  BY <1>1 DEF MapInv
<1>3. PICK f \in BOOLEAN : f = (c.asserts /\ IsEmpty(r.value) /\ (keyToo => IsEmpty(r.key)))
  OBVIOUS
<1>4. f = TRUE
  BY <1>2, <1>3
<1>5. Asserting(r, keyToo) = [c EXCEPT !.asserts = f]
  BY <1>1, <1>3 DEF Asserting
<1>6. [c EXCEPT !.asserts = TRUE] = c
  BY <1>2 DEF Maps
<1> QED
  BY <1>1, <1>4, <1>5, <1>6

\* The lists without the headers of a name, and a map that has lost them.
PairsWithout(m, k) == Erase(Pairs(m.list), {i \in DOMAIN Pairs(m.list) : Pairs(m.list)[i][1] = k})

Lost(r, m, k) ==
    /\ r \in Maps /\ r.asserts = TRUE /\ r.list = Erase(m.list, GetHeader(m, k))
    /\ \A n \in Inlines : r.inline[n] = IF n = k THEN 0 ELSE m.inline[n]

LEMMA LostKeeps ==
    ASSUME NEW m, MapInv(m), NEW k, NEW r, Lost(r, m, k)
    PROVE  /\ MapInv(r) /\ Len(r.list) <= Len(m.list) /\ Pairs(r.list) = PairsWithout(m, k)
           /\ \A i \in 1..Len(r.list) : r.list[i].key.text # k
<1>1. /\ r \in Maps /\ r.asserts = TRUE /\ r.list = Erase(m.list, GetHeader(m, k))
      /\ \A n \in Inlines : r.inline[n] = IF n = k THEN 0 ELSE m.inline[n]
  BY DEF Lost
<1>2. PICK L \in Nat : L = Len(m.list) /\ DOMAIN m.list = 1..L
  BY ListOf
<1>3. PICK s \in Seq(Entries) : s = m.list
  BY ListOf
<1>4. PICK gone : gone = {i \in 1..L : s[i].key.text = k}
  OBVIOUS
<1>5. GetHeader(m, k) = gone
  BY <1>2, <1>3, <1>4 DEF GetHeader
<1>6. Erase(s, gone) \in Seq(Entries) /\ Leaves(Erase(s, gone), s, gone, L)
  BY <1>2, <1>3, EraseLeaves
<1>7. PICK t \in Seq(Entries) : t = r.list /\ Leaves(t, s, gone, L)
  BY <1>1, <1>3, <1>5, <1>6
<1>8. PICK T \in Nat : T = Len(t) /\ DOMAIN t = 1..T
  BY LenProperties
<1>9. PICK g : Enumerates(g, T, (1..L) \ gone) /\ \A j \in 1..T : t[j] = s[g[j]]
  BY <1>7, <1>8 DEF Leaves
<1>10. T <= L
  BY <1>7, <1>8 DEF Leaves
<1>11. \A j \in 1..T : g[j] \in 1..L /\ t[j] = s[g[j]] /\ s[g[j]].key.text # k
  BY <1>4, <1>9 DEF Enumerates
<1>12. \A i, j \in 1..T : g[i] = g[j] => i = j
  <2>1. \A i, j \in 1..T : i < j => g[i] < g[j]
    BY <1>9 DEF Enumerates
  <2> QED
    BY <1>8, <1>11, <2>1
<1>13. ASSUME NEW i \in 1..L, s[i].key.text # k PROVE \E j \in 1..T : g[j] = i
  <2>1. i \in (1..L) \ gone
    BY <1>4, <1>13
  <2> QED
    BY <1>9, <2>1 DEF Enumerates
<1>14. \A j \in 1..T : Sturdy(t[j].key) /\ Sturdy(t[j].value)
  <2>1. \A i \in 1..L : Sturdy(s[i].key) /\ Sturdy(s[i].value)
    BY <1>2, <1>3 DEF MapInv
  <2> QED
    BY <1>11, <2>1
<1>15. \A i, j \in 1..T : t[i].address = t[j].address => i = j
  <2>1. \A i, j \in 1..L : s[i].address = s[j].address => i = j
    BY <1>2, <1>3 DEF MapInv
  <2>2. ASSUME NEW i \in 1..T, NEW j \in 1..T, t[i].address = t[j].address PROVE i = j
    <3>1. PICK a \in 1..L, b \in 1..L : a = g[i] /\ b = g[j] /\ t[i] = s[a] /\ t[j] = s[b]
      BY <1>11
    <3>2. a = b
      BY <2>1, <2>2, <3>1
    <3> QED
      BY <1>12, <3>1, <3>2
  <2> QED
    BY <2>2
<1>16. ASSUME NEW j \in 1..T PROVE Directly(t[j], r.inline)
  <2>1. PICK i \in 1..L : i = g[j] /\ t[j] = s[i] /\ s[i].key.text # k
    BY <1>11
  <2>2. Directly(s[i], m.inline)
    BY <1>2, <1>3 DEF MapInv
  <2> QED
    BY <1>1, <2>1, <2>2 DEF Directly
<1>17. ASSUME NEW n \in Inlines, r.inline[n] # 0
       PROVE  \E j \in 1..T : t[j].address = r.inline[n] /\ t[j].key.text = n
  <2>1. n # k /\ r.inline[n] = m.inline[n]
    BY <1>1, <1>17
  <2>2. PICK i \in 1..L : s[i].address = m.inline[n] /\ s[i].key.text = n
    BY <1>2, <1>3, <1>17, <2>1 DEF MapInv
  <2>3. PICK j \in 1..T : g[j] = i
    BY <1>13, <2>1, <2>2
  <2>4. t[j] = s[i]
    BY <1>11, <2>3
  <2> QED
    BY <2>1, <2>2, <2>4
<1>18. MapInv(r)
  BY <1>1, <1>7, <1>8, <1>14, <1>15, <1>16, <1>17 DEF MapInv
<1>19. Pairs(t) = PairsWithout(m, k)
  <2>1. PICK p \in Seq(PairSet) : p = Pairs(s) /\ Len(p) = L /\ DOMAIN p = 1..L /\ \A i \in 1..L : p[i] = <<s[i].key.text, s[i].value.text>>
    BY <1>2, <1>3, PairsOf
  <2>2. PICK q \in Seq(PairSet) : q = Pairs(t) /\ Len(q) = T /\ \A j \in 1..T : q[j] = <<t[j].key.text, t[j].value.text>>
    BY <1>8, PairsOf
  <2>3. {i \in DOMAIN p : p[i][1] = k} = gone
    <3>1. \A i \in 1..L : p[i][1] = s[i].key.text
      BY <2>1
    <3> QED
      BY <1>4, <2>1, <3>1
  <2>4. ASSUME NEW j \in 1..T PROVE q[j] = p[g[j]]
    <3>1. PICK i \in 1..L : i = g[j] /\ t[j] = s[i]
      BY <1>11
    <3>2. p[i] = <<s[i].key.text, s[i].value.text>>
      BY <2>1
    <3>3. q[j] = <<t[j].key.text, t[j].value.text>>
      BY <2>2
    <3> QED
      BY <3>1, <3>2, <3>3
  <2>5. Leaves(q, p, gone, L)
    BY <1>9, <1>10, <2>2, <2>4 DEF Leaves
  <2>6. Erase(p, gone) = q
    BY <2>1, <2>5, ErasedIs
  <2> QED
    BY <1>3, <2>1, <2>2, <2>3, <2>6 DEF PairsWithout
<1> QED
  BY <1>2, <1>7, <1>8, <1>10, <1>11, <1>18, <1>19

LEMMA RemoveKeyEffect ==
    ASSUME NEW m, MapInv(m), NEW k, NEW r, r = RemoveKey(m, k)
    PROVE  Lost(r, m, KeptAs(k))
<1>1. PICK L \in Nat : L = Len(m.list) /\ DOMAIN m.list = 1..L
  BY ListOf
<1>2. m \in Maps /\ m.asserts = TRUE /\ m.list \in Seq(Entries)
  BY DEF MapInv, Maps
<1>3. \A gone : Erase(m.list, gone) \in Seq(Entries)
  BY <1>2, EraseLeaves
<1>4. CASE k \notin DOMAIN Canonical
  <2>1. PICK t \in Seq(Entries) : t = Erase(m.list, GetHeader(m, k))
    BY <1>3
  <2>2. r = [m EXCEPT !.list = t]
    BY <1>4, <2>1 DEF RemoveKey
  <2>3. r \in Maps /\ r.list = t /\ r.inline = m.inline /\ r.asserts = TRUE
    BY <1>2, <2>2 DEF Maps
  <2>4. k \notin Inlines /\ KeptAs(k) = k
    BY <1>4, NamesKept DEF KeptAs
  <2>5. \A n \in Inlines : r.inline[n] = IF n = k THEN 0 ELSE m.inline[n]
    BY <2>3, <2>4
  <2> QED
    BY <2>1, <2>3, <2>4, <2>5 DEF Lost
<1>5. CASE k \in DOMAIN Canonical
  <2>1. PICK n : n = Canonical[k]
    OBVIOUS
  <2>2. n \in Inlines /\ KeptAs(k) = n
    BY <1>5, <2>1, NamesKept DEF KeptAs
  <2>3. r = RemoveInline(m, n)
    BY <1>5, <2>1 DEF RemoveKey
  <2>4. CASE m.inline[n] = 0
    <3>1. r = m
      BY <2>3, <2>4 DEF RemoveInline
    <3>2. \A i \in 1..L : m.list[i].key.text # n
      BY <1>1, <2>2, <2>4, PointerFinds
    <3>3. GetHeader(m, n) \cap (1..L) = {}
      BY <1>1, <3>2 DEF GetHeader
    <3>4. Erase(m.list, GetHeader(m, n)) = m.list
      BY <1>1, <1>2, <3>3, EraseNothing
    <3>5. \A q \in Inlines : r.inline[q] = IF q = n THEN 0 ELSE m.inline[q]
      BY <2>4, <3>1
    <3> QED
      BY <1>2, <2>2, <3>1, <3>4, <3>5 DEF Lost
  <2>5. CASE m.inline[n] # 0
    <3>1. PICK i \in 1..L : /\ m.list[i].address = m.inline[n] /\ m.list[i].key.text = n
                            /\ \A j \in 1..L : m.list[j].key.text = n => j = i
      BY <1>1, <2>2, <2>5, PointerFinds
    <3>2. At(m, m.inline[n]) = i
      <4>1. At(m, m.list[i].address) = i
        BY <1>1, EntryAt
      <4> QED
        BY <3>1, <4>1
    <3>3. GetHeader(m, n) = {i}
      BY <1>1, <3>1 DEF GetHeader
    <3>4. PICK t \in Seq(Entries) : t = Erase(m.list, GetHeader(m, n))
      BY <1>3
    <3>5. r = [m EXCEPT !.inline[n] = 0, !.list = t]
      BY <2>3, <2>5, <3>2, <3>3, <3>4 DEF RemoveInline
    <3>6. PICK inl \in [Inlines -> Nat] : inl = [m.inline EXCEPT ![n] = 0]
      BY <1>2 DEF Maps
    <3>7. r = [m EXCEPT !.inline = inl, !.list = t]
      BY <1>2, <3>5, <3>6 DEF Maps
    <3>8. r \in Maps /\ r.list = t /\ r.inline = inl /\ r.asserts = TRUE
      BY <1>2, <3>6, <3>7 DEF Maps
    <3>9. \A q \in Inlines : r.inline[q] = IF q = n THEN 0 ELSE m.inline[q]
      BY <1>2, <3>6, <3>8 DEF Maps
    <3> QED
      BY <2>2, <3>4, <3>8, <3>9 DEF Lost
  <2> QED
    BY <2>4, <2>5
<1> QED
  BY <1>4, <1>5

\* The list in which the headers of a name have another value.
PairsAssigned(m, k, v) ==
    [i \in DOMAIN Pairs(m.list) |->
        IF Pairs(m.list)[i][1] = k THEN <<Pairs(m.list)[i][1], v>> ELSE Pairs(m.list)[i]]

\* The map with another value in the i-th of its entries.
Revalued(m, i, w) == [m EXCEPT !.list[i].value = w]

LEMMA ValueChanges ==
    ASSUME NEW m, MapInv(m), NEW n \in Inlines, m.inline[n] # 0,
           NEW i, i = At(m, m.inline[n]), NEW w, Sturdy(w),
           NEW r, r = Revalued(m, i, w)
    PROVE  /\ MapInv(r) /\ Len(r.list) = Len(m.list) /\ i \in 1..Len(m.list)
           /\ Pairs(r.list) = PairsAssigned(m, n, w.text)
<1>1. PICK L \in Nat : L = Len(m.list) /\ DOMAIN m.list = 1..L
  BY ListOf
<1>2. m \in Maps /\ m.asserts = TRUE
  BY DEF MapInv
<1>3. PICK s \in Seq(Entries) : s = m.list
  BY ListOf
<1>4. PICK h \in 1..L : /\ s[h].address = m.inline[n] /\ s[h].key.text = n
                        /\ \A j \in 1..L : s[j].key.text = n => j = h
  BY <1>1, <1>3, PointerFinds
<1>5. i = h
  <2>1. At(m, m.list[h].address) = h
    BY <1>1, EntryAt
  <2> QED
    BY <1>3, <1>4, <2>1
<1>6. i \in 1..L /\ s[i].address = m.inline[n] /\ s[i].key.text = n /\ \A j \in 1..L : s[j].key.text = n => j = i
  BY <1>4, <1>5
<1>7. s[i] \in Entries /\ w \in Strings
  BY <1>1, <1>3, <1>6, ElementOfSeq DEF Sturdy
<1>8. PICK e \in Entries : e = [s[i] EXCEPT !.value = w] /\ e.address = s[i].address /\ e.key = s[i].key /\ e.value = w
  <2>1. PICK d \in Entries : d = s[i]
    BY <1>7
  <2>2. PICK e : e = [d EXCEPT !.value = w]
    OBVIOUS
  <2>3. e \in Entries /\ e.address = d.address /\ e.key = d.key /\ e.value = w
    BY <1>7, <2>1, <2>2 DEF Entries
  <2> QED
    BY <2>1, <2>2, <2>3
<1>9. PICK t : t = [s EXCEPT ![i] = e]
  OBVIOUS
<1>10. t \in Seq(Entries) /\ Len(t) = L /\ DOMAIN t = 1..L /\ \A j \in 1..L : t[j] = IF j = i THEN e ELSE s[j]
  <2>1. DOMAIN s = 1..L /\ Len(s) = L
    BY <1>1, <1>3
  <2>2. \A j \in 1..L : s[j] \in Entries
    BY <2>1, ElementOfSeq
  <2>3. t = [j \in 1..L |-> IF j = i THEN e ELSE s[j]]
    BY <1>9, <2>1
  <2>4. t \in [1..L -> Entries]
    BY <2>2, <2>3
  <2> QED
    BY <2>3, <2>4
<1>11. r = [m EXCEPT !.list = t]
  BY <1>2, <1>3, <1>8, <1>9 DEF Maps, Revalued
<1>12. r \in Maps /\ r.list = t /\ r.inline = m.inline /\ r.asserts = TRUE
  BY <1>2, <1>10, <1>11 DEF Maps
<1>13. \A j \in 1..L : t[j].address = s[j].address /\ t[j].key = s[j].key
  BY <1>8, <1>10
<1>14. \A j \in 1..L : Sturdy(t[j].key) /\ Sturdy(t[j].value)
  <2>1. \A j \in 1..L : Sturdy(s[j].key) /\ Sturdy(s[j].value)
    BY <1>1, <1>3 DEF MapInv
  <2> QED
    BY <1>8, <1>10, <1>13, <2>1
<1>15. \A a, b \in 1..L : t[a].address = t[b].address => a = b
  <2>1. \A a, b \in 1..L : s[a].address = s[b].address => a = b
    BY <1>1, <1>3 DEF MapInv
  <2> QED
    BY <1>13, <2>1
<1>16. \A j \in 1..L : Directly(t[j], r.inline)
  <2>1. \A j \in 1..L : Directly(s[j], m.inline)
    BY <1>1, <1>3 DEF MapInv
  <2> QED
    BY <1>12, <1>13, <2>1 DEF Directly
<1>17. ASSUME NEW q \in Inlines, r.inline[q] # 0
       PROVE  \E j \in 1..L : t[j].address = r.inline[q] /\ t[j].key.text = q
  <2>1. PICK j \in 1..L : s[j].address = m.inline[q] /\ s[j].key.text = q
    BY <1>1, <1>3, <1>12, <1>17 DEF MapInv
  <2> QED
    BY <1>12, <1>13, <2>1
<1>18. MapInv(r)
  <2>1. r.list = t /\ Len(r.list) = L
    BY <1>10, <1>12
  <2>2. \A j \in 1..Len(r.list) : Sturdy(r.list[j].key) /\ Sturdy(r.list[j].value)
    BY <1>14, <2>1
  <2>3. \A a, b \in 1..Len(r.list) : r.list[a].address = r.list[b].address => a = b
    BY <1>15, <2>1
  <2>4. \A j \in 1..Len(r.list) : Directly(r.list[j], r.inline)
    BY <1>16, <2>1
  <2>5. \A q \in Inlines : r.inline[q] # 0 =>
            \E j \in 1..Len(r.list) : r.list[j].address = r.inline[q] /\ r.list[j].key.text = q
    BY <1>17, <2>1
  <2> QED
    BY <1>12, <2>2, <2>3, <2>4, <2>5 DEF MapInv
<1>19. Pairs(t) = PairsAssigned(m, n, w.text)
  <2>1. PICK p \in Seq(PairSet) : p = Pairs(s) /\ DOMAIN p = 1..L /\ \A j \in 1..L : p[j] = <<s[j].key.text, s[j].value.text>>
    BY <1>1, <1>3, PairsOf
  <2>2. PICK q : q = Pairs(t) /\ q = [j \in 1..L |-> <<t[j].key.text, t[j].value.text>>]
    BY <1>10 DEF Pairs
  <2>3. ASSUME NEW j \in 1..L
        PROVE  <<t[j].key.text, t[j].value.text>> = IF p[j][1] = n THEN <<p[j][1], w.text>> ELSE p[j]
    <3>1. p[j][1] = s[j].key.text
      BY <2>1
    <3>2. CASE j = i
      <4>1. t[j].key.text = n /\ t[j].value.text = w.text /\ p[j][1] = n
        BY <1>6, <1>8, <1>10, <3>1, <3>2
      <4> QED
        BY <4>1
    <3>3. CASE j # i
      <4>1. t[j] = s[j] /\ p[j][1] # n
        BY <1>6, <1>10, <3>1, <3>3
      <4> QED
        BY <2>1, <4>1
    <3> QED
      BY <3>2, <3>3
  <2>4. q = [j \in 1..L |-> IF p[j][1] = n THEN <<p[j][1], w.text>> ELSE p[j]]
    BY <2>2, <2>3
  <2> QED
    BY <1>3, <2>1, <2>2, <2>4 DEF PairsAssigned
<1> QED
  BY <1>1, <1>6, <1>10, <1>12, <1>18, <1>19

\* Of a list that has been given a header of a new name, only that one gets a value.
LEMMA AssignedLast ==
    ASSUME NEW m, MapInv(m), NEW c, MapInv(c), NEW n \in Inlines, m.inline[n] = 0, NEW x \in Texts,
           Pairs(c.list) = PairsWith(m, n, x), NEW v \in Texts
    PROVE  PairsAssigned(c, n, v) = PairsWith(m, n, v)
<1>1. PICK s \in Seq(Entries), L \in Nat : s = m.list /\ L = Len(s)
  BY ListOf
<1>2. PICK p \in Seq(PairSet) : p = Pairs(s) /\ Len(p) = L /\ \A j \in 1..L : p[j] = <<s[j].key.text, s[j].value.text>>
  BY <1>1, PairsOf
<1>3. n \in Texts
  BY NamesKept
<1>4. PICK d \in PairSet, e \in PairSet : d = <<n, x>> /\ e = <<n, v>>
  BY <1>3 DEF PairSet
<1>5. Append(p, d) \in Seq(PairSet) /\ Append(p, e) \in Seq(PairSet)
  BY AppendAt
<1>6. PICK a \in Seq(PairSet) : a = Append(p, d)
  BY <1>5
<1>7. PICK b \in Seq(PairSet) : b = Append(p, e)
  BY <1>5
<1>8. Len(a) = L + 1 /\ a[L + 1] = d /\ \A j \in 1..L : a[j] = p[j]
  BY <1>2, <1>6, AppendAt
<1>9. Len(b) = L + 1 /\ b[L + 1] = e /\ \A j \in 1..L : b[j] = p[j]
  BY <1>2, <1>7, AppendAt
<1>10. Pairs(c.list) = a
  BY <1>1, <1>2, <1>4, <1>6 DEF PairsWith
<1>11. DOMAIN a = 1..(L + 1)
  BY <1>8
<1>12. ASSUME NEW j \in 1..(L + 1) PROVE b[j] = IF a[j][1] = n THEN <<a[j][1], v>> ELSE a[j]
  <2>1. CASE j \in 1..L
    <3>1. s[j].key.text # n
      BY <1>1, <2>1, PointerFinds
    <3>2. a[j][1] = s[j].key.text
      BY <1>2, <1>8, <2>1
    <3> QED
      BY <1>8, <1>9, <2>1, <3>1, <3>2
  <2>2. CASE j = L + 1
    <3>1. a[j][1] = n /\ b[j] = <<n, v>>
      BY <1>4, <1>8, <1>9, <2>2
    <3> QED
      BY <3>1
  <2> QED
    BY <2>1, <2>2
<1>13. b = [j \in 1..(L + 1) |-> b[j]]
  <2>1. \A y \in Seq(PairSet) : y = [j \in 1..Len(y) |-> y[j]]
    OBVIOUS
  <2> QED
    BY <1>9, <2>1
<1>14. b = [j \in 1..(L + 1) |-> IF a[j][1] = n THEN <<a[j][1], v>> ELSE a[j]]
  BY <1>12, <1>13
<1>15. PairsAssigned(c, n, v) = b
  BY <1>10, <1>11, <1>14 DEF PairsAssigned
<1> QED
  BY <1>1, <1>2, <1>4, <1>7, <1>15 DEF PairsWith

Assigned(m, n, v, number) ==
    LET c == MaybeCreateInline(m, n, EmptyString)
        i == At(c, c.inline[n])
    IN  IF number THEN [c EXCEPT !.list[i].value = SetInteger(@, v)] ELSE WithValue(m, n, v)

LEMMA AssignEffect ==
    ASSUME NEW m, MapInv(m), NEW n \in Inlines, NEW v \in Values, NEW number \in BOOLEAN,
           number => v \in Digits, NEW r, r = Assigned(m, n, v, number)
    PROVE  /\ MapInv(r) /\ Len(r.list) <= Len(m.list) + 1
           /\ m.inline[n] # 0 => Len(r.list) = Len(m.list) /\ Pairs(r.list) = PairsAssigned(m, n, v)
           /\ m.inline[n] = 0 => Pairs(r.list) = PairsWith(m, n, v)
<1>1. PICK c : c = MaybeCreateInline(m, n, EmptyString)
  OBVIOUS
<1>2. /\ MapInv(c) /\ c.inline[n] # 0 /\ Len(c.list) <= Len(m.list) + 1
      /\ (m.inline[n] # 0 => c = m)
      /\ (m.inline[n] = 0 => Pairs(c.list) = PairsWith(m, n, EmptyString.text))
  BY <1>1, EmptySturdy, CreateEffect
<1>3. PICK i : i = At(c, c.inline[n])
  OBVIOUS
<1>4. i \in 1..Len(c.list)
  <2>1. PICK h \in 1..Len(c.list) : c.list[h].address = c.inline[n]
    BY <1>2, PointerFinds
  <2>2. At(c, c.list[h].address) = h
    BY <1>2, EntryAt
  <2> QED
    BY <1>3, <2>1, <2>2
<1>5. PICK old : old = c.list[i].value /\ Sturdy(old)
  BY <1>2, <1>4 DEF MapInv
<1>6. v \in Texts
  BY DEF Texts
<1>7. PICK w : w = IF number THEN SetInteger(old, v) ELSE SetCopy(old, v)
  OBVIOUS
<1>8. Sturdy(w) /\ w.text = v
  BY <1>5, <1>6, <1>7, IntegerSturdy, CopySturdy
<1>9. r = Revalued(c, i, w)
  BY <1>1, <1>3, <1>5, <1>7 DEF Assigned, WithValue, Revalued
<1>10. MapInv(r) /\ Len(r.list) = Len(c.list) /\ Pairs(r.list) = PairsAssigned(c, n, w.text)
  BY <1>2, <1>3, <1>8, <1>9, ValueChanges
<1>11. CASE m.inline[n] # 0
  BY <1>2, <1>8, <1>10, <1>11
<1>12. CASE m.inline[n] = 0
  <2>1. PICK x \in Texts : x = EmptyString.text
    BY EmptySturdy DEF Sturdy, Strings
  <2>2. Pairs(c.list) = PairsWith(m, n, x)
    BY <1>2, <1>12, <2>1
  <2>3. PairsAssigned(c, n, v) = PairsWith(m, n, v)
    BY <1>2, <1>6, <1>12, <2>2, AssignedLast
  <2> QED
    BY <1>2, <1>8, <1>10, <1>12, <2>3
<1> QED
  BY <1>11, <1>12

LEMMA PointedPresent ==
    ASSUME NEW m, MapInv(m), NEW k \in DOMAIN Canonical
    PROVE  Pointed(m, k) <=> \E i \in DOMAIN Pairs(m.list) : Pairs(m.list)[i][1] = KeptAs(k)
<1>1. PICK s \in Seq(Entries), L \in Nat : s = m.list /\ L = Len(s)
  BY ListOf
<1>2. PICK p \in Seq(PairSet) : p = Pairs(s) /\ DOMAIN p = 1..L /\ \A j \in 1..L : p[j] = <<s[j].key.text, s[j].value.text>>
  BY <1>1, PairsOf
<1>3. PICK n \in Inlines : n = Canonical[k] /\ n = KeptAs(k)
  BY NamesKept DEF KeptAs
<1>4. \A j \in 1..L : p[j][1] = s[j].key.text
  BY <1>2
<1>5. m.inline[n] # 0 <=> \E j \in 1..L : s[j].key.text = n
  BY <1>1, PointerFinds
<1>6. Pointed(m, k) <=> \E i \in DOMAIN p : p[i][1] = n
  BY <1>2, <1>3, <1>4, <1>5 DEF Pointed
<1> QED
  BY <1>1, <1>2, <1>3, <1>6

\* A header is added, or replaced, by whatever strings.
LEMMA AddEffect ==
    ASSUME NEW m, MapInv(m), NEW key, Sturdy(key), NEW value, Sturdy(value), NEW toKey \in BOOLEAN,
           value.type # "Reference", toKey => key.type # "Reference",
           NEW r, r = Asserting(InsertByKey(m, key, value), toKey)
    PROVE  r = InsertByKey(m, key, value).map
<1>1. PICK i : i = InsertByKey(m, key, value)
  OBVIOUS
<1>2. MapInv(i.map) /\ IsEmpty(i.value) /\ (toKey => IsEmpty(i.key))
  BY <1>1, InsertEffect
<1> QED
  BY <1>1, <1>2, AssertingHolds

PairsReplaced(m, k, v) == Append(PairsWithout(m, k), <<k, v>>)

LEMMA ReplaceEffect ==
    ASSUME NEW m, MapInv(m), NEW key, Sturdy(key), NEW value, Sturdy(value),
           NEW d, d = RemoveKey(m, key.text), NEW r, r = InsertByKey(d, key, value).map
    PROVE  /\ MapInv(d) /\ MapInv(r) /\ Len(r.list) <= Len(m.list) + 1
           /\ Pairs(r.list) = PairsReplaced(m, KeptAs(key.text), value.text)
<1>1. PICK k : k = key.text
  OBVIOUS
<1>2. Lost(d, m, KeptAs(k))
  BY <1>1, RemoveKeyEffect
<1>3. MapInv(d) /\ Len(d.list) <= Len(m.list) /\ Pairs(d.list) = PairsWithout(m, KeptAs(k))
  BY <1>2, LostKeeps
<1>4. ~Pointed(d, k)
  <2>1. CASE k \in DOMAIN Canonical
    <3>1. KeptAs(k) \in Inlines /\ KeptAs(k) = Canonical[k]
      BY <2>1, NamesKept DEF KeptAs
    <3>2. d.inline[KeptAs(k)] = 0
      BY <1>2, <3>1 DEF Lost
    <3> QED
      BY <3>1, <3>2 DEF Pointed
  <2>2. CASE k \notin DOMAIN Canonical
    BY <2>2 DEF Pointed
  <2> QED
    BY <2>1, <2>2
<1>5. PICK i : i = InsertByKey(d, key, value)
  OBVIOUS
<1>6. /\ MapInv(i.map) /\ Len(i.map.list) <= Len(d.list) + 1
      /\ Pairs(i.map.list) = IF Pointed(d, key.text) THEN Pairs(d.list)
                             ELSE PairsWith(d, KeptAs(key.text), value.text)
  BY <1>3, <1>5, InsertEffect
<1>7. i.map = r
  BY <1>5
<1>8. Pairs(r.list) = PairsWith(d, KeptAs(k), value.text)
  BY <1>1, <1>4, <1>6, <1>7
<1>9. PairsWith(d, KeptAs(k), value.text) = PairsReplaced(m, KeptAs(k), value.text)
  BY <1>3 DEF PairsWith, PairsReplaced
<1>10. PICK a \in Nat, b \in Nat, c \in Nat : a = Len(m.list) /\ b = Len(d.list) /\ c = Len(r.list)
  BY <1>3, <1>6, <1>7, ListOf
<1>11. Len(r.list) <= Len(m.list) + 1
  BY <1>3, <1>6, <1>7, <1>10
<1> QED
  BY <1>1, <1>3, <1>6, <1>7, <1>8, <1>9, <1>11, Zenon

-----------------------------------------------------------------------------
HeadersInv == MapInv(headers) /\ Len(headers.list) <= MaxHeaders

LEMMA AbstractErases == \A s, gone : AbstractList!Erase(s, gone) = Erase(s, gone)
BY DEF AbstractList!Erase, Erase

LEMMA AbstractRemoves ==
    ASSUME NEW k \in Names, Pairs(headers.list)' = PairsWithout(headers, KeptAs(k))
    PROVE  AbstractList!Next
<1>1. AbstractList!NameOf(k) = KeptAs(k)
  BY DEF AbstractList!NameOf, KeptAs
<1>2. AbstractList!Without(k) = PairsWithout(headers, KeptAs(k))
  BY <1>1, AbstractErases DEF AbstractList!Without, PairsWithout, Pairs
<1>3. AbstractList!Remove(k)
  BY <1>2 DEF AbstractList!Remove, Pairs
<1> QED
  BY <1>3 DEF AbstractList!Next

\* The actions of the list of headers, in terms of the two maps.
LEMMA AbstractSteps ==
    ASSUME MapInv(headers), NEW k \in Names, NEW v \in Values
    PROVE  /\ Pairs(headers.list)' = PairsReplaced(headers, KeptAs(k), v) => AbstractList!Next
           /\ Pairs(headers.list)' = (IF Pointed(headers, k) THEN Pairs(headers.list)
                                      ELSE PairsWith(headers, KeptAs(k), v)) => AbstractList!Next
           /\ (/\ k \in Inlines
               /\ Pairs(headers.list)' = IF Pointed(headers, k) THEN PairsAssigned(headers, KeptAs(k), v)
                                         ELSE PairsWith(headers, KeptAs(k), v)) => AbstractList!Next
<1> DEFINE p == [i \in DOMAIN headers.list |-> <<headers.list[i].key.text, headers.list[i].value.text>>]
<1>1. p = Pairs(headers.list) /\ p' = Pairs(headers.list)'
  BY DEF Pairs
<1>2. AbstractList!NameOf(k) = KeptAs(k)
  BY DEF AbstractList!NameOf, KeptAs
<1>3. AbstractList!Without(k) = PairsWithout(headers, KeptAs(k))
  BY <1>1, <1>2, AbstractErases DEF AbstractList!Without, PairsWithout
<1>4. k \in DOMAIN Canonical => (AbstractList!Present(k) <=> Pointed(headers, k))
  <2>1. AbstractList!Present(k) <=> \E i \in DOMAIN Pairs(headers.list) : Pairs(headers.list)[i][1] = KeptAs(k)
    BY <1>2, Zenon DEF AbstractList!Present, Pairs
  <2> QED
    BY <2>1, PointedPresent
<1>6. ASSUME p' = PairsReplaced(headers, KeptAs(k), v) PROVE AbstractList!Next
  <2>1. AbstractList!Replace(k, v)
    BY <1>2, <1>3, <1>6 DEF AbstractList!Replace, PairsReplaced
  <2> QED
    BY <2>1 DEF AbstractList!Next
<1>7. ASSUME p' = IF Pointed(headers, k) THEN Pairs(headers.list) ELSE PairsWith(headers, KeptAs(k), v)
      PROVE  AbstractList!Next
  <2>1. Pointed(headers, k) => k \in DOMAIN Canonical
    BY DEF Pointed
  <2>2. AbstractList!Add(k, v)
    BY <1>1, <1>2, <1>4, <1>7, <2>1 DEF AbstractList!Add, PairsWith
  <2> QED
    BY <2>2 DEF AbstractList!Next
<1>8. ASSUME k \in Inlines,
             p' = IF Pointed(headers, k) THEN PairsAssigned(headers, KeptAs(k), v)
                  ELSE PairsWith(headers, KeptAs(k), v)
      PROVE  AbstractList!Next
  <2>1. k \in DOMAIN Canonical
    BY <1>8, NamesKept
  <2>2. AbstractList!Assign(k, v)
    <3>1. CASE Pointed(headers, k)
      <4>1. p' = PairsAssigned(headers, KeptAs(k), v)
        BY <1>8, <3>1
      <4>2. p' = [i \in DOMAIN p |-> IF p[i][1] = KeptAs(k) THEN <<p[i][1], v>> ELSE p[i]]
        BY <4>1, Zenon DEF PairsAssigned, Pairs
      <4>3. AbstractList!Present(k)
        BY <1>4, <2>1, <3>1
      <4>4. p' = [i \in DOMAIN p |-> IF p[i][1] = AbstractList!NameOf(k) THEN <<p[i][1], v>> ELSE p[i]]
        <5> HIDE DEF p
        <5> QED
          BY <1>2, <4>2, Zenon
      <4> QED
        BY <2>1, <4>3, <4>4, Zenon DEF AbstractList!Assign
    <3>2. CASE ~Pointed(headers, k)
      <4>1. p' = Append(p, <<KeptAs(k), v>>)
        BY <1>1, <1>8, <3>2 DEF PairsWith
      <4>2. ~AbstractList!Present(k)
        BY <1>4, <2>1, <3>2
      <4> QED
        BY <1>2, <2>1, <4>1, <4>2 DEF AbstractList!Assign
    <3> QED
      BY <3>1, <3>2
  <2> QED
    BY <2>2 DEF AbstractList!Next
<1> QED
  BY <1>1, <1>6, <1>7, <1>8

LEMMA HeadersInitInv == HeadersInit => HeadersInv
<1> SUFFICES ASSUME HeadersInit PROVE HeadersInv
  OBVIOUS
<1>1. PICK inl \in [Inlines -> Nat] : inl = [n \in Inlines |-> 0]
  OBVIOUS
<1>2. PICK e : e = <<>> /\ e \in Seq(Entries) /\ Len(e) = 0
  <2>1. <<>> \in Seq(Entries) /\ Len(<<>>) = 0
    OBVIOUS
  <2> QED
    BY <2>1
<1>3. headers = [list |-> e, inline |-> inl, asserts |-> TRUE]
  BY <1>1, <1>2 DEF HeadersInit, NoHeaders
<1>4. headers \in Maps /\ headers.list = e /\ headers.inline = inl /\ headers.asserts = TRUE
  BY <1>2, <1>3 DEF Maps
<1>5. 1..Len(headers.list) = {}
  BY <1>2, <1>4
<1>6. \A n \in Inlines : headers.inline[n] = 0
  BY <1>1, <1>4
<1>7. MapInv(headers)
  BY <1>4, <1>5, <1>6 DEF MapInv
<1>8. Len(headers.list) <= MaxHeaders
  BY <1>2, <1>4, HeaderMapAssumption
<1> QED
  BY <1>7, <1>8 DEF HeadersInv

\* Every operation keeps the invariant, and is one of the list of headers.
LEMMA HeadersStep ==
    ASSUME HeadersInv, HeadersNext
    PROVE  HeadersInv' /\ AbstractList!Next
<1>1. MapInv(headers) /\ Len(headers.list) <= MaxHeaders
  BY DEF HeadersInv
<1>2. PICK L \in Nat, M \in Nat : L = Len(headers.list) /\ M = MaxHeaders
  BY <1>1, ListOf, HeaderMapAssumption
<1>3. PICK k \in Names :
        \/ Becomes(RemoveKey(headers, k))
        \/ \E v \in Values :
              /\ Room
              /\ \/ AddReference(k, v) \/ SetReference(k, v) \/ SetReferenceKey(k, v)
                 \/ \E number \in {FALSE, (v \in Digits)} :
                       \/ AddReferenceKey(k, v, number) \/ AddCopy(k, v, number)
                       \/ k \in Inlines /\ InsertAndAssign(k, v, number)
  BY DEF HeadersNext
<1>4. k \in Texts
  BY DEF Texts
<1>5. CASE Becomes(RemoveKey(headers, k))
  <2>1. PICK r : r = RemoveKey(headers, k) /\ headers' = r
    BY <1>5 DEF Becomes
  <2>2. Lost(r, headers, KeptAs(k))
    BY <1>1, <2>1, RemoveKeyEffect
  <2>3. MapInv(r) /\ Len(r.list) <= Len(headers.list) /\ Pairs(r.list) = PairsWithout(headers, KeptAs(k))
    BY <1>1, <2>2, LostKeeps
  <2>4. Len(r.list) \in Nat
    BY <2>3, ListOf
  <2>5. HeadersInv'
    <3>1. Len(r.list) <= MaxHeaders
      BY <1>1, <1>2, <2>3, <2>4
    <3> QED
      BY <2>1, <2>3, <3>1 DEF HeadersInv, MapInv
  <2>6. Pairs(headers.list)' = PairsWithout(headers, KeptAs(k))
    BY <2>1, <2>3 DEF Pairs
  <2> QED
    BY <2>5, <2>6, AbstractRemoves
<1>6. CASE \E v \in Values :
              /\ Room
              /\ \/ AddReference(k, v) \/ SetReference(k, v) \/ SetReferenceKey(k, v)
                 \/ \E number \in {FALSE, (v \in Digits)} :
                       \/ AddReferenceKey(k, v, number) \/ AddCopy(k, v, number)
                       \/ k \in Inlines /\ InsertAndAssign(k, v, number)
  <2>1. PICK v \in Values :
              /\ Room
              /\ \/ AddReference(k, v) \/ SetReference(k, v) \/ SetReferenceKey(k, v)
                 \/ \E number \in {FALSE, (v \in Digits)} :
                       \/ AddReferenceKey(k, v, number) \/ AddCopy(k, v, number)
                       \/ k \in Inlines /\ InsertAndAssign(k, v, number)
    BY <1>6
  <2>2. v \in Texts /\ L < M
    BY <1>2, <2>1 DEF Texts, Room
  <2>3. /\ Sturdy(RefTo(k)) /\ RefTo(k).text = k
        /\ Sturdy(RefTo(v)) /\ RefTo(v).text = v
    BY <1>4, <2>2, RefSturdy
  <2>4. /\ Sturdy(Copy(k)) /\ Copy(k).type # "Reference" /\ Copy(k).text = k
        /\ Sturdy(Copy(v)) /\ Copy(v).type # "Reference" /\ Copy(v).text = v
    BY <1>4, <2>2, EmptySturdy, CopySturdy DEF Copy
  <2>5. ASSUME NEW key, Sturdy(key), key.text = k, NEW value, Sturdy(value), value.text = v,
               headers' = InsertByKey(headers, key, value).map
        PROVE  HeadersInv' /\ AbstractList!Next
    <3>1. PICK i : i = InsertByKey(headers, key, value)
      OBVIOUS
    <3>2. /\ MapInv(i.map) /\ Len(i.map.list) <= Len(headers.list) + 1
          /\ Pairs(i.map.list) = IF Pointed(headers, key.text) THEN Pairs(headers.list)
                                 ELSE PairsWith(headers, KeptAs(key.text), value.text)
      BY <1>1, <2>5, <3>1, InsertEffect
    <3>3. PICK r : r = i.map /\ headers' = r
      BY <2>5, <3>1
    <3>4. MapInv(r) /\ Len(r.list) <= L + 1 /\ Len(r.list) \in Nat
      BY <1>2, <3>2, <3>3, ListOf
    <3>5. Len(r.list) <= MaxHeaders
      BY <1>2, <2>2, <3>4
    <3>6. HeadersInv'
      BY <3>3, <3>4, <3>5 DEF HeadersInv, MapInv
    <3>7. Pairs(headers.list)' = (IF Pointed(headers, k) THEN Pairs(headers.list)
                                  ELSE PairsWith(headers, KeptAs(k), v))
      BY <2>5, <3>2, <3>3 DEF Pairs
    <3> QED
      BY <1>1, <3>6, <3>7, AbstractSteps
  <2>6. ASSUME NEW key, Sturdy(key), key.text = k, NEW value, Sturdy(value), value.text = v,
               headers' = InsertByKey(RemoveKey(headers, k), key, value).map
        PROVE  HeadersInv' /\ AbstractList!Next
    <3>1. PICK d : d = RemoveKey(headers, key.text)
      OBVIOUS
    <3>2. PICK r : r = InsertByKey(d, key, value).map
      OBVIOUS
    <3>3. headers' = r
      BY <2>6, <3>1, <3>2
    <3>4. /\ MapInv(r) /\ Len(r.list) <= Len(headers.list) + 1
          /\ Pairs(r.list) = PairsReplaced(headers, KeptAs(key.text), value.text)
      BY <1>1, <2>6, <3>1, <3>2, ReplaceEffect
    <3>5. Len(r.list) <= L + 1 /\ Len(r.list) \in Nat
      BY <1>2, <3>4, ListOf
    <3>6. Len(r.list) <= MaxHeaders
      BY <1>2, <2>2, <3>5
    <3>7. HeadersInv'
      BY <3>3, <3>4, <3>6 DEF HeadersInv, MapInv
    <3>8. Pairs(headers.list)' = PairsReplaced(headers, KeptAs(k), v)
      BY <2>6, <3>3, <3>4 DEF Pairs
    <3> QED
      BY <1>1, <3>7, <3>8, AbstractSteps
  <2>7. CASE AddReference(k, v)
    BY <2>3, <2>5, <2>7 DEF AddReference, Becomes
  <2>8. CASE SetReference(k, v)
    BY <2>3, <2>6, <2>8 DEF SetReference, Becomes
  <2>9. CASE SetReferenceKey(k, v)
    <3>1. PICK d : d = RemoveKey(headers, k)
      OBVIOUS
    <3>2. MapInv(d)
      <4>1. Lost(d, headers, KeptAs(k))
        BY <1>1, <3>1, RemoveKeyEffect
      <4> QED
        BY <1>1, <4>1, LostKeeps
    <3>3. Asserting(InsertByKey(d, RefTo(k), Copy(v)), FALSE) = InsertByKey(d, RefTo(k), Copy(v)).map
      BY <2>3, <2>4, <3>2, AddEffect
    <3>4. headers' = InsertByKey(RemoveKey(headers, k), RefTo(k), Copy(v)).map
      BY <2>9, <3>1, <3>3 DEF SetReferenceKey, Becomes
    <3> QED
      BY <2>3, <2>4, <2>6, <3>4
  <2>10. CASE \E number \in {FALSE, (v \in Digits)} :
                 \/ AddReferenceKey(k, v, number) \/ AddCopy(k, v, number)
                 \/ k \in Inlines /\ InsertAndAssign(k, v, number)
    <3>1. PICK number \in {FALSE, (v \in Digits)} :
                 \/ AddReferenceKey(k, v, number) \/ AddCopy(k, v, number)
                 \/ k \in Inlines /\ InsertAndAssign(k, v, number)
      BY <2>10
    <3>2. number \in BOOLEAN /\ (number => v \in Digits)
      <4>1. number = FALSE \/ number = (v \in Digits)
        BY Zenon
      <4>2. CASE number = FALSE
        BY <4>2, Zenon
      <4>3. CASE number = (v \in Digits)
        <5>1. CASE v \in Digits
          BY <4>3, <5>1, Zenon
        <5>2. CASE v \notin Digits
          <6>1. (v \in Digits) = FALSE
            BY <5>2
          <6>2. number = FALSE
            BY <4>3, <6>1, Zenon
          <6> QED
            BY <6>2, Zenon
        <5> QED
          BY <5>1, <5>2
      <4> QED
        BY <4>1, <4>2, <4>3
    <3>3. PICK value : value = NumberOrCopy(v, number)
      OBVIOUS
    <3>4. Sturdy(value) /\ value.type # "Reference" /\ value.text = v
      BY <3>2, <3>3, NumberSturdy
    <3>5. CASE AddReferenceKey(k, v, number)
      <4>1. Asserting(InsertByKey(headers, RefTo(k), value), FALSE) = InsertByKey(headers, RefTo(k), value).map
        BY <1>1, <2>3, <3>4, AddEffect
      <4>2. headers' = InsertByKey(headers, RefTo(k), value).map
        BY <3>3, <3>5, <4>1 DEF AddReferenceKey, Becomes
      <4> QED
        BY <2>3, <2>5, <3>4, <4>2
    <3>6. CASE AddCopy(k, v, number)
      <4>1. Asserting(InsertByKey(headers, Copy(k), value), TRUE) = InsertByKey(headers, Copy(k), value).map
        BY <1>1, <2>4, <3>4, AddEffect
      <4>2. headers' = InsertByKey(headers, Copy(k), value).map
        BY <3>3, <3>6, <4>1 DEF AddCopy, Becomes
      <4> QED
        BY <2>4, <2>5, <3>4, <4>2
    <3>7. CASE k \in Inlines /\ InsertAndAssign(k, v, number)
      <4>1. PICK r : r = Assigned(headers, k, v, number)
        OBVIOUS
      <4>2. headers' = r
        BY <3>7, <4>1, Zenon DEF InsertAndAssign, Becomes, Assigned
      <4>3. /\ MapInv(r) /\ Len(r.list) <= Len(headers.list) + 1
            /\ (headers.inline[k] # 0 => Pairs(r.list) = PairsAssigned(headers, k, v))
            /\ (headers.inline[k] = 0 => Pairs(r.list) = PairsWith(headers, k, v))
        BY <1>1, <3>2, <3>7, <4>1, AssignEffect
      <4>4. Len(r.list) <= L + 1 /\ Len(r.list) \in Nat
        BY <1>2, <4>3, ListOf
      <4>5. Len(r.list) <= MaxHeaders
        BY <1>2, <2>2, <4>4
      <4>6. HeadersInv'
        BY <4>2, <4>3, <4>5 DEF HeadersInv, MapInv
      <4>7. k \in DOMAIN Canonical /\ KeptAs(k) = k /\ (Pointed(headers, k) <=> headers.inline[k] # 0)
        BY <3>7, NamesKept DEF KeptAs, Pointed
      <4>8. Pairs(headers.list)' = IF Pointed(headers, k) THEN PairsAssigned(headers, KeptAs(k), v)
                                   ELSE PairsWith(headers, KeptAs(k), v)
        BY <4>2, <4>3, <4>7 DEF Pairs
      <4> QED
        BY <1>1, <3>7, <4>6, <4>8, AbstractSteps
    <3> QED
      BY <3>1, <3>5, <3>6, <3>7
  <2> QED
    BY <2>1, <2>7, <2>8, <2>9, <2>10
<1> QED
  BY <1>3, <1>5, <1>6

LEMMA HeadersInvariant == HeadersSpec => []HeadersInv
<1>1. HeadersInv /\ [HeadersNext]_headers => HeadersInv'
  <2>1. ASSUME HeadersInv, UNCHANGED headers PROVE HeadersInv'
    BY <2>1 DEF HeadersInv, MapInv
  <2> QED
    BY <2>1, HeadersStep
<1> QED
  BY <1>1, HeadersInitInv, PTL DEF HeadersSpec

\* The pointers of a header map lead to the entries of their names and to no others, every
\* string is within its storage, and no assertion of the map fails.
THEOREM HeadersHold == HeadersSpec => []HeadersConsistent
<1>1. HeadersInv => HeadersConsistent
  <2> SUFFICES ASSUME HeadersInv PROVE HeadersConsistent
    OBVIOUS
  <2>1. MapInv(headers) /\ Len(headers.list) <= MaxHeaders
    BY DEF HeadersInv
  <2>2. PICK L \in Nat : L = Len(headers.list) /\ DOMAIN headers.list = 1..L
    BY <2>1, ListOf
  <2>3. headers.asserts
    BY <2>1 DEF MapInv
  <2>4. \A i \in 1..L : /\ Fits(headers.list[i].key) /\ Fits(headers.list[i].value)
                        /\ \A j \in 1..L : headers.list[i].address = headers.list[j].address => i = j
    BY <2>1, <2>2 DEF MapInv, Sturdy
  <2>5. ASSUME NEW n \in Inlines
        PROVE  /\ Lookup(headers, n) = "Found" <=> GetHeader(headers, n) # {}
               /\ GetHeader(headers, n) = {i \in 1..L : headers.list[i].address = headers.inline[n]}
    <3>1. n \in DOMAIN Canonical /\ Canonical[n] = n
      BY NamesKept
    <3>2. Lookup(headers, n) = "Found" <=> headers.inline[n] # 0
      BY <3>1 DEF Lookup
    <3>3. GetHeader(headers, n) = {i \in 1..L : headers.list[i].key.text = n}
      BY <2>2 DEF GetHeader
    <3>4. CASE headers.inline[n] = 0
      <4>1. \A i \in 1..L : headers.list[i].key.text # n
        BY <2>1, <2>2, <3>4, PointerFinds
      <4>2. \A i \in 1..L : headers.list[i].address # 0
        <5>1. \A i \in 1..L : headers.list[i] \in Entries
          BY <2>1, <2>2, ListOf
        <5> QED
          BY <5>1 DEF Entries
      <4> QED
        BY <3>2, <3>3, <3>4, <4>1, <4>2
    <3>5. CASE headers.inline[n] # 0
      <4>1. PICK i \in 1..L : /\ headers.list[i].address = headers.inline[n] /\ headers.list[i].key.text = n
                              /\ \A j \in 1..L : headers.list[j].key.text = n => j = i
        BY <2>1, <2>2, <3>5, PointerFinds
      <4>2. \A j \in 1..L : headers.list[j].address = headers.inline[n] => j = i
        BY <2>4, <4>1
      <4> QED
        BY <3>2, <3>3, <3>5, <4>1, <4>2
    <3> QED
      BY <3>4, <3>5
  <2> QED
    BY <2>1, <2>2, <2>3, <2>4, <2>5 DEF HeadersConsistent
<1> QED
  BY <1>1, HeadersInvariant, PTL

\* A header map does what an ordered list of headers does, of which a name with direct
\* access has one at most: a header that is added again keeps its first value, one that is
\* set is replaced by one at the end, one that is assigned changes where it is.
THEOREM HeadersRefine == HeadersSpec => HeadersAsList
<1> DEFINE p == [i \in DOMAIN headers.list |-> <<headers.list[i].key.text, headers.list[i].value.text>>]
<1>1. HeadersInit => AbstractList!Init
  <2> SUFFICES ASSUME HeadersInit PROVE p = <<>>
    BY DEF AbstractList!Init
  <2>1. headers.list = <<>>
    BY DEF HeadersInit, NoHeaders
  <2>2. DOMAIN headers.list = 1..0
    BY <2>1
  <2> QED
    BY <2>2
<1>2. HeadersInv /\ [HeadersNext]_headers => [AbstractList!Next]_p
  <2>1. ASSUME UNCHANGED headers PROVE UNCHANGED p
    BY <2>1
  <2>2. ASSUME HeadersInv, HeadersNext PROVE AbstractList!Next
    BY <2>2, HeadersStep
  <2> QED
    BY <2>1, <2>2
<1> QED
  BY <1>1, <1>2, HeadersInvariant, PTL DEF HeadersSpec, HeadersAsList, AbstractList!Spec

-----------------------------------------------------------------------------
(* The objects side by side *)

\* What is done to an object, or the others of which an object stays as it is.
LEMMA ObjectSteps ==
    ASSUME [Next]_<<subject, iob, headers, filterVars, statisticsVars, codecFilterVars>>
    PROVE  /\ IoBufferNext \/ UNCHANGED iob
           /\ HeadersNext \/ UNCHANGED headers
           /\ FilterNext \/ UNCHANGED filterVars
           /\ StatisticsNext \/ UNCHANGED statisticsVars
           /\ CodecFilterNext \/ UNCHANGED codecFilterVars
<1>1. CASE Others("EIoBuffer") /\ IoBufferNext
  BY <1>1 DEF Others
<1>2. CASE Others("HeaderMapImpl") /\ HeadersNext
  BY <1>2 DEF Others
<1>3. CASE Others("EBlacklistFilter") /\ FilterNext
  BY <1>3 DEF Others
<1>4. CASE Others("EIoServiceStatistics") /\ StatisticsNext
  BY <1>4 DEF Others
<1>5. CASE Others("EHttpCodecFilter") /\ CodecFilterNext
  BY <1>5 DEF Others
<1>6. CASE UNCHANGED <<subject, iob, headers, filterVars, statisticsVars, codecFilterVars>>
  BY <1>6
<1> QED
  BY <1>1, <1>2, <1>3, <1>4, <1>5, <1>6 DEF Next

\* Side by side the objects are what each of them is by itself.
THEOREM ObjectsApart ==
    Spec => IoBufferSpec /\ HeadersSpec /\ FilterSpec /\ StatisticsSpec /\ CodecFilterSpec
<1>1. Init => IoBufferInit /\ HeadersInit /\ FilterInit /\ StatisticsInit /\ CodecFilterInit
  BY DEF Init
<1>2. [Next]_<<subject, iob, headers, filterVars, statisticsVars, codecFilterVars>> =>
          /\ [IoBufferNext]_iob /\ [HeadersNext]_headers /\ [FilterNext]_filterVars
          /\ [StatisticsNext]_statisticsVars /\ [CodecFilterNext]_codecFilterVars
  BY ObjectSteps
<1> QED
  BY <1>1, <1>2, PTL DEF Spec, IoBufferSpec, HeadersSpec, FilterSpec, StatisticsSpec, CodecFilterSpec

\* No thread has been found to have counted more than it may.
LEMMA FoundAtMost ==
    ASSUME NEW f \in [Threads -> 0..MaxBytes]
    PROVE  Total(f) \in 0..(WorkThreads * MaxBytes)
<1>1. PICK n \in Nat, m \in Nat : n = WorkThreads /\ m = MaxBytes /\ Threads = 1..n
  BY ThreadsFinite
<1>2. PICK g \in [1..n -> Nat] : g = [t \in 1..n |-> m]
  OBVIOUS
<1>3. Total(g) = n * m
  BY <1>2, TotalConstant
<1>4. f \in [1..n -> Nat] /\ \A t \in 1..n : f[t] <= g[t]
  BY <1>1, <1>2
<1>5. IsFiniteSet(1..n)
  BY FS_Interval
<1>6. Total(f) <= Total(g)
  BY <1>4, <1>5, TotalMonotone
<1>7. Total(f) \in Nat
  BY ThreadsFinite
<1>8. n * m \in Nat
  OBVIOUS
<1> QED
  BY <1>1, <1>3, <1>6, <1>7, <1>8

\* The type of the statistics: no total is more than all the threads may have counted.
THEOREM StatisticsTyped == StatisticsSpec => []StatisticsTypeOK
<1>1. StatisticsInv => StatisticsTypeOK
  <2> SUFFICES ASSUME StatisticsInv PROVE StatisticsTypeOK
    OBVIOUS
  <2>1. PICK found \in [Threads -> 0..MaxBytes], soFar \in [Threads -> 0..MaxBytes] : Readings(found, soFar)
    BY DEF StatisticsInv, ReadingsInv
  <2>2. total = Total(found) /\ lastBytes = total /\ sum = Total(soFar)
    BY <2>1 DEF Readings
  <2>3. {sum, total, lastBytes} \subseteq 0..(WorkThreads * MaxBytes)
    BY <2>2, FoundAtMost
  <2> QED
    BY <2>3 DEF StatisticsInv, StatisticsTypes, StatisticsTypeOK
<1> QED
  BY <1>1, StatisticsInvariant, PTL

\* The types of all the objects: the numbers of a buffer are in order, the pointers of a header
\* map lead to its entries, and the lists, totals and caches are within their bounds.
THEOREM DataTyped == Spec => []DataTypeOK
BY ObjectsApart, BufferTyped, HeadersHold, FilterTyped, StatisticsTyped, CodecFilterTyped, PTL DEF DataTypeOK
=============================================================================
