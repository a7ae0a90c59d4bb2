-------------------------- MODULE ServiceStatistics -------------------------
(***************************************************************************)
(* EIoServiceStatistics (src/src/EIoServiceStatistics.cpp): counters that  *)
(* every thread keeps for itself, and the fiber that adds them up now and  *)
(* then.  Bytes and messages, read and written, are counted alike: one     *)
(* counter with its time stands for the four.                              *)
(***************************************************************************)
EXTENDS Integers, Sums

CONSTANTS
    WorkThreads,
    MaxBytes, MaxTime,  \* bounds: bytes a thread counts, and the clocks
    Intervals,          \* the values of throughputCalculationInterval
    MaxInterval         \* the largest int

ASSUME StatisticsAssumption ==
    {WorkThreads, MaxBytes, MaxTime, MaxInterval} \subseteq Nat /\ Intervals \subseteq 0..MaxInterval

Threads == 1..WorkThreads

VARIABLES
    now,
    bytes, lastTime,   \* of each thread: its ThreadThroughput
    counting,          \* counting[t]: a thread between its two writes
    at,                \* where updateThroughput() is: the thread it reads next, 0 outside
    currentTime,       \* the clock of the statistics fiber
    sum, latest,       \* local variables of updateThroughput()
    total, totalTime,                    \* readBytes and lastReadTime of the service
    lastBytes, lastUpdate,               \* lastReadBytes, lastThroughputCalculationTime
    throughput, largest                  \* bytes over an interval

statisticsVars == <<now, bytes, lastTime, counting, at, currentTime, sum, latest,
                    total, totalTime, lastBytes, lastUpdate, throughput, largest>>

\* The conversion of a time to int.
ToInt(n) == ((n + MaxInterval + 1) % (2 * (MaxInterval + 1))) - (MaxInterval + 1)

\* A throughput is a quotient; over an interval of 0 it is infinite, or not a number.
Over(n, interval) ==
    IF interval < 0 THEN [bytes |-> -n, interval |-> -interval] ELSE [bytes |-> n, interval |-> interval]
IsNumber(q) == q.interval # 0 \/ q.bytes # 0
Exceeds(p, q) ==
    /\ IsNumber(p) /\ IsNumber(q)
    /\ IF p.interval = 0 THEN q.interval # 0 ELSE q.interval # 0 /\ p.bytes * q.interval > q.bytes * p.interval

StatisticsInit ==
    /\ now \in 1..MaxTime
    /\ bytes = [t \in Threads |-> 0] /\ lastTime = [t \in Threads |-> 0]
    /\ counting = [t \in Threads |-> FALSE]
    /\ at = 0 /\ currentTime = now /\ sum = 0 /\ latest = 0
    /\ total = 0 /\ totalTime = 0 /\ lastBytes = 0 /\ lastUpdate = 0
    /\ throughput = Over(0, 1) /\ largest = Over(0, 1)

Tick ==
    /\ now < MaxTime /\ now' = now + 1
    /\ UNCHANGED <<bytes, lastTime, counting, at, currentTime, sum, latest,
                   total, totalTime, lastBytes, lastUpdate, throughput, largest>>

\* increaseReadBytes() adds to the counter of its thread, and then notes the time.
CountBytes(t) ==
    /\ ~counting[t] /\ bytes[t] < MaxBytes
    /\ bytes' = [bytes EXCEPT ![t] = @ + 1]
    /\ counting' = [counting EXCEPT ![t] = TRUE]
    /\ UNCHANGED <<now, lastTime, at, currentTime, sum, latest,
                   total, totalTime, lastBytes, lastUpdate, throughput, largest>>

NoteTime(t) ==
    /\ counting[t]
    /\ lastTime' = [lastTime EXCEPT ![t] = now]
    /\ counting' = [counting EXCEPT ![t] = FALSE]
    /\ UNCHANGED <<now, bytes, at, currentTime, sum, latest,
                   total, totalTime, lastBytes, lastUpdate, throughput, largest>>

\* Mutant of BeginUpdate: the counters are added to the total of the update before.
BeginUpdateOnTop(interval) ==
    /\ at = 0 /\ currentTime + interval <= MaxTime
    /\ at' = 1 /\ currentTime' = currentTime + interval /\ sum' = total /\ latest' = totalTime
    /\ UNCHANGED <<now, bytes, lastTime, counting, total, totalTime, lastBytes, lastUpdate,
                   throughput, largest>>

\* After its sleep the statistics fiber moves its clock on by what it has slept, it never
\* looks at the real one again; updateThroughput(currentTime) reads one thread after the
\* other ...
BeginUpdate(interval) ==
    /\ at = 0 /\ currentTime + interval <= MaxTime
    /\ at' = 1 /\ currentTime' = currentTime + interval /\ sum' = 0 /\ latest' = totalTime
    /\ UNCHANGED <<now, bytes, lastTime, counting, total, totalTime, lastBytes, lastUpdate,
                   throughput, largest>>

ReadThread ==
    /\ at \in Threads
    /\ sum' = sum + bytes[at]
    /\ latest' = IF lastTime[at] > latest THEN lastTime[at] ELSE latest
    /\ at' = at + 1
    /\ UNCHANGED <<now, bytes, lastTime, counting, currentTime, total, totalTime, lastBytes,
                   lastUpdate, throughput, largest>>

\* ... and publishes what it found.
EndUpdate ==
    LET rate == Over(sum - lastBytes, ToInt(currentTime - lastUpdate))
    IN  /\ at = WorkThreads + 1
        /\ total' = sum
        /\ totalTime' = IF latest > totalTime THEN latest ELSE totalTime
        /\ throughput' = rate
        /\ largest' = IF Exceeds(rate, largest) THEN rate ELSE largest
        /\ lastBytes' = sum /\ lastUpdate' = currentTime
        /\ at' = 0 /\ sum' = 0 /\ latest' = 0
        /\ UNCHANGED <<now, bytes, lastTime, counting, currentTime>>

StatisticsNext ==
    \/ Tick \/ ReadThread \/ EndUpdate
    \/ \E interval \in Intervals : BeginUpdate(interval)
    \/ \E t \in Threads : CountBytes(t) \/ NoteTime(t)

StatisticsSpec == StatisticsInit /\ [][StatisticsNext]_statisticsVars

-----------------------------------------------------------------------------
StatisticsTypeOK ==
    /\ now \in 0..MaxTime /\ at \in 0..(WorkThreads + 1)
    /\ \A t \in Threads : bytes[t] \in 0..MaxBytes /\ lastTime[t] \in 0..MaxTime
    /\ {sum, total, lastBytes} \subseteq 0..(WorkThreads * MaxBytes)
    /\ {latest, totalTime, currentTime, lastUpdate} \subseteq 0..MaxTime

\* What the service reports never goes back and is never more than was counted, though
\* the threads count on while they are read: the totals and the time of the last read
\* only grow, and the largest throughput is not exceeded by a later one that is a number.
\* Only the first throughput, over the time since 1970 cut to an int, may be negative.
TotalsGrow ==
    [][/\ total' >= total /\ totalTime' >= totalTime
       /\ total' <= Total(bytes)
       /\ ~Exceeds(throughput', largest')
       /\ throughput' # throughput /\ lastUpdate # 0 =>
             throughput'.bytes >= 0 /\ throughput'.interval \in Intervals]_statisticsVars
=============================================================================
