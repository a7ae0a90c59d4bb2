------------------------ MODULE SocketAcceptorProofs ------------------------
(***************************************************************************)
(* Theorems of SocketAcceptor: its safety invariants for any number of     *)
(* services, connections, threads, descriptors and stoppers.               *)
(***************************************************************************)
EXTENDS SocketAcceptor, FiniteSetTheorems, TLAPS

LEMMA ConnsFinite == IsFiniteSet(Conns)
<1>1. IsFiniteSet(Services)
  BY ConstantsAssumption, FS_Interval DEF Services
<1>2. IsFiniteSet(Pokes)
  BY <1>1, ConstantsAssumption, FS_Product DEF Pokes
<1> QED
  BY <1>2, ConstantsAssumption, FS_Union DEF Conns

\* The points of an accept fiber, one by one: with them the sets stay opaque.
LEMMA Points ==
    /\ "none" \in AcceptPoints /\ "bind" \in AcceptPoints /\ "loop" \in AcceptPoints
    /\ "accept" \in AcceptPoints /\ "check" \in AcceptPoints /\ "limit" \in AcceptPoints
    /\ "count" \in AcceptPoints /\ "peak" \in AcceptPoints /\ "setpeak" \in AcceptPoints
    /\ "schedule" \in AcceptPoints /\ "close" \in AcceptPoints
    /\ "closed" \in AcceptPoints /\ "failed" \in AcceptPoints
BY DEF AcceptPoints, Midway

LEMMA States ==
    /\ "none" \in SessionStates /\ "pending" \in SessionStates /\ "refused" \in SessionStates
    /\ "taken" \in SessionStates /\ "counted" \in SessionStates
    /\ "scheduled" \in SessionStates /\ "managed" \in SessionStates
    /\ "handling" \in SessionStates /\ "leaving" \in SessionStates
    /\ "uncounted" \in SessionStates /\ "unmanaged" \in SessionStates
    /\ "closed" \in SessionStates
BY DEF SessionStates, OpenStates, CountedStates

(***************************************************************************)
(* Type correctness                                                        *)
(***************************************************************************)
LEMMA TypeInit == Init => TypeOK
<1> SUFFICES ASSUME Init PROVE TypeOK
  OBVIOUS
<1>1. todo \in [Stoppers -> 1..(NumServices + 1)]
  BY ConstantsAssumption DEF Init
<1>2. acc \in [Services -> AcceptPoints] /\ sess \in [Conns -> SessionStates]
  BY Points, States DEF Init
<1>3. map \in [Threads -> [FDs -> Conns \cup {None}]] /\ counter \in [Threads -> Int]
  BY DEF Init
<1>4. /\ cur \in [Services -> Conns \cup {None}]
      /\ svc \in [Conns -> Services \cup {None}]
      /\ fd \in [Conns -> FDs \cup {None}]
      /\ thr \in [Conns -> Threads \cup {None}]
      /\ idle \in [Conns -> BOOLEAN]
      /\ shut \in [Conns -> BOOLEAN]
  BY DEF Init
<1>5. /\ keeper \in [Keepers -> {"off", "loop", "peek", "sleep", "exited"}]
      /\ stop \in [Stoppers -> {"idle", "interrupt", "signal", "done", "threw"}]
  BY DEF Init
<1>6. status = "INITED" /\ listen = "before" /\ interrupted = FALSE
  BY DEF Init
<1>7. connections \in Int /\ largest \in Int /\ cumulative \in Int
  <2>1. connections = 0 /\ largest = 0 /\ cumulative = 0
    BY DEF Init
  <2> QED
    BY ONLY <2>1
<1> QED
  BY <1>1, <1>2, <1>3, <1>4, <1>5, <1>6, <1>7 DEF TypeOK, Statuses

LEMMA TypeAccept ==
    ASSUME TypeOK, NEW s \in Services, AcceptFiber(s)
    PROVE  TypeOK'
<1>1. CASE Bind(s) \/ Loop(s) \/ AcceptTimeout(s) \/ AcceptInterrupted(s) \/ AcceptFails(s)
  <2>1. acc' \in [Services -> AcceptPoints]
    BY <1>1, Points DEF TypeOK, Bind, Loop, AcceptTimeout, AcceptInterrupted, AcceptFails,
         AcceptStep
  <2>2. UNCHANGED <<status, statVars, listen, cur, connVars, map, counter, keeper,
                    interrupted, stop, todo>>
    BY <1>1 DEF Bind, Loop, AcceptTimeout, AcceptInterrupted, AcceptFails
  <2> QED
    BY <2>1, <2>2 DEF TypeOK, connVars, statVars
<1>2. CASE CheckDisposed(s) \/ CheckLimit(s)
  <2>1. acc' \in [Services -> AcceptPoints]
    BY <1>2, Points, SMTT(20) DEF TypeOK, CheckDisposed, CheckLimit, AcceptStep, Reject
  <2>2. sess' \in [Conns -> SessionStates]
    BY <1>2, States DEF TypeOK, CheckDisposed, CheckLimit, AcceptStep, Reject
  <2>3. cur' \in [Services -> Conns \cup {None}] /\ fd' \in [Conns -> FDs \cup {None}]
    BY <1>2 DEF TypeOK, CheckDisposed, CheckLimit, AcceptStep, Reject
  <2>4. UNCHANGED <<status, statVars, listen, svc, thr, idle, shut, map, counter,
                    keeper, interrupted, stop, todo>>
    BY <1>2 DEF CheckDisposed, CheckLimit
  <2> QED
    BY <2>1, <2>2, <2>3, <2>4 DEF TypeOK, statVars
<1>3. CASE Count(s)
  <2>1. acc' \in [Services -> AcceptPoints] /\ sess' \in [Conns -> SessionStates]
    BY <1>3, Points, States DEF TypeOK, Count, AcceptStep
  <2>2. connections' \in Int /\ cumulative' \in Int
    BY <1>3 DEF TypeOK, Count
  <2> QED
    BY <1>3, <2>1, <2>2 DEF TypeOK, Count
<1>4. CASE ReadPeak(s) \/ SetPeak(s)
  BY <1>4, Points DEF TypeOK, ReadPeak, SetPeak, AcceptStep, connVars, statVars
<1>5. CASE Schedule(s)
  <2>1. /\ acc' \in [Services -> AcceptPoints]
        /\ sess' \in [Conns -> SessionStates]
        /\ cur' \in [Services -> Conns \cup {None}]
    BY <1>5, Points, States DEF TypeOK, Schedule, AcceptStep
  <2>2. thr' \in [Conns -> Threads \cup {None}]
    BY <1>5 DEF TypeOK, Schedule
  <2> QED
    BY <1>5, <2>1, <2>2 DEF TypeOK, Schedule, statVars
<1>6. CASE Close(s)
  BY <1>6, Points, States DEF TypeOK, Close, AcceptStep, statVars
<1>7. ASSUME NEW c \in Conns, Accept(s, c)
      PROVE  TypeOK'
  <2>1. /\ acc' \in [Services -> AcceptPoints]
        /\ sess' \in [Conns -> SessionStates]
        /\ cur' \in [Services -> Conns \cup {None}]
    BY <1>7, Points, States DEF TypeOK, Accept, AcceptStep
  <2>2. fd' \in [Conns -> FDs \cup {None}]
    BY <1>7 DEF TypeOK, Accept, FreeFDs
  <2> QED
    BY <1>7, <2>1, <2>2 DEF TypeOK, Accept, statVars
<1>8. ASSUME NEW c \in Conns, SessionFails(s, c)
      PROVE  TypeOK'
  BY <1>8, Points, States DEF TypeOK, SessionFails, AcceptStep, statVars
<1> QED
  BY <1>1, <1>2, <1>3, <1>4, <1>5, <1>6, <1>7, <1>8 DEF AcceptFiber, AcceptProgress

LEMMA TypeConnection ==
    ASSUME TypeOK, NEW c \in Conns, ConnectionFiber(c)
    PROVE  TypeOK'
<1>1. CASE AddSession(c)
  <2>1. sess' \in [Conns -> SessionStates]
    BY <1>1, States DEF TypeOK, AddSession, SessionStep
  <2>2. map' \in [Threads -> [FDs -> Conns \cup {None}]]
    BY <1>1 DEF TypeOK, AddSession
  <2>3. counter' \in [Threads -> Int]
    <3>1. counter' = [t \in Threads |-> IF t = thr[c] THEN counter[t] + 1 ELSE counter[t]]
      BY <1>1 DEF TypeOK, AddSession
    <3> QED
      BY <3>1 DEF TypeOK
  <2>4. UNCHANGED <<status, statVars, listen, acc, cur, svc, fd, thr, idle, shut,
                    keeper, interrupted, stop, todo>>
    BY <1>1 DEF AddSession
  <2> QED
    BY <2>1, <2>2, <2>3, <2>4 DEF TypeOK, statVars
<1>2. CASE SessionCreated(c) \/ HandlerReturns(c) \/ Io(c)
  BY <1>2, States DEF TypeOK, SessionCreated, HandlerReturns, Io, SessionStep, statVars
<1>3. CASE Uncount(c)
  <2>1. sess' \in [Conns -> SessionStates]
    BY <1>3, States DEF TypeOK, Uncount, SessionStep
  <2>2. connections' \in Int
    BY <1>3 DEF TypeOK, Uncount
  <2> QED
    BY <1>3, <2>1, <2>2 DEF TypeOK, Uncount
<1>4. CASE RemoveSession(c)
  <2>1. sess' \in [Conns -> SessionStates]
    BY <1>4, States DEF TypeOK, RemoveSession, SessionStep
  <2>2. map' \in [Threads -> [FDs -> Conns \cup {None}]]
    BY <1>4 DEF TypeOK, RemoveSession
  <2>3. counter' \in [Threads -> Int]
    <3>1. counter' = [t \in Threads |-> IF t = thr[c] THEN counter[t] - 1 ELSE counter[t]]
      BY <1>4 DEF TypeOK, RemoveSession
    <3> QED
      BY <3>1 DEF TypeOK
  <2>4. UNCHANGED <<status, statVars, listen, acc, cur, svc, fd, thr, idle, shut,
                    keeper, interrupted, stop, todo>>
    BY <1>4 DEF RemoveSession
  <2> QED
    BY <2>1, <2>2, <2>3, <2>4 DEF TypeOK, statVars
<1>5. CASE CloseSession(c)
  BY <1>5, States DEF TypeOK, CloseSession, SessionStep, statVars
<1> QED
  BY <1>1, <1>2, <1>3, <1>4, <1>5 DEF ConnectionFiber

LEMMA TypeStopper ==
    ASSUME TypeOK, NEW k \in Stoppers, Stopper(k)
    PROVE  TypeOK'
<1>1. CASE CallShutdown(k) \/ CallDispose(k) \/ Interrupt(k)
  BY <1>1 DEF TypeOK, Statuses, CallShutdown, CallDispose, Interrupt, connVars, statVars
<1>2. CASE Signal(k)
  <2>1. sess' \in [Conns -> SessionStates] /\ svc' \in [Conns -> Services \cup {None}]
    BY <1>2, States, ZenonT(40) DEF TypeOK, Signal
  <2>2. todo' \in [Stoppers -> 1..(NumServices + 1)]
    BY <1>2, ConstantsAssumption DEF TypeOK, Signal, Services
  <2>3. stop' \in [Stoppers -> {"idle", "interrupt", "signal", "done", "threw"}]
    BY <1>2 DEF TypeOK, Signal
  <2> QED
    BY <1>2, <2>1, <2>2, <2>3 DEF TypeOK, Signal, statVars
<1> QED
  BY <1>1, <1>2 DEF Stopper

LEMMA TypeStep == TypeOK /\ [Next]_vars => TypeOK'
<1> SUFFICES ASSUME TypeOK, [Next]_vars
             PROVE  TypeOK'
  OBVIOUS
<1>1. CASE Listen \/ Join \/ ListenReturns
  BY <1>1, Points DEF TypeOK, Statuses, Listen, Join, ListenReturns, connVars, statVars
<1>2. ASSUME NEW c \in Conns, Environment(c)
      PROVE  TypeOK'
  <2>1. CASE GoIdle(c)
    BY <2>1, States DEF TypeOK, GoIdle, statVars
  <2>2. ASSUME NEW s \in Services, Connect(c, s)
        PROVE  TypeOK'
    BY <2>2, States DEF TypeOK, Connect, statVars
  <2> QED
    BY <1>2, <2>1, <2>2 DEF Environment
<1>3. ASSUME NEW t \in Keepers, KeeperFiber(t)
      PROVE  TypeOK'
  BY <1>3 DEF TypeOK, KeeperFiber, KeeperLoop, KeeperPeek, KeeperInterrupted,
       KeeperWakes, KeeperStep, connVars, statVars
<1>4. CASE UNCHANGED vars
  BY <1>4 DEF TypeOK, vars, connVars, statVars
<1> QED
  BY <1>1, <1>2, <1>3, <1>4, TypeAccept, TypeConnection, TypeStopper DEF Next

\* Every variable keeps its type.
THEOREM TypeCorrect == Spec => []TypeOK
BY TypeInit, TypeStep, PTL DEF Spec

(***************************************************************************)
(* What the steps do to the variables the safety properties speak of       *)
(***************************************************************************)
core == <<acc, cur, sess, fd, thr, map, counter, connections, largest, todo>>

LEMMA StepCases ==
    ASSUME [Next]_vars
    PROVE  \/ UNCHANGED core
           \/ Join
           \/ \E s \in Services : AcceptFiber(s)
           \/ \E c \in Conns : ConnectionFiber(c)
           \/ \E c \in Conns, s \in Services : Connect(c, s)
           \/ \E k \in Stoppers : Signal(k)
<1>1. CASE Listen \/ ListenReturns
  BY <1>1 DEF core, Listen, ListenReturns, statVars, connVars
<1>2. ASSUME NEW c \in Conns, GoIdle(c)
      PROVE  UNCHANGED core
  BY <1>2 DEF core, GoIdle, statVars
<1>3. ASSUME NEW t \in Keepers, KeeperFiber(t)
      PROVE  UNCHANGED core
  BY <1>3 DEF core, KeeperFiber, KeeperLoop, KeeperPeek, KeeperInterrupted, KeeperWakes,
       statVars, connVars
<1>4. ASSUME NEW k \in Stoppers, CallShutdown(k) \/ CallDispose(k) \/ Interrupt(k)
      PROVE  UNCHANGED core
  BY <1>4 DEF core, CallShutdown, CallDispose, Interrupt, statVars, connVars
<1>5. CASE UNCHANGED vars
  BY <1>5 DEF vars, core, statVars, connVars
<1> QED
  BY <1>1, <1>2, <1>3, <1>4, <1>5 DEF Next, Environment, Stopper

(***************************************************************************)
(* At most one accept fiber is between two blocking calls                  *)
(***************************************************************************)
LEMMA AcceptMoves ==
    ASSUME TypeOK, NEW s \in Services, AcceptFiber(s)
    PROVE  \E p \in AcceptPoints :
             /\ acc' = [acc EXCEPT ![s] = p]
             /\ p \in Midway => acc[s] \in Midway \/ AcceptThreadFree
<1>1. CASE \/ Bind(s) \/ Loop(s) \/ AcceptTimeout(s) \/ AcceptInterrupted(s)
           \/ AcceptFails(s) \/ Close(s) \/ \E c \in Conns : SessionFails(s, c)
  BY <1>1, Points DEF Bind, Loop, AcceptTimeout, AcceptInterrupted, AcceptFails, Close,
       SessionFails, AcceptStep, Midway
<1>2. CASE CheckDisposed(s) \/ CheckLimit(s)
  BY <1>2, Points DEF CheckDisposed, CheckLimit, Reject, AcceptStep, Midway
<1>3. CASE Count(s) \/ ReadPeak(s) \/ SetPeak(s) \/ Schedule(s)
  BY <1>3, Points DEF Count, ReadPeak, SetPeak, Schedule, AcceptStep, Midway
<1>4. CASE \E c \in Conns : Accept(s, c)
  BY <1>4, Points DEF Accept, AcceptStep
<1> QED
  BY <1>1, <1>2, <1>3, <1>4 DEF AcceptFiber, AcceptProgress

LEMMA ExclusiveStep ==
    ASSUME TypeOK, AcceptExclusive, [Next]_vars
    PROVE  AcceptExclusive'
<1>1. CASE UNCHANGED acc
  BY <1>1 DEF AcceptExclusive
<1>2. CASE Join
  BY <1>2 DEF Join, AcceptExclusive, Midway
<1>3. ASSUME NEW s \in Services, AcceptFiber(s)
      PROVE  AcceptExclusive'
  BY <1>3, AcceptMoves DEF TypeOK, AcceptExclusive, AcceptThreadFree
<1>4. ASSUME NEW c \in Conns, ConnectionFiber(c)
      PROVE  UNCHANGED acc
  BY <1>4 DEF ConnectionFiber, AddSession, SessionCreated, Io, HandlerReturns, Uncount,
       RemoveSession, CloseSession
<1>5. ASSUME NEW c \in Conns, NEW s \in Services, Connect(c, s)
      PROVE  UNCHANGED acc
  BY <1>5 DEF Connect
<1>6. ASSUME NEW k \in Stoppers, Signal(k)
      PROVE  UNCHANGED acc
  BY <1>6 DEF Signal
<1> QED
  BY <1>1, <1>2, <1>3, <1>4, <1>5, <1>6, StepCases DEF core

(***************************************************************************)
(* Fibers run only inside join()                                           *)
(***************************************************************************)
LEMMA FibersInJoinStep ==
    ASSUME TypeOK, FibersInJoin, [Next]_vars
    PROVE  FibersInJoin'
<1>1. CASE Listen
  BY <1>1 DEF FibersInJoin, Listen, connVars
<1>2. CASE Join
  BY <1>2 DEF TypeOK, FibersInJoin, Join
<1>3. CASE ListenReturns
  BY <1>3 DEF FibersInJoin, ListenReturns, FibersDone, connVars
<1>4. ASSUME NEW s \in Services, AcceptFiber(s)
      PROVE  FibersInJoin'
  <2>1. UNCHANGED listen
    BY <1>4 DEF AcceptFiber, AcceptProgress, Bind, Loop, AcceptTimeout,
        AcceptInterrupted, AcceptFails, Close, SessionFails, CheckDisposed, CheckLimit,
        Count, ReadPeak, SetPeak, Schedule, Accept
  <2>2. acc[s] \notin {"none", "closed", "failed"}
    BY <1>4 DEF AcceptFiber, AcceptProgress, Bind, Loop, AcceptTimeout,
        AcceptInterrupted, AcceptFails, Close, SessionFails, CheckDisposed, CheckLimit,
        Count, ReadPeak, SetPeak, Schedule, Accept, AcceptStep, Reject
  <2>3. PICK p \in AcceptPoints : acc' = [acc EXCEPT ![s] = p] /\ p # "none"
    BY <1>4, Points DEF AcceptFiber, AcceptProgress, Bind, Loop, AcceptTimeout,
        AcceptInterrupted, AcceptFails, Close, SessionFails, CheckDisposed, CheckLimit,
        Count, ReadPeak, SetPeak, Schedule, Accept, AcceptStep, Reject
  <2>4. listen = "joined"
    BY <2>2 DEF TypeOK, FibersInJoin
  <2> QED
    BY <2>1, <2>3, <2>4 DEF TypeOK, FibersInJoin
<1>5. ASSUME NEW c \in Conns, ConnectionFiber(c)
      PROVE  FibersInJoin'
  <2>1. UNCHANGED <<listen, acc>>
    BY <1>5 DEF ConnectionFiber, AddSession, SessionCreated, Io, HandlerReturns, Uncount,
         RemoveSession, CloseSession
  <2>2. sess[c] \in FiberStates
    BY <1>5 DEF ConnectionFiber, AddSession, SessionCreated, Io, HandlerReturns, Uncount,
         RemoveSession, CloseSession, SessionStep, FiberStates, OpenStates, CountedStates
  <2> QED
    BY <2>1, <2>2 DEF FibersInJoin
<1>6. ASSUME NEW c \in Conns, Environment(c)
      PROVE  FibersInJoin'
  BY <1>6 DEF TypeOK, FibersInJoin, Environment, GoIdle, Connect, FiberStates, OpenStates,
       CountedStates
<1>7. ASSUME NEW t \in Keepers, KeeperFiber(t)
      PROVE  UNCHANGED <<listen, acc, sess>>
  BY <1>7 DEF KeeperFiber, KeeperLoop, KeeperPeek, KeeperInterrupted, KeeperWakes, connVars
<1>8. ASSUME NEW k \in Stoppers, Stopper(k)
      PROVE  FibersInJoin'
  <2>1. CASE CallShutdown(k) \/ CallDispose(k) \/ Interrupt(k)
    BY <2>1 DEF FibersInJoin, CallShutdown, CallDispose, Interrupt, connVars
  <2>2. CASE Signal(k)
    BY <2>2, ZenonT(40) DEF TypeOK, FibersInJoin, Signal, FiberStates, OpenStates, CountedStates
  <2> QED
    BY <1>8, <2>1, <2>2 DEF Stopper
<1>9. CASE UNCHANGED vars
  BY <1>9 DEF FibersInJoin, vars, connVars
<1> QED
  BY <1>1, <1>2, <1>3, <1>4, <1>5, <1>6, <1>7, <1>8, <1>9 DEF Next, FibersInJoin

(***************************************************************************)
(* Connections still to be opened by signalAccept()                        *)
(***************************************************************************)
LEMMA PokesFreshStep ==
    ASSUME TypeOK, PokesFresh, InHand, [Next]_vars
    PROVE  PokesFresh'
<1>1. CASE UNCHANGED core \/ Join
  BY <1>1 DEF PokesFresh, core, Join, connVars
<1>2. ASSUME NEW s \in Services, AcceptFiber(s)
      PROVE  PokesFresh'
  <2>1. UNCHANGED todo
    BY <1>2 DEF AcceptFiber, AcceptProgress, Bind, Loop, AcceptTimeout,
        AcceptInterrupted, AcceptFails, Close, SessionFails, CheckDisposed, CheckLimit,
        Count, ReadPeak, SetPeak, Schedule, Accept
  <2>2. \A c \in Conns : sess[c] = "none" => sess'[c] = "none"
    <3>1. CASE \/ Bind(s) \/ Loop(s) \/ AcceptTimeout(s) \/ AcceptInterrupted(s)
               \/ AcceptFails(s) \/ ReadPeak(s) \/ SetPeak(s)
      BY <3>1 DEF Bind, Loop, AcceptTimeout, AcceptInterrupted, AcceptFails, ReadPeak, SetPeak,
           connVars
    <3>2. CASE CheckDisposed(s) \/ CheckLimit(s)
      BY <3>2 DEF TypeOK, InHand, CheckDisposed, CheckLimit, Reject, AcceptStep
    <3>3. CASE Count(s) \/ Schedule(s)
      BY <3>3 DEF TypeOK, InHand, Count, Schedule, AcceptStep
    <3>4. CASE Close(s)
      BY <3>4 DEF TypeOK, Close, Pending
    <3>5. CASE \E c \in Conns : Accept(s, c) \/ SessionFails(s, c)
      BY <3>5 DEF TypeOK, Accept, SessionFails, Pending
    <3> QED
      BY <1>2, <3>1, <3>2, <3>3, <3>4, <3>5 DEF AcceptFiber, AcceptProgress
  <2> QED
    BY <2>1, <2>2 DEF PokesFresh, Conns, Pokes
<1>3. ASSUME NEW c \in Conns, ConnectionFiber(c)
      PROVE  PokesFresh'
  <2>1. UNCHANGED todo /\ \A d \in Conns : sess[d] = "none" => sess'[d] = "none"
    BY <1>3 DEF TypeOK, ConnectionFiber, AddSession, SessionCreated, Io, HandlerReturns, Uncount,
         RemoveSession, CloseSession, SessionStep
  <2> QED
    BY <2>1 DEF PokesFresh, Conns, Pokes
<1>4. ASSUME NEW c \in Conns, NEW s \in Services, Connect(c, s)
      PROVE  PokesFresh'
  BY <1>4, ConstantsAssumption DEF TypeOK, PokesFresh, Connect, Pokes
<1>5. ASSUME NEW k \in Stoppers, Signal(k)
      PROVE  PokesFresh'
  <2>1. CASE UNCHANGED <<sess, todo>>
    BY <2>1 DEF PokesFresh
  <2>2. CASE /\ sess' = [sess EXCEPT ![<<k, todo[k]>>] = "pending"]
             /\ todo' = [todo EXCEPT ![k] = @ + 1]
    <3> SUFFICES ASSUME NEW j \in Stoppers, NEW s \in Services, s >= todo'[j]
                 PROVE  sess'[<<j, s>>] = "none"
      BY DEF PokesFresh
    <3>1. todo[k] \in Int /\ todo[j] \in Int /\ s \in Int
      BY ConstantsAssumption DEF TypeOK, Services
    <3>2. CASE j = k
      <4>1. todo'[j] = todo[k] + 1
        BY <2>2, <3>2 DEF TypeOK
      <4>2. s > todo[k]
        BY <3>1, <4>1
      <4>3. <<j, s>> # <<k, todo[k]>>
        BY <4>2, <3>1
      <4> QED
        BY <2>2, <3>2, <4>2, <4>3, <3>1 DEF PokesFresh, TypeOK, Conns, Pokes
    <3>3. CASE j # k
      BY <2>2, <3>3 DEF PokesFresh, TypeOK, Conns, Pokes
    <3> QED
      BY <3>2, <3>3
  <2> QED
    BY <1>5, <2>1, <2>2 DEF Signal
<1> QED
  BY <1>1, <1>2, <1>3, <1>4, <1>5, StepCases

(***************************************************************************)
(* The connection an accept fiber has in hand                              *)
(***************************************************************************)
LEMMA InHandStep ==
    ASSUME TypeOK, AcceptExclusive, FibersInJoin, PokesFresh, InHand, [Next]_vars
    PROVE  InHand'
<1>1. CASE UNCHANGED core
  BY <1>1 DEF InHand, core
<1>2. CASE Join
  BY <1>2 DEF TypeOK, InHand, FibersInJoin, Join, Midway, connVars
<1>3. ASSUME NEW s \in Services, AcceptFiber(s)
      PROVE  InHand'
  <2>1. CASE \/ Bind(s) \/ Loop(s) \/ AcceptTimeout(s) \/ AcceptInterrupted(s)
             \/ AcceptFails(s)
    BY <2>1 DEF TypeOK, InHand, Midway, Bind, Loop, AcceptTimeout, AcceptInterrupted,
         AcceptFails, AcceptStep, connVars
  <2>2. CASE CheckDisposed(s)
    BY <2>2, SMTT(20) DEF TypeOK, InHand, AcceptExclusive, Midway, CheckDisposed, Reject, AcceptStep
  <2>3. CASE CheckLimit(s)
    BY <2>3, SMTT(20) DEF TypeOK, InHand, AcceptExclusive, Midway, CheckLimit, Reject, AcceptStep
  <2>4. CASE Count(s)
    BY <2>4 DEF TypeOK, InHand, AcceptExclusive, Midway, Count, AcceptStep
  <2>5. CASE ReadPeak(s) \/ SetPeak(s)
    BY <2>5 DEF TypeOK, InHand, Midway, ReadPeak, SetPeak, AcceptStep, connVars
  <2>6. CASE Schedule(s)
    BY <2>6 DEF TypeOK, InHand, AcceptExclusive, Midway, Schedule, AcceptStep
  <2>7. CASE Close(s)
    BY <2>7 DEF TypeOK, InHand, Midway, Close, Pending, AcceptStep
  <2>8. ASSUME NEW c \in Conns, Accept(s, c)
        PROVE  InHand'
    BY <2>8 DEF TypeOK, InHand, Midway, Accept, Pending, AcceptStep, AcceptThreadFree
  <2>9. ASSUME NEW c \in Conns, SessionFails(s, c)
        PROVE  InHand'
    BY <2>9 DEF TypeOK, InHand, Midway, SessionFails, Pending, AcceptStep
  <2> QED
    BY <1>3, <2>1, <2>2, <2>3, <2>4, <2>5, <2>6, <2>7, <2>8, <2>9 DEF AcceptFiber,
        AcceptProgress
<1>4. ASSUME NEW c \in Conns, ConnectionFiber(c)
      PROVE  InHand'
  <2>1. UNCHANGED <<acc, cur>>
    BY <1>4 DEF ConnectionFiber, AddSession, SessionCreated, Io, HandlerReturns, Uncount,
         RemoveSession, CloseSession
  <2>2. \E p \in SessionStates :
            sess' = [sess EXCEPT ![c] = p] /\ p \notin {"taken", "counted"}
    BY <1>4, States DEF TypeOK, ConnectionFiber, AddSession, SessionCreated, Io, HandlerReturns, Uncount,
         RemoveSession, CloseSession, SessionStep
  <2>3. sess[c] \notin {"taken", "counted"}
    BY <1>4 DEF ConnectionFiber, AddSession, SessionCreated, Io, HandlerReturns, Uncount,
         RemoveSession, CloseSession, SessionStep
  <2> QED
    BY <2>1, <2>2, <2>3 DEF TypeOK, InHand
<1>5. ASSUME NEW c \in Conns, NEW s \in Services, Connect(c, s)
      PROVE  InHand'
  BY <1>5 DEF TypeOK, InHand, Connect
<1>6. ASSUME NEW k \in Stoppers, Signal(k)
      PROVE  InHand'
  <2>1. CASE UNCHANGED sess
    BY <1>6, <2>1 DEF InHand, Signal
  <2>2. CASE todo[k] \in Services /\ sess' = [sess EXCEPT ![<<k, todo[k]>>] = "pending"]
    <3>1. sess[<<k, todo[k]>>] = "none" /\ <<k, todo[k]>> \in Conns
      BY <2>2, ConstantsAssumption DEF PokesFresh, Conns, Pokes, Services
    <3> QED
      BY <1>6, <2>2, <3>1, ZenonT(40) DEF TypeOK, InHand, Signal
  <2> QED
    BY <1>6, <2>1, <2>2 DEF Signal
<1> QED
  BY <1>1, <1>2, <1>3, <1>4, <1>5, <1>6, StepCases

(***************************************************************************)
(* The limit                                                               *)
(***************************************************************************)
LEMMA LimitStep ==
    ASSUME TypeOK, AcceptExclusive, RoomForOne, LimitRespected, [Next]_vars
    PROVE  RoomForOne' /\ LimitRespected'
<1>0. MaxConns \in Int /\ connections \in Int /\ largest \in Int
  BY ConstantsAssumption DEF TypeOK
<1>1. CASE UNCHANGED core \/ Join
  BY <1>1 DEF RoomForOne, LimitRespected, core, Join, statVars
<1>2. ASSUME NEW s \in Services, AcceptFiber(s)
      PROVE  RoomForOne' /\ LimitRespected'
  <2>1. CASE Count(s)
    <3>1. connections' = connections + 1 /\ largest' = largest
      BY <2>1 DEF Count
    <3>2. MaxConns > 0 => connections < MaxConns
      BY <2>1 DEF RoomForOne, Count, AcceptStep
    <3>3. \A r \in Services : acc'[r] # "count"
      BY <2>1 DEF TypeOK, AcceptExclusive, Midway, Count, AcceptStep
    <3> QED
      BY <1>0, <3>1, <3>2, <3>3 DEF RoomForOne, LimitRespected
  <2>2. CASE CheckLimit(s)
    <3>1. UNCHANGED <<connections, largest>>
      BY <2>2 DEF CheckLimit, statVars
    <3>2. \A r \in Services : acc'[r] = "count" =>
              acc[r] = "count" \/ ~LimitReached
      BY <2>2 DEF TypeOK, CheckLimit, Reject, AcceptStep
    <3> QED
      BY <1>0, <3>1, <3>2 DEF RoomForOne, LimitRespected, LimitReached
  <2>3. CASE SetPeak(s)
    <3>1. largest' = connections /\ connections' = connections
      BY <2>3 DEF SetPeak
    <3>2. \A r \in Services : acc'[r] = "count" => acc[r] = "count"
      BY <2>3 DEF TypeOK, SetPeak, AcceptStep
    <3> QED
      BY <3>1, <3>2 DEF RoomForOne, LimitRespected
  <2>4. CASE \/ Bind(s) \/ Loop(s) \/ AcceptTimeout(s) \/ AcceptInterrupted(s)
             \/ AcceptFails(s) \/ CheckDisposed(s) \/ ReadPeak(s) \/ Schedule(s) \/ Close(s)
             \/ \E c \in Conns : Accept(s, c) \/ SessionFails(s, c)
    <3>1. UNCHANGED <<connections, largest>>
      BY <2>4 DEF Bind, Loop, AcceptTimeout, AcceptInterrupted, AcceptFails, CheckDisposed,
           ReadPeak, Schedule, Close, Accept, SessionFails, statVars
    <3>2. \A r \in Services : acc'[r] = "count" => acc[r] = "count"
      BY <2>4 DEF TypeOK, Bind, Loop, AcceptTimeout, AcceptInterrupted, AcceptFails,
           CheckDisposed, ReadPeak, Schedule, Close, Accept, SessionFails, Reject, AcceptStep
    <3> QED
      BY <3>1, <3>2 DEF RoomForOne, LimitRespected
  <2> QED
    BY <1>2, <2>1, <2>2, <2>3, <2>4 DEF AcceptFiber, AcceptProgress
<1>3. ASSUME NEW c \in Conns, ConnectionFiber(c)
      PROVE  RoomForOne' /\ LimitRespected'
  <2>1. UNCHANGED <<acc, largest>> /\ (connections' = connections \/ connections' = connections - 1)
    BY <1>3 DEF ConnectionFiber, AddSession, SessionCreated, Io, HandlerReturns, Uncount,
         RemoveSession, CloseSession, statVars
  <2> QED
    BY <1>0, <2>1 DEF RoomForOne, LimitRespected
<1>4. ASSUME NEW c \in Conns, NEW s \in Services, Connect(c, s)
      PROVE  RoomForOne' /\ LimitRespected'
  BY <1>4 DEF RoomForOne, LimitRespected, Connect, statVars
<1>5. ASSUME NEW k \in Stoppers, Signal(k)
      PROVE  RoomForOne' /\ LimitRespected'
  BY <1>5 DEF RoomForOne, LimitRespected, Signal, statVars
<1> QED
  BY <1>1, <1>2, <1>3, <1>4, <1>5, StepCases

(***************************************************************************)
(* connections_ counts the admitted connections                            *)
(***************************************************************************)
LEMMA CountedFinite == IsFiniteSet(Counted)
BY ConnsFinite, FS_Subset DEF Counted

\* The counted connections change in two steps only.
LEMMA CountedChanges ==
    ASSUME TypeOK, FibersInJoin, PokesFresh, InHand, [Next]_vars
    PROVE  \/ UNCHANGED <<connections, Counted>>
           \/ \E s \in Services :
                /\ Count(s)
                /\ cur[s] \in Conns \ Counted
                /\ Counted' = Counted \cup {cur[s]}
           \/ \E c \in Counted :
                /\ Uncount(c)
                /\ Counted' = Counted \ {c}
<1>1. CASE UNCHANGED core \/ Join
  BY <1>1 DEF Counted, core, Join, statVars, connVars
<1>2. ASSUME NEW s \in Services, AcceptFiber(s), ~Count(s)
      PROVE  UNCHANGED <<connections, Counted>>
  <2>1. CASE \/ Bind(s) \/ Loop(s) \/ AcceptTimeout(s) \/ AcceptInterrupted(s)
             \/ AcceptFails(s) \/ ReadPeak(s) \/ SetPeak(s)
    BY <2>1 DEF Counted, Bind, Loop, AcceptTimeout, AcceptInterrupted, AcceptFails, ReadPeak,
         SetPeak, statVars, connVars
  <2>2. CASE CheckDisposed(s) \/ CheckLimit(s)
    BY <2>2 DEF TypeOK, Counted, CountedStates, InHand, CheckDisposed, CheckLimit, Reject,
         AcceptStep, statVars
  <2>3. CASE Schedule(s)
    BY <2>3 DEF TypeOK, Counted, CountedStates, InHand, Schedule, AcceptStep, statVars
  <2>4. CASE Close(s)
    BY <2>4 DEF TypeOK, Counted, CountedStates, Close, Pending, statVars
  <2>5. CASE \E c \in Conns : Accept(s, c) \/ SessionFails(s, c)
    BY <2>5 DEF TypeOK, Counted, CountedStates, Accept, SessionFails, Pending, statVars
  <2> QED
    BY <1>2, <2>1, <2>2, <2>3, <2>4, <2>5 DEF AcceptFiber, AcceptProgress
<1>3. ASSUME NEW s \in Services, Count(s)
      PROVE  cur[s] \in Conns \ Counted /\ Counted' = Counted \cup {cur[s]}
  BY <1>3 DEF TypeOK, Counted, CountedStates, InHand, Count, AcceptStep
<1>4. ASSUME NEW c \in Conns, ConnectionFiber(c), ~Uncount(c)
      PROVE  UNCHANGED <<connections, Counted>>
  BY <1>4 DEF TypeOK, Counted, CountedStates, ConnectionFiber, AddSession, SessionCreated, Io,
       HandlerReturns, RemoveSession, CloseSession, SessionStep, statVars
<1>5. ASSUME NEW c \in Conns, Uncount(c)
      PROVE  c \in Counted /\ Counted' = Counted \ {c}
  BY <1>5 DEF TypeOK, Counted, CountedStates, Uncount, SessionStep
<1>6. ASSUME NEW c \in Conns, NEW s \in Services, Connect(c, s)
      PROVE  UNCHANGED <<connections, Counted>>
  BY <1>6 DEF TypeOK, Counted, CountedStates, Connect, statVars
<1>7. ASSUME NEW k \in Stoppers, Signal(k)
      PROVE  UNCHANGED <<connections, Counted>>
  <2>1. CASE UNCHANGED sess
    BY <1>7, <2>1 DEF Counted, Signal, statVars
  <2>2. CASE todo[k] \in Services /\ sess' = [sess EXCEPT ![<<k, todo[k]>>] = "pending"]
    <3>1. sess[<<k, todo[k]>>] = "none"
      BY <2>2, ConstantsAssumption DEF PokesFresh, Services
    <3> QED
      BY <1>7, <2>2, <3>1 DEF TypeOK, Counted, CountedStates, Signal, statVars
  <2> QED
    BY <1>7, <2>1, <2>2 DEF Signal
<1> QED
  BY <1>1, <1>2, <1>3, <1>4, <1>5, <1>6, <1>7, StepCases

LEMMA CounterStep ==
    ASSUME TypeOK, FibersInJoin, PokesFresh, InHand, CounterExact, [Next]_vars
    PROVE  CounterExact'
<1>0. IsFiniteSet(Counted) /\ connections = Cardinality(Counted)
  BY CountedFinite DEF CounterExact
<1>1. CASE UNCHANGED <<connections, Counted>>
  BY <1>1 DEF CounterExact
<1>2. ASSUME NEW s \in Services, Count(s), cur[s] \notin Counted, Counted' = Counted \cup {cur[s]}
      PROVE  CounterExact'
  <2>1. connections' = connections + 1
    BY <1>2 DEF Count
  <2>2. Cardinality(Counted \cup {cur[s]}) = Cardinality(Counted) + 1
    BY <1>0, <1>2, FS_AddElement
  <2> QED
    BY <1>0, <1>2, <2>1, <2>2 DEF CounterExact
<1>3. ASSUME NEW c \in Counted, Uncount(c), Counted' = Counted \ {c}
      PROVE  CounterExact'
  <2>1. connections' = connections - 1
    BY <1>3 DEF Uncount
  <2>2. Cardinality(Counted \ {c}) = Cardinality(Counted) - 1
    BY <1>0, FS_RemoveElement
  <2> QED
    BY <1>0, <1>3, <2>1, <2>2 DEF CounterExact
<1> QED
  BY <1>1, <1>2, <1>3, CountedChanges

(***************************************************************************)
(* Descriptors and threads of the sessions                                 *)
(***************************************************************************)
LEMMA DescriptorsStep ==
    ASSUME TypeOK, PokesFresh, InHand, DescriptorsOwned, [Next]_vars
    PROVE  DescriptorsOwned'
<1> USE DEF DescriptorsOwned, OpenStates, CountedStates
<1>0. None \notin FDs
  BY ConstantsAssumption
<1>1. CASE UNCHANGED core \/ Join
  BY <1>1 DEF core, Join, connVars
<1>2. ASSUME NEW s \in Services, AcceptFiber(s)
      PROVE  DescriptorsOwned'
  <2>1. CASE \/ Bind(s) \/ Loop(s) \/ AcceptTimeout(s) \/ AcceptInterrupted(s)
             \/ AcceptFails(s) \/ ReadPeak(s) \/ SetPeak(s)
    BY <2>1 DEF Bind, Loop, AcceptTimeout, AcceptInterrupted, AcceptFails, ReadPeak, SetPeak,
         connVars
  <2>2. CASE UNCHANGED <<sess, fd>>
    BY <2>2
  <2>3. CASE (CheckDisposed(s) \/ CheckLimit(s)) /\ ~UNCHANGED <<sess, fd>>
    <3>1. cur[s] \in Conns /\ sess[cur[s]] = "taken"
      BY <2>3 DEF InHand, CheckDisposed, CheckLimit, Reject, AcceptStep
    <3>2. /\ \A c \in Conns : sess'[c] = IF c = cur[s] THEN "refused" ELSE sess[c]
          /\ \A c \in Conns : fd'[c] = IF c = cur[s] THEN None ELSE fd[c]
      BY <2>3 DEF TypeOK, CheckDisposed, CheckLimit, Reject
    <3> QED
      BY <1>0, <3>1, <3>2
  <2>4. CASE Count(s)
    BY <2>4 DEF TypeOK, InHand, Count, AcceptStep
  <2>5. CASE Schedule(s)
    BY <2>5 DEF TypeOK, InHand, Schedule, AcceptStep
  <2>6. CASE Close(s)
    BY <2>6 DEF TypeOK, Close, Pending
  <2>7. ASSUME NEW c \in Conns, Accept(s, c)
        PROVE  DescriptorsOwned'
    <3>1. PICK f \in FDs : fd' = [fd EXCEPT ![c] = f] /\ \A d \in Conns : fd[d] # f
      BY <2>7 DEF Accept, FreeFDs
    <3>2. sess' = [sess EXCEPT ![c] = "taken"]
      BY <2>7 DEF Accept
    <3> QED
      BY <3>1, <3>2 DEF TypeOK
  <2>8. ASSUME NEW c \in Conns, SessionFails(s, c)
        PROVE  DescriptorsOwned'
    BY <2>8 DEF TypeOK, SessionFails, Pending
  <2> QED
    BY <1>2, <2>1, <2>2, <2>3, <2>4, <2>5, <2>6, <2>7, <2>8 DEF AcceptFiber,
        AcceptProgress
<1>3. ASSUME NEW c \in Conns, ConnectionFiber(c)
      PROVE  DescriptorsOwned'
  <2>1. CASE CloseSession(c)
    BY <1>0, <2>1 DEF TypeOK, CloseSession, SessionStep
  <2>2. CASE ~CloseSession(c)
    BY <1>3, <2>2, ZenonT(40) DEF TypeOK, ConnectionFiber, AddSession, SessionCreated, Io, HandlerReturns,
         Uncount, RemoveSession, SessionStep
  <2> QED
    BY <2>1, <2>2
<1>4. ASSUME NEW c \in Conns, NEW s \in Services, Connect(c, s)
      PROVE  DescriptorsOwned'
  BY <1>4 DEF TypeOK, Connect
<1>5. ASSUME NEW k \in Stoppers, Signal(k)
      PROVE  DescriptorsOwned'
  <2>1. CASE UNCHANGED sess
    BY <1>5, <2>1 DEF Signal
  <2>2. CASE todo[k] \in Services /\ sess' = [sess EXCEPT ![<<k, todo[k]>>] = "pending"]
    <3>1. sess[<<k, todo[k]>>] = "none"
      BY <2>2, ConstantsAssumption DEF PokesFresh, Services
    <3> QED
      BY <1>5, <2>2, <3>1 DEF TypeOK, Signal
  <2> QED
    BY <1>5, <2>1, <2>2 DEF Signal
<1> QED
  BY <1>1, <1>2, <1>3, <1>4, <1>5, StepCases

LEMMA ThreadsStep ==
    ASSUME TypeOK, PokesFresh, InHand, ThreadsAssigned, [Next]_vars
    PROVE  ThreadsAssigned'
<1> USE DEF ThreadsAssigned, FiberStates, OpenStates, CountedStates
<1>0. None \notin Threads
  BY ConstantsAssumption
<1>1. CASE UNCHANGED core \/ Join
  BY <1>1 DEF core, Join, connVars
<1>2. ASSUME NEW s \in Services, AcceptFiber(s)
      PROVE  ThreadsAssigned'
  <2>1. CASE \/ Bind(s) \/ Loop(s) \/ AcceptTimeout(s) \/ AcceptInterrupted(s)
             \/ AcceptFails(s) \/ ReadPeak(s) \/ SetPeak(s)
    BY <2>1 DEF Bind, Loop, AcceptTimeout, AcceptInterrupted, AcceptFails, ReadPeak, SetPeak,
         connVars
  <2>2. CASE CheckDisposed(s) \/ CheckLimit(s)
    BY <2>2 DEF TypeOK, InHand, CheckDisposed, CheckLimit, Reject, AcceptStep
  <2>3. CASE Count(s)
    BY <2>3 DEF TypeOK, InHand, Count, AcceptStep
  <2>4. CASE Schedule(s)
    <3>1. PICK t \in Threads : thr' = [thr EXCEPT ![cur[s]] = t]
      BY <2>4 DEF Schedule
    <3>2. cur[s] \in Conns /\ sess' = [sess EXCEPT ![cur[s]] = "scheduled"]
      BY <2>4 DEF InHand, Schedule, AcceptStep
    <3> QED
      BY <3>1, <3>2 DEF TypeOK
  <2>5. CASE Close(s)
    BY <2>5 DEF TypeOK, Close, Pending
  <2>6. ASSUME NEW c \in Conns, Accept(s, c) \/ SessionFails(s, c)
        PROVE  ThreadsAssigned'
    BY <2>6 DEF TypeOK, Accept, SessionFails, Pending
  <2> QED
    BY <1>2, <2>1, <2>2, <2>3, <2>4, <2>5, <2>6 DEF AcceptFiber, AcceptProgress
<1>3. ASSUME NEW c \in Conns, ConnectionFiber(c)
      PROVE  ThreadsAssigned'
  <2>1. CASE CloseSession(c)
    BY <1>0, <2>1 DEF TypeOK, CloseSession, SessionStep
  <2>2. CASE ~CloseSession(c)
    BY <1>3, <2>2 DEF TypeOK, ConnectionFiber, AddSession, SessionCreated, Io, HandlerReturns,
         Uncount, RemoveSession, SessionStep
  <2> QED
    BY <2>1, <2>2
<1>4. ASSUME NEW c \in Conns, NEW s \in Services, Connect(c, s)
      PROVE  ThreadsAssigned'
  BY <1>4 DEF TypeOK, Connect
<1>5. ASSUME NEW k \in Stoppers, Signal(k)
      PROVE  ThreadsAssigned'
  <2>1. CASE UNCHANGED sess
    BY <1>5, <2>1 DEF Signal
  <2>2. CASE todo[k] \in Services /\ sess' = [sess EXCEPT ![<<k, todo[k]>>] = "pending"]
    <3>1. sess[<<k, todo[k]>>] = "none"
      BY <2>2, ConstantsAssumption DEF PokesFresh, Services
    <3> QED
      BY <1>5, <2>2, <3>1 DEF TypeOK, Signal
  <2> QED
    BY <1>5, <2>1, <2>2 DEF Signal
<1> QED
  BY <1>1, <1>2, <1>3, <1>4, <1>5, StepCases

(***************************************************************************)
(* The registry                                                            *)
(***************************************************************************)

\* Outside addSession() and removeSession() neither the registry nor the thread
\* and the descriptor of a registered session change.
LEMMA RegistryChanges ==
    ASSUME TypeOK, PokesFresh, InHand, [Next]_vars
    PROVE  \/ /\ UNCHANGED <<map, counter>>
              /\ \A c \in Conns :
                    /\ sess[c] \in RegisteredStates <=> sess'[c] \in RegisteredStates
                    /\ sess[c] \in RegisteredStates => thr'[c] = thr[c] /\ fd'[c] = fd[c]
           \/ \E c \in Conns : AddSession(c) \/ RemoveSession(c)
<1> DEFINE Same == /\ UNCHANGED <<map, counter>>
                   /\ \A c \in Conns :
                        /\ sess[c] \in RegisteredStates <=> sess'[c] \in RegisteredStates
                        /\ sess[c] \in RegisteredStates => thr'[c] = thr[c] /\ fd'[c] = fd[c]
<1> USE DEF RegisteredStates
<1>1. CASE UNCHANGED core \/ Join
  BY <1>1 DEF core, Join, connVars
<1>2. ASSUME NEW s \in Services, AcceptFiber(s)
      PROVE  Same
  <2>1. CASE \/ Bind(s) \/ Loop(s) \/ AcceptTimeout(s) \/ AcceptInterrupted(s)
             \/ AcceptFails(s) \/ ReadPeak(s) \/ SetPeak(s)
    BY <2>1 DEF Bind, Loop, AcceptTimeout, AcceptInterrupted, AcceptFails, ReadPeak, SetPeak,
         connVars
  <2>2. CASE CheckDisposed(s) \/ CheckLimit(s)
    BY <2>2 DEF TypeOK, InHand, CheckDisposed, CheckLimit, Reject, AcceptStep
  <2>3. CASE Count(s)
    BY <2>3 DEF TypeOK, InHand, Count, AcceptStep
  <2>4. CASE Schedule(s)
    BY <2>4 DEF TypeOK, InHand, Schedule, AcceptStep
  <2>5. CASE Close(s)
    BY <2>5 DEF TypeOK, Close, Pending
  <2>6. ASSUME NEW c \in Conns, Accept(s, c)
        PROVE  Same
    BY <2>6 DEF TypeOK, Accept, Pending
  <2>7. ASSUME NEW c \in Conns, SessionFails(s, c)
        PROVE  Same
    BY <2>7 DEF TypeOK, SessionFails, Pending
  <2> QED
    BY <1>2, <2>1, <2>2, <2>3, <2>4, <2>5, <2>6, <2>7 DEF AcceptFiber, AcceptProgress
<1>3. ASSUME NEW c \in Conns, ConnectionFiber(c), ~AddSession(c), ~RemoveSession(c)
      PROVE  Same
  BY <1>3 DEF TypeOK, ConnectionFiber, SessionCreated, Io, HandlerReturns, Uncount,
       CloseSession, SessionStep
<1>4. ASSUME NEW c \in Conns, NEW s \in Services, Connect(c, s)
      PROVE  Same
  BY <1>4 DEF TypeOK, Connect
<1>5. ASSUME NEW k \in Stoppers, Signal(k)
      PROVE  Same
  <2>1. CASE UNCHANGED sess
    BY <1>5, <2>1 DEF Signal
  <2>2. CASE todo[k] \in Services /\ sess' = [sess EXCEPT ![<<k, todo[k]>>] = "pending"]
    <3>1. sess[<<k, todo[k]>>] = "none"
      BY <2>2, ConstantsAssumption DEF PokesFresh, Services
    <3> QED
      BY <1>5, <2>2, <3>1 DEF TypeOK, Signal
  <2> QED
    BY <1>5, <2>1, <2>2 DEF Signal
<1> QED
  BY <1>1, <1>2, <1>3, <1>4, <1>5, StepCases

LEMMA RegistryStep ==
    ASSUME TypeOK, PokesFresh, InHand, DescriptorsOwned, ThreadsAssigned, RegistryExact,
           [Next]_vars
    PROVE  RegistryExact'
<1>0. None \notin Conns
  BY ConstantsAssumption
<1>1. ASSUME NEW c \in Conns, AddSession(c)
      PROVE  RegistryExact'
  <2>1. thr[c] \in Threads /\ fd[c] \in FDs
    BY <1>1 DEF DescriptorsOwned, ThreadsAssigned, AddSession, SessionStep, FiberStates,
         OpenStates, CountedStates
  <2>2. \A d \in Conns : fd[d] = fd[c] => d = c
    BY <1>1, <2>1, ConstantsAssumption DEF DescriptorsOwned
  <2>3. \A d \in Conns : sess'[d] = IF d = c THEN "managed" ELSE sess[d]
    BY <1>1 DEF TypeOK, AddSession, SessionStep
  <2>4. \A t \in Threads, f \in FDs :
            map'[t][f] = IF t = thr[c] /\ f = fd[c] THEN c ELSE map[t][f]
    BY <1>1 DEF TypeOK, AddSession
  <2>5. UNCHANGED <<thr, fd>> /\ sess[c] = "scheduled"
    BY <1>1 DEF AddSession, SessionStep
  <2> QED
    BY <2>1, <2>2, <2>3, <2>4, <2>5 DEF RegistryExact, RegisteredStates
<1>2. ASSUME NEW c \in Conns, RemoveSession(c)
      PROVE  RegistryExact'
  <2>1. thr[c] \in Threads /\ fd[c] \in FDs
    BY <1>2 DEF DescriptorsOwned, ThreadsAssigned, RemoveSession, SessionStep, FiberStates,
         OpenStates, CountedStates
  <2>2. \A d \in Conns : fd[d] = fd[c] => d = c
    BY <1>2, <2>1, ConstantsAssumption DEF DescriptorsOwned
  <2>3. \A d \in Conns : sess'[d] = IF d = c THEN "unmanaged" ELSE sess[d]
    BY <1>2 DEF TypeOK, RemoveSession, SessionStep
  <2>4. \A t \in Threads, f \in FDs :
            map'[t][f] = IF t = thr[c] /\ f = fd[c] THEN None ELSE map[t][f]
    BY <1>2 DEF TypeOK, RemoveSession
  <2>5. UNCHANGED <<thr, fd>> /\ sess[c] = "uncounted"
    BY <1>2 DEF RemoveSession, SessionStep
  <2> QED
    BY <1>0, <2>1, <2>2, <2>3, <2>4, <2>5 DEF RegistryExact, RegisteredStates
<1> QED
  BY <1>1, <1>2, RegistryChanges DEF RegistryExact

LEMMA RegistryCountedStep ==
    ASSUME TypeOK, PokesFresh, InHand, DescriptorsOwned, ThreadsAssigned, RegistryExact,
           RegistryCounted, [Next]_vars
    PROVE  RegistryCounted'
<1> DEFINE Used(t) == {f \in FDs : map[t][f] # None}
<1>0. None \notin Conns /\ \A t \in Threads : IsFiniteSet(Used(t))
  <2>1. \A t \in Threads : Used(t) \in SUBSET FDs
    OBVIOUS
  <2> HIDE DEF Used
  <2> QED
    BY <2>1, FS_Subset, ConstantsAssumption
<1>1. CASE UNCHANGED <<map, counter>>
  BY <1>1 DEF RegistryCounted
<1>2. ASSUME NEW c \in Conns, AddSession(c)
      PROVE  RegistryCounted'
  <2>1. thr[c] \in Threads /\ fd[c] \in FDs
    BY <1>2 DEF DescriptorsOwned, ThreadsAssigned, AddSession, SessionStep, FiberStates,
         OpenStates, CountedStates
  <2>2. map[thr[c]][fd[c]] = None
    <3>1. ASSUME NEW d \in Conns, map[thr[c]][fd[c]] = d
          PROVE  FALSE
      <4>1. sess[d] \in RegisteredStates /\ fd[d] = fd[c]
        BY <2>1, <3>1 DEF RegistryExact
      <4>2. d = c
        BY <2>1, <4>1, ConstantsAssumption DEF DescriptorsOwned
      <4> QED
        BY <1>2, <4>1, <4>2 DEF AddSession, SessionStep, RegisteredStates
    <3> QED
      BY <2>1, <3>1 DEF TypeOK
  <2>3. \A t \in Threads : Used(t)' = IF t = thr[c] THEN Used(t) \cup {fd[c]} ELSE Used(t)
    <3>1. \A t \in Threads, f \in FDs :
              map'[t][f] = IF t = thr[c] /\ f = fd[c] THEN c ELSE map[t][f]
      BY <1>2 DEF TypeOK, AddSession
    <3> QED
      BY <1>0, <2>1, <3>1
  <2>4. \A t \in Threads : counter'[t] = IF t = thr[c] THEN counter[t] + 1 ELSE counter[t]
    BY <1>2 DEF TypeOK, AddSession
  <2>5. fd[c] \notin Used(thr[c])
    BY <2>2
  <2>6. \A t \in Threads : counter[t] = Cardinality(Used(t))
    BY DEF RegistryCounted
  <2> HIDE DEF Used
  <2>7. Cardinality(Used(thr[c]) \cup {fd[c]}) = Cardinality(Used(thr[c])) + 1
    BY <1>0, <2>1, <2>5, FS_AddElement
  <2>8. \A t \in Threads : counter'[t] = Cardinality(Used(t)')
    BY <2>3, <2>4, <2>6, <2>7
  <2> USE DEF Used
  <2> QED
    BY <2>8 DEF RegistryCounted
<1>3. ASSUME NEW c \in Conns, RemoveSession(c)
      PROVE  RegistryCounted'
  <2>1. thr[c] \in Threads /\ fd[c] \in FDs
    BY <1>3 DEF DescriptorsOwned, ThreadsAssigned, RemoveSession, SessionStep, FiberStates,
         OpenStates, CountedStates
  <2>2. map[thr[c]][fd[c]] = c
    BY <1>3, <2>1 DEF RegistryExact, RemoveSession, SessionStep, RegisteredStates
  <2>3. \A t \in Threads : Used(t)' = IF t = thr[c] THEN Used(t) \ {fd[c]} ELSE Used(t)
    BY <1>3, <2>1 DEF TypeOK, RemoveSession
  <2>4. \A t \in Threads : counter'[t] = IF t = thr[c] THEN counter[t] - 1 ELSE counter[t]
    BY <1>3 DEF TypeOK, RemoveSession
  <2>5. fd[c] \in Used(thr[c])
    BY <1>0, <2>1, <2>2
  <2>6. \A t \in Threads : counter[t] = Cardinality(Used(t))
    BY DEF RegistryCounted
  <2> HIDE DEF Used
  <2>7. Cardinality(Used(thr[c]) \ {fd[c]}) = Cardinality(Used(thr[c])) - 1
    BY <1>0, <2>1, <2>5, FS_RemoveElement
  <2>8. \A t \in Threads : counter'[t] = Cardinality(Used(t)')
    BY <2>3, <2>4, <2>6, <2>7
  <2> USE DEF Used
  <2> QED
    BY <2>8 DEF RegistryCounted
<1> QED
  BY <1>1, <1>2, <1>3, RegistryChanges

(***************************************************************************)
(* The inductive invariant and what follows from it                        *)
(***************************************************************************)
LEMMA SafetyInit == Init => SafetyInv
<1> SUFFICES ASSUME Init PROVE SafetyInv
  OBVIOUS
<1>1. TypeOK
  BY TypeInit
<1>2. AcceptExclusive /\ FibersInJoin /\ PokesFresh /\ InHand
  <2>1. /\ listen = "before"
        /\ acc = [s \in Services |-> "none"]
        /\ sess = [c \in Conns |-> "none"]
    BY DEF Init
  <2> QED
    BY ONLY <2>1 DEF AcceptExclusive, FibersInJoin, PokesFresh, InHand, Midway, Conns, Pokes
<1>3. RoomForOne /\ LimitRespected
  <2>1. acc = [s \in Services |-> "none"] /\ connections = 0 /\ largest = 0
    BY DEF Init
  <2> QED
    BY <2>1, ConstantsAssumption DEF RoomForOne, LimitRespected
<1>4. CounterExact
  <2>1. Counted = {} /\ connections = 0
    BY DEF Init, Counted, CountedStates
  <2> QED
    BY <2>1, FS_EmptySet DEF CounterExact
<1>5. DescriptorsOwned /\ ThreadsAssigned
  BY ConstantsAssumption DEF Init, DescriptorsOwned, ThreadsAssigned, FiberStates, OpenStates,
     CountedStates
<1>6. RegistryExact
  BY ConstantsAssumption DEF Init, RegistryExact, RegisteredStates
<1>7. RegistryCounted
  <2>1. \A t \in Threads : counter[t] = 0 /\ {f \in FDs : map[t][f] # None} = {}
    BY DEF Init
  <2> QED
    BY <2>1, FS_EmptySet DEF RegistryCounted
<1> QED
  BY <1>1, <1>2, <1>3, <1>4, <1>5, <1>6, <1>7 DEF SafetyInv

LEMMA SafetyStep == SafetyInv /\ [Next]_vars => SafetyInv'
BY TypeStep, ExclusiveStep, FibersInJoinStep, PokesFreshStep, InHandStep, LimitStep, CounterStep,
   DescriptorsStep, ThreadsStep, RegistryStep, RegistryCountedStep DEF SafetyInv

\* The conjunction of all of them is an invariant.
THEOREM Safety == Spec => []SafetyInv
BY SafetyInit, SafetyStep, PTL DEF Spec

\* However many accept fibers and connection fibers use the counter, the limit set
\* by setMaxConnections() is never exceeded.
THEOREM LimitHolds == Spec => []LimitRespected
<1>1. SafetyInv => LimitRespected
  BY DEF SafetyInv
<1> QED
  BY <1>1, Safety, PTL

\* connections_ is exactly the number of admitted connections.
THEOREM CounterHolds == Spec => []CounterExact
<1>1. SafetyInv => CounterExact
  BY DEF SafetyInv
<1> QED
  BY <1>1, Safety, PTL

\* The registry holds exactly the live sessions, under their own descriptors, and
\* its counter is its size: the clean fiber never follows a pointer to a session
\* that was released.
THEOREM RegistryHolds == Spec => [](RegistryExact /\ RegistryCounted)
<1>1. SafetyInv => RegistryExact /\ RegistryCounted
  BY DEF SafetyInv
<1> QED
  BY <1>1, Safety, PTL

\* When listen() returns, everything has been released.
THEOREM NothingLeft == Spec => []NothingLeftBehind
<1>1. ASSUME SafetyInv
      PROVE  NothingLeftBehind
  <2> SUFFICES ASSUME listen = "returned"
               PROVE  /\ connections = 0
                      /\ \A t \in Threads : counter[t] = 0 /\ \A f \in FDs : map[t][f] = None
                      /\ \A c \in Conns : fd[c] = None
    BY DEF NothingLeftBehind
  <2>1. \A c \in Conns : sess[c] \notin OpenStates
    BY <1>1 DEF SafetyInv, FibersInJoin, InHand, FiberStates, Midway
  <2>2. Counted = {}
    BY <2>1 DEF Counted, OpenStates
  <2>3. connections = 0
    BY <1>1, <2>2, FS_EmptySet DEF SafetyInv, CounterExact
  <2>4. \A c \in Conns : fd[c] = None
    BY <1>1, <2>1 DEF SafetyInv, TypeOK, DescriptorsOwned
  <2>5. \A t \in Threads, f \in FDs : map[t][f] = None
    <3>1. \A c \in Conns : sess[c] \notin RegisteredStates
      BY <2>1 DEF OpenStates, CountedStates, RegisteredStates
    <3> QED
      BY <1>1, <3>1 DEF SafetyInv, TypeOK, RegistryExact
  <2>6. \A t \in Threads : counter[t] = 0
    <3>1. \A t \in Threads : {f \in FDs : map[t][f] # None} = {}
      BY <2>5
    <3> QED
      BY <1>1, <3>1, FS_EmptySet DEF SafetyInv, RegistryCounted
  <2> QED
    BY <2>3, <2>4, <2>5, <2>6
<1> QED
  BY <1>1, Safety, PTL

(***************************************************************************)
(* The acceptor implements ConnectionService                               *)
(***************************************************************************)
LEMMA StartedInit == Init => StartedByListen
BY DEF Init, StartedByListen

\* Only listen(), shutdown() and dispose() assign status_.
LEMMA StatusChanges ==
    ASSUME ~EarlyStop, [Next]_vars
    PROVE  \/ UNCHANGED status /\ (listen = "before" <=> listen' = "before")
           \/ Listen
           \/ listen # "before" /\ UNCHANGED <<listen, acc, sess>>
                /\ status' \in {"DISPOSING", "DISPOSED"}
<1>1. CASE Join \/ ListenReturns
  BY <1>1 DEF Join, ListenReturns
<1>2. ASSUME NEW s \in Services, AcceptFiber(s)
      PROVE  UNCHANGED <<status, listen>>
  BY <1>2 DEF AcceptFiber, AcceptProgress, Bind, Loop, AcceptTimeout,
      AcceptInterrupted, AcceptFails, Close, SessionFails, CheckDisposed, CheckLimit,
      Count, ReadPeak, SetPeak, Schedule, Accept
<1>3. ASSUME NEW c \in Conns, ConnectionFiber(c)
      PROVE  UNCHANGED <<status, listen>>
  BY <1>3 DEF ConnectionFiber, AddSession, SessionCreated, Io, HandlerReturns, Uncount,
     RemoveSession, CloseSession
<1>4. ASSUME NEW c \in Conns, Environment(c)
      PROVE  UNCHANGED <<status, listen>>
  BY <1>4 DEF Environment, GoIdle, Connect
<1>5. ASSUME NEW t \in Keepers, KeeperFiber(t)
      PROVE  UNCHANGED <<status, listen>>
  BY <1>5 DEF KeeperFiber, KeeperLoop, KeeperPeek, KeeperInterrupted, KeeperWakes
<1>6. ASSUME NEW k \in Stoppers, CallShutdown(k) \/ CallDispose(k)
      PROVE  /\ listen # "before" /\ UNCHANGED <<listen, acc, sess>>
             /\ status' \in {"DISPOSING", "DISPOSED"}
  BY <1>6 DEF CallShutdown, CallDispose, connVars
<1>7. ASSUME NEW k \in Stoppers, Interrupt(k) \/ Signal(k)
      PROVE  UNCHANGED <<status, listen>>
  BY <1>7 DEF Interrupt, Signal
<1>8. CASE UNCHANGED vars
  BY <1>8 DEF vars
<1> QED
  BY <1>1, <1>2, <1>3, <1>4, <1>5, <1>6, <1>7, <1>8 DEF Next, Stopper

LEMMA StartedStep ==
    ASSUME ~EarlyStop, StartedByListen, [Next]_vars
    PROVE  StartedByListen'
BY StatusChanges DEF StartedByListen, Listen

\* The stop takes effect once: nothing reopens the service.
LEMMA PhaseChanges ==
    ASSUME ~EarlyStop, SafetyInv, StartedByListen, [Next]_vars, ~Listen
    PROVE  \/ Phase' = Phase
           \/ Phase = "open" /\ Phase' = "stopped"
<1>1. status \in Statuses
  BY DEF SafetyInv, TypeOK
<1>2. CASE listen # "before" /\ UNCHANGED acc /\ status' \in {"DISPOSING", "DISPOSED"}
  BY <1>1, <1>2 DEF StartedByListen, Phase, Admitting, Statuses
<1>3. CASE UNCHANGED status /\ (Admitting' => Admitting)
  BY <1>1, <1>3 DEF Phase, Statuses
<1>4. CASE UNCHANGED status /\ status \in {"RUNNING", "INITED"}
  BY <1>4 DEF Phase
<1>5. \/ UNCHANGED status /\ status \in {"RUNNING", "INITED"}
      \/ UNCHANGED status /\ (Admitting' => Admitting)
      \/ listen # "before" /\ UNCHANGED acc /\ status' \in {"DISPOSING", "DISPOSED"}
  <2>1. CASE UNCHANGED acc
    BY <2>1, StatusChanges DEF Admitting
  <2>2. CASE Join
    BY <2>2 DEF Join, Admitting
  <2>3. ASSUME NEW s \in Services, AcceptFiber(s)
        PROVE  \/ UNCHANGED status /\ status \in {"RUNNING", "INITED"}
               \/ UNCHANGED status /\ (Admitting' => Admitting)
    <3>1. UNCHANGED status
      BY <2>3 DEF AcceptFiber, AcceptProgress, Bind, Loop, AcceptTimeout,
          AcceptInterrupted, AcceptFails, Close, SessionFails, CheckDisposed, CheckLimit,
          Count, ReadPeak, SetPeak, Schedule, Accept
    <3>2. CASE CheckDisposed(s)
      <4>1. CASE Disposed
        BY <3>1, <3>2, <4>1 DEF SafetyInv, TypeOK, CheckDisposed, Reject, AcceptStep, Admitting
      <4>2. CASE ~Disposed
        BY <1>1, <3>1, <4>2 DEF Disposed, Statuses
      <4> QED
        BY <4>1, <4>2
    <3>3. CASE ~CheckDisposed(s)
      <4>1. PICK p \in AcceptPoints :
                /\ acc' = [acc EXCEPT ![s] = p]
                /\ p \in {"limit", "count"} => acc[s] \in {"limit", "count"}
        BY <2>3, <3>3, Points DEF AcceptFiber, AcceptProgress, Bind, Loop,
            AcceptTimeout, AcceptInterrupted, AcceptFails, Close, SessionFails,
            CheckLimit, Count, ReadPeak, SetPeak, Schedule, Accept, Reject, AcceptStep
      <4> QED
        BY <3>1, <4>1 DEF SafetyInv, TypeOK, Admitting
    <3> QED
      BY <3>2, <3>3
  <2>4. ASSUME NEW c \in Conns, ConnectionFiber(c)
        PROVE  UNCHANGED acc
    BY <2>4 DEF ConnectionFiber, AddSession, SessionCreated, Io, HandlerReturns, Uncount,
       RemoveSession, CloseSession
  <2>5. ASSUME NEW c \in Conns, NEW s \in Services, Connect(c, s)
        PROVE  UNCHANGED acc
    BY <2>5 DEF Connect
  <2>6. ASSUME NEW k \in Stoppers, Signal(k)
        PROVE  UNCHANGED acc
    BY <2>6 DEF Signal
  <2> QED
    BY <2>1, <2>2, <2>3, <2>4, <2>5, <2>6, StepCases DEF core
<1> QED
  BY <1>2, <1>3, <1>4, <1>5

\* The connections served change only where a connection is no longer counted.
LEMMA ServedChanges ==
    ASSUME SafetyInv, [Next]_vars
    PROVE  \/ UNCHANGED Served
           \/ \E c \in Conns : Uncount(c) /\ Served' = Served \cup {c}
<1> USE DEF Served
<1>0. TypeOK /\ InHand /\ PokesFresh
  BY DEF SafetyInv
<1>1. CASE UNCHANGED core \/ Join
  BY <1>1 DEF core, Join, connVars
<1>2. ASSUME NEW s \in Services, AcceptFiber(s)
      PROVE  UNCHANGED Served
  <2>1. CASE \/ Bind(s) \/ Loop(s) \/ AcceptTimeout(s) \/ AcceptInterrupted(s)
             \/ AcceptFails(s) \/ ReadPeak(s) \/ SetPeak(s)
    BY <2>1 DEF Bind, Loop, AcceptTimeout, AcceptInterrupted, AcceptFails, ReadPeak, SetPeak,
         connVars
  <2>2. CASE CheckDisposed(s) \/ CheckLimit(s)
    BY <1>0, <2>2 DEF TypeOK, InHand, CheckDisposed, CheckLimit, Reject, AcceptStep
  <2>3. CASE Count(s)
    BY <1>0, <2>3 DEF TypeOK, InHand, Count, AcceptStep
  <2>4. CASE Schedule(s)
    BY <1>0, <2>4 DEF TypeOK, InHand, Schedule, AcceptStep
  <2>5. CASE Close(s)
    BY <1>0, <2>5 DEF TypeOK, Close, Pending
  <2>6. CASE \E c \in Conns : Accept(s, c) \/ SessionFails(s, c)
    BY <1>0, <2>6 DEF TypeOK, Accept, SessionFails, Pending
  <2> QED
    BY <1>2, <2>1, <2>2, <2>3, <2>4, <2>5, <2>6 DEF AcceptFiber, AcceptProgress
<1>3. ASSUME NEW c \in Conns, ConnectionFiber(c), ~Uncount(c)
      PROVE  UNCHANGED Served
  BY <1>0, <1>3 DEF TypeOK, ConnectionFiber, AddSession, SessionCreated, Io, HandlerReturns,
     RemoveSession, CloseSession, SessionStep
<1>4. ASSUME NEW c \in Conns, Uncount(c)
      PROVE  Served' = Served \cup {c}
  BY <1>0, <1>4 DEF TypeOK, Uncount, SessionStep
<1>5. ASSUME NEW c \in Conns, NEW s \in Services, Connect(c, s)
      PROVE  UNCHANGED Served
  BY <1>0, <1>5 DEF TypeOK, Connect
<1>6. ASSUME NEW k \in Stoppers, Signal(k)
      PROVE  UNCHANGED Served
  <2>1. CASE UNCHANGED sess
    BY <2>1
  <2>2. CASE todo[k] \in Services /\ sess' = [sess EXCEPT ![<<k, todo[k]>>] = "pending"]
    <3>1. sess[<<k, todo[k]>>] = "none"
      BY <1>0, <2>2, ConstantsAssumption DEF PokesFresh, Services
    <3> QED
      BY <1>0, <2>2, <3>1 DEF TypeOK
  <2> QED
    BY <1>6, <2>1, <2>2 DEF Signal
<1> QED
  BY <1>1, <1>2, <1>3, <1>4, <1>5, <1>6, StepCases

LEMMA RefineInit == Init => Service!Init
BY DEF Init, Service!Init, Counted, CountedStates, Served, Phase

LEMMA RefineStep ==
    ASSUME ~EarlyStop, SafetyInv, StartedByListen, [Next]_vars
    PROVE  [Service!Next]_(Service!vars)
<1>0. TypeOK /\ FibersInJoin /\ PokesFresh /\ InHand
  BY DEF SafetyInv
<1>1. CASE Listen
  <2>1. UNCHANGED <<Counted, Served>>
    BY <1>1 DEF Listen, Counted, Served, connVars
  <2>2. Phase = "new" /\ Phase' = "open"
    BY <1>1 DEF Listen, StartedByListen, Phase
  <2> QED
    BY <2>1, <2>2 DEF Service!Next, Service!Start
<1>2. ASSUME NEW s \in Services, Count(s), cur[s] \in Conns \ Counted,
             Counted' = Counted \cup {cur[s]}
      PROVE  Service!Next
  <2>1. UNCHANGED Served
    <3>1. \A c \in Conns : ~Uncount(c)
      BY <1>2, <1>0 DEF Count, Uncount, AcceptStep, TypeOK, Midway
    <3> QED
      BY <3>1, ServedChanges
  <2>2. Phase = "open" /\ Phase' \in {"open", "stopped"}
    <3>1. acc[s] = "count" /\ status # "INITED"
      BY <1>2, <1>0 DEF Count, AcceptStep, FibersInJoin, StartedByListen
    <3>2. Phase = "open"
      BY <3>1 DEF Phase, Admitting
    <3>3. UNCHANGED status
      BY <1>2 DEF Count
    <3> QED
      BY <3>1, <3>2, <3>3 DEF Phase
  <2>3. MaxConns > 0 => Cardinality(Counted) < MaxConns
    BY <1>2 DEF SafetyInv, RoomForOne, CounterExact, Count, AcceptStep
  <2>4. cur[s] \notin Served
    BY <1>2, <1>0 DEF Served, InHand, Count, AcceptStep
  <2>5. cur[s] \in Conns /\ cur[s] \notin Counted \cup Served
    BY <1>2, <2>4
  <2>6. Service!Cardinality(Counted) = Cardinality(Counted)
    BY DEF Service!Cardinality, Cardinality
  <2>7. Service!Admit(cur[s])
    BY <1>2, <2>1, <2>2, <2>3, <2>5, <2>6 DEF Service!Admit
  <2> QED
    BY <2>5, <2>7 DEF Service!Next
<1>3. ASSUME NEW c \in Counted, Uncount(c), Counted' = Counted \ {c}
      PROVE  Service!Next
  <2>1. c \in Conns /\ UNCHANGED Phase
    BY <1>3 DEF Counted, Uncount, Phase, Admitting
  <2>2. Served' = Served \cup {c}
    BY <1>3, <1>0, <2>1 DEF TypeOK, Served, Uncount, SessionStep
  <2> QED
    BY <1>3, <2>1, <2>2 DEF Service!Next, Service!Finish
<1>4. CASE ~Listen /\ UNCHANGED <<connections, Counted>>
  <2>1. UNCHANGED Served
    <3>1. \A c \in Conns : ~Uncount(c)
      BY <1>4, <1>0 DEF TypeOK, Uncount
    <3> QED
      BY <3>1, ServedChanges
  <2>2. Phase' = Phase \/ (Phase # "stopped" /\ Phase' = "stopped")
    BY <1>4, PhaseChanges
  <2> QED
    BY <1>4, <2>1, <2>2 DEF Service!Next, Service!Stop, Service!vars
<1> QED
  BY <1>0, <1>1, <1>2, <1>3, <1>4, CountedChanges

\* If the stop is not requested before listen(), the acceptor is a
\* ConnectionService: it admits within the limit, admits nothing once a stop has
\* taken effect, and finishes each admitted connection once.
THEOREM Refinement ==
    ASSUME ~EarlyStop
    PROVE  Spec => ImplementsService
<1>1. Init /\ SafetyInv => Service!Init /\ StartedByListen
  BY RefineInit, StartedInit
<1>2. SafetyInv /\ StartedByListen /\ [Next]_vars =>
          StartedByListen' /\ [Service!Next]_(Service!vars)
  BY RefineStep, StartedStep
<1> QED
  BY <1>1, <1>2, Safety, PTL DEF Spec, ImplementsService, Service!Spec
=============================================================================
