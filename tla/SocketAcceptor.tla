--------------------------- MODULE SocketAcceptor ---------------------------
(***************************************************************************)
(* The server side of CxxConet: ESocketAcceptor (src/ESocketAcceptor.cpp)  *)
(* with the per-thread session registry EManagedSession                    *)
(* (src/EManagedSession.hh) and the life of an ESocketSession.             *)
(*                                                                         *)
(* Fibers are scheduled cooperatively.  All accept fibers and the          *)
(* statistics fiber live on thread 0; every connection fiber lives on one  *)
(* of the threads 1..NumThreads, with one clean fiber per such thread.     *)
(* A fiber loses its thread only where it blocks, but fibers of different  *)
(* threads, and the threads that call shutdown() or dispose(), interleave  *)
(* at every access to the shared variables status_ and connections_, so    *)
(* one action here is one such access.                                     *)
(***************************************************************************)
EXTENDS Integers, FiniteSets

CONSTANTS
    NumServices,  \* number of bound services, numbered in the order Services_ iterates
    Loopback,     \* the services a connect to 127.0.0.1 reaches
    Clients,      \* the connections remote peers may open
    Stoppers,     \* the threads that call shutdown() or dispose(), once each
    StopKinds,    \* which of "shutdown" and "dispose" they may call
    NumThreads,   \* connection threads: workThreads_ - 1
    FDs,          \* the file descriptors the process may use for sessions
    MaxConns,     \* maxConns_; 0 or less means no limit
    SoTimeout,    \* TRUE iff timeout_ > 0
    IdleTime,     \* TRUE iff an idle time was set before listen()
    Faults,       \* which of "bind", "accept" and "session" may fail
    EarlyStop,    \* TRUE iff a stop may be requested before listen()
    None          \* stands for no descriptor, no thread, no connection

Services == 1..NumServices
Threads  == 1..NumThreads
Keepers  == 0..NumThreads      \* 0: the statistics fiber; t > 0: the clean fiber of thread t
Pokes    == Stoppers \X Services  \* the connection signalAccept() opens to a service
Conns    == Clients \cup Pokes

ASSUME ConstantsAssumption ==
    /\ NumServices \in Nat \ {0}
    /\ NumThreads \in Nat \ {0}     \* with one processor the balance callback divides by zero
    /\ MaxConns \in Int
    /\ Loopback \subseteq Services
    /\ IsFiniteSet(Clients) /\ IsFiniteSet(Stoppers) /\ IsFiniteSet(FDs)
    /\ Clients \cap Pokes = {}
    /\ StopKinds \subseteq {"shutdown", "dispose"}
    /\ Faults \subseteq {"bind", "accept", "session"}
    /\ {SoTimeout, IdleTime, EarlyStop} \subseteq BOOLEAN
    /\ None \notin FDs \cup Conns \cup Services \cup Threads

VARIABLES
    status,       \* status_
    connections,  \* connections_
    largest,      \* stats_.largestManagedSessionCount
    cumulative,   \* stats_.cumulativeManagedSessionCount
    listen,       \* where the caller of listen() is
    acc,          \* acc[s]: where the accept fiber of service s is
    cur,          \* cur[s]: the accepted connection that fiber has in hand
    sess,         \* sess[c]: how far connection c has come
    svc,          \* svc[c]: the service whose queue c waits in
    fd,           \* fd[c]: its descriptor on the server's side
    thr,          \* thr[c]: the thread of its connection fiber
    map,          \* map[t]: managedSessions of thread t, descriptor to session
    counter,      \* counter[t]: sessionsCounter of thread t
    idle,         \* idle[c]: the last I/O of c is older than the idle time
    shut,         \* shut[c]: a clean fiber has shut the input of c
    keeper,       \* keeper[t]: where the statistics or clean fiber t is
    interrupted,  \* scheduler.interrupt() was called
    stop,         \* stop[k]: where the call of shutdown() or dispose() is
    todo          \* todo[k]: the next service signalAccept() connects to

connVars == <<sess, svc, fd, thr, idle, shut>>
statVars == <<connections, largest, cumulative>>
vars == <<status, statVars, listen, acc, cur, connVars, map, counter, keeper,
          interrupted, stop, todo>>

Disposed == status \in {"DISPOSING", "DISPOSED"}

\* The session is counted in connections_.
CountedStates == {"counted", "scheduled", "managed", "handling", "leaving"}
Counted == {c \in Conns : sess[c] \in CountedStates}

\* The session is in the registry of its thread.
RegisteredStates == {"managed", "handling", "leaving", "uncounted"}

\* The server's end of the connection is an open socket.
OpenStates == CountedStates \cup {"taken", "uncounted", "unmanaged"}

\* The session has a connection fiber.
FiberStates == OpenStates \ {"taken", "counted"}

(***************************************************************************)
(* The points between two blocking calls: a fiber there holds its thread.  *)
(***************************************************************************)
Midway == {"check", "limit", "count", "peak", "setpeak", "schedule"}
AcceptThreadFree == \A s \in Services : acc[s] \notin Midway
ConnThreadFree(t) ==
    \A c \in Conns : thr[c] = t => sess[c] \notin {"leaving", "uncounted"}

Listening(s) == acc[s] \notin {"none", "bind", "failed", "closed"}
Pending(s) == {c \in Conns : sess[c] = "pending" /\ svc[c] = s}
FreeFDs == {f \in FDs : \A c \in Conns : fd[c] # f}

Init ==
    /\ status = "INITED"
    /\ connections = 0 /\ largest = 0 /\ cumulative = 0
    /\ listen = "before"
    /\ acc = [s \in Services |-> "none"]
    /\ cur = [s \in Services |-> None]
    /\ sess = [c \in Conns |-> "none"]
    /\ svc = [c \in Conns |-> None]
    /\ fd = [c \in Conns |-> None]
    /\ thr = [c \in Conns |-> None]
    /\ map = [t \in Threads |-> [f \in FDs |-> None]]
    /\ counter = [t \in Threads |-> 0]
    /\ idle = [c \in Conns |-> FALSE]
    /\ shut = [c \in Conns |-> FALSE]
    /\ keeper = [t \in Keepers |-> "off"]
    /\ interrupted = FALSE
    /\ stop = [k \in Stoppers |-> "idle"]
    /\ todo = [k \in Stoppers |-> 1]

-----------------------------------------------------------------------------
(* listen() *)

\* status_ = RUNNING, whatever it was.
Listen ==
    /\ listen = "before"
    /\ listen' = "starting"
    /\ status' = "RUNNING"
    /\ UNCHANGED <<statVars, acc, cur, connVars, map, counter, keeper,
                   interrupted, stop, todo>>

\* Mutant of Join: the last thread gets no clean fiber.
JoinOneShort ==
    /\ listen = "starting"
    /\ listen' = "joined"
    /\ acc' = [s \in Services |-> "bind"]
    /\ keeper' = [t \in Keepers |-> IF t = 0 \/ (IdleTime /\ t < NumThreads)
                                    THEN "loop" ELSE "off"]
    /\ UNCHANGED <<status, statVars, cur, connVars, map, counter,
                   interrupted, stop, todo>>

\* The fibers are created; they run once join() is called.
Join ==
    /\ listen = "starting"
    /\ listen' = "joined"
    /\ acc' = [s \in Services |-> "bind"]
    /\ keeper' = [t \in Keepers |-> IF t = 0 \/ IdleTime THEN "loop" ELSE "off"]
    /\ UNCHANGED <<status, statVars, cur, connVars, map, counter,
                   interrupted, stop, todo>>

\* Mutant of FibersDone: connection fibers are not waited for.
AcceptFibersDone ==
    /\ \A s \in Services : acc[s] \in {"closed", "failed"}
    /\ \A t \in Keepers : keeper[t] \in {"off", "exited"}

\* join() returns when no fiber is left.
FibersDone ==
    /\ \A s \in Services : acc[s] \in {"closed", "failed"}
    /\ \A t \in Keepers : keeper[t] \in {"off", "exited"}
    /\ \A c \in Conns : sess[c] \notin FiberStates

ListenReturns ==
    /\ listen = "joined"
    /\ FibersDone
    /\ listen' = "returned"
    /\ UNCHANGED <<status, statVars, acc, cur, connVars, map, counter, keeper,
                   interrupted, stop, todo>>

-----------------------------------------------------------------------------
(* Remote peers and the kernel *)

Connect(c, s) ==
    /\ c \in Clients
    /\ sess[c] = "none"
    /\ Listening(s)
    /\ sess' = [sess EXCEPT ![c] = "pending"]
    /\ svc' = [svc EXCEPT ![c] = s]
    /\ UNCHANGED <<status, statVars, listen, acc, cur, fd, thr, idle, shut, map,
                   counter, keeper, interrupted, stop, todo>>

\* Time passes without I/O on the session, beyond the idle time.
GoIdle(c) ==
    /\ sess[c] \in {"managed", "handling"}
    /\ idle' = [idle EXCEPT ![c] = TRUE]
    /\ UNCHANGED <<status, statVars, listen, acc, cur, sess, svc, fd, thr, shut, map,
                   counter, keeper, interrupted, stop, todo>>

-----------------------------------------------------------------------------
(* The accept fiber of service s *)

AcceptStep(s, from, to) ==
    /\ acc[s] = from
    /\ acc' = [acc EXCEPT ![s] = to]

\* Fibers are started in the order of Services_; a failed bind ends the fiber.
Bind(s) ==
    /\ AcceptThreadFree
    /\ \A r \in 1..(s - 1) : acc[r] # "bind"
    /\ \/ AcceptStep(s, "bind", "loop")
       \/ "bind" \in Faults /\ AcceptStep(s, "bind", "failed")
    /\ UNCHANGED <<status, statVars, listen, cur, connVars, map, counter, keeper,
                   interrupted, stop, todo>>

Loop(s) ==
    /\ AcceptThreadFree
    /\ AcceptStep(s, "loop", IF status = "RUNNING" THEN "accept" ELSE "close")
    /\ UNCHANGED <<status, statVars, listen, cur, connVars, map, counter, keeper,
                   interrupted, stop, todo>>

\* accept() returns a connection and newSession() builds its session.
Accept(s, c) ==
    /\ AcceptThreadFree
    /\ c \in Pending(s)
    /\ AcceptStep(s, "accept", "check")
    /\ cur' = [cur EXCEPT ![s] = c]
    /\ sess' = [sess EXCEPT ![c] = "taken"]
    /\ \E f \in FreeFDs : fd' = [fd EXCEPT ![c] = f]
    /\ UNCHANGED <<status, statVars, listen, svc, thr, idle, shut, map, counter,
                   keeper, interrupted, stop, todo>>

\* newSession() throws: the socket is released and the loop goes on.
SessionFails(s, c) ==
    /\ "session" \in Faults
    /\ AcceptThreadFree
    /\ c \in Pending(s)
    /\ FreeFDs # {}
    /\ AcceptStep(s, "accept", "loop")
    /\ sess' = [sess EXCEPT ![c] = "refused"]
    /\ UNCHANGED <<status, statVars, listen, cur, svc, fd, thr, idle, shut, map,
                   counter, keeper, interrupted, stop, todo>>

AcceptTimeout(s) ==
    /\ SoTimeout
    /\ AcceptThreadFree
    /\ AcceptStep(s, "accept", "loop")
    /\ UNCHANGED <<status, statVars, listen, cur, connVars, map, counter, keeper,
                   interrupted, stop, todo>>

AcceptInterrupted(s) ==
    /\ interrupted
    /\ AcceptThreadFree
    /\ AcceptStep(s, "accept", "close")
    /\ UNCHANGED <<status, statVars, listen, cur, connVars, map, counter, keeper,
                   interrupted, stop, todo>>

\* Any other exception of accept(), among them running out of descriptors.
AcceptFails(s) ==
    /\ "accept" \in Faults \/ (Pending(s) # {} /\ FreeFDs = {})
    /\ AcceptThreadFree
    /\ AcceptStep(s, "accept", "close")
    /\ UNCHANGED <<status, statVars, listen, cur, connVars, map, counter, keeper,
                   interrupted, stop, todo>>

\* Mutant of Reject: the socket is not closed.
RejectUnclosed(s, from) ==
    /\ AcceptStep(s, from, "loop")
    /\ cur' = [cur EXCEPT ![s] = None]
    /\ sess' = [sess EXCEPT ![cur[s]] = "refused"]
    /\ UNCHANGED fd

\* socket->close(); EThread::yield(); continue
Reject(s, from) ==
    /\ AcceptStep(s, from, "loop")
    /\ cur' = [cur EXCEPT ![s] = None]
    /\ sess' = [sess EXCEPT ![cur[s]] = "refused"]
    /\ fd' = [fd EXCEPT ![cur[s]] = None]

\* Mutant of CheckDisposed: isDisposed() is not tested again after accept().
NoCheckDisposed(s) ==
    /\ AcceptStep(s, "check", "limit")
    /\ UNCHANGED <<status, statVars, listen, cur, connVars, map, counter, keeper,
                   interrupted, stop, todo>>

CheckDisposed(s) ==
    /\ \/ Disposed /\ Reject(s, "check")
       \/ /\ ~Disposed
          /\ AcceptStep(s, "check", "limit")
          /\ UNCHANGED <<cur, sess, fd>>
    /\ UNCHANGED <<status, statVars, listen, svc, thr, idle, shut, map, counter,
                   keeper, interrupted, stop, todo>>

\* Mutant of LimitReached: off by one.
LimitPassed == MaxConns > 0 /\ connections > MaxConns

LimitReached == MaxConns > 0 /\ connections >= MaxConns

CheckLimit(s) ==
    /\ \/ LimitReached /\ Reject(s, "limit")
       \/ /\ ~LimitReached
          /\ AcceptStep(s, "limit", "count")
          /\ UNCHANGED <<cur, sess, fd>>
    /\ UNCHANGED <<status, statVars, listen, svc, thr, idle, shut, map, counter,
                   keeper, interrupted, stop, todo>>

\* connections_++ and the cumulative count
Count(s) ==
    /\ AcceptStep(s, "count", "peak")
    /\ connections' = connections + 1
    /\ cumulative' = cumulative + 1
    /\ sess' = [sess EXCEPT ![cur[s]] = "counted"]
    /\ UNCHANGED <<status, largest, listen, cur, svc, fd, thr, idle, shut, map,
                   counter, keeper, interrupted, stop, todo>>

\* connections_ is read once to compare ...
ReadPeak(s) ==
    /\ AcceptStep(s, "peak", IF connections > largest THEN "setpeak" ELSE "schedule")
    /\ UNCHANGED <<status, statVars, listen, cur, connVars, map, counter, keeper,
                   interrupted, stop, todo>>

\* ... and once more to be stored.
SetPeak(s) ==
    /\ AcceptStep(s, "setpeak", "schedule")
    /\ largest' = connections
    /\ UNCHANGED <<status, connections, cumulative, listen, cur, connVars, map,
                   counter, keeper, interrupted, stop, todo>>

\* The balance callback spreads connection fibers over the threads by fiber id.
Schedule(s) ==
    /\ AcceptStep(s, "schedule", "loop")
    /\ cur' = [cur EXCEPT ![s] = None]
    /\ sess' = [sess EXCEPT ![cur[s]] = "scheduled"]
    /\ \E t \in Threads : thr' = [thr EXCEPT ![cur[s]] = t]
    /\ UNCHANGED <<status, statVars, listen, svc, fd, idle, shut, map, counter,
                   keeper, interrupted, stop, todo>>

\* service->ss->close(): the kernel resets what still waits to be accepted.
Close(s) ==
    /\ AcceptThreadFree
    /\ AcceptStep(s, "close", "closed")
    /\ sess' = [c \in Conns |-> IF c \in Pending(s) THEN "refused" ELSE sess[c]]
    /\ UNCHANGED <<status, statVars, listen, cur, svc, fd, thr, idle, shut, map,
                   counter, keeper, interrupted, stop, todo>>

-----------------------------------------------------------------------------
(* The connection fiber of c *)

SessionStep(c, from, to) ==
    /\ sess[c] = from
    /\ sess' = [sess EXCEPT ![c] = to]

AddSession(c) ==
    /\ SessionStep(c, "scheduled", "managed")
    /\ ConnThreadFree(thr[c])
    /\ map' = [map EXCEPT ![thr[c]][fd[c]] = c]
    /\ counter' = [counter EXCEPT ![thr[c]] = @ + 1]
    /\ UNCHANGED <<status, statVars, listen, acc, cur, svc, fd, thr, idle, shut,
                   keeper, interrupted, stop, todo>>

\* Mutant of SessionCreated: a vetoed session skips the decrement.
VetoUncounted(c) ==
    /\ \/ SessionStep(c, "managed", "handling")
       \/ SessionStep(c, "managed", "uncounted")
    /\ ConnThreadFree(thr[c])
    /\ UNCHANGED <<status, statVars, listen, acc, cur, svc, fd, thr, idle, shut, map,
                   counter, keeper, interrupted, stop, todo>>

\* fireSessionCreated(): a filter may veto the session.
SessionCreated(c) ==
    /\ \/ SessionStep(c, "managed", "handling")
       \/ SessionStep(c, "managed", "leaving")
    /\ ConnThreadFree(thr[c])
    /\ UNCHANGED <<status, statVars, listen, acc, cur, svc, fd, thr, idle, shut, map,
                   counter, keeper, interrupted, stop, todo>>

\* A read or a write of the connection handler.
Io(c) ==
    /\ sess[c] = "handling"
    /\ ConnThreadFree(thr[c])
    /\ ~shut[c]
    /\ idle' = [idle EXCEPT ![c] = FALSE]
    /\ UNCHANGED <<status, statVars, listen, acc, cur, sess, svc, fd, thr, shut, map,
                   counter, keeper, interrupted, stop, todo>>

\* The handler may return at any time ...
HandlerReturns(c) ==
    /\ SessionStep(c, "handling", "leaving")
    /\ ConnThreadFree(thr[c])
    /\ UNCHANGED <<status, statVars, listen, acc, cur, svc, fd, thr, idle, shut, map,
                   counter, keeper, interrupted, stop, todo>>

\* ... and does so at the end of input, when interrupted, or when a timed out
\* read lets it see that the acceptor is stopping.
HandlerMustReturn(c) == shut[c] \/ interrupted \/ c \in Pokes \/ (SoTimeout /\ Disposed)

\* Mutant of Uncount: the decrement is missing.
LeaveCounted(c) ==
    /\ SessionStep(c, "leaving", "uncounted")
    /\ UNCHANGED <<status, statVars, listen, acc, cur, svc, fd, thr, idle, shut, map,
                   counter, keeper, interrupted, stop, todo>>

\* ON_SCOPE_EXIT: connections_--
Uncount(c) ==
    /\ SessionStep(c, "leaving", "uncounted")
    /\ connections' = connections - 1
    /\ UNCHANGED <<status, largest, cumulative, listen, acc, cur, svc, fd, thr, idle,
                   shut, map, counter, keeper, interrupted, stop, todo>>

\* Mutant of RemoveSession: the session was closed first and its descriptor is
\* no longer the key it was registered under.
RemoveClosed(c) ==
    /\ SessionStep(c, "uncounted", "unmanaged")
    /\ counter' = [counter EXCEPT ![thr[c]] = @ - 1]
    /\ UNCHANGED <<status, statVars, listen, acc, cur, svc, fd, thr, idle, shut, map,
                   keeper, interrupted, stop, todo>>

RemoveSession(c) ==
    /\ SessionStep(c, "uncounted", "unmanaged")
    /\ map' = [map EXCEPT ![thr[c]][fd[c]] = None]
    /\ counter' = [counter EXCEPT ![thr[c]] = @ - 1]
    /\ UNCHANGED <<status, statVars, listen, acc, cur, svc, fd, thr, idle, shut,
                   keeper, interrupted, stop, todo>>

\* session->close(); the fiber ends and the descriptor is free again.
CloseSession(c) ==
    /\ SessionStep(c, "unmanaged", "closed")
    /\ ConnThreadFree(thr[c])
    /\ fd' = [fd EXCEPT ![c] = None]
    /\ thr' = [thr EXCEPT ![c] = None]
    /\ idle' = [idle EXCEPT ![c] = FALSE]
    /\ shut' = [shut EXCEPT ![c] = FALSE]
    /\ UNCHANGED <<status, statVars, listen, acc, cur, svc, map, counter, keeper,
                   interrupted, stop, todo>>

-----------------------------------------------------------------------------
(* The statistics fiber (t = 0) and the clean fiber of thread t > 0 *)

KeeperFree(t) == IF t = 0 THEN AcceptThreadFree ELSE ConnThreadFree(t)

KeeperStep(t, from, to) ==
    /\ KeeperFree(t)
    /\ keeper[t] = from
    /\ keeper' = [keeper EXCEPT ![t] = to]

\* while (status_ == RUNNING || ...
KeeperLoop(t) ==
    /\ KeeperStep(t, "loop", IF status = "RUNNING" THEN "sleep" ELSE "peek")
    /\ UNCHANGED <<status, statVars, listen, acc, cur, connVars, map, counter,
                   interrupted, stop, todo>>

\* ... connections_.value() > 0)
KeeperPeek(t) ==
    /\ KeeperStep(t, "peek", IF connections > 0 THEN "sleep" ELSE "exited")
    /\ UNCHANGED <<status, statVars, listen, acc, cur, connVars, map, counter,
                   interrupted, stop, todo>>

KeeperInterrupted(t) ==
    /\ interrupted
    /\ KeeperStep(t, "sleep", "exited")
    /\ UNCHANGED <<status, statVars, listen, acc, cur, connVars, map, counter,
                   interrupted, stop, todo>>

\* The sessions in the registry of thread t whose last I/O is too old.
IdleSessions(t) == {c \in Conns : idle[c] /\ \E f \in FDs : map[t][f] = c}

\* sleep() ends; the clean fiber shuts the input of every idle session of its
\* thread; both fibers leave the loop when the acceptor is disposed.
KeeperWakes(t) ==
    /\ ~interrupted
    /\ KeeperStep(t, "sleep", IF status = "DISPOSED" THEN "exited" ELSE "loop")
    /\ shut' = IF t = 0 THEN shut
               ELSE [c \in Conns |-> shut[c] \/ c \in IdleSessions(t)]
    /\ UNCHANGED <<status, statVars, listen, acc, cur, sess, svc, fd, thr, idle, map,
                   counter, interrupted, stop, todo>>

-----------------------------------------------------------------------------
(* shutdown() and dispose(), called by stopper k *)

CallShutdown(k) ==
    /\ "shutdown" \in StopKinds
    /\ stop[k] = "idle"
    /\ EarlyStop \/ listen # "before"
    /\ status' = "DISPOSING"
    /\ stop' = [stop EXCEPT ![k] = "signal"]
    /\ UNCHANGED <<statVars, listen, acc, cur, connVars, map, counter, keeper,
                   interrupted, todo>>

CallDispose(k) ==
    /\ "dispose" \in StopKinds
    /\ stop[k] = "idle"
    /\ EarlyStop \/ listen # "before"
    /\ status' = "DISPOSED"
    /\ stop' = [stop EXCEPT ![k] = "interrupt"]
    /\ UNCHANGED <<statVars, listen, acc, cur, connVars, map, counter, keeper,
                   interrupted, todo>>

\* Mutant of Interrupt: the fibers are not interrupted.
NoInterrupt(k) ==
    /\ stop[k] = "interrupt"
    /\ stop' = [stop EXCEPT ![k] = "signal"]
    /\ UNCHANGED <<status, statVars, listen, acc, cur, connVars, map, counter,
                   keeper, interrupted, todo>>

Interrupt(k) ==
    /\ stop[k] = "interrupt"
    /\ stop' = [stop EXCEPT ![k] = "signal"]
    /\ interrupted' = TRUE
    /\ UNCHANGED <<status, statVars, listen, acc, cur, connVars, map, counter,
                   keeper, todo>>

\* Mutant of Signal: no connection is made.
NoSignal(k) ==
    /\ stop[k] = "signal"
    /\ stop' = [stop EXCEPT ![k] = "done"]
    /\ UNCHANGED <<status, statVars, listen, acc, cur, connVars, map, counter, keeper,
                   interrupted, todo>>

\* signalAccept() connects to each service; the first connect that fails throws
\* and leaves the services after it without a signal.
Signal(k) ==
    /\ stop[k] = "signal"
    /\ \/ /\ todo[k] \in Services
          /\ Listening(todo[k]) /\ todo[k] \in Loopback
          /\ sess' = [sess EXCEPT ![<<k, todo[k]>>] = "pending"]
          /\ svc' = [svc EXCEPT ![<<k, todo[k]>>] = todo[k]]
          /\ todo' = [todo EXCEPT ![k] = @ + 1]
          /\ UNCHANGED stop
       \/ /\ todo[k] \in Services
          /\ ~(Listening(todo[k]) /\ todo[k] \in Loopback)
          /\ stop' = [stop EXCEPT ![k] = "threw"]
          /\ UNCHANGED <<sess, svc, todo>>
       \/ /\ todo[k] \notin Services
          /\ stop' = [stop EXCEPT ![k] = "done"]
          /\ UNCHANGED <<sess, svc, todo>>
    /\ UNCHANGED <<status, statVars, listen, acc, cur, fd, thr, idle, shut, map,
                   counter, keeper, interrupted>>

-----------------------------------------------------------------------------
\* What the accept fiber does when nothing fails.
AcceptProgress(s) ==
    \/ Bind(s) \/ Loop(s) \/ AcceptTimeout(s) \/ AcceptInterrupted(s)
    \/ CheckDisposed(s) \/ CheckLimit(s) \/ Count(s)
    \/ ReadPeak(s) \/ SetPeak(s) \/ Schedule(s) \/ Close(s)
    \/ \E c \in Conns : Accept(s, c)

AcceptFiber(s) ==
    AcceptProgress(s) \/ AcceptFails(s) \/ \E c \in Conns : SessionFails(s, c)

ConnectionFiber(c) ==
    \/ AddSession(c) \/ SessionCreated(c) \/ Io(c) \/ HandlerReturns(c)
    \/ Uncount(c) \/ RemoveSession(c) \/ CloseSession(c)

KeeperFiber(t) ==
    KeeperLoop(t) \/ KeeperPeek(t) \/ KeeperInterrupted(t) \/ KeeperWakes(t)

Stopper(k) == CallShutdown(k) \/ CallDispose(k) \/ Interrupt(k) \/ Signal(k)

Environment(c) == GoIdle(c) \/ \E s \in Services : Connect(c, s)

Next ==
    \/ Listen \/ Join \/ ListenReturns
    \/ \E s \in Services : AcceptFiber(s)
    \/ \E c \in Conns : ConnectionFiber(c) \/ Environment(c)
    \/ \E t \in Keepers : KeeperFiber(t)
    \/ \E k \in Stoppers : Stopper(k)

(***************************************************************************)
(* Fairness: the scheduler runs every runnable fiber, sleeps end, and a    *)
(* thread inside listen(), shutdown() or dispose() goes on.  Nothing       *)
(* obliges a peer to connect or to send, a stop to be requested, a handler *)
(* to return before it must, or anything to fail but an accept() that is   *)
(* out of descriptors.                                                     *)
(***************************************************************************)
Fairness ==
    /\ WF_vars(Join) /\ WF_vars(ListenReturns)
    /\ \A s \in Services : WF_vars(AcceptProgress(s) \/ (FreeFDs = {} /\ AcceptFails(s)))
    /\ \A c \in Conns :
        /\ WF_vars(AddSession(c) \/ SessionCreated(c))
        /\ WF_vars(HandlerMustReturn(c) /\ HandlerReturns(c))
        /\ WF_vars(Uncount(c) \/ RemoveSession(c) \/ CloseSession(c))
    /\ \A t \in Keepers : WF_vars(KeeperFiber(t))
    /\ \A k \in Stoppers : WF_vars(Interrupt(k) \/ Signal(k))

Spec == Init /\ [][Next]_vars
FairSpec == Spec /\ Fairness

-----------------------------------------------------------------------------
(* Properties *)

Statuses == {"INITED", "RUNNING", "DISPOSING", "DISPOSED"}
AcceptPoints == Midway \cup {"none", "bind", "loop", "accept", "close", "closed", "failed"}
SessionStates == OpenStates \cup {"none", "pending", "refused", "closed"}

\* The type of every variable.
TypeOK ==
    /\ status \in Statuses
    /\ connections \in Int /\ largest \in Int /\ cumulative \in Int
    /\ listen \in {"before", "starting", "joined", "returned"}
    /\ acc \in [Services -> AcceptPoints]
    /\ cur \in [Services -> Conns \cup {None}]
    /\ sess \in [Conns -> SessionStates]
    /\ svc \in [Conns -> Services \cup {None}]
    /\ fd \in [Conns -> FDs \cup {None}]
    /\ thr \in [Conns -> Threads \cup {None}]
    /\ map \in [Threads -> [FDs -> Conns \cup {None}]]
    /\ counter \in [Threads -> Int]
    /\ idle \in [Conns -> BOOLEAN]
    /\ shut \in [Conns -> BOOLEAN]
    /\ keeper \in [Keepers -> {"off", "loop", "peek", "sleep", "exited"}]
    /\ interrupted \in BOOLEAN
    /\ stop \in [Stoppers -> {"idle", "interrupt", "signal", "done", "threw"}]
    /\ todo \in [Stoppers -> 1..(NumServices + 1)]

\* The number of counted connections, and the peak reported for it, never exceed
\* the limit, although the test of the limit (line 264) and the increment (269)
\* are two accesses and several accept fibers and connection fibers use the
\* counter.
LimitRespected ==
    MaxConns > 0 => connections <= MaxConns /\ largest <= MaxConns

\* connections_ is the number of sessions between their increment (269) and the
\* decrement of their connection fiber (279): no path, veto by a filter included,
\* counts a session twice or not at all.
CounterExact == connections = Cardinality(Counted)

\* The registry of a thread holds, under its descriptor, exactly the sessions of
\* that thread between addSession() and removeSession(): the raw pointers the
\* clean fiber follows (365) are those of live sessions, and a descriptor reused
\* by the kernel does not displace another session.
RegistryExact ==
    \A t \in Threads, f \in FDs, c \in Conns :
        map[t][f] = c <=> sess[c] \in RegisteredStates /\ thr[c] = t /\ fd[c] = f

\* sessionsCounter of a thread is the size of its registry.
RegistryCounted ==
    \A t \in Threads : counter[t] = Cardinality({f \in FDs : map[t][f] # None})

\* When listen() returns nothing is left behind: no connection is counted or
\* registered and no descriptor is open.
NothingLeftBehind ==
    listen = "returned" =>
        /\ connections = 0
        /\ \A t \in Threads : counter[t] = 0 /\ \A f \in FDs : map[t][f] = None
        /\ \A c \in Conns : fd[c] = None

\* A stop request ends every accept fiber, blocked in accept() or not.
StopEndsAccepting ==
    \A s \in Services :
        Disposed /\ listen = "joined" ~> acc[s] \in {"closed", "failed"}

\* listen() returns after a stop request, provided every session still handled
\* falls silent in the end.
ListenReturnsAfterStop ==
    <>[](\A c \in Conns : sess[c] = "handling" => idle[c])
        => (Disposed ~> listen = "returned")

\* A session without I/O for the idle time is closed or resumes its I/O.
IdleReaped ==
    \A c \in Conns :
        sess[c] = "handling" /\ idle[c] ~>
            sess[c] = "closed" \/ (sess[c] = "handling" /\ ~idle[c])

\* dispose() makes listen() return, whatever handlers and peers do.
ListenReturnsAfterDispose == status = "DISPOSED" ~> listen = "returned"

\* An admission becomes visible when connections_ is incremented; the stop becomes
\* visible when no accept fiber is past its test of isDisposed() any more.
Admitting == \E s \in Services : acc[s] \in {"limit", "count"}

Phase ==
    IF status = "INITED" THEN "new"
    ELSE IF status = "RUNNING" \/ Admitting THEN "open" ELSE "stopped"

Served == {c \in Conns : sess[c] \in {"uncounted", "unmanaged", "closed"}}

Service == INSTANCE ConnectionService WITH
               Connection <- Conns, Limit <- MaxConns,
               live <- Counted, done <- Served, phase <- Phase

\* The acceptor implements ConnectionService: admissions respect the limit, none
\* starts after the stop, each is finished once.
ImplementsService == Service!Spec

(***************************************************************************)
(* The inductive invariant behind the safety properties.                   *)
(***************************************************************************)

\* At most one accept fiber is between two blocking calls.
AcceptExclusive ==
    \A r, s \in Services : acc[r] \in Midway /\ acc[s] \in Midway => r = s

\* The connection an accept fiber has in hand, and nobody else has.
InHand ==
    /\ \A s \in Services :
        /\ acc[s] \in {"check", "limit", "count"} =>
            cur[s] \in Conns /\ sess[cur[s]] = "taken"
        /\ acc[s] \in {"peak", "setpeak", "schedule"} =>
            cur[s] \in Conns /\ sess[cur[s]] = "counted"
    /\ \A c \in Conns : sess[c] \in {"taken", "counted"} =>
        \E s \in Services : acc[s] \in Midway /\ cur[s] = c

\* An accept fiber past the test of the limit finds room for one connection.
RoomForOne ==
    MaxConns > 0 => \A s \in Services : acc[s] = "count" => connections < MaxConns

\* Open sessions have descriptors of their own, the others have none.
DescriptorsOwned ==
    /\ \A c \in Conns : fd[c] \in FDs <=> sess[c] \in OpenStates
    /\ \A c, d \in Conns : fd[c] = fd[d] /\ fd[c] # None => c = d

\* A session has a thread while it has a connection fiber.
ThreadsAssigned == \A c \in Conns : thr[c] \in Threads <=> sess[c] \in FiberStates

\* Fibers run only inside join().
FibersInJoin ==
    /\ listen \in {"before", "starting"} => \A s \in Services : acc[s] = "none"
    /\ listen = "joined" => \A s \in Services : acc[s] # "none"
    /\ listen = "returned" =>
        /\ \A s \in Services : acc[s] \in {"closed", "failed"}
        /\ \A c \in Conns : sess[c] \notin FiberStates

\* signalAccept() has not yet opened the connections still to do.
PokesFresh ==
    \A k \in Stoppers, s \in Services : s >= todo[k] => sess[<<k, s>>] = "none"

\* Without an early stop the acceptor leaves INITED exactly by listen().
StartedByListen == listen = "before" <=> status = "INITED"

SafetyInv ==
    /\ TypeOK
    /\ AcceptExclusive /\ FibersInJoin /\ PokesFresh /\ InHand /\ RoomForOne /\ LimitRespected
    /\ CounterExact
    /\ DescriptorsOwned /\ ThreadsAssigned /\ RegistryExact /\ RegistryCounted

(***************************************************************************)
(* What README.md of the repository promises and the code does not keep.   *)
(***************************************************************************)

\* README.md: the clean fiber clears idle connections periodically.  While a
\* session is handled and the acceptor is not disposed, its thread has a clean
\* fiber.
CleanerCovers ==
    \A c \in Conns :
        sess[c] = "handling" /\ IdleTime /\ status # "DISPOSED"
            => keeper[thr[c]] # "exited"
=============================================================================
