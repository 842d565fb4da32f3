--------------------------- MODULE ConnectionPool ---------------------------
(* PostgresPool of packages/database: pool.query and pool.transaction calls share *)
(* at most Max connections (but see OpenDone), wait for one in arrival order when *)
(* all are taken, retry a query after certain errors, and give idle connections   *)
(* back to the server after a while.                                             *)
(*                                                                              *)
(* The process is single-threaded.  A network answer, a timer or a new request    *)
(* is a macrotask; what a call does between two awaits of the network runs as     *)
(* microtasks before the next macrotask.  So the steps "acquire" and "release" of *)
(* a call exclude every other action (Quiet), and the rest interleave freely.    *)
EXTENDS Naturals, Sequences, FiniteSets

CONSTANTS
  Calls,    \* the pool.query and pool.transaction calls, each made once
  Conns,    \* identities for PostgresClient objects
  NoConn,   \* no client
  Max,      \* options.max
  Retries,  \* options.retryCount
  MaxGivenUp \* bound: the sockets of failed openings open at a time

ASSUME PoolAssumption ==
  /\ IsFiniteSet(Calls) /\ IsFiniteSet(Conns)
  /\ NoConn \notin Conns
  /\ Max \in Nat \ {0}
  /\ Retries \in Nat
  /\ MaxGivenUp \in Nat

VARIABLES
  idle,     \* pool.idle: a stack, the top is last
  active,   \* pool.active
  waiters,  \* pool.waiters: the calls whose promise is queued, the oldest first
  closed,   \* pool.closed
  timers,   \* the clients whose idle timer is armed
  socket,   \* per client: no socket, usable, ended by the server with an error
            \* packet still unread ("ended"), or dead with nothing left to read
  at,       \* where each call stands
  held,     \* the client each call uses
  givenUp,  \* the clients whose opening failed but whose socket is open still
  left,     \* the retries each call has left, none when it is over
  result    \* how the attempt ended whose client is about to be released

vars == <<idle, active, waiters, closed, timers, socket, at, held, givenUp, left, result>>

SocketStates == {"none", "up", "ended", "dead"}
Places == {"new", "acquire", "opening", "waiting", "using", "release", "over"}
Results == {"none", "final", "retry"}

-----------------------------------------------------------------------------
\* No microtask is pending: the event loop takes the next macrotask.
Quiet == \A c \in Calls : at[c] \notin {"acquire", "release"}

Elements(s) == {s[i] : i \in DOMAIN s}
Without(s, i) == SubSeq(s, 1, i - 1) \o SubSeq(s, i + 1, Len(s))

\* A client object nobody refers to stands for one not yet created.
Unused == {k \in Conns : /\ socket[k] = "none"
                         /\ k \notin Elements(idle) \cup timers
                         /\ \A c \in Calls : held[c] # k}

Go(c, place) == at' = [at EXCEPT ![c] = place]

\* Mutant of AfterFailure: the number of attempts is not looked at.
AfterFailureUnbounded(c, retryable) ==
  IF retryable
  THEN Go(c, "acquire") /\ left' = [left EXCEPT ![c] = @ - 1]
  ELSE Go(c, "over") /\ left' = [left EXCEPT ![c] = 0]

\* An attempt is over without a client to release: withRetry runs the next one
\* or gives the error to the caller.
AfterFailure(c, retryable) ==
  IF retryable /\ left[c] > 0
  THEN Go(c, "acquire") /\ left' = [left EXCEPT ![c] = @ - 1]
  ELSE Go(c, "over") /\ left' = [left EXCEPT ![c] = 0]

\* pool.query starts with retryCount retries, pool.transaction with none.
Start(c, retries) ==
  /\ Quiet
  /\ at[c] = "new"
  /\ retries \in {0, Retries}
  /\ left' = [left EXCEPT ![c] = retries]
  /\ Go(c, "acquire")
  /\ UNCHANGED <<idle, active, waiters, closed, timers, socket, held, givenUp, result>>

\* connect() on a closed pool.
Refuse(c) ==
  /\ at[c] = "acquire"
  /\ closed
  /\ Go(c, "over")
  /\ left' = [left EXCEPT ![c] = 0]
  /\ UNCHANGED <<idle, active, waiters, closed, timers, socket, held, givenUp, result>>

\* Mutant of Pop: client.query no longer clears the idle timer.
PopKeepsTimer(c) ==
  /\ at[c] = "acquire"
  /\ ~closed /\ idle # <<>>
  /\ LET k == idle[Len(idle)] IN
       /\ idle' = SubSeq(idle, 1, Len(idle) - 1)
       /\ active' = active \cup {k}
       /\ held' = [held EXCEPT ![c] = k]
  /\ Go(c, "using")
  /\ UNCHANGED <<waiters, closed, timers, socket, givenUp, left, result>>

\* connect() takes the client released last, and client.query disarms its timer.
Pop(c) ==
  /\ at[c] = "acquire"
  /\ ~closed /\ idle # <<>>
  /\ LET k == idle[Len(idle)] IN
       /\ idle' = SubSeq(idle, 1, Len(idle) - 1)
       /\ active' = active \cup {k}
       /\ timers' = timers \ {k}
       /\ held' = [held EXCEPT ![c] = k]
  /\ Go(c, "using")
  /\ UNCHANGED <<waiters, closed, socket, givenUp, left, result>>

\* connect() creates a client and awaits its connection; it is not yet counted.  Any
\* unused identity will do for it.
Open(c) ==
  /\ at[c] = "acquire"
  /\ ~closed /\ idle = <<>> /\ Cardinality(active) < Max
  /\ Unused # {}
  /\ held' = [held EXCEPT ![c] = CHOOSE k \in Unused : TRUE]
  /\ Go(c, "opening")
  /\ UNCHANGED <<idle, active, waiters, closed, timers, socket, givenUp, left, result>>

\* connect() finds every client taken.
Wait(c) ==
  /\ at[c] = "acquire"
  /\ ~closed /\ idle = <<>> /\ Cardinality(active) >= Max
  /\ waiters' = Append(waiters, c)
  /\ Go(c, "waiting")
  /\ UNCHANGED <<idle, active, closed, timers, socket, held, givenUp, left, result>>

\* The new connection is ready.  Neither the size of the pool nor closed is
\* looked at again.
OpenDone(c) ==
  /\ Quiet
  /\ at[c] = "opening"
  /\ socket' = [socket EXCEPT ![held[c]] = "up"]
  /\ active' = active \cup {held[c]}
  /\ Go(c, "using")
  /\ UNCHANGED <<idle, waiters, closed, timers, held, givenUp, left, result>>

\* The opening fails.  The socket is gone when the connection was refused or reset;
\* when it timed out, or the startup dialogue was refused, nothing destroys it and
\* nothing refers to it any more.
OpenFails(c, retryable) ==
  /\ Quiet
  /\ at[c] = "opening"
  /\ held' = [held EXCEPT ![c] = NoConn]
  /\ AfterFailure(c, retryable)
  /\ \/ UNCHANGED <<socket, givenUp>>
     \/ /\ Cardinality(givenUp) < MaxGivenUp
        /\ socket' = [socket EXCEPT ![held[c]] = "up"]
        /\ givenUp' = givenUp \cup {held[c]}
  /\ UNCHANGED <<idle, active, waiters, closed, timers, result>>

\* The attempt is over: an answer, an SQL error or a timeout on a live
\* connection, the server's farewell (57P01, retryable) on an ended one, a timeout
\* on a dead or closed one, or an answer that was read before it was closed.
Finish(c) ==
  /\ Quiet
  /\ at[c] = "using"
  /\ IF socket[held[c]] = "ended"
     THEN result' = [result EXCEPT ![c] = "retry"] /\ socket' = [socket EXCEPT ![held[c]] = "dead"]
     ELSE result' = [result EXCEPT ![c] = "final"] /\ UNCHANGED socket
  /\ Go(c, "release")
  /\ UNCHANGED <<idle, active, waiters, closed, timers, held, givenUp, left>>

\* What a call does after its finally block: the next attempt, or the end.
Settle(c, places) ==
  /\ result' = [result EXCEPT ![c] = "none"]
  /\ IF result[c] = "retry" /\ left[c] > 0
     THEN at' = [places EXCEPT ![c] = "acquire"] /\ left' = [left EXCEPT ![c] = @ - 1]
     ELSE at' = [places EXCEPT ![c] = "over"] /\ left' = [left EXCEPT ![c] = 0]

\* Mutants of Release: a waiter is not looked for; a closed pool keeps the client.
ReleaseIgnoresWaiters(c) ==
  /\ at[c] = "release"
  /\ LET k == held[c] IN
       /\ held' = [held EXCEPT ![c] = NoConn]
       /\ active' = active \ {k}
       /\ \/ /\ closed
             /\ socket' = [socket EXCEPT ![k] = "none"]
             /\ UNCHANGED <<idle, timers>>
          \/ /\ ~closed
             /\ idle' = Append(idle, k)
             /\ timers' = timers \cup {k}
             /\ UNCHANGED socket
       /\ Settle(c, at)
  /\ UNCHANGED <<waiters, closed, givenUp>>

ReleaseToClosedPool(c) ==
  /\ at[c] = "release"
  /\ LET k == held[c] IN
       IF waiters # <<>>
       THEN LET w == Head(waiters) IN
            /\ waiters' = Tail(waiters)
            /\ active' = active \cup {k}
            /\ held' = [held EXCEPT ![c] = NoConn, ![w] = k]
            /\ Settle(c, [at EXCEPT ![w] = "using"])
            /\ UNCHANGED <<idle, timers, socket>>
       ELSE /\ active' = active \ {k}
            /\ held' = [held EXCEPT ![c] = NoConn]
            /\ idle' = Append(idle, k)
            /\ timers' = timers \cup {k}
            /\ Settle(c, at)
            /\ UNCHANGED <<waiters, socket>>
  /\ UNCHANGED <<closed, givenUp>>

\* release(): the client goes to the oldest waiter, whatever its state; failing
\* that it is closed with the pool, or becomes idle with its timer armed.
Release(c) ==
  /\ at[c] = "release"
  /\ LET k == held[c] IN
     \/ /\ waiters # <<>>
        /\ waiters' = Tail(waiters)
        /\ active' = active \cup {k}
        /\ held' = [held EXCEPT ![c] = NoConn, ![Head(waiters)] = k]
        /\ Settle(c, [at EXCEPT ![Head(waiters)] = "using"])
        /\ UNCHANGED <<idle, timers, socket>>
     \/ /\ waiters = <<>> /\ closed
        /\ active' = active \ {k}
        /\ held' = [held EXCEPT ![c] = NoConn]
        /\ socket' = [socket EXCEPT ![k] = "none"]
        /\ Settle(c, at)
        /\ UNCHANGED <<idle, waiters, timers>>
     \/ /\ waiters = <<>> /\ ~closed
        /\ active' = active \ {k}
        /\ held' = [held EXCEPT ![c] = NoConn]
        /\ idle' = Append(idle, k)
        /\ timers' = timers \cup {k}
        /\ Settle(c, at)
        /\ UNCHANGED <<waiters, socket>>
  /\ UNCHANGED <<closed, givenUp>>

\* The idle timer of client k fires; it is on the stack once, or no longer.
IdleTimeout(k) ==
  /\ Quiet
  /\ k \in timers
  /\ timers' = timers \ {k}
  /\ \/ k \notin Elements(idle) /\ UNCHANGED idle
     \/ \E i \in DOMAIN idle : idle[i] = k /\ idle' = Without(idle, i)
  /\ socket' = [socket EXCEPT ![k] = "none"]
  /\ UNCHANGED <<active, waiters, closed, at, held, givenUp, left, result>>

\* The server ends connection k, with a farewell or by resetting it.
ServerEnds(k, how) ==
  /\ Quiet
  /\ socket[k] = "up" /\ k \notin givenUp
  /\ how \in {"ended", "dead"}
  /\ socket' = [socket EXCEPT ![k] = how]
  /\ UNCHANGED <<idle, active, waiters, closed, timers, at, held, givenUp, left, result>>

\* The server closes a connection on which nobody asks for anything.
ServerDrops(k) ==
  /\ Quiet
  /\ k \in givenUp
  /\ socket' = [socket EXCEPT ![k] = "none"]
  /\ givenUp' = givenUp \ {k}
  /\ UNCHANGED <<idle, active, waiters, closed, timers, at, held, left, result>>

\* pool.close(): waiters are rejected, idle and active clients closed; the calls
\* that hold them and the ones that are opening theirs go on.
Close ==
  /\ Quiet
  /\ ~closed
  /\ closed' = TRUE
  /\ at' = [c \in Calls |-> IF at[c] = "waiting" THEN "over" ELSE at[c]]
  /\ left' = [c \in Calls |-> IF at[c] = "waiting" THEN 0 ELSE left[c]]
  /\ socket' = [k \in Conns |-> IF k \in Elements(idle) \cup active THEN "none" ELSE socket[k]]
  /\ idle' = <<>> /\ active' = {} /\ waiters' = <<>>
  /\ UNCHANGED <<timers, held, givenUp, result>>

-----------------------------------------------------------------------------
Init ==
  /\ idle = <<>> /\ active = {} /\ waiters = <<>> /\ closed = FALSE /\ timers = {}
  /\ socket = [k \in Conns |-> "none"]
  /\ at = [c \in Calls |-> "new"]
  /\ held = [c \in Calls |-> NoConn]
  /\ givenUp = {}
  /\ left = [c \in Calls |-> 0]
  /\ result = [c \in Calls |-> "none"]

\* What the program does for a call that was made, without the server's consent.
Proceed(c) ==
  \/ Refuse(c) \/ Pop(c) \/ Open(c) \/ Wait(c) \/ Release(c) \/ Finish(c)

Next ==
  \/ \E c \in Calls, n \in 0 .. Retries : Start(c, n)
  \/ \E c \in Calls : Proceed(c)
  \/ \E c \in Calls : OpenDone(c)
  \/ \E c \in Calls, retryable \in BOOLEAN : OpenFails(c, retryable)
  \/ \E k \in Conns : IdleTimeout(k)
  \/ \E k \in Conns, how \in SocketStates : ServerEnds(k, how)
  \/ \E k \in Conns : ServerDrops(k)
  \/ Close

Spec == Init /\ [][Next]_vars

\* Microtasks run, and a query is answered or times out (withTimeout).  Nothing
\* bounds the server's answer to a startup message, so opening is not fair.
FairSpec == Spec /\ \A c \in Calls : WF_vars(Proceed(c))

-----------------------------------------------------------------------------
(* Properties.                                                                  *)

\* The type of every variable.
TypeOK ==
  /\ idle \in Seq(Conns) /\ active \subseteq Conns /\ waiters \in Seq(Calls)
  /\ closed \in BOOLEAN /\ timers \subseteq Conns
  /\ socket \in [Conns -> SocketStates]
  /\ at \in [Calls -> Places]
  /\ held \in [Calls -> Conns \cup {NoConn}]
  /\ givenUp \subseteq Conns
  /\ left \in [Calls -> 0 .. Retries]
  /\ result \in [Calls -> Results]

\* Two calls never share a client, and a client in the hands of a call is neither
\* on the idle stack nor under an armed idle timer: the timer that release() arms
\* cannot close a connection under a query (release, connect, clearTimeout).
Exclusive ==
  \A c \in Calls : held[c] # NoConn =>
    /\ \A d \in Calls : held[d] = held[c] => d = c
    /\ held[c] \notin Elements(idle) \cup timers

\* Between macrotasks a call waits only while no client is idle and the pool is
\* full: no release, timeout, failure or retry strands capacity.
NoWastedCapacity ==
  Quiet /\ waiters # <<>> => idle = <<>> /\ Cardinality(active) >= Max

\* Once the pool is closed and every call is over, the sockets still open are those of
\* openings that failed, which close() does not know of; no other is left, not even
\* one whose opening was under way when close() ran.
ClosedPoolDrains ==
  closed /\ (\A c \in Calls : at[c] \in {"new", "over"}) => {k \in Conns : socket[k] # "none"} = givenUp

\* A waiting call gets a client or an error, with FIFO hand-over, whatever the
\* server does to the connections meanwhile.
WaiterIsServed == \A c \in Calls : at[c] = "waiting" ~> at[c] # "waiting"
=============================================================================
