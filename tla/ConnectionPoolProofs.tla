------------------------ MODULE ConnectionPoolProofs ------------------------
(* Theorems about ConnectionPool, for every set of calls and clients, every size    *)
(* of the pool and every number of retries.                                        *)
EXTENDS ConnectionPool, SequenceTheorems, FiniteSetTheorems, TLAPS

Distinct(s) == \A i, j \in DOMAIN s : s[i] = s[j] => i = j

-----------------------------------------------------------------------------
(* The inductive invariant.                                                     *)

\* A call has a client from the moment it opens or takes one until it releases it.
HeldInv == \A c \in Calls : held[c] # NoConn <=> at[c] \in {"opening", "using", "release"}

\* The queue holds the calls that wait, each once.
QueueInv ==
  /\ \A c \in Calls : at[c] = "waiting" <=> c \in Elements(waiters)
  /\ Distinct(waiters)

\* An idle client is on the stack once, and under its timer.
StackInv ==
  /\ Distinct(idle)
  /\ Elements(idle) \subseteq timers

\* A client that is being opened has no connection yet; one that has a connection is
\* idle, in use or given up.
OpeningInv == \A c \in Calls : at[c] = "opening" => socket[held[c]] = "none"
OwnedInv ==
  \A k \in Conns : socket[k] # "none" => k \in Elements(idle) \cup givenUp \/ \E c \in Calls : held[c] = k

\* A client that counts as active is in the hands of a call that is past its opening.
ActiveInv == \A k \in active : \E c \in Calls : held[c] = k /\ at[c] \in {"using", "release"}

\* A socket that was given up is open, and neither a call nor the pool has its client.
GivenUpInv ==
  \A k \in givenUp : /\ socket[k] # "none"
                     /\ k \notin Elements(idle) \cup timers
                     /\ \A c \in Calls : held[c] # k

\* A closed pool has neither idle clients nor waiting calls.
ClosedInv == closed => idle = <<>> /\ waiters = <<>>

\* A call waits only while nothing is idle and the pool is full, microtasks or not.
FullInv == waiters # <<>> => idle = <<>> /\ Cardinality(active) >= Max

IInv ==
  /\ TypeOK /\ HeldInv /\ QueueInv /\ StackInv /\ Exclusive
  /\ OpeningInv /\ OwnedInv /\ ActiveInv /\ GivenUpInv /\ ClosedInv /\ FullInv

-----------------------------------------------------------------------------
(* Sequences without repetition.                                                *)

\* Appending something new.
LEMMA AppendFacts ==
  ASSUME NEW S, NEW s \in Seq(S), NEW e \in S
  PROVE  /\ Append(s, e) \in Seq(S)
         /\ Append(s, e) # <<>>
         /\ Elements(Append(s, e)) = Elements(s) \cup {e}
         /\ Distinct(s) /\ e \notin Elements(s) => Distinct(Append(s, e))
BY AppendProperties DEF Elements, Distinct

\* Taking the first element.
LEMMA TailFacts ==
  ASSUME NEW S, NEW s \in Seq(S), s # <<>>, Distinct(s)
  PROVE  /\ Tail(s) \in Seq(S)
         /\ Head(s) \in S
         /\ Head(s) \in Elements(s)
         /\ Elements(Tail(s)) = Elements(s) \ {Head(s)}
         /\ Distinct(Tail(s))
<1> DEFINE t == Tail(s)
<1>1. /\ t \in Seq(S) /\ Len(t) = Len(s) - 1 /\ Len(s) \in Nat \ {0}
      /\ DOMAIN s = 1 .. Len(s) /\ DOMAIN t = 1 .. Len(s) - 1
      /\ \A i \in 1 .. Len(s) - 1 : t[i] = s[i + 1]
      /\ Head(s) = s[1]
  BY HeadTailProperties, EmptySeq, LenProperties
<1>2. Head(s) \in S /\ Head(s) \in Elements(s)
  BY <1>1, ElementOfSeq DEF Elements
<1>3. Distinct(t)
  BY <1>1 DEF Distinct
<1>4. Elements(t) = Elements(s) \ {Head(s)}
  <2>1. ASSUME NEW x \in Elements(t)
        PROVE  x \in Elements(s) \ {Head(s)}
    BY <1>1, <2>1 DEF Elements, Distinct
  <2>2. ASSUME NEW x \in Elements(s) \ {Head(s)}
        PROVE  x \in Elements(t)
    <3>1. PICK i \in 1 .. Len(s) : s[i] = x
      BY <1>1, <2>2 DEF Elements
    <3>2. i - 1 \in DOMAIN t /\ t[i - 1] = x
      BY <1>1, <2>2, <3>1
    <3> QED
      BY <3>2 DEF Elements
  <2> QED
    BY <2>1, <2>2
<1> QED
  BY <1>1, <1>2, <1>3, <1>4

\* Taking the last element.
LEMMA FrontFacts ==
  ASSUME NEW S, NEW s \in Seq(S), s # <<>>, Distinct(s)
  PROVE  /\ SubSeq(s, 1, Len(s) - 1) \in Seq(S)
         /\ s[Len(s)] \in S
         /\ s[Len(s)] \in Elements(s)
         /\ Elements(SubSeq(s, 1, Len(s) - 1)) = Elements(s) \ {s[Len(s)]}
         /\ Distinct(SubSeq(s, 1, Len(s) - 1))
<1> DEFINE t == SubSeq(s, 1, Len(s) - 1)
<1>1. Len(s) \in Nat \ {0} /\ DOMAIN s = 1 .. Len(s)
  BY EmptySeq, LenProperties
<1>2. /\ t \in Seq(S) /\ DOMAIN t = 1 .. Len(s) - 1
      /\ \A i \in 1 .. Len(s) - 1 : t[i] = s[i]
  <2>1. \A i \in 1 .. Len(s) - 1 : s[i] \in S
    BY <1>1, ElementOfSeq
  <2>2. t \in Seq(S) /\ Len(t) = Len(s) - 1 /\ \A i \in 1 .. Len(s) - 1 : t[i] = s[i]
    BY <1>1, <2>1, SubSeqProperties
  <2> QED
    BY <1>1, <2>2, LenProperties
<1> HIDE DEF t
<1>3. s[Len(s)] \in S /\ s[Len(s)] \in Elements(s)
  BY <1>1, ElementOfSeq DEF Elements
<1>4. Distinct(t)
  BY <1>1, <1>2 DEF Distinct
<1>5. Elements(t) = Elements(s) \ {s[Len(s)]}
  BY <1>1, <1>2 DEF Elements, Distinct
<1> QED
  BY <1>2, <1>3, <1>4, <1>5 DEF t

\* Taking any element.
LEMMA WithoutFacts ==
  ASSUME NEW S, NEW s \in Seq(S), NEW n \in DOMAIN s, Distinct(s)
  PROVE  /\ Without(s, n) \in Seq(S)
         /\ Elements(Without(s, n)) = Elements(s) \ {s[n]}
         /\ Distinct(Without(s, n))
<1> DEFINE a == SubSeq(s, 1, n - 1)
           b == SubSeq(s, n + 1, Len(s))
           t == Without(s, n)
<1>1. /\ Len(s) \in Nat /\ DOMAIN s = 1 .. Len(s) /\ n \in 1 .. Len(s)
      /\ \A i \in 1 .. Len(s) : s[i] \in S
  BY LenProperties, ElementOfSeq
<1>2. a \in Seq(S) /\ Len(a) = n - 1 /\ \A i \in 1 .. n - 1 : a[i] = s[i]
  <2>1. \A i \in 1 .. n - 1 : s[i] \in S
    BY <1>1
  <2> QED
    BY <1>1, <2>1, SubSeqProperties
<1>3. b \in Seq(S) /\ Len(b) = Len(s) - n /\ \A i \in 1 .. Len(s) - n : b[i] = s[n + i]
  <2>1. \A i \in n + 1 .. Len(s) : s[i] \in S
    BY <1>1
  <2> QED
    BY <1>1, <2>1, SubSeqProperties
<1>t. t = a \o b
  BY DEF Without
<1> HIDE DEF a, b
<1>4. t \in Seq(S) /\ Len(t) = Len(s) - 1 /\ DOMAIN t = 1 .. Len(s) - 1
  <2>1. t \in Seq(S) /\ Len(t) = Len(a) + Len(b)
    BY <1>2, <1>3, <1>t, ConcatProperties, ZenonT(60)
  <2>2. Len(t) = Len(s) - 1
    BY <1>1, <1>2, <1>3, <2>1
  <2> QED
    BY <2>1, <2>2, LenProperties
<1> HIDE DEF t
<1>5. \A i \in 1 .. Len(s) - 1 : t[i] = IF i < n THEN s[i] ELSE s[i + 1]
  <2> SUFFICES ASSUME NEW i \in 1 .. Len(s) - 1
               PROVE  t[i] = IF i < n THEN s[i] ELSE s[i + 1]
    OBVIOUS
  <2>1. t[i] = IF i <= Len(a) THEN a[i] ELSE b[i - Len(a)]
    <3>1. i \in 1 .. Len(a) + Len(b)
      BY <1>1, <1>2, <1>3
    <3>2. (a \o b)[i] = IF i <= Len(a) THEN a[i] ELSE b[i - Len(a)]
      BY <1>2, <1>3, <3>1, ConcatProperties
    <3> QED
      BY <3>2, <1>t
  <2>2. CASE i < n
    BY <1>1, <1>2, <2>1, <2>2
  <2>3. CASE i >= n
    <3>1. t[i] = b[i - (n - 1)]
      BY <1>1, <1>2, <2>1, <2>3
    <3>2. i - (n - 1) \in 1 .. Len(s) - n /\ n + (i - (n - 1)) = i + 1
      BY <1>1, <2>3
    <3> QED
      BY <1>1, <1>3, <3>1, <3>2, <2>3
  <2> QED
    BY <1>1, <2>2, <2>3
<1>6. Distinct(t)
  BY <1>1, <1>4, <1>5, SMTT(30) DEF Distinct
<1>7. ASSUME NEW x \in Elements(t)
      PROVE  x \in Elements(s) \ {s[n]}
  BY <1>1, <1>4, <1>5, <1>7 DEF Elements, Distinct
<1>8. ASSUME NEW x \in Elements(s) \ {s[n]}
      PROVE  x \in Elements(t)
  <2>1. PICK i \in 1 .. Len(s) : s[i] = x /\ i # n
    BY <1>1, <1>8 DEF Elements
  <2>2. CASE i < n
    BY <1>1, <1>4, <1>5, <2>1, <2>2 DEF Elements
  <2>3. CASE i > n
    <3>1. i - 1 \in DOMAIN t /\ t[i - 1] = x
      BY <1>1, <1>4, <1>5, <2>1, <2>3
    <3> QED
      BY <3>1 DEF Elements
  <2> QED
    BY <1>1, <2>1, <2>2, <2>3
<1> QED
  BY <1>4, <1>6, <1>7, <1>8 DEF t

-----------------------------------------------------------------------------
(* The invariant holds at the start and every step keeps it.                     *)

LEMMA InitOK == Init => IInv
<1> SUFFICES ASSUME Init PROVE IInv
  OBVIOUS
<1>1. TypeOK
  <2>1. <<>> \in Seq(Conns) /\ <<>> \in Seq(Calls)
    BY EmptySeq
  <2>2. 0 \in 0 .. Retries
    BY PoolAssumption
  <2> QED
    BY <2>1, <2>2 DEF Init, TypeOK, SocketStates, Places, Results
<1>2. Elements(<<>>) = {} /\ Distinct(<<>>)
  BY DEF Elements, Distinct
<1> QED
  BY <1>1, <1>2 DEF Init, IInv, HeldInv, QueueInv, StackInv, Exclusive, OpeningInv, OwnedInv, ActiveInv, GivenUpInv, ClosedInv, FullInv

\* Steps that leave the clients, the stack and the queue alone.
LEMMA StartOK ==
  ASSUME IInv, NEW c \in Calls, NEW n \in 0 .. Retries, Start(c, n)
  PROVE  IInv'
<1>1. /\ at[c] = "new" /\ at' = [at EXCEPT ![c] = "acquire"] /\ left' = [left EXCEPT ![c] = n]
      /\ UNCHANGED <<idle, active, waiters, closed, timers, socket, held, givenUp, result>>
  BY DEF Start, Go
<1>2. TypeOK'
  BY <1>1 DEF IInv, TypeOK, Places
<1>3. HeldInv' /\ OpeningInv'
  BY <1>1 DEF IInv, TypeOK, HeldInv, OpeningInv
<1>4. QueueInv'
  BY <1>1 DEF IInv, TypeOK, QueueInv, Elements, Distinct
<1>5. ActiveInv'
  <2>1. at \in [Calls -> Places] /\ \A d \in Calls : at[d] # "new" => at'[d] = at[d]
    BY <1>1 DEF IInv, TypeOK
  <2>2. \A k \in active : \E d \in Calls : held[d] = k /\ at[d] \in {"using", "release"}
    BY DEF IInv, ActiveInv
  <2> QED
    BY <1>1, <2>1, <2>2 DEF ActiveInv
<1>6. GivenUpInv'
  BY <1>1 DEF IInv, GivenUpInv, Elements
<1> QED
  BY <1>1, <1>2, <1>3, <1>4, <1>5, <1>6 DEF IInv, StackInv, Exclusive, OwnedInv, ClosedInv, FullInv, Elements, Distinct

LEMMA RefuseOK ==
  ASSUME IInv, NEW c \in Calls, Refuse(c)
  PROVE  IInv'
<1>1. TypeOK'
  BY PoolAssumption DEF IInv, TypeOK, Refuse, Go, Places
<1> QED
  BY <1>1 DEF IInv, TypeOK, HeldInv, QueueInv, StackInv, Exclusive, OpeningInv, OwnedInv, ActiveInv, GivenUpInv, ClosedInv, FullInv, Refuse, Go, Elements, Distinct

LEMMA WaitOK ==
  ASSUME IInv, NEW c \in Calls, Wait(c)
  PROVE  IInv'
<1>1. c \notin Elements(waiters)
  BY DEF IInv, QueueInv, Wait
<1>2. /\ waiters' \in Seq(Calls) /\ waiters' # <<>> /\ Distinct(waiters')
      /\ Elements(waiters') = Elements(waiters) \cup {c}
  BY <1>1, AppendFacts DEF IInv, TypeOK, QueueInv, Wait
<1>3. TypeOK'
  BY <1>2 DEF IInv, TypeOK, Wait, Go, Places
<1>4. QueueInv'
  BY <1>2 DEF IInv, TypeOK, QueueInv, Wait, Go
<1>5. ActiveInv'
  <2>1. at \in [Calls -> Places] /\ at' = [at EXCEPT ![c] = "waiting"] /\ at[c] = "acquire"
        /\ UNCHANGED <<active, held>>
    BY DEF IInv, TypeOK, Wait, Go
  <2>2. \A k \in active : \E d \in Calls : held[d] = k /\ at[d] \in {"using", "release"}
    BY DEF IInv, ActiveInv
  <2> QED
    BY <2>1, <2>2 DEF ActiveInv
<1>6. GivenUpInv'
  BY DEF IInv, GivenUpInv, Elements, Wait
<1> QED
  BY <1>2, <1>3, <1>4, <1>5, <1>6
  DEF IInv, TypeOK, HeldInv, StackInv, Exclusive, OpeningInv, OwnedInv, ClosedInv, FullInv, Wait, Go, Elements, Distinct

LEMMA PopOK ==
  ASSUME IInv, NEW c \in Calls, Pop(c)
  PROVE  IInv'
<1> DEFINE k == idle[Len(idle)]
<1>1. /\ idle' \in Seq(Conns) /\ k \in Conns /\ k \in Elements(idle)
      /\ Elements(idle') = Elements(idle) \ {k} /\ Distinct(idle')
  BY FrontFacts DEF IInv, TypeOK, StackInv, Pop
<1>2. /\ at[c] = "acquire" /\ ~closed /\ idle # <<>>
      /\ active' = active \cup {k} /\ timers' = timers \ {k}
      /\ held' = [held EXCEPT ![c] = k] /\ at' = [at EXCEPT ![c] = "using"]
      /\ UNCHANGED <<waiters, closed, socket, givenUp, left, result>>
  BY DEF Pop, Go
<1> HIDE DEF k
<1>3. TypeOK'
  BY <1>1, <1>2 DEF IInv, TypeOK, Places
<1>4. /\ k # NoConn /\ k \in timers
      /\ \A d \in Calls : held[d] # k
  BY <1>1, PoolAssumption DEF IInv, TypeOK, StackInv, Exclusive
<1>5. HeldInv' /\ Exclusive'
  BY <1>1, <1>2, <1>4 DEF IInv, TypeOK, HeldInv, Exclusive
<1>6. QueueInv'
  BY <1>2 DEF IInv, TypeOK, QueueInv, Elements, Distinct
<1>7. StackInv'
  BY <1>1, <1>2 DEF IInv, StackInv
<1>8. OpeningInv'
  BY <1>2 DEF IInv, TypeOK, OpeningInv
<1>10. OwnedInv'
  <2> SUFFICES ASSUME NEW x \in Conns, socket[x] # "none", x \notin Elements(idle') \cup givenUp
               PROVE  \E d \in Calls : held'[d] = x
    BY <1>2 DEF OwnedInv
  <2>1. CASE x = k
    BY <1>2, <2>1 DEF IInv, TypeOK
  <2>2. CASE x # k
    <3>1. PICK d \in Calls : held[d] = x
      BY <1>1, <2>2 DEF IInv, OwnedInv
    <3>2. d # c
      BY <1>2, <3>1, PoolAssumption DEF IInv, HeldInv
    <3> QED
      BY <1>2, <3>1, <3>2 DEF IInv, TypeOK
  <2> QED
    BY <2>1, <2>2
<1>9. ClosedInv' /\ FullInv'
  BY <1>2 DEF IInv, ClosedInv, FullInv
<1>11. ActiveInv'
  BY <1>1, <1>2, PoolAssumption DEF IInv, TypeOK, HeldInv, ActiveInv
<1>12. GivenUpInv'
  BY <1>1, <1>2 DEF IInv, TypeOK, GivenUpInv
<1> QED
  BY <1>3, <1>5, <1>6, <1>7, <1>8, <1>9, <1>10, <1>11, <1>12 DEF IInv

LEMMA OpenOK ==
  ASSUME IInv, NEW c \in Calls, Open(c)
  PROVE  IInv'
<1>1. PICK k \in Unused : held' = [held EXCEPT ![c] = k]
  <2>1. (CHOOSE k \in Unused : TRUE) \in Unused
    BY DEF Open
  <2> QED
    BY <2>1 DEF Open
<1>2. /\ k \in Conns /\ k # NoConn /\ socket[k] = "none" /\ k \notin Elements(idle) \cup timers
      /\ \A d \in Calls : held[d] # k
  BY <1>1, PoolAssumption DEF Unused
<1>4. /\ at' = [at EXCEPT ![c] = "opening"] /\ at[c] = "acquire"
      /\ UNCHANGED <<idle, active, waiters, closed, timers, socket, givenUp, left, result>>
  BY DEF Open, Go
<1>3. TypeOK'
  BY <1>1, <1>2, <1>4 DEF IInv, TypeOK, Places
<1>5. HeldInv' /\ Exclusive'
  BY <1>1, <1>2, <1>4 DEF IInv, TypeOK, HeldInv, Exclusive, Elements
<1>6. OpeningInv'
  BY <1>1, <1>2, <1>4 DEF IInv, TypeOK, OpeningInv
<1>7. OwnedInv'
  <2> SUFFICES ASSUME NEW x \in Conns, socket[x] # "none", x \notin Elements(idle) \cup givenUp
               PROVE  \E d \in Calls : held'[d] = x
    BY <1>4 DEF OwnedInv, Elements
  <2>1. PICK d \in Calls : held[d] = x
    BY DEF IInv, OwnedInv
  <2>2. d # c
    BY <1>4, <2>1, PoolAssumption DEF IInv, HeldInv
  <2> QED
    BY <1>1, <2>1, <2>2 DEF IInv, TypeOK
<1>8. ActiveInv'
  BY <1>1, <1>4 DEF IInv, TypeOK, HeldInv, ActiveInv
<1>9. GivenUpInv'
  BY <1>1, <1>2, <1>4 DEF IInv, TypeOK, GivenUpInv, Elements
<1> QED
  BY <1>3, <1>4, <1>5, <1>6, <1>7, <1>8, <1>9 DEF IInv, TypeOK, QueueInv, StackInv, ClosedInv, FullInv, Elements, Distinct

\* Growing keeps the pool full.
LEMMA FullerIsFull ==
  ASSUME IInv, NEW k \in Conns
  PROVE  Cardinality(active \cup {k}) >= Cardinality(active)
<1>1. IsFiniteSet(active)
  BY FS_Subset, PoolAssumption DEF IInv, TypeOK
<1>2. Cardinality(active) \in Nat
  BY <1>1, FS_CardinalityType
<1> QED
  BY <1>1, <1>2, FS_AddElement

LEMMA OpenDoneOK ==
  ASSUME IInv, NEW c \in Calls, OpenDone(c)
  PROVE  IInv'
<1>1. at[c] = "opening" /\ held[c] \in Conns
  BY DEF IInv, TypeOK, HeldInv, OpenDone
<1>2. /\ socket' = [socket EXCEPT ![held[c]] = "up"] /\ active' = active \cup {held[c]}
      /\ at' = [at EXCEPT ![c] = "using"]
      /\ UNCHANGED <<idle, waiters, closed, timers, held, givenUp, left, result>>
  BY DEF OpenDone, Go
<1>3. TypeOK'
  BY <1>1, <1>2 DEF IInv, TypeOK, Places, SocketStates
<1>4. FullInv'
  <2>1. Cardinality(active) \in Nat /\ Cardinality(active') \in Nat
    BY <1>3, FS_Subset, FS_CardinalityType, PoolAssumption DEF IInv, TypeOK
  <2> QED
    BY <1>1, <1>2, <2>1, FullerIsFull, PoolAssumption DEF IInv, FullInv
<1>5. OpeningInv'
  BY <1>1, <1>2, PoolAssumption DEF IInv, TypeOK, HeldInv, Exclusive, OpeningInv
<1>6. OwnedInv'
  BY <1>1, <1>2 DEF IInv, TypeOK, OwnedInv, Elements
<1>7. ActiveInv'
  BY <1>1, <1>2 DEF IInv, TypeOK, ActiveInv
<1>8. GivenUpInv'
  BY <1>1, <1>2 DEF IInv, TypeOK, GivenUpInv, Elements
<1> QED
  BY <1>1, <1>2, <1>3, <1>4, <1>5, <1>6, <1>7, <1>8 DEF IInv, TypeOK, HeldInv, QueueInv, StackInv, Exclusive, ClosedInv, Elements, Distinct

\* What becomes of a call after an attempt.
LEMMA AfterFailureFacts ==
  ASSUME TypeOK, NEW c \in Calls, NEW retryable, AfterFailure(c, retryable)
  PROVE  /\ at' \in [Calls -> Places] /\ left' \in [Calls -> 0 .. Retries]
         /\ at'[c] \in {"acquire", "over"}
         /\ \A d \in Calls \ {c} : at'[d] = at[d]
<1>1. CASE retryable /\ left[c] > 0
  <2>1. left[c] - 1 \in 0 .. Retries
    BY <1>1, PoolAssumption DEF TypeOK
  <2> QED
    BY <1>1, <2>1 DEF TypeOK, AfterFailure, Go, Places
<1>2. CASE ~(retryable /\ left[c] > 0)
  <2>1. 0 \in 0 .. Retries
    BY PoolAssumption
  <2>2. at' = [at EXCEPT ![c] = "over"] /\ left' = [left EXCEPT ![c] = 0]
    BY <1>2 DEF AfterFailure, Go
  <2> QED
    BY <2>1, <2>2 DEF TypeOK, Places
<1> QED
  BY <1>1, <1>2

LEMMA SettleFacts ==
  ASSUME TypeOK, NEW c \in Calls, NEW places \in [Calls -> Places], Settle(c, places)
  PROVE  /\ at' \in [Calls -> Places] /\ left' \in [Calls -> 0 .. Retries] /\ result' \in [Calls -> Results]
         /\ at'[c] \in {"acquire", "over"}
         /\ \A d \in Calls \ {c} : at'[d] = places[d]
<1>1. CASE result[c] = "retry" /\ left[c] > 0
  <2>1. left[c] - 1 \in 0 .. Retries
    BY <1>1, PoolAssumption DEF TypeOK
  <2> QED
    BY <1>1, <2>1 DEF TypeOK, Settle, Places, Results
<1>2. CASE ~(result[c] = "retry" /\ left[c] > 0)
  <2>1. 0 \in 0 .. Retries
    BY PoolAssumption
  <2>2. /\ at' = [places EXCEPT ![c] = "over"] /\ left' = [left EXCEPT ![c] = 0]
        /\ result' = [result EXCEPT ![c] = "none"]
    BY <1>2 DEF Settle
  <2> QED
    BY <2>1, <2>2 DEF TypeOK, Places, Results
<1> QED
  BY <1>1, <1>2

LEMMA OpenFailsOK ==
  ASSUME IInv, NEW c \in Calls, NEW retryable \in BOOLEAN, OpenFails(c, retryable)
  PROVE  IInv'
<1> DEFINE k == held[c]
<1>1. /\ at[c] = "opening" /\ held' = [held EXCEPT ![c] = NoConn]
      /\ UNCHANGED <<idle, active, waiters, closed, timers, result>>
  BY DEF OpenFails
<1>2. /\ at' \in [Calls -> Places] /\ left' \in [Calls -> 0 .. Retries]
      /\ at'[c] \in {"acquire", "over"}
      /\ \A d \in Calls \ {c} : at'[d] = at[d]
  BY AfterFailureFacts DEF IInv, OpenFails
<1>3. \/ UNCHANGED <<socket, givenUp>>
      \/ socket' = [socket EXCEPT ![k] = "up"] /\ givenUp' = givenUp \cup {k}
  BY DEF OpenFails
<1>4. /\ k \in Conns /\ k # NoConn /\ socket[k] = "none" /\ k \notin Elements(idle) \cup timers
      /\ \A d \in Calls \ {c} : held[d] # k
  BY <1>1 DEF IInv, TypeOK, HeldInv, OpeningInv, Exclusive
<1> HIDE DEF k
<1>5. TypeOK'
  BY <1>1, <1>2, <1>3, <1>4 DEF IInv, TypeOK, SocketStates
<1>6. HeldInv' /\ Exclusive'
  BY <1>1, <1>2 DEF IInv, TypeOK, HeldInv, Exclusive, Elements
<1>7. QueueInv'
  BY <1>1, <1>2 DEF IInv, QueueInv, Elements, Distinct
<1>8. held'[c] = NoConn /\ \A d \in Calls \ {c} : held'[d] = held[d] /\ held'[d] # k
  BY <1>1, <1>4 DEF IInv, TypeOK
<1>9. OpeningInv'
  <2> SUFFICES ASSUME NEW d \in Calls, at'[d] = "opening" PROVE socket'[held'[d]] = "none"
    BY DEF OpeningInv
  <2>1. d # c /\ at[d] = "opening" /\ held'[d] = held[d] /\ held[d] # k
    BY <1>2, <1>8
  <2>2. socket[held[d]] = "none" /\ held[d] \in Conns /\ socket \in [Conns -> SocketStates]
    BY <2>1 DEF IInv, TypeOK, HeldInv, OpeningInv
  <2> QED
    BY <1>3, <2>1, <2>2
<1>10. OwnedInv'
  <2> SUFFICES ASSUME NEW x \in Conns, socket'[x] # "none", x \notin Elements(idle) \cup givenUp'
               PROVE  \E d \in Calls : held'[d] = x
    BY <1>1 DEF OwnedInv, Elements
  <2>1. x # k /\ socket[x] # "none" /\ x \notin givenUp
    BY <1>3, <1>4 DEF IInv, TypeOK
  <2>2. PICK d \in Calls : held[d] = x
    BY <2>1 DEF IInv, OwnedInv
  <2> QED
    BY <1>8, <2>1, <2>2 DEF k
<1>11. ActiveInv'
  <2> SUFFICES ASSUME NEW x \in active
               PROVE  \E d \in Calls : held'[d] = x /\ at'[d] \in {"using", "release"}
    BY <1>1 DEF ActiveInv
  <2>1. PICK d \in Calls : held[d] = x /\ at[d] \in {"using", "release"}
    BY DEF IInv, ActiveInv
  <2>2. d # c
    BY <1>1, <2>1
  <2> QED
    BY <1>2, <1>8, <2>1, <2>2
<1>12. GivenUpInv'
  <2> SUFFICES ASSUME NEW x \in givenUp'
               PROVE  /\ socket'[x] # "none" /\ x \notin Elements(idle) \cup timers
                      /\ \A d \in Calls : held'[d] # x
    BY <1>1 DEF GivenUpInv, Elements
  <2>1. CASE x = k /\ k \in givenUp' /\ k \notin givenUp
    BY <1>3, <1>4, <1>8, <2>1 DEF IInv, TypeOK
  <2>2. CASE x \in givenUp
    <3>1. /\ socket[x] # "none" /\ x \notin Elements(idle) \cup timers /\ \A d \in Calls : held[d] # x
          /\ x \in Conns
      BY <2>2 DEF IInv, TypeOK, GivenUpInv
    <3>2. socket'[x] = socket[x]
      BY <1>3, <1>4, <3>1 DEF IInv, TypeOK
    <3>3. x # NoConn
      BY <3>1, PoolAssumption
    <3> QED
      BY <1>8, <3>1, <3>2, <3>3
  <2> QED
    BY <1>3, <2>1, <2>2
<1> QED
  BY <1>1, <1>5, <1>6, <1>7, <1>9, <1>10, <1>11, <1>12 DEF IInv, StackInv, ClosedInv, FullInv, Elements, Distinct

LEMMA FinishOK ==
  ASSUME IInv, NEW c \in Calls, Finish(c)
  PROVE  IInv'
<1>1. /\ at[c] = "using" /\ held[c] \in Conns /\ at' = [at EXCEPT ![c] = "release"]
      /\ UNCHANGED <<idle, active, waiters, closed, timers, held, givenUp, left>>
  BY DEF IInv, TypeOK, HeldInv, Finish, Go
<1>2. \/ socket' = socket
      \/ socket' = [socket EXCEPT ![held[c]] = "dead"] /\ socket[held[c]] = "ended"
  BY DEF Finish
<1>3. TypeOK'
  BY <1>1, <1>2 DEF IInv, TypeOK, Places, SocketStates, Results, Finish
<1>4. OpeningInv'
  BY <1>1, <1>2, PoolAssumption DEF IInv, TypeOK, HeldInv, Exclusive, OpeningInv
<1>5. OwnedInv'
  <2>1. \A x \in Conns : socket'[x] # "none" => socket[x] # "none"
    BY <1>2 DEF IInv, TypeOK
  <2> QED
    BY <1>1, <2>1 DEF IInv, OwnedInv, Elements
<1>6. ActiveInv'
  BY <1>1 DEF IInv, TypeOK, ActiveInv
<1>7. GivenUpInv'
  BY <1>1, <1>2 DEF IInv, TypeOK, GivenUpInv, Elements
<1> QED
  BY <1>1, <1>3, <1>4, <1>5, <1>6, <1>7 DEF IInv, TypeOK, HeldInv, QueueInv, StackInv, Exclusive, ClosedInv, FullInv, Elements, Distinct

LEMMA IdleTimeoutOK ==
  ASSUME IInv, NEW k \in Conns, IdleTimeout(k)
  PROVE  IInv'
<1>1. /\ k \in timers /\ timers' = timers \ {k} /\ socket' = [socket EXCEPT ![k] = "none"]
      /\ UNCHANGED <<active, waiters, closed, at, held, givenUp, left, result>>
  BY DEF IdleTimeout
<1>2. idle' \in Seq(Conns) /\ Distinct(idle') /\ Elements(idle') = Elements(idle) \ {k}
  <2>1. CASE k \notin Elements(idle) /\ UNCHANGED idle
    BY <2>1 DEF IInv, TypeOK, StackInv, Distinct, Elements
  <2>2. CASE \E i \in DOMAIN idle : idle[i] = k /\ idle' = Without(idle, i)
    BY <2>2, WithoutFacts DEF IInv, TypeOK, StackInv
  <2> QED
    BY <2>1, <2>2 DEF IdleTimeout
<1>3. idle = <<>> => idle' = <<>>
  BY DEF IdleTimeout
<1>4. TypeOK'
  BY <1>1, <1>2 DEF IInv, TypeOK, SocketStates
<1>5. OpeningInv' /\ OwnedInv'
  BY <1>1, <1>2 DEF IInv, TypeOK, HeldInv, OpeningInv, OwnedInv
<1>6. StackInv' /\ Exclusive'
  BY <1>1, <1>2 DEF IInv, StackInv, Exclusive
<1>7. ActiveInv' /\ GivenUpInv'
  BY <1>1, <1>2 DEF IInv, TypeOK, ActiveInv, GivenUpInv
<1> QED
  BY <1>1, <1>3, <1>4, <1>5, <1>6, <1>7 DEF IInv, HeldInv, QueueInv, ClosedInv, FullInv, Elements, Distinct

LEMMA ServerEndsOK ==
  ASSUME IInv, NEW k \in Conns, NEW how \in SocketStates, ServerEnds(k, how)
  PROVE  IInv'
<1>1. /\ socket[k] = "up" /\ how # "none" /\ socket' = [socket EXCEPT ![k] = how]
      /\ UNCHANGED <<idle, active, waiters, closed, timers, at, held, givenUp, left, result>>
  BY DEF ServerEnds
<1>2. TypeOK'
  BY <1>1 DEF IInv, TypeOK
<1>3. OpeningInv'
  BY <1>1 DEF IInv, TypeOK, OpeningInv
<1>4. OwnedInv'
  BY <1>1 DEF IInv, TypeOK, OwnedInv, Elements
<1>5. ActiveInv' /\ GivenUpInv'
  BY <1>1 DEF IInv, TypeOK, ActiveInv, GivenUpInv, Elements
<1> QED
  BY <1>1, <1>2, <1>3, <1>4, <1>5 DEF IInv, HeldInv, QueueInv, StackInv, Exclusive, ClosedInv, FullInv, Elements, Distinct

LEMMA ServerDropsOK ==
  ASSUME IInv, NEW k \in Conns, ServerDrops(k)
  PROVE  IInv'
<1>1. /\ k \in givenUp /\ socket' = [socket EXCEPT ![k] = "none"] /\ givenUp' = givenUp \ {k}
      /\ UNCHANGED <<idle, active, waiters, closed, timers, at, held, left, result>>
  BY DEF ServerDrops
<1>2. TypeOK'
  BY <1>1 DEF IInv, TypeOK, SocketStates
<1>3. OpeningInv'
  BY <1>1 DEF IInv, TypeOK, OpeningInv, GivenUpInv
<1>4. OwnedInv'
  BY <1>1 DEF IInv, TypeOK, OwnedInv, Elements
<1>5. ActiveInv' /\ GivenUpInv'
  BY <1>1 DEF IInv, TypeOK, ActiveInv, GivenUpInv, Elements
<1> QED
  BY <1>1, <1>2, <1>3, <1>4, <1>5 DEF IInv, HeldInv, QueueInv, StackInv, Exclusive, ClosedInv, FullInv, Elements, Distinct

LEMMA CloseOK ==
  ASSUME IInv, Close
  PROVE  IInv'
<1>1. Elements(<<>>) = {} /\ Distinct(<<>>)
  BY DEF Elements, Distinct
<1>2. TypeOK'
  BY PoolAssumption DEF IInv, TypeOK, Close, Places, SocketStates
<1>3. HeldInv' /\ Exclusive' /\ QueueInv' /\ StackInv'
  BY <1>1 DEF IInv, TypeOK, HeldInv, Exclusive, QueueInv, StackInv, Close
<1>4. OpeningInv'
  BY PoolAssumption DEF IInv, TypeOK, HeldInv, OpeningInv, Close
<1>5. OwnedInv'
  BY <1>1 DEF IInv, TypeOK, OwnedInv, Close
<1>6. ActiveInv'
  BY DEF ActiveInv, Close
<1>7. GivenUpInv'
  <2>1. \A k \in givenUp : k \notin Elements(idle) \cup active
    BY DEF IInv, ActiveInv, GivenUpInv
  <2> QED
    BY <1>1, <2>1 DEF IInv, TypeOK, GivenUpInv, Close
<1> QED
  BY <1>2, <1>3, <1>4, <1>5, <1>6, <1>7 DEF IInv, ClosedInv, FullInv, Close

\* release(): to the oldest waiter, to nobody, or to the stack.
LEMMA ReleaseOK ==
  ASSUME IInv, NEW c \in Calls, Release(c)
  PROVE  IInv'
<1> DEFINE k == held[c]
           w == Head(waiters)
<1>1. at[c] = "release" /\ k \in Conns /\ k # NoConn /\ UNCHANGED <<closed, givenUp>>
  BY DEF IInv, TypeOK, HeldInv, Release
<1>2. /\ k \notin Elements(idle) /\ k \notin timers
      /\ \A d \in Calls : held[d] = k => d = c
      /\ k \notin givenUp
  BY <1>1 DEF IInv, Exclusive, GivenUpInv
<1>3. IsFiniteSet(active) /\ Cardinality(active) \in Nat
  BY FS_Subset, FS_CardinalityType, PoolAssumption DEF IInv, TypeOK
<1> HIDE DEF k
<1>4. CASE waiters # <<>>
  <2>1. /\ waiters' = Tail(waiters) /\ active' = active \cup {k}
        /\ held' = [held EXCEPT ![c] = NoConn, ![w] = k]
        /\ Settle(c, [at EXCEPT ![w] = "using"])
        /\ UNCHANGED <<idle, timers, socket>>
    BY <1>4 DEF Release, k
  <2>2. /\ Tail(waiters) \in Seq(Calls) /\ w \in Calls /\ w \in Elements(waiters)
        /\ Elements(Tail(waiters)) = Elements(waiters) \ {w} /\ Distinct(Tail(waiters))
    BY <1>4, TailFacts DEF IInv, TypeOK, QueueInv
  <2> HIDE DEF w
  <2>3. at[w] = "waiting" /\ w # c /\ held[w] = NoConn
    BY <1>1, <2>2 DEF IInv, QueueInv, HeldInv
  <2>4. [at EXCEPT ![w] = "using"] \in [Calls -> Places]
    BY DEF IInv, TypeOK, Places
  <2>5. /\ at' \in [Calls -> Places] /\ left' \in [Calls -> 0 .. Retries] /\ result' \in [Calls -> Results]
        /\ at'[c] \in {"acquire", "over"} /\ at'[w] = "using"
        /\ \A d \in Calls \ {c, w} : at'[d] = at[d]
    BY <2>1, <2>2, <2>3, <2>4, SettleFacts, ZenonT(60) DEF IInv, TypeOK
  <2>6. /\ held' \in [Calls -> Conns \cup {NoConn}] /\ held'[c] = NoConn /\ held'[w] = k
        /\ \A d \in Calls \ {c, w} : held'[d] = held[d]
    BY <1>1, <2>1, <2>2, <2>3 DEF IInv, TypeOK
  <2>7. TypeOK'
    BY <1>1, <2>1, <2>2, <2>5, <2>6 DEF IInv, TypeOK
  <2>8. HeldInv'
    BY <1>1, <2>5, <2>6 DEF IInv, HeldInv
  <2>9. QueueInv'
    BY <1>1, <2>1, <2>2, <2>3, <2>5 DEF IInv, QueueInv
  <2>10. Exclusive'
    BY <1>1, <1>2, <2>1, <2>3, <2>6 DEF IInv, Exclusive, Elements
  <2>11. OpeningInv'
    BY <2>1, <2>5, <2>6 DEF IInv, OpeningInv
  <2>14. OwnedInv'
    <3> SUFFICES ASSUME NEW x \in Conns, socket[x] # "none", x \notin Elements(idle) \cup givenUp
                 PROVE  \E d \in Calls : held'[d] = x
      BY <1>1, <2>1 DEF OwnedInv, Elements
    <3>1. PICK d \in Calls : held[d] = x
      BY DEF IInv, OwnedInv
    <3>2. d # w
      BY <2>3, <3>1, PoolAssumption
    <3> QED
      BY <2>2, <2>6, <3>1, <3>2 DEF k
  <2>12. FullInv'
    <3>1. Cardinality(active') \in Nat
      BY <2>7, FS_Subset, FS_CardinalityType, PoolAssumption DEF TypeOK
    <3> QED
      BY <1>1, <1>3, <1>4, <2>1, <3>1, FullerIsFull, PoolAssumption DEF IInv, FullInv
  <2>13. ClosedInv'
    BY <1>1, <1>4, <2>1 DEF IInv, ClosedInv
  <2>15. ActiveInv'
    <3> SUFFICES ASSUME NEW x \in active, x # k
                 PROVE  \E d \in Calls : held'[d] = x /\ at'[d] \in {"using", "release"}
      BY <2>1, <2>2, <2>5, <2>6 DEF ActiveInv
    <3>1. PICK d \in Calls : held[d] = x /\ at[d] \in {"using", "release"}
      BY DEF IInv, ActiveInv
    <3>2. d # c /\ d # w
      BY <2>3, <3>1 DEF k
    <3> QED
      BY <2>5, <2>6, <3>1, <3>2
  <2>16. GivenUpInv'
    <3> SUFFICES ASSUME NEW x \in givenUp
                 PROVE  \A d \in Calls : held'[d] # x
      BY <1>1, <2>1 DEF IInv, GivenUpInv, Elements
    <3>1. x # k /\ x # NoConn /\ \A d \in Calls : held[d] # x
      BY <1>2, PoolAssumption DEF IInv, TypeOK, GivenUpInv
    <3> QED
      BY <2>6, <3>1
  <2> QED
    BY <2>1, <2>7, <2>8, <2>9, <2>10, <2>11, <2>12, <2>13, <2>14, <2>15, <2>16 DEF IInv, StackInv, Elements, Distinct
<1>5. CASE waiters = <<>>
  <2>1. /\ active' = active \ {k} /\ held' = [held EXCEPT ![c] = NoConn]
        /\ Settle(c, at) /\ UNCHANGED waiters
    BY <1>5 DEF Release, k
  <2>2. /\ at' \in [Calls -> Places] /\ left' \in [Calls -> 0 .. Retries] /\ result' \in [Calls -> Results]
        /\ at'[c] \in {"acquire", "over"}
        /\ \A d \in Calls \ {c} : at'[d] = at[d]
    BY <2>1, SettleFacts DEF IInv, TypeOK
  <2>3. /\ held' \in [Calls -> Conns \cup {NoConn}] /\ held'[c] = NoConn
        /\ \A d \in Calls \ {c} : held'[d] = held[d] /\ held'[d] # k
    BY <1>2, <2>1 DEF IInv, TypeOK
  <2>4. HeldInv' /\ QueueInv' /\ FullInv'
    BY <1>1, <1>5, <2>1, <2>2, <2>3 DEF IInv, HeldInv, QueueInv, FullInv, Elements, Distinct
  <2>7. ActiveInv'
    <3> SUFFICES ASSUME NEW x \in active, x # k
                 PROVE  \E d \in Calls : held'[d] = x /\ at'[d] \in {"using", "release"}
      BY <2>1 DEF ActiveInv
    <3>1. PICK d \in Calls : held[d] = x /\ at[d] \in {"using", "release"}
      BY DEF IInv, ActiveInv
    <3>2. d # c
      BY <3>1 DEF k
    <3> QED
      BY <2>2, <2>3, <3>1, <3>2
  <2>8. \A x \in givenUp : /\ x # k /\ socket[x] # "none" /\ x \notin Elements(idle) \cup timers
                            /\ \A d \in Calls : held'[d] # x
    <3> SUFFICES ASSUME NEW x \in givenUp
                 PROVE  /\ x # k /\ socket[x] # "none" /\ x \notin Elements(idle) \cup timers
                        /\ \A d \in Calls : held'[d] # x
      OBVIOUS
    <3>1. x # k /\ x # NoConn /\ \A d \in Calls : held[d] # x
      BY <1>2, PoolAssumption DEF IInv, TypeOK, GivenUpInv
    <3> QED
      BY <2>3, <3>1 DEF IInv, GivenUpInv
  <2>5. CASE closed
    <3>1. socket' = [socket EXCEPT ![k] = "none"] /\ UNCHANGED <<idle, timers>>
      BY <1>5, <2>5 DEF Release, k
    <3>2. TypeOK'
      BY <1>1, <2>1, <2>2, <2>3, <3>1 DEF IInv, TypeOK, SocketStates
    <3>3. StackInv' /\ Exclusive' /\ ClosedInv'
      BY <1>1, <2>1, <2>3, <3>1 DEF IInv, StackInv, Exclusive, ClosedInv, Elements, Distinct
    <3>4. OpeningInv'
      <4> SUFFICES ASSUME NEW d \in Calls, at'[d] = "opening" PROVE socket'[held'[d]] = "none"
        BY DEF OpeningInv
      <4>1. d # c /\ held'[d] = held[d] /\ at[d] = "opening"
        BY <2>2, <2>3
      <4>2. held[d] \in Conns /\ socket[held[d]] = "none"
        BY <4>1 DEF IInv, TypeOK, HeldInv, OpeningInv
      <4>3. socket \in [Conns -> SocketStates]
        BY DEF IInv, TypeOK
      <4> QED
        BY <3>1, <4>1, <4>2, <4>3
    <3>5. OwnedInv'
      <4> SUFFICES ASSUME NEW x \in Conns, x # k, socket[x] # "none", x \notin Elements(idle) \cup givenUp
                   PROVE  \E d \in Calls : held'[d] = x
        BY <1>1, <3>1 DEF IInv, TypeOK, OwnedInv, Elements
      <4>1. PICK d \in Calls : held[d] = x
        BY DEF IInv, OwnedInv
      <4> QED
        BY <2>3, <4>1 DEF k
    <3>6. GivenUpInv'
      BY <1>1, <2>8, <3>1 DEF IInv, TypeOK, GivenUpInv, Elements
    <3> QED
      BY <2>4, <2>7, <3>2, <3>3, <3>4, <3>5, <3>6 DEF IInv
  <2>6. CASE ~closed
    <3>1. idle' = Append(idle, k) /\ timers' = timers \cup {k} /\ UNCHANGED socket
      BY <1>5, <2>6 DEF Release, k
    <3>2. idle' \in Seq(Conns) /\ Distinct(idle') /\ Elements(idle') = Elements(idle) \cup {k}
      BY <1>1, <1>2, <3>1, AppendFacts DEF IInv, TypeOK, StackInv
    <3>3. TypeOK'
      BY <1>1, <2>1, <2>2, <2>3, <3>1, <3>2 DEF IInv, TypeOK
    <3>4. StackInv'
      <4>1. timers' = timers \cup {k}
        BY <3>1
      <4> QED
        BY <3>2, <4>1 DEF IInv, StackInv
    <3>7. Exclusive'
      <4> SUFFICES ASSUME NEW d \in Calls, held'[d] # NoConn
                   PROVE  /\ \A e \in Calls : held'[e] = held'[d] => e = d
                          /\ held'[d] \notin Elements(idle') \cup timers'
        BY DEF Exclusive
      <4>1. d # c /\ held'[d] = held[d] /\ held[d] # k
        BY <2>3
      <4> QED
        BY <2>3, <3>1, <3>2, <4>1 DEF IInv, Exclusive
    <3>8. ClosedInv'
      BY <1>1, <2>6 DEF ClosedInv
    <3>5. OpeningInv'
      BY <2>2, <2>3, <3>1 DEF IInv, OpeningInv
    <3>6. OwnedInv'
      <4> SUFFICES ASSUME NEW x \in Conns, x # k, socket[x] # "none", x \notin Elements(idle) \cup givenUp
                   PROVE  \E d \in Calls : held'[d] = x
        BY <1>1, <3>1, <3>2 DEF OwnedInv
      <4>1. PICK d \in Calls : held[d] = x
        BY DEF IInv, OwnedInv
      <4> QED
        BY <2>3, <4>1 DEF k
    <3>9. GivenUpInv'
      BY <1>1, <2>8, <3>1, <3>2 DEF GivenUpInv
    <3> QED
      BY <2>4, <2>7, <3>3, <3>4, <3>5, <3>6, <3>7, <3>8, <3>9 DEF IInv
  <2> QED
    BY <2>5, <2>6
<1> QED
  BY <1>4, <1>5

LEMMA StepOK == IInv /\ [Next]_vars => IInv'
<1> SUFFICES ASSUME IInv, [Next]_vars PROVE IInv'
  OBVIOUS
<1>1. CASE UNCHANGED vars
  BY <1>1 DEF vars, IInv, TypeOK, HeldInv, QueueInv, StackInv, Exclusive, OpeningInv, OwnedInv, ActiveInv, GivenUpInv, ClosedInv, FullInv, Elements, Distinct
<1>2. CASE Next
  <2>1. CASE \E c \in Calls, n \in 0 .. Retries : Start(c, n)
    BY <2>1, StartOK
  <2>2. ASSUME NEW c \in Calls, Proceed(c) PROVE IInv'
    BY <2>2, RefuseOK, PopOK, OpenOK, WaitOK, ReleaseOK, FinishOK DEF Proceed
  <2>3. CASE \E c \in Calls : OpenDone(c)
    BY <2>3, OpenDoneOK
  <2>4. CASE \E c \in Calls, retryable \in BOOLEAN : OpenFails(c, retryable)
    BY <2>4, OpenFailsOK
  <2>5. CASE \E k \in Conns : IdleTimeout(k)
    BY <2>5, IdleTimeoutOK
  <2>6. CASE \E k \in Conns, how \in SocketStates : ServerEnds(k, how)
    BY <2>6, ServerEndsOK
  <2>7. CASE Close
    BY <2>7, CloseOK
  <2>8. CASE \E k \in Conns : ServerDrops(k)
    BY <2>8, ServerDropsOK
  <2> QED
    BY <1>2, <2>1, <2>2, <2>3, <2>4, <2>5, <2>6, <2>7, <2>8 DEF Next
<1> QED
  BY <1>1, <1>2

LEMMA Inductive == Spec => []IInv
BY InitOK, StepOK, PTL DEF Spec

-----------------------------------------------------------------------------
(* The theorems.                                                                *)

\* The variables keep their types; a call never has more retries left than the pool allows.
THEOREM TypeCorrect == Spec => []TypeOK
<1>1. IInv => TypeOK
  BY DEF IInv
<1> QED
  BY <1>1, Inductive, PTL

\* PostgresPool: two calls never share a client, and no idle timer can close one in use.
THEOREM ClientsAreExclusive == Spec => []Exclusive
<1>1. IInv => Exclusive
  BY DEF IInv
<1> QED
  BY <1>1, Inductive, PTL

\* PostgresPool: a call is kept waiting only while the pool is full and nothing is idle.
THEOREM CapacityIsUsed == Spec => []NoWastedCapacity
<1>1. IInv => NoWastedCapacity
  BY DEF IInv, FullInv, NoWastedCapacity
<1> QED
  BY <1>1, Inductive, PTL

\* PostgresPool.close: the connections that outlive the calls are those of openings that
\* failed, all of them, and no other, not even one that was opening.
THEOREM ClosingDrains == Spec => []ClosedPoolDrains
<1>1. IInv => ClosedPoolDrains
  <2> SUFFICES ASSUME IInv, closed, \A c \in Calls : at[c] \in {"new", "over"}
               PROVE  {k \in Conns : socket[k] # "none"} = givenUp
    BY DEF ClosedPoolDrains
  <2>1. Elements(idle) = {}
    BY DEF IInv, ClosedInv, Elements
  <2>2. \A k \in Conns, c \in Calls : held[c] # k
    BY PoolAssumption DEF IInv, HeldInv
  <2>3. \A k \in Conns : socket[k] # "none" => k \in givenUp
    BY <2>1, <2>2 DEF IInv, OwnedInv
  <2>4. \A k \in givenUp : k \in Conns /\ socket[k] # "none"
    BY DEF IInv, TypeOK, GivenUpInv
  <2> QED
    BY <2>3, <2>4
<1> QED
  BY <1>1, Inductive, PTL
=============================================================================
