------------------------- MODULE WireProtocolProofs -------------------------
(* Theorems about WireProtocol, for every number of calls, with timeouts and without. *)
EXTENDS WireProtocol, SequenceTheorems, FunctionTheorems, FiniteSetTheorems, TLAPS

-----------------------------------------------------------------------------
(* The inductive invariant.                                                     *)

\* The call at work awaits the statement sent last; between calls the last statement
\* was one that leaves no transaction open.
AwaitInv ==
  IF step # "free"
  THEN sent # <<>> /\ sent[Len(sent)].call = call /\ sent[Len(sent)].kind = step
  ELSE sent # <<>> => sent[Len(sent)].kind \in {"query", "commit", "rollback"}

\* A statement that leaves a transaction open is followed by one of the same call.
OrderInv ==
  \A n \in 1 .. Len(sent) - 1 :
    sent[n].kind \in {"begin", "work"} =>
      sent[n + 1].call = sent[n].call /\ sent[n + 1].kind \in {"work", "commit", "rollback"}

\* The transaction that is open is that of the statement carried out last.
TxnInv ==
  txn # 0 => processed > 0 /\ sent[processed].call = txn /\ sent[processed].kind \in {"begin", "work"}

\* Only the statement sent last is not settled, and one that is resolved has no poller.
StatusInv ==
  \A n \in DOMAIN status :
    /\ status[n] = "waiting" => n = Len(sent) /\ step # "free"
    /\ status[n] = "resolved" => n \notin pollers

\* While nothing has been rejected, what is on the wire is what is left of the answer
\* to the statement sent last.
Clean == \A n \in DOMAIN status : status[n] # "rejected"

AnswerInv ==
  LET n == Len(sent)
  IN  Clean =>
        IF n > 0 /\ status[n] = "waiting"
        THEN \/ processed = n - 1 /\ buffer = <<>> /\ rows[n] = {}
             \/ processed = n /\ buffer = <<Packet("row", n), Packet("ready", n)>> /\ rows[n] = {} /\ Own(n) = {n}
             \/ processed = n /\ buffer = <<Packet("ready", n)>> /\ rows[n] = Own(n)
             \/ processed = n /\ buffer = <<Packet("error", n), Packet("ready", n)>>
        ELSE processed = n /\ buffer = <<>>

IInv ==
  /\ TypeOK /\ AwaitInv /\ OrderInv /\ TxnInv /\ StatusInv /\ AnswerInv
  /\ CleanConnectionAnswersOwn

-----------------------------------------------------------------------------
(* Sequences.                                                                   *)

Statements == [call : 1 .. CallCount, kind : Kinds]
Statuses == {"waiting", "resolved", "rejected"}
Packets(n) == [type : {"row", "error", "ready"}, of : 1 .. n]

LEMMA TupleFacts ==
  ASSUME NEW a, NEW b
  PROVE  /\ <<a, b>> # <<>> /\ Head(<<a, b>>) = a /\ Tail(<<a, b>>) = <<b>>
         /\ <<b>> # <<>> /\ Head(<<b>>) = b /\ Tail(<<b>>) = <<>>
OBVIOUS

LEMMA SmallSequences ==
  ASSUME NEW S, NEW a \in S, NEW b \in S
  PROVE  /\ <<b>> \in Seq(S) /\ Len(<<b>>) = 1
         /\ <<a, b>> \in Seq(S) /\ Len(<<a, b>>) = 2
         /\ <<>> \o <<b>> = <<b>>
         /\ <<a>> \o <<b>> = <<a, b>>
<1>1. /\ <<b>> \in Seq(S) /\ Len(<<b>>) = 1 /\ <<a>> \in Seq(S) /\ Len(<<a>>) = 1
      /\ <<a, b>> \in Seq(S) /\ Len(<<a, b>>) = 2
  OBVIOUS
<1>2. <<>> \o <<b>> = <<b>>
  BY <1>1, ConcatEmptySeq
<1>3. <<a>> \o <<b>> = <<a, b>>
  <2>1. /\ <<a>> \o <<b>> \in Seq(S) /\ Len(<<a>> \o <<b>>) = 2
        /\ \A i \in 1 .. 2 : (<<a>> \o <<b>>)[i] = IF i <= 1 THEN <<a>>[i] ELSE <<b>>[i - 1]
    BY <1>1, ConcatProperties
  <2>2. \A i \in 1 .. 2 : (<<a>> \o <<b>>)[i] = <<a, b>>[i]
    <3> SUFFICES ASSUME NEW i \in 1 .. 2
                 PROVE  (<<a>> \o <<b>>)[i] = <<a, b>>[i]
      OBVIOUS
    <3>1. CASE i = 1
      BY <2>1, <3>1
    <3>2. CASE i = 2
      BY <2>1, <3>2
    <3> QED
      BY <3>1, <3>2
  <2> QED
    BY <1>1, <2>1, <2>2, SeqEqual
<1> QED
  BY <1>1, <1>2, <1>3

\* One statement, with its status and rows, per number.
LEMMA Lengths ==
  ASSUME TypeOK
  PROVE  /\ Len(sent) \in Nat /\ Len(status) = Len(sent) /\ Len(rows) = Len(sent)
         /\ DOMAIN sent = 1 .. Len(sent) /\ DOMAIN status = 1 .. Len(sent) /\ DOMAIN rows = 1 .. Len(sent)
         /\ \A n \in 1 .. Len(sent) : sent[n] \in Statements /\ status[n] \in Statuses
         /\ sent # <<>> <=> Len(sent) > 0
<1>1. /\ sent \in Seq(Statements) /\ status \in Seq(Statuses) /\ rows \in Seq(SUBSET (1 .. Len(sent)))
      /\ Len(status) = Len(sent) /\ Len(rows) = Len(sent)
  BY DEF TypeOK, Statements, Statuses
<1>2. /\ Len(sent) \in Nat
      /\ DOMAIN sent = 1 .. Len(sent) /\ DOMAIN status = 1 .. Len(sent) /\ DOMAIN rows = 1 .. Len(sent)
  BY <1>1, LenProperties
<1>3. \A n \in 1 .. Len(sent) : sent[n] \in Statements /\ status[n] \in Statuses
  BY <1>1, ElementOfSeq
<1>4. sent # <<>> <=> Len(sent) > 0
  BY <1>1, <1>2, EmptySeq
<1> QED
  BY <1>1, <1>2, <1>3, <1>4

-----------------------------------------------------------------------------
(* The invariant holds at the start.                                             *)

LEMMA InitOK == Init => IInv
<1> SUFFICES ASSUME Init PROVE IInv
  OBVIOUS
<1>1. \A S : <<>> \in Seq(S) /\ Len(<<>>) = 0
  BY EmptySeq
<1>2. DOMAIN <<>> = {}
  OBVIOUS
<1>3. TypeOK
  <2>1. 0 \in 0 .. CallCount /\ 0 \in 0 .. Len(<<>>) /\ call = 0
    BY <1>1, WireAssumption DEF Init
  <2>2. report \in [1 .. CallCount -> {"none", "ok", "error"}]
    BY DEF Init
  <2>3. /\ sent \in Seq([call : 1 .. CallCount, kind : Kinds])
        /\ status \in Seq({"waiting", "resolved", "rejected"}) /\ Len(status) = Len(sent)
        /\ rows \in Seq(SUBSET (1 .. Len(sent))) /\ Len(rows) = Len(sent)
        /\ buffer \in Seq([type : {"row", "error", "ready"}, of : 1 .. Len(sent)])
    BY <1>1 DEF Init
  <2> QED
    BY <2>1, <2>2, <2>3 DEF Init, TypeOK
<1> QED
  BY <1>1, <1>2, <1>3
  DEF Init, IInv, AwaitInv, OrderInv, TxnInv, StatusInv, AnswerInv, CleanConnectionAnswersOwn

-----------------------------------------------------------------------------
(* Sending a statement.                                                         *)

LEMMA SendTypes ==
  ASSUME TypeOK, NEW c \in 1 .. CallCount, NEW kind \in Kinds, Send(c, kind), call' = c,
         UNCHANGED <<buffer, serverVars>>, report' = report
  PROVE  /\ TypeOK'
         /\ Len(sent') = Len(sent) + 1 /\ sent' # <<>> /\ DOMAIN status' = 1 .. Len(sent) + 1
         /\ sent'[Len(sent) + 1] = [call |-> c, kind |-> kind]
         /\ status'[Len(sent) + 1] = "waiting" /\ rows'[Len(sent) + 1] = {}
         /\ \A n \in 1 .. Len(sent) : sent'[n] = sent[n] /\ status'[n] = status[n] /\ rows'[n] = rows[n]
<1> DEFINE N == Len(sent)
<1>1. /\ N \in Nat /\ Len(status) = N /\ Len(rows) = N
      /\ sent \in Seq(Statements) /\ status \in Seq(Statuses) /\ rows \in Seq(SUBSET (1 .. N))
  BY Lengths DEF TypeOK, Statements, Statuses
<1>2. 1 .. N \subseteq 1 .. N + 1
  BY <1>1
<1>3. /\ sent' \in Seq(Statements) /\ Len(sent') = N + 1 /\ sent'[N + 1] = [call |-> c, kind |-> kind]
      /\ \A n \in 1 .. N : sent'[n] = sent[n]
  BY <1>1, AppendProperties DEF Send, Statements
<1>4. /\ status' \in Seq(Statuses) /\ Len(status') = N + 1 /\ status'[N + 1] = "waiting"
      /\ \A n \in 1 .. N : status'[n] = status[n]
  BY <1>1, AppendProperties DEF Send, Statuses
<1>5. /\ rows' \in Seq(SUBSET (1 .. N + 1)) /\ Len(rows') = N + 1 /\ rows'[N + 1] = {}
      /\ \A n \in 1 .. N : rows'[n] = rows[n]
  <2>1. rows \in Seq(SUBSET (1 .. N + 1))
    <3>1. SUBSET (1 .. N) \subseteq SUBSET (1 .. N + 1)
      BY <1>2
    <3> QED
      BY <1>1, <3>1, SeqMonotonic
  <2> QED
    BY <1>1, <2>1, AppendProperties DEF Send
<1>6. buffer' \in Seq(Packets(N + 1))
  <2>1. buffer \in Seq(Packets(N)) /\ Packets(N) \subseteq Packets(N + 1)
    BY <1>2 DEF TypeOK, Packets
  <2>2. buffer \in Seq(Packets(N + 1))
    BY <2>1, SeqMonotonic
  <2> QED
    BY <2>2
<1>7. pollers' \subseteq 1 .. N + 1 /\ step' \in Kinds \cup {"free"} /\ call' \in 0 .. CallCount
  <2>1. pollers' = pollers \cup {N + 1} /\ pollers \subseteq 1 .. N
    BY DEF TypeOK, Send
  <2>2. N + 1 \in 1 .. N + 1
    BY <1>1
  <2>3. call' \in 0 .. CallCount
    BY WireAssumption
  <2> QED
    BY <1>2, <2>1, <2>2, <2>3 DEF Send
<1>9. sent' # <<>> /\ DOMAIN status' = 1 .. N + 1
  <2>1. DOMAIN status' = 1 .. Len(status')
    BY <1>4, LenProperties
  <2>2. sent' # <<>>
    BY <1>1, <1>3, EmptySeq
  <2> QED
    BY <1>4, <2>1, <2>2
<1>8. TypeOK'
  <2>1. processed' \in 0 .. N + 1
    BY <1>1 DEF TypeOK, serverVars
  <2>2. /\ txn' \in 0 .. CallCount /\ aborted' \in BOOLEAN /\ committed' \subseteq 1 .. CallCount
        /\ report' \in [1 .. CallCount -> {"none", "ok", "error"}]
    BY DEF TypeOK, serverVars
  <2> QED
    BY <1>3, <1>4, <1>5, <1>6, <1>7, <2>1, <2>2 DEF TypeOK, Statements, Statuses, Packets
<1> QED
  BY <1>3, <1>4, <1>5, <1>8, <1>9

\* A call sends its next statement once the last one is settled.
LEMMA SendOK ==
  ASSUME IInv, NEW c \in 1 .. CallCount, NEW kind \in Kinds, Send(c, kind), call' = c,
         UNCHANGED <<buffer, serverVars>>, report' = report,
         \A n \in DOMAIN status : status[n] # "waiting",
         sent # <<>> /\ sent[Len(sent)].kind \in {"begin", "work"}
           => c = sent[Len(sent)].call /\ kind \in {"work", "commit", "rollback"}
  PROVE  IInv'
<1> DEFINE N == Len(sent)
<1>1. /\ N \in Nat /\ DOMAIN status = 1 .. N /\ (sent # <<>> <=> N > 0)
      /\ processed \in 0 .. N
  BY Lengths DEF IInv, TypeOK
<1>2. /\ TypeOK'
      /\ Len(sent') = N + 1
      /\ sent'[N + 1] = [call |-> c, kind |-> kind]
      /\ status'[N + 1] = "waiting" /\ rows'[N + 1] = {}
      /\ \A n \in 1 .. N : sent'[n] = sent[n] /\ status'[n] = status[n] /\ rows'[n] = rows[n]
  BY SendTypes DEF IInv
<1>3. DOMAIN status' = 1 .. N + 1 /\ sent' # <<>>
  BY SendTypes DEF IInv
<1>4. step' = kind /\ kind # "free" /\ pollers' = pollers \cup {N + 1}
  BY DEF Send, Kinds
<1>5. processed' = processed /\ txn' = txn /\ buffer' = buffer
  BY DEF serverVars
<1> HIDE DEF N
<1>6. AwaitInv'
  BY <1>2, <1>3, <1>4 DEF AwaitInv
<1>7. OrderInv'
  <2> SUFFICES ASSUME NEW n \in 1 .. N, sent'[n].kind \in {"begin", "work"}
               PROVE  sent'[n + 1].call = sent'[n].call /\ sent'[n + 1].kind \in {"work", "commit", "rollback"}
    BY <1>1, <1>2 DEF OrderInv
  <2>1. CASE n = N
    BY <1>1, <1>2, <2>1 DEF N
  <2>2. CASE n # N
    BY <1>1, <1>2, <2>2 DEF IInv, OrderInv, N
  <2> QED
    BY <2>1, <2>2
<1>8. TxnInv'
  BY <1>1, <1>2, <1>5 DEF IInv, TxnInv
<1>9. StatusInv'
  <2> SUFFICES ASSUME NEW n \in 1 .. N + 1
               PROVE  /\ status'[n] = "waiting" => n = N + 1 /\ step' # "free"
                      /\ status'[n] = "resolved" => n \notin pollers'
    BY <1>2, <1>3 DEF StatusInv
  <2>1. CASE n = N + 1
    BY <1>2, <1>4, <2>1
  <2>2. CASE n \in 1 .. N
    BY <1>1, <1>2, <1>4, <2>2 DEF IInv, StatusInv
  <2> QED
    BY <1>1, <2>1, <2>2
<1>10. AnswerInv'
  <2> SUFFICES ASSUME Clean' PROVE processed' = N /\ buffer' = <<>>
    BY <1>1, <1>2 DEF AnswerInv
  <2>1. Clean
    BY <1>1, <1>2, <1>3 DEF Clean
  <2> QED
    BY <1>1, <1>5, <2>1 DEF IInv, AnswerInv, N
<1>11. CleanConnectionAnswersOwn'
  <2> SUFFICES ASSUME NEW n \in 1 .. N + 1, \A m \in 1 .. n : status'[m] = "resolved"
               PROVE  rows'[n] = Own(n)'
    BY <1>3 DEF CleanConnectionAnswersOwn
  <2>1. n \in 1 .. N
    BY <1>1, <1>2
  <2>2. \A m \in 1 .. n : status[m] = "resolved"
    BY <1>1, <1>2, <2>1
  <2>3. rows[n] = Own(n)
    BY <1>1, <2>1, <2>2 DEF IInv, CleanConnectionAnswersOwn
  <2> QED
    BY <1>2, <2>1, <2>3 DEF Own
<1> QED
  BY <1>2, <1>6, <1>7, <1>8, <1>9, <1>10, <1>11 DEF IInv

\* A call is over.
LEMMA ReturnOK ==
  ASSUME IInv, NEW r \in {"ok", "error"}, Return(r), UNCHANGED <<call, status, rows, pollers, buffer, serverVars>>,
         \A n \in DOMAIN status : status[n] # "waiting",
         step \in {"query", "commit", "rollback"}
  PROVE  IInv'
<1>1. TypeOK'
  BY DEF IInv, TypeOK, Return, serverVars
<1>2. AwaitInv'
  BY DEF IInv, AwaitInv, Return
<1> QED
  BY <1>1, <1>2
  DEF IInv, OrderInv, TxnInv, StatusInv, AnswerInv, Clean, CleanConnectionAnswersOwn, Own, Return, serverVars

LEMMA BorrowOK ==
  ASSUME IInv, Borrow
  PROVE  IInv'
<1>1. PICK kind \in {"query", "begin"} : Send(call + 1, kind)
  BY DEF Borrow
<1>2. /\ step = "free" /\ call + 1 \in 1 .. CallCount /\ call' = call + 1
      /\ UNCHANGED <<buffer, serverVars>> /\ report' = report
  BY WireAssumption DEF IInv, TypeOK, Borrow
<1>3. \A n \in DOMAIN status : status[n] # "waiting"
  BY <1>2 DEF IInv, StatusInv
<1>4. ~(sent # <<>> /\ sent[Len(sent)].kind \in {"begin", "work"})
  BY <1>2 DEF IInv, AwaitInv
<1>5. kind \in Kinds
  BY DEF Kinds
<1> QED
  BY <1>1, <1>2, <1>3, <1>4, <1>5, SendOK

LEMMA AdvanceOK ==
  ASSUME IInv, Advance
  PROVE  IInv'
<1>1. /\ sent # <<>> /\ sent[Len(sent)].call = call /\ sent[Len(sent)].kind = step
      /\ call \in 1 .. CallCount
  <2>1. sent # <<>> /\ sent[Len(sent)].call = call /\ sent[Len(sent)].kind = step
    BY DEF IInv, AwaitInv, Advance
  <2>2. sent[Len(sent)] \in Statements
    BY <2>1, Lengths DEF IInv
  <2> QED
    BY <2>1, <2>2 DEF Statements
<1>2. \A n \in DOMAIN status : status[n] # "waiting"
  BY DEF IInv, StatusInv, Advance, Awaited
<1>3. call' = call /\ UNCHANGED <<buffer, serverVars>>
  BY DEF Advance
<1>4. CASE \E kind \in {"work", "commit", "rollback"} : Send(call, kind) /\ UNCHANGED report
  <2>1. PICK kind \in {"work", "commit", "rollback"} : Send(call, kind) /\ UNCHANGED report
    BY <1>4
  <2>2. kind \in Kinds
    BY DEF Kinds
  <2> QED
    BY <1>1, <1>2, <1>3, <2>1, <2>2, SendOK
<1>5. CASE /\ step \in {"query", "commit", "rollback"}
           /\ (Return("ok") \/ Return("error")) /\ UNCHANGED <<status, rows, pollers>>
  BY <1>2, <1>3, <1>5, ReturnOK
<1>6. \/ \E kind \in {"work", "commit", "rollback"} : Send(call, kind) /\ UNCHANGED report
      \/ /\ step \in {"query", "commit", "rollback"}
         /\ (Return("ok") \/ Return("error")) /\ UNCHANGED <<status, rows, pollers>>
  BY DEF Advance
<1> QED
  BY <1>4, <1>5, <1>6

-----------------------------------------------------------------------------
(* The pollers and the timeout.                                                 *)

\* A status once given stays, so a rejection is never forgotten.
LEMMA SettleFacts ==
  ASSUME TypeOK, NEW n \in 1 .. Len(sent), NEW s \in {"resolved", "rejected"}, Settle(n, s)
  PROVE  /\ status' \in Seq(Statuses) /\ Len(status') = Len(sent) /\ DOMAIN status' = 1 .. Len(sent)
         /\ \A m \in 1 .. Len(sent) : status'[m] = IF m = n /\ status[n] = "waiting" THEN s ELSE status[m]
<1>1. status \in Seq(Statuses) /\ Len(status) = Len(sent) /\ Len(sent) \in Nat /\ DOMAIN status = 1 .. Len(sent)
  BY Lengths DEF TypeOK, Statuses
<1>2. CASE status[n] = "waiting"
  <2>1. status' = [status EXCEPT ![n] = s] /\ s \in Statuses
    BY <1>2 DEF Settle, Statuses
  <2>2. /\ status' \in Seq(Statuses) /\ Len(status') = Len(status)
        /\ \A m \in 1 .. Len(status) : status'[m] = IF m = n THEN s ELSE status[m]
    BY <1>1, <2>1, ExceptSeq
  <2> QED
    BY <1>1, <1>2, <2>2, LenProperties
<1>3. CASE status[n] # "waiting"
  BY <1>1, <1>3 DEF Settle
<1> QED
  BY <1>2, <1>3

\* The first packet of the buffer.
LEMMA BufferFacts ==
  ASSUME TypeOK, buffer # <<>>
  PROVE  /\ Head(buffer).type \in {"row", "error", "ready"} /\ Head(buffer).of \in 1 .. Len(sent)
         /\ Tail(buffer) \in Seq([type : {"row", "error", "ready"}, of : 1 .. Len(sent)])
<1>1. buffer \in Seq([type : {"row", "error", "ready"}, of : 1 .. Len(sent)])
  BY DEF TypeOK
<1>2. /\ Head(buffer) \in [type : {"row", "error", "ready"}, of : 1 .. Len(sent)]
      /\ Tail(buffer) \in Seq([type : {"row", "error", "ready"}, of : 1 .. Len(sent)])
  BY <1>1, HeadTailProperties
<1> QED
  BY <1>2

\* A poller collects a row.
LEMMA PollRowOK ==
  ASSUME IInv, NEW n \in pollers, Poll(n), Head(buffer).type = "row"
  PROVE  IInv'
<1>1. /\ buffer # <<>> /\ buffer' = Tail(buffer) /\ rows' = [rows EXCEPT ![n] = @ \cup {Head(buffer).of}]
      /\ UNCHANGED <<call, step, sent, status, pollers, report, processed, txn, aborted, committed>>
  BY DEF Poll, serverVars
<1>2. n \in 1 .. Len(sent) /\ rows \in Seq(SUBSET (1 .. Len(sent))) /\ Len(rows) = Len(sent)
  BY DEF IInv, TypeOK
<1>3. DOMAIN status = 1 .. Len(sent) /\ DOMAIN rows = 1 .. Len(sent) /\ Len(sent) \in Nat
  BY Lengths DEF IInv
<1>4. /\ rows' \in Seq(SUBSET (1 .. Len(sent))) /\ Len(rows') = Len(sent)
      /\ rows'[n] = rows[n] \cup {Head(buffer).of}
      /\ \A m \in 1 .. Len(sent) : m # n => rows'[m] = rows[m]
  <2>1. rows[n] \cup {Head(buffer).of} \in SUBSET (1 .. Len(sent))
    BY <1>1, <1>2, BufferFacts, ElementOfSeq DEF IInv
  <2> QED
    BY <1>1, <1>2, <2>1, ExceptSeq
<1>5. TypeOK'
  BY <1>1, <1>4, BufferFacts DEF IInv, TypeOK
<1>6. AwaitInv' /\ OrderInv' /\ TxnInv' /\ StatusInv'
  BY <1>1 DEF IInv, AwaitInv, OrderInv, TxnInv, StatusInv
<1>7. CleanConnectionAnswersOwn'
  <2> SUFFICES ASSUME NEW k \in 1 .. Len(sent), \A m \in 1 .. k : status[m] = "resolved"
               PROVE  rows'[k] = Own(k)
    BY <1>1, <1>3 DEF CleanConnectionAnswersOwn, Own
  <2>1. status[k] = "resolved" /\ k # n
    BY <1>3 DEF IInv, StatusInv
  <2> QED
    BY <1>3, <1>4, <2>1 DEF IInv, CleanConnectionAnswersOwn
<1>8. AnswerInv'
  <2> DEFINE N == Len(sent)
  <2> SUFFICES ASSUME Clean
               PROVE  /\ N > 0 /\ status[N] = "waiting" /\ processed = N
                      /\ Tail(buffer) = <<Packet("ready", N)>> /\ rows'[N] = Own(N)
    BY <1>1 DEF AnswerInv, Clean, Own
  <2>1. N > 0 /\ status[N] = "waiting"
    BY <1>1 DEF IInv, AnswerInv
  <2>2. /\ processed = N /\ buffer = <<Packet("row", N), Packet("ready", N)>>
        /\ rows[N] = {} /\ Own(N) = {N}
    BY <1>1, <2>1, TupleFacts DEF IInv, AnswerInv, Packet
  <2>3. n = N
    <3>1. status[n] = "waiting"
      BY <1>2, <1>3, Lengths DEF IInv, StatusInv, Clean, Statuses
    <3> QED
      BY <1>2, <1>3, <3>1 DEF IInv, StatusInv
  <2>4. Head(buffer) = Packet("row", N) /\ Tail(buffer) = <<Packet("ready", N)>>
    BY <2>2, TupleFacts
  <2> QED
    BY <1>4, <2>1, <2>2, <2>3, <2>4 DEF Packet
<1> QED
  BY <1>5, <1>6, <1>7, <1>8 DEF IInv

\* A poller meets the end of an answer, its own or another's.
LEMMA PollEndOK ==
  ASSUME IInv, NEW n \in pollers, Poll(n), Head(buffer).type # "row"
  PROVE  IInv'
<1> DEFINE N == Len(sent)
           s == IF Head(buffer).type = "ready" THEN "resolved" ELSE "rejected"
<1>1. /\ buffer # <<>> /\ buffer' = Tail(buffer) /\ Settle(n, s) /\ pollers' = pollers \ {n}
      /\ UNCHANGED <<call, step, sent, rows, report, processed, txn, aborted, committed>>
  BY DEF Poll, serverVars
<1>2. n \in 1 .. N /\ N \in Nat /\ DOMAIN status = 1 .. N
  BY Lengths DEF IInv, TypeOK
<1>3. s \in {"resolved", "rejected"}
  OBVIOUS
<1>4. /\ status' \in Seq(Statuses) /\ Len(status') = N /\ DOMAIN status' = 1 .. N
      /\ \A m \in 1 .. N : status'[m] = IF m = n /\ status[n] = "waiting" THEN s ELSE status[m]
  BY <1>1, <1>2, <1>3, SettleFacts DEF IInv
<1>5. TypeOK'
  BY <1>1, <1>4, BufferFacts DEF IInv, TypeOK, Statuses
<1>6. AwaitInv' /\ OrderInv' /\ TxnInv'
  BY <1>1 DEF IInv, AwaitInv, OrderInv, TxnInv
<1>7. StatusInv'
  BY <1>1, <1>2, <1>3, <1>4 DEF IInv, StatusInv
<1>8. CASE Clean
  <2>1. status[n] = "waiting"
    BY <1>2, <1>8, Lengths DEF IInv, StatusInv, Clean, Statuses
  <2>2. n = N
    BY <1>2, <2>1 DEF IInv, StatusInv
  <2>3. /\ processed = N
        /\ \/ buffer = <<Packet("ready", N)>> /\ rows[N] = Own(N)
           \/ buffer = <<Packet("error", N), Packet("ready", N)>>
    BY <1>1, <1>2, <1>8, <2>1, <2>2, TupleFacts DEF IInv, AnswerInv, Packet
  <2>4. CASE buffer = <<Packet("ready", N)>> /\ rows[N] = Own(N)
    <3>1. s = "resolved" /\ buffer' = <<>>
      BY <1>1, <2>4, TupleFacts DEF Packet
    <3>2. AnswerInv'
      BY <1>1, <1>2, <1>4, <2>1, <2>2, <2>3, <3>1 DEF AnswerInv
    <3>3. CleanConnectionAnswersOwn'
      <4> SUFFICES ASSUME NEW k \in 1 .. N, \A m \in 1 .. k : status'[m] = "resolved"
                   PROVE  rows[k] = Own(k)
        BY <1>1, <1>4 DEF CleanConnectionAnswersOwn, Own
      <4>1. CASE k = N
        BY <2>4, <4>1
      <4>2. CASE k # N
        <5>1. \A m \in 1 .. k : status[m] = "resolved"
          <6> SUFFICES ASSUME NEW m \in 1 .. k
                       PROVE  status[m] = "resolved"
            OBVIOUS
          <6>1. m \in 1 .. N /\ m # n
            BY <1>2, <2>2, <4>2
          <6> QED
            BY <1>4, <6>1
        <5> QED
          BY <1>2, <5>1 DEF IInv, CleanConnectionAnswersOwn
      <4> QED
        BY <4>1, <4>2
    <3> QED
      BY <1>5, <1>6, <1>7, <3>2, <3>3 DEF IInv
  <2>5. CASE buffer = <<Packet("error", N), Packet("ready", N)>>
    <3>1. s = "rejected"
      BY <2>5, TupleFacts DEF Packet
    <3>2. status'[N] = "rejected" /\ N \in DOMAIN status'
      BY <1>2, <1>4, <2>1, <2>2, <3>1
    <3>3. AnswerInv'
      BY <3>2 DEF AnswerInv, Clean
    <3>4. CleanConnectionAnswersOwn'
      <4> SUFFICES ASSUME NEW k \in 1 .. N, \A m \in 1 .. k : status'[m] = "resolved"
                   PROVE  rows[k] = Own(k)
        BY <1>1, <1>4 DEF CleanConnectionAnswersOwn, Own
      <4>1. \A m \in 1 .. k : status[m] = "resolved"
        <5> SUFFICES ASSUME NEW m \in 1 .. k
                     PROVE  status[m] = "resolved"
          OBVIOUS
        <5>1. m \in 1 .. N /\ m # N
          BY <1>2, <3>2
        <5> QED
          BY <1>4, <2>2, <5>1
      <4> QED
        BY <1>2, <4>1 DEF IInv, CleanConnectionAnswersOwn
    <3> QED
      BY <1>5, <1>6, <1>7, <3>3, <3>4 DEF IInv
  <2> QED
    BY <2>3, <2>4, <2>5
<1>9. CASE ~Clean
  <2>1. PICK d \in 1 .. N : status[d] = "rejected"
    BY <1>2, <1>9 DEF Clean
  <2>2. status'[d] = "rejected"
    BY <1>4, <2>1
  <2>3. AnswerInv'
    BY <1>4, <2>2 DEF AnswerInv, Clean
  <2>4. CleanConnectionAnswersOwn'
    <3> SUFFICES ASSUME NEW k \in 1 .. N, \A m \in 1 .. k : status'[m] = "resolved"
                 PROVE  rows[k] = Own(k)
      BY <1>1, <1>4 DEF CleanConnectionAnswersOwn, Own
    <3>1. k < d
      BY <1>2, <2>2
    <3>2. \A m \in 1 .. k : status[m] = "resolved"
      <4> SUFFICES ASSUME NEW m \in 1 .. k, m = n, status[n] = "waiting"
                   PROVE  FALSE
        BY <1>2, <1>4, <3>1
      <4>1. n = N
        BY <1>2 DEF IInv, StatusInv
      <4> QED
        BY <1>2, <3>1, <4>1
    <3> QED
      BY <1>2, <3>2 DEF IInv, CleanConnectionAnswersOwn
  <2> QED
    BY <1>5, <1>6, <1>7, <2>3, <2>4 DEF IInv
<1> QED
  BY <1>8, <1>9

LEMMA TimeOutOK ==
  ASSUME IInv, TimeOut
  PROVE  IInv'
<1> DEFINE N == Len(sent)
<1>1. /\ step # "free" /\ status[N] = "waiting" /\ status' = [status EXCEPT ![N] = "rejected"]
      /\ UNCHANGED <<call, step, sent, rows, pollers, buffer, report, processed, txn, aborted, committed>>
  BY DEF TimeOut, Awaited, serverVars
<1>2. N \in Nat /\ DOMAIN status = 1 .. N /\ N \in 1 .. N
  BY <1>1, Lengths DEF IInv, AwaitInv
<1>3. Settle(N, "rejected")
  BY <1>1 DEF Settle
<1>4. /\ status' \in Seq(Statuses) /\ Len(status') = N /\ DOMAIN status' = 1 .. N
      /\ \A m \in 1 .. N : status'[m] = IF m = N /\ status[N] = "waiting" THEN "rejected" ELSE status[m]
  BY <1>2, <1>3, SettleFacts DEF IInv
<1>5. TypeOK'
  BY <1>1, <1>4 DEF IInv, TypeOK, Statuses
<1>6. AwaitInv' /\ OrderInv' /\ TxnInv'
  BY <1>1 DEF IInv, AwaitInv, OrderInv, TxnInv
<1>7. StatusInv'
  BY <1>1, <1>2, <1>4 DEF IInv, StatusInv
<1>8. AnswerInv'
  BY <1>1, <1>2, <1>4 DEF AnswerInv, Clean
<1>9. CleanConnectionAnswersOwn'
  <2> SUFFICES ASSUME NEW k \in 1 .. N, \A m \in 1 .. k : status'[m] = "resolved"
               PROVE  rows[k] = Own(k)
    BY <1>1, <1>4 DEF CleanConnectionAnswersOwn, Own
  <2>1. \A m \in 1 .. k : status[m] = "resolved"
    <3> SUFFICES ASSUME NEW m \in 1 .. k
                 PROVE  status[m] = "resolved"
      OBVIOUS
    <3>1. m \in 1 .. N /\ status'[m] # "rejected"
      BY <1>2
    <3> QED
      BY <1>4, <3>1
  <2> QED
    BY <1>2, <2>1 DEF IInv, CleanConnectionAnswersOwn
<1> QED
  BY <1>5, <1>6, <1>7, <1>8, <1>9 DEF IInv

-----------------------------------------------------------------------------
(* The backend.                                                                 *)

\* The backend answers with a row or not, and a ready packet, or with an error in front.
Answers(n) ==
  {<<Packet("ready", n)>>, <<Packet("row", n), Packet("ready", n)>>, <<Packet("error", n), Packet("ready", n)>>}

LEMMA ProcessFacts ==
  ASSUME Process
  PROVE  \E answer \in Answers(processed + 1) :
           /\ buffer' = buffer \o answer
           /\ answer = <<Packet("ready", processed + 1)>> => Own(processed + 1) = {}
           /\ answer = <<Packet("row", processed + 1), Packet("ready", processed + 1)>> => Own(processed + 1) = {processed + 1}
<1> DEFINE n == processed + 1
           row == Packet("row", n)
           error == Packet("error", n)
           ready == Packet("ready", n)
<1>1. /\ <<>> \o <<ready>> = <<ready>> /\ <<row>> \o <<ready>> = <<row, ready>>
      /\ Len(<<ready>>) = 1 /\ Len(<<row, ready>>) = 2 /\ Len(<<error, ready>>) = 2
  <2> HIDE DEF row, error, ready
  <2>1. row \in {row, error, ready} /\ error \in {row, error, ready} /\ ready \in {row, error, ready}
    OBVIOUS
  <2> QED
    BY <2>1, SmallSequences
<1>2. row # error
  BY DEF Packet
<1>3. <<error, ready>> # <<row, ready>>
  BY <1>2
<1>4. Succeeded(n) = IF sent[n].kind \in {"query", "work"} THEN <<row, ready>> ELSE <<ready>>
  BY <1>1 DEF Succeeded
<1>5. Refused(n) = <<error, ready>> /\ Answers(n) = {<<ready>>, <<row, ready>>, <<error, ready>>}
  BY DEF Refused, Answers
<1>6. Own(n) = IF sent[n].kind \in {"query", "work"} THEN {n} ELSE {}
  BY DEF Own
<1>7. buffer' = buffer \o Succeeded(n) \/ buffer' = buffer \o Refused(n)
  BY DEF Process
<1> HIDE DEF n, row, error, ready
<1>8. \E answer \in Answers(n) :
        /\ buffer' = buffer \o answer
        /\ answer = <<ready>> => Own(n) = {}
        /\ answer = <<row, ready>> => Own(n) = {n}
  <2>1. CASE buffer' = buffer \o Succeeded(n)
    BY <1>1, <1>4, <1>5, <1>6, <2>1
  <2>2. CASE buffer' = buffer \o Refused(n)
    BY <1>1, <1>3, <1>5, <2>2
  <2> QED
    BY <1>7, <2>1, <2>2
<1> QED
  BY <1>8 DEF n, row, error, ready

LEMMA ProcessOK ==
  ASSUME IInv, Process
  PROVE  IInv'
<1> DEFINE N == Len(sent)
           n == processed + 1
<1>1. N \in Nat /\ processed \in 0 .. N /\ n \in 1 .. N /\ processed' = n
  BY Lengths DEF IInv, TypeOK, Process
<1>2. UNCHANGED <<call, step, sent, status, rows, pollers, report>>
  BY DEF Process, clientVars
<1>3. sent[n] \in Statements
  BY <1>1, Lengths DEF IInv
<1>4. PICK answer \in Answers(n) :
        /\ buffer' = buffer \o answer
        /\ answer = <<Packet("ready", n)>> => Own(n) = {}
        /\ answer = <<Packet("row", n), Packet("ready", n)>> => Own(n) = {n}
  BY ProcessFacts
<1> HIDE DEF n, N
<1>11. answer \in Seq(Packets(N))
  <2>1. Packet("row", n) \in Packets(N) /\ Packet("error", n) \in Packets(N) /\ Packet("ready", n) \in Packets(N)
    BY <1>1 DEF Packets, Packet
  <2> QED
    BY <1>4, <2>1, SmallSequences, ZenonT(60) DEF Answers
<1>5. buffer' \in Seq(Packets(N))
  <2>1. buffer \in Seq(Packets(N))
    BY DEF IInv, TypeOK, Packets, N
  <2> QED
    BY <1>4, <1>11, <2>1, ConcatProperties
<1>6. /\ txn' \in {0, txn, sent[n].call} /\ aborted' \in BOOLEAN /\ committed' \subseteq committed \cup {txn}
      /\ committed' # committed => txn # 0
      /\ txn' # 0 => \/ sent[n].kind = "begin" /\ txn' = sent[n].call
                     \/ sent[n].kind \in {"query", "work"} /\ txn' = txn
  BY DEF Process, IInv, TypeOK, n
<1>7. TypeOK'
  <2>1. txn' \in 0 .. CallCount /\ committed' \subseteq 1 .. CallCount
    BY <1>3, <1>6, WireAssumption DEF IInv, TypeOK, Statements
  <2> QED
    BY <1>1, <1>2, <1>5, <1>6, <2>1 DEF IInv, TypeOK, Packets, N
<1>8. AwaitInv' /\ OrderInv' /\ StatusInv' /\ CleanConnectionAnswersOwn'
  BY <1>2 DEF IInv, AwaitInv, OrderInv, StatusInv, CleanConnectionAnswersOwn, Own
<1>9. TxnInv'
  <2> SUFFICES ASSUME txn' # 0
               PROVE  sent[n].call = txn' /\ sent[n].kind \in {"begin", "work"}
    BY <1>1, <1>2 DEF TxnInv
  <2>1. CASE sent[n].kind = "begin" /\ txn' = sent[n].call
    BY <2>1
  <2>2. CASE sent[n].kind \in {"query", "work"} /\ txn' = txn
    <3>1. processed > 0 /\ sent[processed].call = txn /\ sent[processed].kind \in {"begin", "work"}
      BY <2>2 DEF IInv, TxnInv
    <3>2. processed \in 1 .. Len(sent) - 1
      BY <1>1, <3>1 DEF N, n
    <3>3. sent[n].call = txn /\ sent[n].kind \in {"work", "commit", "rollback"}
      BY <3>1, <3>2 DEF IInv, OrderInv, n
    <3> QED
      BY <2>2, <3>3
  <2> QED
    BY <1>6, <2>1, <2>2
<1>10. AnswerInv'
  <2> SUFFICES ASSUME Clean
               PROVE  /\ N > 0 /\ status[N] = "waiting" /\ n = N
                      /\ \/ buffer' = <<Packet("row", N), Packet("ready", N)>> /\ rows[N] = {} /\ Own(N) = {N}
                         \/ buffer' = <<Packet("ready", N)>> /\ rows[N] = Own(N)
                         \/ buffer' = <<Packet("error", N), Packet("ready", N)>>
    BY <1>1, <1>2 DEF AnswerInv, Clean, Own, N
  <2>1. N > 0 /\ status[N] = "waiting" /\ processed = N - 1 /\ buffer = <<>> /\ rows[N] = {}
    BY <1>1 DEF IInv, AnswerInv, N, n
  <2>2. n = N
    BY <1>1, <2>1 DEF n
  <2>3. buffer' = answer
    BY <1>4, <1>11, <2>1, ConcatEmptySeq
  <2> QED
    BY <1>4, <2>1, <2>2, <2>3 DEF Answers
<1> QED
  BY <1>7, <1>8, <1>9, <1>10 DEF IInv

-----------------------------------------------------------------------------
LEMMA StepOK == IInv /\ [Next]_vars => IInv'
<1> SUFFICES ASSUME IInv, [Next]_vars PROVE IInv'
  OBVIOUS
<1>1. CASE UNCHANGED vars
  BY <1>1
  DEF vars, IInv, TypeOK, AwaitInv, OrderInv, TxnInv, StatusInv, AnswerInv, Clean, CleanConnectionAnswersOwn, Own
<1>2. CASE Next
  <2>1. CASE \E n \in pollers : Poll(n)
    BY <2>1, PollRowOK, PollEndOK
  <2> QED
    BY <1>2, <2>1, BorrowOK, AdvanceOK, TimeOutOK, ProcessOK DEF Next
<1> QED
  BY <1>1, <1>2

LEMMA Inductive == Spec => []IInv
BY InitOK, StepOK, PTL DEF Spec

-----------------------------------------------------------------------------
(* The theorems.                                                                *)

\* The variables keep their types: every statement has one status and one set of rows.
THEOREM TypeCorrect == Spec => []TypeOK
<1>1. IInv => TypeOK
  BY DEF IInv
<1> QED
  BY <1>1, Inductive, PTL

\* PostgresClient.query: until something fails or times out, each statement is
\* answered with exactly its own rows.
THEOREM CleanConnectionsAnswer == Spec => []CleanConnectionAnswersOwn
<1>1. IInv => CleanConnectionAnswersOwn
  BY DEF IInv
<1> QED
  BY <1>1, Inductive, PTL

\* PostgresPool.transaction: however the answers are mixed up, the backend carries out
\* no statement of one call inside the transaction of another.
THEOREM TransactionsAreSeparate == Spec => TransactionsDoNotMix
<1>1. IInv /\ [Next]_vars => [processed' # processed => txn \in {0, sent[processed + 1].call}]_vars
  <2> SUFFICES ASSUME IInv, Next, processed' # processed, txn # 0
               PROVE  txn = sent[processed + 1].call
    BY DEF vars
  <2>1. Process
    BY DEF Next, Borrow, Advance, TimeOut, Poll, serverVars
  <2>2. processed \in 1 .. Len(sent) - 1
    BY <2>1, Lengths DEF IInv, TypeOK, TxnInv, Process
  <2> QED
    BY <2>2 DEF IInv, TxnInv, OrderInv
<1> QED
  BY <1>1, Inductive, PTL DEF Spec, TransactionsDoNotMix

-----------------------------------------------------------------------------
(* The lag.                                                                     *)

\* The ready packets in a sequence of packets.
ReadyIn(packets) == {i \in DOMAIN packets : packets[i].type = "ready"}

LEMMA ReadyIsFinite ==
  ASSUME NEW S, NEW packets \in Seq(S)
  PROVE  IsFiniteSet(ReadyIn(packets)) /\ Cardinality(ReadyIn(packets)) \in Nat
<1>1. Len(packets) \in Nat /\ ReadyIn(packets) \subseteq 1 .. Len(packets)
  BY LenProperties DEF ReadyIn
<1>2. IsFiniteSet(1 .. Len(packets))
  BY <1>1, FS_Interval
<1> QED
  BY <1>1, <1>2, FS_Subset, FS_CardinalityType

\* Taking the first packet takes one ready packet, if it is one.
LEMMA TailCount ==
  ASSUME NEW S, NEW packets \in Seq(S), packets # <<>>
  PROVE  Cardinality(ReadyIn(Tail(packets))) =
           Cardinality(ReadyIn(packets)) - (IF Head(packets).type = "ready" THEN 1 ELSE 0)
<1> DEFINE rest == ReadyIn(Tail(packets))
           later == ReadyIn(packets) \ {1}
           f == [i \in rest |-> i + 1]
<1>1. /\ Len(packets) \in Nat \ {0} /\ DOMAIN packets = 1 .. Len(packets)
      /\ Tail(packets) \in Seq(S) /\ Len(Tail(packets)) = Len(packets) - 1
      /\ DOMAIN Tail(packets) = 1 .. Len(packets) - 1
      /\ \A i \in 1 .. Len(packets) - 1 : Tail(packets)[i] = packets[i + 1]
      /\ Head(packets) = packets[1]
  BY EmptySeq, LenProperties, HeadTailProperties
<1>2. \A i \in rest : i \in 1 .. Len(packets) - 1 /\ i + 1 \in later
  BY <1>1 DEF ReadyIn
<1>3. \A j \in later : j - 1 \in rest /\ (j - 1) + 1 = j
  <2> SUFFICES ASSUME NEW j \in later
               PROVE  j - 1 \in rest /\ (j - 1) + 1 = j
    OBVIOUS
  <2>1. j \in 2 .. Len(packets) /\ packets[j].type = "ready"
    BY <1>1 DEF ReadyIn
  <2>2. j - 1 \in 1 .. Len(packets) - 1 /\ (j - 1) + 1 = j
    BY <1>1, <2>1
  <2>3. Tail(packets)[j - 1] = packets[j]
    BY <1>1, <2>2
  <2> QED
    BY <1>1, <2>1, <2>2, <2>3 DEF ReadyIn
<1> HIDE DEF rest, later
<1>4. f \in Bijection(rest, later)
  <2>1. f \in [rest -> later]
    BY <1>2
  <2>2. \A a, b \in rest : f[a] = f[b] => a = b
    BY <1>2
  <2>3. \A t \in later : \E a \in rest : f[a] = t
    BY <1>3
  <2> QED
    BY <2>1, <2>2, <2>3, Fun_IsBij
<1>5. IsFiniteSet(rest) /\ IsFiniteSet(ReadyIn(packets)) /\ Cardinality(ReadyIn(packets)) \in Nat
  BY <1>1, ReadyIsFinite DEF rest
<1>6. Cardinality(later) = Cardinality(rest)
  BY <1>4, <1>5, FS_Bijection DEF ExistsBijection
<1>7. Cardinality(later) = IF 1 \in ReadyIn(packets) THEN Cardinality(ReadyIn(packets)) - 1 ELSE Cardinality(ReadyIn(packets))
  BY <1>5, FS_RemoveElement DEF later
<1>8. 1 \in ReadyIn(packets) <=> Head(packets).type = "ready"
  BY <1>1 DEF ReadyIn
<1> QED
  BY <1>5, <1>6, <1>7, <1>8 DEF rest

\* Every answer brings one ready packet.
LEMMA AnswerCount ==
  ASSUME NEW S, NEW packets \in Seq(S), NEW answer \in Seq(S), answer # <<>>,
         \A i \in DOMAIN answer : answer[i].type = "ready" <=> i = Len(answer)
  PROVE  Cardinality(ReadyIn(packets \o answer)) = Cardinality(ReadyIn(packets)) + 1
<1> DEFINE all == packets \o answer
           last == Len(packets) + Len(answer)
<1>1. /\ Len(packets) \in Nat /\ DOMAIN packets = 1 .. Len(packets)
      /\ Len(answer) \in Nat \ {0} /\ DOMAIN answer = 1 .. Len(answer)
  BY LenProperties, EmptySeq
<1>2. /\ all \in Seq(S) /\ Len(all) = last
      /\ \A i \in 1 .. last : all[i] = IF i <= Len(packets) THEN packets[i] ELSE answer[i - Len(packets)]
  BY ConcatProperties
<1>3. DOMAIN all = 1 .. last
  BY <1>2, LenProperties
<1> HIDE DEF all
<1>4. ReadyIn(all) = ReadyIn(packets) \cup {last}
  <2>1. ASSUME NEW i \in 1 .. last
        PROVE  i \in ReadyIn(all) <=> i \in ReadyIn(packets) \cup {last}
    <3>1. CASE i <= Len(packets)
      BY <1>1, <1>2, <1>3, <2>1, <3>1 DEF ReadyIn
    <3>2. CASE i > Len(packets)
      <4>1. i - Len(packets) \in DOMAIN answer /\ all[i] = answer[i - Len(packets)]
        BY <1>1, <1>2, <2>1, <3>2
      <4>2. i \in ReadyIn(all) <=> i = last
        BY <1>1, <1>3, <2>1, <4>1 DEF ReadyIn
      <4>3. i \notin ReadyIn(packets)
        BY <1>1, <3>2 DEF ReadyIn
      <4> QED
        BY <4>2, <4>3
    <3> QED
      BY <1>1, <2>1, <3>1, <3>2
  <2>2. ReadyIn(all) \subseteq 1 .. last /\ ReadyIn(packets) \cup {last} \subseteq 1 .. last
    BY <1>1, <1>3 DEF ReadyIn
  <2> QED
    BY <2>1, <2>2
<1>5. last \notin ReadyIn(packets) /\ IsFiniteSet(ReadyIn(packets)) /\ Cardinality(ReadyIn(packets)) \in Nat
  <2>1. last \notin ReadyIn(packets)
    BY <1>1 DEF ReadyIn
  <2> QED
    BY <2>1, ReadyIsFinite
<1> HIDE DEF last
<1>6. Cardinality(ReadyIn(all)) = Cardinality(ReadyIn(packets)) + 1
  BY <1>4, <1>5, FS_AddElement
<1> QED
  BY <1>6 DEF all

\* What the lag is made of.
LEMMA LagParts ==
  ASSUME TypeOK
  PROVE  /\ buffer \in Seq(Packets(Len(sent)))
         /\ ReadyPackets = ReadyIn(buffer) /\ Cardinality(ReadyPackets) \in Nat
         /\ IsFiniteSet(pollers) /\ Cardinality(pollers) \in Nat
         /\ Len(sent) \in Nat /\ processed \in Nat
<1>1. buffer \in Seq(Packets(Len(sent))) /\ Len(sent) \in Nat /\ processed \in Nat /\ pollers \subseteq 1 .. Len(sent)
  BY Lengths DEF TypeOK, Packets
<1>2. ReadyPackets = ReadyIn(buffer)
  BY DEF ReadyPackets, ReadyIn
<1>3. IsFiniteSet(1 .. Len(sent))
  BY <1>1, FS_Interval
<1> QED
  BY <1>1, <1>2, <1>3, ReadyIsFinite, FS_Subset, FS_CardinalityType

\* A statement adds an answer to come and a poller.
LEMMA SendLag ==
  ASSUME TypeOK, NEW c \in 1 .. CallCount, NEW kind \in Kinds, Send(c, kind), UNCHANGED <<buffer, processed>>
  PROVE  Lag' = Lag
<1>1. Len(sent') = Len(sent) + 1
  <2>1. sent \in Seq(Statements) /\ [call |-> c, kind |-> kind] \in Statements
    BY DEF TypeOK, Statements
  <2> QED
    BY <2>1, AppendProperties DEF Send
<1>2. pollers' = pollers \cup {Len(sent) + 1} /\ Len(sent) + 1 \notin pollers
  BY Lengths DEF Send, TypeOK
<1>3. Cardinality(pollers') = Cardinality(pollers) + 1
  BY <1>2, LagParts, FS_AddElement
<1>4. Cardinality(ReadyPackets') = Cardinality(ReadyPackets) /\ processed' = processed
  BY DEF ReadyPackets
<1> QED
  BY <1>1, <1>3, <1>4, LagParts DEF Lag

\* A poller takes a ready packet and stops, or stops without one.
LEMMA PollLag ==
  ASSUME TypeOK, NEW n \in pollers, Poll(n)
  PROVE  Lag' >= Lag
<1>1. buffer # <<>> /\ buffer' = Tail(buffer) /\ UNCHANGED <<sent, processed>>
  BY DEF Poll, serverVars
<1>2. Cardinality(ReadyPackets') = Cardinality(ReadyPackets) - (IF Head(buffer).type = "ready" THEN 1 ELSE 0)
  <2>1. ReadyPackets' = ReadyIn(Tail(buffer)) /\ ReadyPackets = ReadyIn(buffer)
    BY <1>1 DEF ReadyPackets, ReadyIn
  <2> QED
    BY <1>1, <2>1, LagParts, TailCount
<1>3. Cardinality(pollers') = IF Head(buffer).type = "row" THEN Cardinality(pollers) ELSE Cardinality(pollers) - 1
  <2>1. CASE Head(buffer).type = "row"
    BY <2>1 DEF Poll
  <2>2. CASE Head(buffer).type # "row"
    <3>1. pollers' = pollers \ {n}
      BY <2>2 DEF Poll
    <3> QED
      BY <2>2, <3>1, LagParts, FS_RemoveElement
  <2> QED
    BY <2>1, <2>2
<1> QED
  BY <1>1, <1>2, <1>3, LagParts DEF Lag

\* An answer is carried out and sent.
LEMMA ProcessLag ==
  ASSUME TypeOK, Process
  PROVE  Lag' = Lag
<1> DEFINE n == processed + 1
<1>1. processed' = processed + 1 /\ UNCHANGED <<sent, pollers>> /\ n \in 1 .. Len(sent)
  BY Lengths DEF TypeOK, Process, clientVars
<1>2. PICK answer \in Answers(n) : buffer' = buffer \o answer
  BY ProcessFacts
<1> HIDE DEF n
<1>3. /\ Packet("row", n) \in Packets(Len(sent)) /\ Packet("error", n) \in Packets(Len(sent))
      /\ Packet("ready", n) \in Packets(Len(sent))
  BY <1>1 DEF Packets, Packet
<1>4. answer \in Seq(Packets(Len(sent))) /\ Len(answer) \in {1, 2}
  BY <1>2, <1>3, SmallSequences DEF Answers
<1>5. answer # <<>> /\ \A i \in DOMAIN answer : answer[i].type = "ready" <=> i = Len(answer)
  <2>1. CASE answer = <<Packet("ready", n)>>
    BY <2>1 DEF Packet
  <2>2. CASE answer = <<Packet("row", n), Packet("ready", n)>>
    BY <2>2 DEF Packet
  <2>3. CASE answer = <<Packet("error", n), Packet("ready", n)>>
    BY <2>3 DEF Packet
  <2> QED
    BY <1>2, <2>1, <2>2, <2>3 DEF Answers
<1>6. Cardinality(ReadyPackets') = Cardinality(ReadyPackets) + 1
  <2>1. ReadyPackets' = ReadyIn(buffer \o answer) /\ ReadyPackets = ReadyIn(buffer)
    BY <1>2 DEF ReadyPackets, ReadyIn
  <2> QED
    BY <1>4, <1>5, <2>1, LagParts, AnswerCount
<1> QED
  BY <1>1, <1>6, LagParts, SMTT(30) DEF Lag

\* PostgresClient.query: a connection that lags behind its statements lags for ever.
THEOREM LagStays == Spec => LagIsPermanent
<1>1. IInv /\ [Next]_vars => [Lag' >= Lag]_vars
  <2> SUFFICES ASSUME IInv, Next PROVE Lag' >= Lag
    BY DEF vars
  <2>1. TypeOK /\ Lag \in Int
    BY LagParts DEF IInv, Lag
  <2>2. CASE Borrow
    <3>1. PICK kind \in {"query", "begin"} : Send(call + 1, kind)
      BY <2>2 DEF Borrow
    <3>2. call + 1 \in 1 .. CallCount /\ kind \in Kinds /\ UNCHANGED <<buffer, processed>>
      BY <2>2, WireAssumption DEF IInv, TypeOK, Borrow, Kinds, serverVars
    <3> QED
      BY <2>1, <3>1, <3>2, SendLag
  <2>3. CASE Advance
    <3>1. UNCHANGED <<buffer, processed>> /\ step \in Kinds
      BY <2>1, <2>3 DEF Advance, serverVars, TypeOK
    <3>2. call \in 1 .. CallCount
      <4>1. sent # <<>> /\ sent[Len(sent)].call = call
        BY <2>3 DEF IInv, AwaitInv, Advance
      <4>2. sent[Len(sent)] \in Statements
        BY <2>1, <4>1, Lengths
      <4> QED
        BY <4>1, <4>2 DEF Statements
    <3>3. \/ \E kind \in {"work", "commit", "rollback"} : Send(call, kind)
          \/ UNCHANGED <<sent, pollers>>
      BY <2>3 DEF Advance, Return
    <3>4. ASSUME NEW kind \in {"work", "commit", "rollback"}, Send(call, kind)
          PROVE  Lag' >= Lag
      <4>1. kind \in Kinds
        BY DEF Kinds
      <4> QED
        BY <2>1, <3>1, <3>2, <3>4, <4>1, SendLag
    <3>5. CASE UNCHANGED <<sent, pollers>>
      BY <2>1, <3>1, <3>5 DEF Lag, ReadyPackets
    <3> QED
      BY <3>3, <3>4, <3>5
  <2>4. CASE TimeOut
    BY <2>1, <2>4 DEF TimeOut, serverVars, Lag, ReadyPackets
  <2>5. CASE Process
    BY <2>1, <2>5, ProcessLag
  <2>6. CASE \E n \in pollers : Poll(n)
    BY <2>1, <2>6, PollLag
  <2> QED
    BY <2>2, <2>3, <2>4, <2>5, <2>6 DEF Next
<1> QED
  BY <1>1, Inductive, PTL DEF Spec, LagIsPermanent
=============================================================================
