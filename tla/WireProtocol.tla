---------------------------- MODULE WireProtocol ----------------------------
(* One PostgreSQL connection: PostgresClient.query and PostgresPool.transaction   *)
(* on this side, the backend process on the other.                              *)
(*                                                                              *)
(* The pool lends the connection to one call at a time.  Every statement sent     *)
(* starts a poller that takes packets off the connection's buffer; it stops at    *)
(* the first error or ready packet it meets.  A statement that times out leaves   *)
(* its poller behind, and a poller that stops at an error leaves the ready packet *)
(* that follows the error for somebody else.                                    *)
(*                                                                              *)
(* The backend answers in order: a row for a query, then "ready"; or an error,    *)
(* then "ready".  Row descriptions and completion tags, which the client skips,   *)
(* are left out.                                                                *)
EXTENDS Naturals, Sequences, FiniteSets

CONSTANTS
  CallCount,  \* the calls that borrow the connection, one after the other
  Timeouts    \* whether statements may time out; if not, only one poller runs at a time

ASSUME WireAssumption == CallCount \in Nat \ {0} /\ Timeouts \in BOOLEAN

VARIABLES
  call,       \* the number of the latest call
  step,       \* what the call awaits: "free" when no call holds the connection
  sent,       \* every statement sent on the connection, with its call and kind
  status,     \* what the client made of each: "waiting", "resolved", "rejected"
  rows,       \* the rows each poller has collected: the statements they belong to
  pollers,    \* the statements whose poller still runs
  buffer,     \* the packets on their way to the client or in its buffer
  processed,  \* how many statements the backend has carried out
  txn,        \* the call whose transaction is open in the backend, 0 if none
  aborted,    \* that transaction has failed
  committed,  \* the calls whose transaction the backend has committed
  report      \* what each call returned

vars == <<call, step, sent, status, rows, pollers, buffer, processed, txn, aborted, committed, report>>

clientVars == <<call, step, sent, status, rows, pollers, report>>
serverVars == <<processed, txn, aborted, committed>>

Kinds == {"query", "begin", "work", "commit", "rollback"}

-----------------------------------------------------------------------------
(* The calls.                                                                   *)

\* Mutant of Send: the statements share one array of rows.
SendSharesRows(c, kind) ==
  /\ sent' = Append(sent, [call |-> c, kind |-> kind])
  /\ status' = Append(status, "waiting")
  /\ rows' = IF rows = <<>> THEN <<{}>> ELSE rows
  /\ pollers' = pollers \cup {Len(sent) + 1}
  /\ step' = kind

\* client.query: the statement is written and its poller started.
Send(c, kind) ==
  /\ sent' = Append(sent, [call |-> c, kind |-> kind])
  /\ status' = Append(status, "waiting")
  /\ rows' = Append(rows, {})
  /\ pollers' = pollers \cup {Len(sent) + 1}
  /\ step' = kind

\* A call gets the connection: pool.query sends its statement, pool.transaction
\* sends BEGIN.
Borrow ==
  /\ step = "free"
  /\ call < CallCount
  /\ call' = call + 1
  /\ \E kind \in {"query", "begin"} : Send(call + 1, kind)
  /\ UNCHANGED <<buffer, serverVars, report>>

\* The call is over and the connection released.
Return(r) ==
  /\ report' = [report EXCEPT ![call] = r]
  /\ step' = "free"
  /\ UNCHANGED sent

\* The statement the call awaits has just been answered or has failed.
Awaited == status[Len(sent)] # "waiting"

\* Mutant of Advance: a transaction that fails is given back without ROLLBACK.
AdvanceWithoutRollback ==
  /\ step # "free" /\ Awaited
  /\ \/ /\ status[Len(sent)] = "resolved"
        /\ \/ step = "begin" /\ Send(call, "work") /\ UNCHANGED report
           \/ step = "work" /\ Send(call, "commit") /\ UNCHANGED report
           \/ step \in {"query", "commit"} /\ Return("ok") /\ UNCHANGED <<status, rows, pollers>>
     \/ /\ status[Len(sent)] = "rejected"
        /\ Return("error") /\ UNCHANGED <<status, rows, pollers>>
  /\ UNCHANGED <<call, buffer, serverVars>>

\* transaction(): BEGIN, the callback's statement, COMMIT; whatever fails leads to
\* ROLLBACK, whose own outcome is ignored, before the connection is released.
Advance ==
  /\ step # "free" /\ Awaited
  /\ \/ /\ status[Len(sent)] = "resolved"
        /\ \/ step = "begin" /\ Send(call, "work") /\ UNCHANGED report
           \/ step = "work" /\ Send(call, "commit") /\ UNCHANGED report
           \/ step \in {"query", "commit"} /\ Return("ok") /\ UNCHANGED <<status, rows, pollers>>
     \/ /\ status[Len(sent)] = "rejected"
        /\ \/ step \in {"begin", "work", "commit"} /\ Send(call, "rollback") /\ UNCHANGED report
           \/ step = "query" /\ Return("error") /\ UNCHANGED <<status, rows, pollers>>
     \/ /\ step = "rollback"
        /\ Return("error") /\ UNCHANGED <<status, rows, pollers>>
  /\ UNCHANGED <<call, buffer, serverVars>>

\* A poller's promise settles; only the first settlement counts, and a statement
\* that timed out has settled.
Settle(n, s) == status' = IF status[n] = "waiting" THEN [status EXCEPT ![n] = s] ELSE status

\* Mutants of Poll: the ready packet is left in the buffer; the poller goes on
\* after it.
PollLeavesReady(n) ==
  /\ n \in pollers
  /\ buffer # <<>>
  /\ LET packet == Head(buffer) IN
     \/ /\ packet.type = "row"
        /\ rows' = [rows EXCEPT ![n] = @ \cup {packet.of}]
        /\ buffer' = Tail(buffer)
        /\ UNCHANGED <<status, pollers>>
     \/ /\ packet.type \in {"error", "ready"}
        /\ Settle(n, IF packet.type = "ready" THEN "resolved" ELSE "rejected")
        /\ pollers' = pollers \ {n}
        /\ buffer' = IF packet.type = "ready" THEN buffer ELSE Tail(buffer)
        /\ UNCHANGED rows
  /\ UNCHANGED <<call, step, sent, report, serverVars>>

PollGoesOn(n) ==
  /\ n \in pollers
  /\ buffer # <<>>
  /\ buffer' = Tail(buffer)
  /\ LET packet == Head(buffer) IN
     \/ /\ packet.type = "row"
        /\ rows' = [rows EXCEPT ![n] = @ \cup {packet.of}]
        /\ UNCHANGED <<status, pollers>>
     \/ /\ packet.type \in {"error", "ready"}
        /\ Settle(n, IF packet.type = "ready" THEN "resolved" ELSE "rejected")
        /\ UNCHANGED <<rows, pollers>>
  /\ UNCHANGED <<call, step, sent, report, serverVars>>

\* The poller of statement n takes the next packet.  Every poller is rescheduled
\* each turn of the event loop, and packets arrive one by one, so any of them may
\* be the one to find it.
Poll(n) ==
  /\ n \in pollers
  /\ buffer # <<>>
  /\ buffer' = Tail(buffer)
  /\ LET packet == Head(buffer) IN
     \/ /\ packet.type = "row"
        /\ rows' = [rows EXCEPT ![n] = @ \cup {packet.of}]
        /\ UNCHANGED <<status, pollers>>
     \/ /\ packet.type \in {"error", "ready"}
        /\ Settle(n, IF packet.type = "ready" THEN "resolved" ELSE "rejected")
        /\ pollers' = pollers \ {n}
        /\ UNCHANGED rows
  /\ UNCHANGED <<call, step, sent, report, serverVars>>

\* withTimeout rejects the awaited statement; its poller runs on.
TimeOut ==
  /\ Timeouts
  /\ step # "free" /\ ~Awaited
  /\ status' = [status EXCEPT ![Len(sent)] = "rejected"]
  /\ UNCHANGED <<call, step, sent, rows, pollers, buffer, report, serverVars>>

-----------------------------------------------------------------------------
(* The backend.                                                                 *)

Packet(type, n) == [type |-> type, of |-> n]

Succeeded(n) == (IF sent[n].kind \in {"query", "work"} THEN <<Packet("row", n)>> ELSE <<>>)
                  \o <<Packet("ready", n)>>
Refused(n) == <<Packet("error", n), Packet("ready", n)>>

\* The backend carries out the next statement.  In an aborted transaction it
\* refuses everything but the end of the transaction, and COMMIT rolls back.
Process ==
  /\ processed < Len(sent)
  /\ processed' = processed + 1
  /\ LET n == processed + 1 IN
     \/ /\ sent[n].kind = "begin"
        /\ txn' = sent[n].call /\ aborted' = FALSE
        /\ buffer' = buffer \o Succeeded(n)
        /\ UNCHANGED committed
     \/ /\ sent[n].kind = "commit"
        /\ committed' = committed \cup (IF txn # 0 /\ ~aborted THEN {txn} ELSE {})
        /\ txn' = 0 /\ aborted' = FALSE
        /\ buffer' = buffer \o Succeeded(n)
     \/ /\ sent[n].kind = "rollback"
        /\ txn' = 0 /\ aborted' = FALSE
        /\ buffer' = buffer \o Succeeded(n)
        /\ UNCHANGED committed
     \/ /\ sent[n].kind \in {"query", "work"} /\ ~aborted
        /\ buffer' = buffer \o Succeeded(n)
        /\ UNCHANGED <<txn, aborted, committed>>
     \/ /\ sent[n].kind \in {"query", "work"}
        /\ aborted' = (txn # 0)
        /\ buffer' = buffer \o Refused(n)
        /\ UNCHANGED <<txn, committed>>
  /\ UNCHANGED clientVars

-----------------------------------------------------------------------------
Init ==
  /\ call = 0 /\ step = "free" /\ sent = <<>> /\ status = <<>> /\ rows = <<>>
  /\ pollers = {} /\ buffer = <<>>
  /\ processed = 0 /\ txn = 0 /\ aborted = FALSE /\ committed = {}
  /\ report = [c \in 1 .. CallCount |-> "none"]

Next == Borrow \/ Advance \/ TimeOut \/ Process \/ \E n \in pollers : Poll(n)

Spec == Init /\ [][Next]_vars

-----------------------------------------------------------------------------
(* Properties.                                                                  *)

\* The type of every variable.
TypeOK ==
  /\ call \in 0 .. CallCount /\ step \in Kinds \cup {"free"}
  /\ sent \in Seq([call : 1 .. CallCount, kind : Kinds])
  /\ status \in Seq({"waiting", "resolved", "rejected"}) /\ Len(status) = Len(sent)
  /\ rows \in Seq(SUBSET (1 .. Len(sent))) /\ Len(rows) = Len(sent)
  /\ pollers \subseteq 1 .. Len(sent)
  /\ buffer \in Seq([type : {"row", "error", "ready"}, of : 1 .. Len(sent)])
  /\ processed \in 0 .. Len(sent)
  /\ txn \in 0 .. CallCount /\ aborted \in BOOLEAN
  /\ committed \subseteq 1 .. CallCount
  /\ report \in [1 .. CallCount -> {"none", "ok", "error"}]

\* The rows that belong to statement n.
Own(n) == IF sent[n].kind \in {"query", "work"} THEN {n} ELSE {}

\* As long as no statement on the connection has failed or timed out, each is
\* answered with exactly its own rows.
CleanConnectionAnswersOwn ==
  \A n \in DOMAIN status :
    (\A m \in 1 .. n : status[m] = "resolved") => rows[n] = Own(n)

ReadyPackets == {i \in DOMAIN buffer : buffer[i].type = "ready"}

\* The ready packets that are or will be on the wire, less those a poller is
\* there to take: how many answers the connection lags behind.
Lag == Cardinality(ReadyPackets) + (Len(sent) - processed) - Cardinality(pollers)

\* A connection that lags behind never catches up: no query, error, timeout or
\* rollback takes a ready packet that an earlier error left over.
LagIsPermanent == [][Lag' >= Lag]_vars

\* The backend never carries out a statement of one call inside the transaction
\* of another, however the answers are mixed up: ROLLBACK is sent before the
\* connection is released (transaction's catch and finally).
TransactionsDoNotMix ==
  [][processed' # processed => txn \in {0, sent[processed + 1].call}]_vars

\* README.md lists query execution among what the package provides: a query that
\* resolves has its own rows.
AnswersAreOwn ==
  \A n \in DOMAIN status : status[n] = "resolved" => rows[n] = Own(n)
=============================================================================
