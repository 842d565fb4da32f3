------------------------------ MODULE Requests ------------------------------
(* The requests of the browser, as all components of the API see them: each is   *)
(* one call that authenticates itself and then takes the steps of its operation,  *)
(* one statement or other wait per step.  The components extend this module.      *)
(*                                                                              *)
(* Over postgres the steps of different calls interleave freely and any of them   *)
(* may fail.  Over the memory driver a repository answers within the turn of the  *)
(* event loop that asked it, so a call runs on to its next real wait.             *)
EXTENDS Naturals, Sequences, FiniteSets

CONSTANTS
  Calls,       \* the requests, each made at most once; a row has the name of the call that made it
  Seed,        \* the account, session and application that are there from the start
  Driver,      \* "postgres" or "memory"
  MaxOpen,     \* bound: how many calls are under way at a time
  MaxFailures  \* bound: how many failures of a call, a statement or the process

ASSUME RequestsAssumption ==
  /\ IsFiniteSet(Calls) /\ Seed \notin Calls
  /\ Driver \in {"postgres", "memory"}
  /\ MaxOpen \in Nat /\ MaxFailures \in Nat

VARIABLES
  op,       \* per call: its operation
  about,    \* per call: the address, file, text or status it names
  cookie,   \* per call: the session its cookie names
  who,      \* per call: the account it acts for, once known
  step,     \* per call: the wait it is at, or stopped at
  state,    \* per call: how it stands
  late,     \* the calls given up whose statement is still on its way
  failures  \* how many failures there have been

requestVars == <<op, about, cookie, who, step, state, late, failures>>

Accounts == Calls \cup {Seed}
Nobody == "nobody"

Open(c) == state[c] = "open"

\* Neither answered nor going to be: what it made may be half made.
Unfinished(c) == state[c] \in {"open", "failed"}

\* Where a call waits for more than a repository: for its body, for scrypt, for a file.
RealWaits == {"authenticate", "lookup", "hash", "identify", "verify", "duplicate", "object",
              "opened", "existing", "references", "current", "noted"}

\* No other call is in the middle of a turn.
OwnTurn(c) == Driver = "memory" => \A d \in Calls \ {c} : Open(d) => step[d] \in RealWaits

At(c, s) == Open(c) /\ step[c] = s /\ OwnTurn(c)

\* The first step of a protected operation, behind requireAuth.
FirstStep(o) ==
  [logout |-> "revoke", upload |-> "duplicate", intake |-> "existing",
   apply |-> "references", move |-> "current", note |-> "noted"][o]

-----------------------------------------------------------------------------
\* A request arrives.
Arrive(c, o, a, k, s) ==
  /\ state[c] = "idle"
  /\ Cardinality({d \in Calls : Open(d)}) < MaxOpen
  /\ op' = [op EXCEPT ![c] = o]
  /\ about' = [about EXCEPT ![c] = a]
  /\ cookie' = [cookie EXCEPT ![c] = k]
  /\ step' = [step EXCEPT ![c] = s]
  /\ state' = [state EXCEPT ![c] = "open"]
  /\ UNCHANGED <<who, late, failures>>

Proceed(c, s) ==
  /\ step' = [step EXCEPT ![c] = s]
  /\ UNCHANGED <<op, about, cookie, who, state, late, failures>>

\* The call is answered: "ok", "refused" (4xx) or "failed" (5xx).
Answer(c, outcome) ==
  /\ state' = [state EXCEPT ![c] = outcome]
  /\ UNCHANGED <<op, about, cookie, who, step, late, failures>>

ProceedAs(c, u, s) ==
  /\ who' = [who EXCEPT ![c] = u]
  /\ step' = [step EXCEPT ![c] = s]
  /\ UNCHANGED <<op, about, cookie, state, late, failures>>

\* The step of path after the one at which c is.
After(c, path) == path[1 + CHOOSE i \in 1 .. Len(path) : path[i] = step[c]]

IsLast(c, path) == path[Len(path)] = step[c]

\* The call goes on to the next step of path, or is answered after the last.
Advance(c, path) ==
  IF IsLast(c, path) THEN Answer(c, "ok") ELSE Proceed(c, After(c, path))

-----------------------------------------------------------------------------
(* Failures.  Writing is the set of calls whose step sends a write.               *)

\* A statement fails or times out: the call ends with a server error, and what it
\* sent may still be carried out.
CallFails(c, Writing) ==
  /\ Driver = "postgres" /\ Open(c) /\ failures < MaxFailures
  /\ state' = [state EXCEPT ![c] = "failed"]
  /\ late' \in {late} \cup {late \cup (Writing \cap {c})}
  /\ failures' = failures + 1
  /\ UNCHANGED <<op, about, cookie, who, step>>

\* The process ends: so do all calls; any of their statements may be carried out.
ProcessEnds(Writing) ==
  LET stopped == {c \in Calls : Open(c)}
  IN  /\ Driver = "postgres" /\ failures < MaxFailures /\ stopped # {}
      /\ state' = [c \in Calls |-> IF c \in stopped THEN "failed" ELSE state[c]]
      /\ \E S \in SUBSET (stopped \cap Writing) : late' = late \cup S
      /\ failures' = failures + 1
      /\ UNCHANGED <<op, about, cookie, who, step>>

\* A statement nobody waits for is carried out, in the module of its table.
Arrives(c) ==
  /\ c \in late
  /\ late' = late \ {c}
  /\ UNCHANGED <<op, about, cookie, who, step, state, failures>>

RequestsInit ==
  /\ op = [c \in Calls |-> "none"]
  /\ about = [c \in Calls |-> "none"]
  /\ cookie = [c \in Calls |-> Nobody]
  /\ who = [c \in Calls |-> Nobody]
  /\ step = [c \in Calls |-> "none"]
  /\ state = [c \in Calls |-> "idle"]
  /\ late = {} /\ failures = 0
=============================================================================
