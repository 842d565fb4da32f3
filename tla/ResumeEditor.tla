---------------------------- MODULE ResumeEditor ----------------------------
(* The editor of the canonical resume (ResumeEditorService) over the postgres     *)
(* repository: requests that create, delete and reorder sections, entities and   *)
(* bullets, each a sequence of autocommitted statements that interleave with those *)
(* of other requests.  Under the memory driver a request is one turn of the event  *)
(* loop: the behaviours without overlap and without failures.                     *)
(*                                                                              *)
(* The texts of the items and their visibility flags are left out: editing them   *)
(* changes neither the order of the items nor which of them are there.            *)
EXTENDS Naturals, Sequences, FiniteSets

CONSTANTS
  Items,       \* the sections, entities and bullets that may ever exist
  Root,        \* the resume
  Parent,      \* the section of an entity, the entity of a bullet, the resume of a section
  Promoted,    \* the items of the promoted draft, each with its display order
  Requests,    \* the requests, each made once
  MaxFailures  \* bound: how many requests may be hit by a failure

ASSUME EditorAssumption ==
  /\ IsFiniteSet(Items) /\ IsFiniteSet(Requests)
  /\ Root \notin Items
  /\ Parent \in [Items -> Items \cup {Root}]
  /\ \A i \in Items : Parent[i] = Root \/ Parent[Parent[i]] = Root \/ Parent[Parent[Parent[i]]] = Root
  /\ Promoted \subseteq Items \X Nat
  /\ \A x, y \in Promoted : x[1] = y[1] => x = y
  /\ \A x \in Promoted : Parent[x[1]] = Root \/ \E y \in Promoted : y[1] = Parent[x[1]]
  /\ \A p \in Items \cup {Root} :
       LET here == {x \in Promoted : Parent[x[1]] = p}
       IN  {x[2] : x \in here} = 0 .. Cardinality(here) - 1
  /\ MaxFailures \in Nat

VARIABLES
  rows,      \* per item: its state in the tables and its display_order
  canonical, \* the resume is active and has a canonical version
  state,     \* per request: how it stands
  req,       \* per request: what it asks for
  at,        \* per request: which of its steps is next
  plan,      \* per request: the display orders it means to write
  reading,   \* per request: how far it has read the resume it answers with
  late,      \* the statements given up by their request, still on their way
  exposed,   \* history: the requests that have run beside another, or beside a late statement
  damaged    \* history: the parents whose children failures or overlaps may have put out of order

vars == <<rows, canonical, state, req, at, plan, reading, late, exposed, damaged>>

Children(p) == {i \in Items : Parent[i] = p}
LiveIn(p) == {i \in Children(p) : rows[i].state = "live"}

Level(i) == IF Parent[i] = Root THEN "section" ELSE IF Parent[Parent[i]] = Root THEN "entity" ELSE "bullet"

\* The live rows below live rows, joined at one moment, as the memory driver reads
\* them.  Over postgres a reader goes from table to table: ReadSections, ReadBelow.
Visible(i) ==
  /\ rows[i].state = "live"
  /\ Parent[i] # Root => /\ rows[Parent[i]].state = "live"
                         /\ Parent[Parent[i]] # Root => rows[Parent[Parent[i]]].state = "live"

-----------------------------------------------------------------------------
(* Requests.                                                                    *)

\* Creates are for one item, deletes too; a reorder is for the children of a parent.
Asked == [op : {"create", "delete"}, item : Items] \cup [op : {"reorder"}, group : Items \cup {Root}]

GroupOf(q) == IF q.op = "reorder" THEN q.group ELSE Parent[q.item]

\* Mutant of Path: what is left after a delete keeps its display orders.
PathWithoutCompaction(q) ==
  IF q.op = "create" THEN <<"check", "list", "insert", "audit", "answer">>
  ELSE IF q.op = "reorder" THEN <<"check", "list", "arrange", "audit", "answer">>
  ELSE <<"check", "remove", "children", "grandchildren", "audit", "answer">>

\* The steps of a request, from its checks to the resume it answers with.
Path(q) ==
  IF q.op = "create" THEN <<"check", "list", "insert", "audit", "answer">>
  ELSE IF q.op = "reorder" THEN <<"check", "list", "arrange", "audit", "answer">>
  ELSE IF Level(q.item) = "section"
  THEN <<"check", "remove", "children", "grandchildren", "audit", "compact", "arrange", "answer">>
  ELSE IF Level(q.item) = "entity"
  THEN <<"check", "remove", "children", "audit", "compact", "arrange", "answer">>
  ELSE <<"check", "remove", "audit", "compact", "arrange", "answer">>

\* A request that has not begun to read: nothing seen, nothing left to look below,
\* no two siblings of one order.  History: what was shown, and what had been there
\* and was shown no more, when the sections were selected.
NotReading == [phase |-> "resume", seen |-> {}, todo |-> {}, clash |-> FALSE, shown |-> {}, gone |-> {}]

Active(r) == state[r] = "active"
Step(r) == Path(req[r])[at[r]]

Proceed(r) == at' = [at EXCEPT ![r] = @ + 1]

\* The ways to give the items of S the display orders from 0 on.
Arrangements(S) ==
  {{<<i, f[i]>> : i \in S} :
     f \in {g \in [S -> 0 .. Cardinality(S) - 1] : \A i, j \in S : g[i] = g[j] => i = j}}

\* The live children of p as ORDER BY display_order returns them; equal orders
\* may come in either order.
Listings(p) ==
  {a \in Arrangements(LiveIn(p)) :
     \A x, y \in a : rows[x[1]].order < rows[y[1]].order => x[2] < y[2]}

-----------------------------------------------------------------------------
(* Statements.                                                                  *)

\* The statements request r may send now: one, or one of the updates of Promise.all.
Sendable(r) ==
  IF Step(r) = "insert" THEN {[kind |-> "insert", item |-> x[1], order |-> x[2]] : x \in plan[r]}
  ELSE IF Step(r) = "arrange" THEN {[kind |-> "update", item |-> x[1], order |-> x[2]] : x \in plan[r]}
  ELSE IF Step(r) \in {"remove", "children", "grandchildren"}
  THEN {[kind |-> Step(r), item |-> req[r].item, order |-> 0]}
  ELSE {}

Deleted(S) == [i \in Items |-> IF i \in S /\ rows[i].state = "live" THEN [rows[i] EXCEPT !.state = "deleted"] ELSE rows[i]]

\* Mutant of Execute: the update does not ask for deleted_at IS NULL and clears it.
ExecuteUndeletes(s) ==
  rows' = IF s.kind \in {"insert", "update"} THEN [rows EXCEPT ![s.item] = [state |-> "live", order |-> s.order]]
          ELSE IF s.kind = "remove" THEN Deleted({s.item})
          ELSE IF s.kind = "children" THEN Deleted(Children(s.item))
          ELSE Deleted(UNION {Children(j) : j \in Children(s.item)})

\* What the server does: updates and soft deletes only reach rows that are live.
Execute(s) ==
  \/ s.kind = "insert" /\ rows' = [rows EXCEPT ![s.item] = [state |-> "live", order |-> s.order]]
  \/ s.kind = "update" /\ rows' = [rows EXCEPT ![s.item].order = IF rows[s.item].state = "live" THEN s.order ELSE @]
  \/ s.kind = "remove" /\ rows' = Deleted({s.item})
  \/ s.kind = "children" /\ rows' = Deleted(Children(s.item))
  \/ s.kind = "grandchildren" /\ rows' = Deleted(UNION {Children(j) : j \in Children(s.item)})

\* The request ends; a failure or company may leave the children of its parent out
\* of order, a delete or reorder that ran alone to its end puts them in order.
End(r, outcome) ==
  /\ state' = [state EXCEPT ![r] = outcome]
  /\ damaged' =
       IF outcome = "refused" THEN damaged
       ELSE IF outcome = "failed" \/ r \in exposed THEN damaged \cup {GroupOf(req[r])}
       ELSE IF req[r].op = "create" THEN damaged
       ELSE damaged \ {GroupOf(req[r])}

-----------------------------------------------------------------------------
(* Actions.                                                                     *)

\* A request arrives; a reorder asks for some order of what its sender believes
\* is there.
Begin(r) ==
  /\ state[r] = "idle"
  /\ \E q \in Asked :
       /\ q.op = "create" =>
            /\ rows[q.item].state = "absent"
            /\ \A s \in Requests : state[s] # "idle" => ~(req[s].op = "create" /\ req[s].item = q.item)
       /\ q.op = "delete" => rows[q.item].state # "absent"
       /\ req' = [req EXCEPT ![r] = q]
       /\ IF q.op = "reorder"
          THEN \E S \in SUBSET {i \in Children(q.group) : rows[i].state # "absent"} :
                 S # {} /\ \E a \in Arrangements(S) : plan' = [plan EXCEPT ![r] = a]
          ELSE plan' = plan
  /\ state' = [state EXCEPT ![r] = "active"]
  /\ at' = [at EXCEPT ![r] = 1]
  /\ LET others == {s \in Requests : Active(s)}
     IN  exposed' = exposed \cup others \cup (IF others # {} \/ late # {} THEN {r} ELSE {})
  /\ UNCHANGED <<rows, canonical, reading, late, damaged>>

\* requireSection or its like, then requireCanonicalResume.
Check(r) ==
  /\ Active(r) /\ Step(r) = "check"
  /\ LET needed == IF req[r].op = "delete" THEN req[r].item ELSE GroupOf(req[r])
     IN  IF canonical /\ (needed # Root => rows[needed].state = "live")
         THEN Proceed(r) /\ UNCHANGED <<state, damaged>>
         ELSE End(r, "refused") /\ UNCHANGED at
  /\ UNCHANGED <<rows, canonical, req, plan, reading, late, exposed>>

\* Mutant of List: the display orders of new items start at one.
ListFromOne(r) ==
  /\ Active(r) /\ Step(r) = "list"
  /\ LET siblings == LiveIn(GroupOf(req[r]))
     IN  \/ /\ req[r].op = "create"
            /\ plan' = [plan EXCEPT ![r] = {<<req[r].item, Cardinality(siblings) + 1>>}]
            /\ Proceed(r) /\ UNCHANGED <<state, damaged>>
         \/ /\ req[r].op = "reorder" /\ {x[1] : x \in plan[r]} = siblings
            /\ Proceed(r) /\ UNCHANGED <<state, damaged, plan>>
         \/ /\ req[r].op = "reorder" /\ {x[1] : x \in plan[r]} # siblings
            /\ End(r, "refused") /\ UNCHANGED <<at, plan>>
  /\ UNCHANGED <<rows, canonical, req, reading, late, exposed>>

\* The siblings are listed: their number is the display order of a new item, and
\* they must be the very items a reorder names.
List(r) ==
  /\ Active(r) /\ Step(r) = "list"
  /\ LET siblings == LiveIn(GroupOf(req[r]))
     IN  \/ /\ req[r].op = "create"
            /\ plan' = [plan EXCEPT ![r] = {<<req[r].item, Cardinality(siblings)>>}]
            /\ Proceed(r) /\ UNCHANGED <<state, damaged>>
         \/ /\ req[r].op = "reorder" /\ {x[1] : x \in plan[r]} = siblings
            /\ Proceed(r) /\ UNCHANGED <<state, damaged, plan>>
         \/ /\ req[r].op = "reorder" /\ {x[1] : x \in plan[r]} # siblings
            /\ End(r, "refused") /\ UNCHANGED <<at, plan>>
  /\ UNCHANGED <<rows, canonical, req, reading, late, exposed>>

\* compactSectionOrders and its like list what is left after a delete.
Compact(r) ==
  /\ Active(r) /\ Step(r) = "compact"
  /\ \E a \in Listings(GroupOf(req[r])) : plan' = [plan EXCEPT ![r] = a]
  /\ Proceed(r)
  /\ UNCHANGED <<rows, canonical, state, req, reading, late, exposed, damaged>>

\* A statement is carried out and answered; the next step follows the last update.
Write(r) ==
  /\ Active(r)
  /\ \E s \in Sendable(r) :
       /\ Execute(s)
       /\ plan' = [plan EXCEPT ![r] = @ \ {<<s.item, s.order>>}]
  /\ IF plan'[r] = {} \/ Step(r) # "arrange" THEN Proceed(r) ELSE UNCHANGED at
  /\ UNCHANGED <<canonical, state, req, reading, late, exposed, damaged>>

\* The audit event is written, or there was nothing to arrange.
Pass(r) ==
  /\ Active(r)
  /\ Step(r) = "audit" \/ (Step(r) = "arrange" /\ plan[r] = {})
  /\ Proceed(r)
  /\ UNCHANGED <<rows, canonical, state, req, plan, reading, late, exposed, damaged>>

\* Two rows of one SELECT have the same display order.
Clash(S) == \E i, j \in S : rows[i].order = rows[j].order /\ i # j

Answering(r, phase) == Active(r) /\ Step(r) = "answer" /\ reading[r].phase = phase

\* getCanonicalResume, after the edit, asks first whether the resume is canonical.
Reopen(r) ==
  /\ Answering(r, "resume")
  /\ IF canonical
     THEN reading' = [reading EXCEPT ![r].phase = "sections"] /\ UNCHANGED <<state, damaged>>
     ELSE End(r, "unreadable") /\ UNCHANGED reading
  /\ UNCHANGED <<rows, canonical, req, at, plan, late, exposed>>

\* getParsedDraft selects the sections that are live.
ReadSections(r) ==
  /\ Answering(r, "sections")
  /\ reading' = [reading EXCEPT ![r] =
       [phase |-> "below",
        seen  |-> LiveIn(Root), todo |-> LiveIn(Root), clash |-> Clash(LiveIn(Root)),
        shown |-> {i \in Items : Visible(i)},
        gone  |-> {i \in Items : rows[i].state # "absent" /\ ~Visible(i)}]]
  /\ UNCHANGED <<rows, canonical, state, req, at, plan, late, exposed, damaged>>

\* Mutant of ReadBelow: only one entity of a section has its bullets selected.
ReadBelowOneEntity(r) ==
  /\ Answering(r, "below")
  /\ \E p \in reading[r].todo :
       /\ Level(p) = "section" => \A e \in reading[r].todo : Level(e) = "section"
       /\ reading' = [reading EXCEPT
            ![r].seen = @ \cup LiveIn(p),
            ![r].todo = IF Level(p) = "section" THEN (@ \ {p}) \cup LiveIn(p) ELSE {e \in @ : Level(e) = "section"},
            ![r].clash = @ \/ Clash(LiveIn(p))]
  /\ UNCHANGED <<rows, canonical, state, req, at, plan, late, exposed, damaged>>

\* It selects what is live below one of the rows it has, without looking at that row
\* again: the entities of a section, and the bullets of these before the entities of
\* another section.  Which sibling comes first is left open.
ReadBelow(r) ==
  /\ Answering(r, "below")
  /\ \E p \in reading[r].todo :
       /\ Level(p) = "section" => \A e \in reading[r].todo : Level(e) = "section"
       /\ reading' = [reading EXCEPT
            ![r].seen = @ \cup LiveIn(p),
            ![r].todo = (@ \ {p}) \cup (IF Level(p) = "section" THEN LiveIn(p) ELSE {}),
            ![r].clash = @ \/ Clash(LiveIn(p))]
  /\ UNCHANGED <<rows, canonical, state, req, at, plan, late, exposed, damaged>>

\* All is read: validateRelationships refuses two siblings of one order.
Answer(r) ==
  /\ Answering(r, "below") /\ reading[r].todo = {}
  /\ End(r, IF reading[r].clash THEN "unreadable" ELSE "ok")
  /\ reading' = [reading EXCEPT ![r] = NotReading]
  /\ UNCHANGED <<rows, canonical, req, at, plan, late, exposed>>

\* A statement or a read fails: the request ends with an error.  A statement that
\* timed out may still be on its way, and so may the other updates of Promise.all.
Fail(r) ==
  /\ Active(r)
  /\ Cardinality({s \in Requests : state[s] = "failed"}) < MaxFailures
  /\ \E S \in SUBSET Sendable(r) : late' = late \cup S
  /\ End(r, "failed")
  /\ reading' = [reading EXCEPT ![r] = NotReading]
  /\ UNCHANGED <<rows, canonical, req, at, plan, exposed>>

\* A statement nobody waits for is carried out.
LateWrite(s) ==
  /\ s \in late
  /\ late' = late \ {s}
  /\ Execute(s)
  /\ UNCHANGED <<canonical, state, req, at, plan, reading, exposed, damaged>>

\* The owner rejects the draft of the promoted resume: it is archived.
Archive ==
  /\ canonical
  /\ canonical' = FALSE
  /\ UNCHANGED <<rows, state, req, at, plan, reading, late, exposed, damaged>>

-----------------------------------------------------------------------------
Init ==
  /\ rows = [i \in Items |-> IF \E x \in Promoted : x[1] = i
                             THEN [state |-> "live", order |-> (CHOOSE x \in Promoted : x[1] = i)[2]]
                             ELSE [state |-> "absent", order |-> 0]]
  /\ canonical = TRUE
  /\ state = [r \in Requests |-> "idle"]
  /\ req = [r \in Requests |-> [op |-> "reorder", group |-> Root]]
  /\ at = [r \in Requests |-> 1]
  /\ plan = [r \in Requests |-> {}]
  /\ reading = [r \in Requests |-> NotReading]
  /\ late = {} /\ exposed = {} /\ damaged = {}

Next ==
  \/ \E r \in Requests : \/ Begin(r) \/ Check(r) \/ List(r) \/ Compact(r)
                         \/ Write(r) \/ Pass(r) \/ Fail(r)
                         \/ Reopen(r) \/ ReadSections(r) \/ ReadBelow(r) \/ Answer(r)
  \/ \E s \in late : LateWrite(s)
  \/ Archive

Spec == Init /\ [][Next]_vars

-----------------------------------------------------------------------------
(* Properties.                                                                  *)

\* Display orders stay below the number of siblings there can be.
OrdersUnder(p) == 0 .. Cardinality(Children(p)) - 1

Statements == [kind : {"insert", "update", "remove", "children", "grandchildren"}, item : Items, order : Nat]

\* The type of every variable.
TypeOK ==
  /\ rows \in [Items -> [state : {"absent", "live", "deleted"}, order : Nat]]
  /\ \A i \in Items : rows[i].state # "absent" => rows[i].order \in OrdersUnder(Parent[i])
  /\ canonical \in BOOLEAN
  /\ state \in [Requests -> {"idle", "active", "ok", "unreadable", "refused", "failed"}]
  /\ req \in [Requests -> Asked]
  /\ \A r \in Requests : at[r] \in 1 .. Len(Path(req[r]))
  /\ \A r \in Requests : plan[r] \subseteq Items \X Nat
  /\ reading \in [Requests -> [phase : {"resume", "sections", "below"}, seen : SUBSET Items, todo : SUBSET Items,
                             clash : BOOLEAN, shown : SUBSET Items, gone : SUBSET Items]]
  /\ late \subseteq Statements
  /\ exposed \subseteq Requests
  /\ damaged \subseteq Items \cup {Root}

AtRest == late = {} /\ \A r \in Requests : ~Active(r)

InOrder(p) == {rows[i].order : i \in LiveIn(p)} = 0 .. Cardinality(LiveIn(p)) - 1

\* Between requests the children of a parent have the display orders 0, 1, 2, ...
\* unless a request among them failed or overlapped another since the last delete
\* or reorder that ran alone: creating at the end, compacting after a delete and
\* reordering keep the numbering, and the latter two restore it.
UndamagedIsInOrder == AtRest => \A p \in (Items \cup {Root}) \ damaged : InOrder(p)

\* A read of several statements, with others in between, misses nothing that is there
\* from its first SELECT to its last, and shows nothing that had gone before its first.
\* More cannot be said: it may show a section without the entities that went with it,
\* or an item created below a section that has gone.
ReadsAreOfTheirTime ==
  \A r \in Requests : Answering(r, "below") /\ reading[r].todo = {} =>
    /\ {i \in reading[r].shown : Visible(i)} \subseteq reading[r].seen
    /\ reading[r].seen \cap reading[r].gone = {}

Outline == INSTANCE ResumeOutline WITH
  outline <- [i \in Items |-> IF rows[i].state = "absent" THEN "new" ELSE IF Visible(i) THEN "shown" ELSE "gone"]

\* However requests overlap or fail, what is live below live rows at one moment grows
\* item by item under a parent that is there, and loses an item with all that is below
\* it in one step, although the soft deletes of a subtree are several statements;
\* nothing comes back.  It is what the memory driver reads in one turn.
ImplementsOutline == Outline!OutlineSpec
=============================================================================
