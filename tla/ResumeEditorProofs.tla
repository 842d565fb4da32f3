--------------------------- MODULE ResumeEditorProofs ---------------------------
(* The editor, for any outline of three levels, any promoted resume and any number *)
(* of requests and failures.                                                      *)
EXTENDS ResumeEditor, FiniteSetTheorems, TLAPS

Parents == Items \cup {Root}
Names == {"check", "list", "insert", "arrange", "remove", "children", "grandchildren", "compact", "audit", "answer"}

\* The steps a request may be at, each with the one before it.
Follows(q) ==
  IF q.op = "create" THEN {<<"check", "list">>, <<"list", "insert">>, <<"insert", "audit">>, <<"audit", "answer">>}
  ELSE IF q.op = "reorder"
  THEN {<<"check", "list">>, <<"list", "arrange">>, <<"arrange", "audit">>, <<"audit", "answer">>}
  ELSE {<<"check", "remove">>, <<"remove", "children">>, <<"remove", "audit">>, <<"children", "grandchildren">>,
        <<"children", "audit">>, <<"grandchildren", "audit">>, <<"audit", "compact">>,
        <<"compact", "arrange">>, <<"arrange", "answer">>}

StepsOf(q) == {"check"} \cup {f[2] : f \in Follows(q)}

\* The rows: an item that is there has a parent that is or was there, and a display
\* order its parent has room for.
RowsOK ==
  /\ rows \in [Items -> [state : {"absent", "live", "deleted"}, order : Nat]]
  /\ \A i \in Items :
       rows[i].state # "absent" =>
         /\ rows[i].order \in OrdersUnder(Parent[i])
         /\ Parent[i] # Root => rows[Parent[i]].state # "absent"

\* The requests: no item is created twice, and one that nothing has run beside is alone.
RequestsOK ==
  /\ canonical \in BOOLEAN
  /\ state \in [Requests -> {"idle", "active", "ok", "unreadable", "refused", "failed"}]
  /\ req \in [Requests -> Asked]
  /\ \A r \in Requests : at[r] \in 1 .. Len(Path(req[r]))
  /\ at \in [Requests -> Nat]
  /\ plan \in [Requests -> SUBSET (Items \X Nat)]
  /\ \A r \in Requests : state[r] = "idle" => plan[r] = {}
  /\ exposed \subseteq Requests
  /\ damaged \subseteq Parents
  /\ \A r, t \in Requests :
       r # t /\ state[r] # "idle" /\ state[t] # "idle" /\ req[r].op = "create" /\ req[t].op = "create"
         => req[r].item # req[t].item
  /\ \A r \in Requests : Active(r) /\ r \notin exposed => late = {} /\ \A t \in Requests \ {r} : ~Active(t)

\* A statement that may be carried out: it inserts an item that was never there, and
\* deletes below an item only after the item.
StatementOK(s) ==
  /\ s \in Statements
  /\ s.kind \in {"insert", "update"} => s.order \in OrdersUnder(Parent[s.item])
  /\ s.kind = "insert" => /\ rows[s.item].state = "absent"
                          /\ Parent[s.item] # Root => rows[Parent[s.item]].state # "absent"
  /\ s.kind = "remove" => rows[s.item].state # "absent"
  /\ s.kind \in {"children", "grandchildren"} => rows[s.item].state = "deleted"

\* A request under way: its plan is for the children of its parent, what it creates is
\* not there before the insert, what it deletes is not live after it.
CallOK(r) ==
  LET q == req[r]
      p == GroupOf(q)
  IN /\ \A x \in plan[r] : Parent[x[1]] = p /\ x[2] \in OrdersUnder(p)
     /\ q.op = "create" =>
         /\ Step(r) \in {"check", "list", "insert"} => rows[q.item].state = "absent"
         /\ Step(r) # "check" /\ p # Root => rows[p].state # "absent"
         /\ Step(r) = "insert" => \A x, y \in plan[r] : x = y /\ x[1] = q.item
     /\ q.op = "delete" =>
         /\ rows[q.item].state # "absent"
         /\ Step(r) \in {"children", "grandchildren"} => rows[q.item].state = "deleted"
     /\ q.op = "reorder" /\ Step(r) \in {"check", "list"} => \E S \in SUBSET Children(p) : plan[r] \in Arrangements(S)

\* A statement given up: the request that sent it failed.
LateOK(s) ==
  /\ StatementOK(s)
  /\ s.kind \in {"insert", "update", "remove"} => Parent[s.item] \in damaged
  /\ s.kind = "insert" =>
        /\ \E r \in Requests : state[r] = "failed" /\ req[r].op = "create" /\ req[r].item = s.item
        /\ \A t \in late : t.kind = "insert" /\ t.item = s.item => t = s

\* Children out of order have been damaged, or are being written to.
OrderOK ==
  \A p \in Parents :
    \/ p \in damaged \/ InOrder(p)
    \/ \E r \in Requests : Active(r) /\ Step(r) \notin {"check", "list"} /\ GroupOf(req[r]) = p

\* The live children of p are as some arrangement has them, but for what is still planned.
Arranging(r, p) ==
  \E a \in Arrangements(LiveIn(p)) : plan[r] \subseteq a /\ \A x \in a \ plan[r] : rows[x[1]].order = x[2]

\* A request that has run alone so far keeps the order, or restores it by its end.
AloneOK(r) ==
  LET q == req[r]
      p == GroupOf(q)
  IN  /\ Step(r) = "arrange" => Arranging(r, p)
      /\ q.op = "create" =>
           /\ Step(r) = "insert" => \A x \in plan[r] : x[2] = Cardinality(LiveIn(p))
           /\ Step(r) \in {"insert", "audit", "answer"} => p \in damaged \/ InOrder(p)
      /\ q.op = "reorder" /\ Step(r) \in {"audit", "answer"} => InOrder(p)
      /\ q.op = "delete" /\ Step(r) = "answer" => InOrder(p)

CallsOK == \A r \in Requests : Active(r) => CallOK(r)
SoloOK == \A r \in Requests : Active(r) /\ r \notin exposed => AloneOK(r)
LatesOK == \A s \in late : LateOK(s)

IInv == RowsOK /\ RequestsOK /\ CallsOK /\ LatesOK /\ OrderOK /\ SoloOK

\* What a reader has seen is nothing that had gone, and what it has still to look below
\* leads to all that was shown and still is.  What had gone stays so, from above.
ReadOK(r) ==
  LET d == reading[r]
  IN  d.phase = "below" =>
        /\ d.todo \subseteq d.seen
        /\ d.seen \cap d.gone = {}
        /\ \A i \in d.gone : rows[i].state = "deleted" \/ Parent[i] \in d.gone
        /\ \A i \in d.shown :
             /\ rows[i].state # "absent"
             /\ Visible(i) => \/ i \in d.seen \/ Parent[i] \in d.todo
                              \/ Parent[i] # Root /\ Parent[Parent[i]] \in d.todo

Readings == [phase : {"resume", "sections", "below"}, seen : SUBSET Items, todo : SUBSET Items,
             clash : BOOLEAN, shown : SUBSET Items, gone : SUBSET Items]

ReadingInv == reading \in [Requests -> Readings] /\ \A r \in Requests : ReadOK(r)

-----------------------------------------------------------------------------
(* Requests and their steps.                                                      *)

\* What a request asks for, and the parent it is about.
LEMMA AskedFacts ==
  ASSUME NEW q \in Asked
  PROVE  /\ q.op \in {"create", "delete", "reorder"}
         /\ q.op \in {"create", "delete"} => q.item \in Items /\ GroupOf(q) = Parent[q.item]
         /\ q.op = "reorder" => GroupOf(q) = q.group
         /\ GroupOf(q) \in Parents
  BY EditorAssumption DEF Asked, GroupOf, Parents, EditorAssumption

\* A request starts with its checks and ends with its answer.
LEMMA PathFacts ==
  ASSUME NEW q \in Asked, NEW n \in 1 .. Len(Path(q))
  PROVE  /\ Path(q)[n] \in StepsOf(q)
         /\ 1 \in 1 .. Len(Path(q)) /\ Path(q)[1] = "check"
         /\ Path(q)[n] # "answer" => n + 1 \in 1 .. Len(Path(q)) /\ <<Path(q)[n], Path(q)[n + 1]>> \in Follows(q)
  <1>0. q.op \in {"create", "delete", "reorder"}
    BY AskedFacts
  <1>1. CASE q.op = "create"
    <2>1. Path(q) = <<"check", "list", "insert", "audit", "answer">>
      BY <1>1 DEF Path
    <2>2. n \in 1 .. 5
      BY <2>1
    <2> QED  BY <1>1, <2>1, <2>2 DEF Follows, StepsOf
  <1>2. CASE q.op = "reorder"
    <2>1. Path(q) = <<"check", "list", "arrange", "audit", "answer">>
      BY <1>2 DEF Path
    <2>2. n \in 1 .. 5
      BY <2>1
    <2> QED  BY <1>2, <2>1, <2>2 DEF Follows, StepsOf
  <1>3. CASE q.op = "delete" /\ Level(q.item) = "section"
    <2>1. Path(q) = <<"check", "remove", "children", "grandchildren", "audit", "compact", "arrange", "answer">>
      BY <1>3 DEF Path
    <2>2. n \in 1 .. 8
      BY <2>1
    <2> QED  BY <1>3, <2>1, <2>2 DEF Follows, StepsOf
  <1>4. CASE q.op = "delete" /\ Level(q.item) = "entity"
    <2>1. Path(q) = <<"check", "remove", "children", "audit", "compact", "arrange", "answer">>
      BY <1>4 DEF Path
    <2>2. n \in 1 .. 7
      BY <2>1
    <2> QED  BY <1>4, <2>1, <2>2 DEF Follows, StepsOf
  <1>5. CASE q.op = "delete" /\ Level(q.item) \notin {"section", "entity"}
    <2>1. Path(q) = <<"check", "remove", "audit", "compact", "arrange", "answer">>
      BY <1>5 DEF Path
    <2>2. n \in 1 .. 6
      BY <2>1
    <2> QED  BY <1>5, <2>1, <2>2 DEF Follows, StepsOf
  <1> QED  BY <1>0, <1>1, <1>2, <1>3, <1>4, <1>5

-----------------------------------------------------------------------------
(* Numbers of siblings.                                                           *)

\* The children of a parent, and the live ones among them, can be counted.
LEMMA SiblingFacts ==
  ASSUME NEW p \in Parents, NEW S \in SUBSET Children(p)
  PROVE  /\ IsFiniteSet(S) /\ Cardinality(S) \in Nat
         /\ IsFiniteSet(Children(p)) /\ Cardinality(Children(p)) \in Nat
         /\ Cardinality(S) <= Cardinality(Children(p))
         /\ \A i \in Children(p) \ S : Cardinality(S) + 1 <= Cardinality(Children(p))
         /\ \A i \in Children(p) \ S : Cardinality(S \cup {i}) = Cardinality(S) + 1
  <1>1. IsFiniteSet(Items) /\ Children(p) \in SUBSET Items
    BY EditorAssumption DEF Children, EditorAssumption
  <1>2. IsFiniteSet(Children(p)) /\ Cardinality(Children(p)) \in Nat
    BY <1>1, FS_Subset, FS_CardinalityType
  <1>3. IsFiniteSet(S) /\ Cardinality(S) \in Nat /\ Cardinality(S) <= Cardinality(Children(p))
    BY <1>2, FS_Subset, FS_CardinalityType
  <1>4. ASSUME NEW i \in Children(p) \ S
        PROVE  /\ Cardinality(S) + 1 <= Cardinality(Children(p))
               /\ Cardinality(S \cup {i}) = Cardinality(S) + 1
    <2>1. Cardinality(S \cup {i}) = Cardinality(S) + 1
      BY <1>3, FS_AddElement
    <2>2. S \cup {i} \in SUBSET Children(p)
      OBVIOUS
    <2> QED  BY <1>2, <2>1, <2>2, FS_Subset
  <1> QED  BY <1>2, <1>3, <1>4

\* An arrangement gives its items different numbers, below the number of items, and
\* uses every one of them.
LEMMA ArrangementFacts ==
  ASSUME NEW S, IsFiniteSet(S), NEW a \in Arrangements(S)
  PROVE  /\ {x[1] : x \in a} = S
         /\ \A x \in a : x = <<x[1], x[2]>> /\ x[1] \in S /\ x[2] \in 0 .. Cardinality(S) - 1
         /\ \A x, y \in a : x[1] = y[1] => x = y
         /\ {x[2] : x \in a} = 0 .. Cardinality(S) - 1
  <1> DEFINE T == 0 .. Cardinality(S) - 1
  <1>1. PICK f \in [S -> T] : (\A i, j \in S : f[i] = f[j] => i = j) /\ a = {<<i, f[i]>> : i \in S}
    BY DEF Arrangements
  <1>2. Cardinality(S) \in Nat
    BY FS_CardinalityType
  <1>3. IsFiniteSet(T) /\ Cardinality(T) = Cardinality(S)
    <2>1. 0 \in Int /\ Cardinality(S) - 1 \in Int
      BY <1>2
    <2>2. /\ IsFiniteSet(T)
          /\ Cardinality(T) = IF 0 > Cardinality(S) - 1 THEN 0 ELSE Cardinality(S) - 1 - 0 + 1
      BY <2>1, FS_Interval
    <2> QED  BY <1>2, <2>2
  <1>4. f \in Injection(S, T)
    BY <1>1 DEF Injection, IsInjective
  <1>5. f \in Surjection(S, T)
    BY <1>3, <1>4, FS_Injection
  <1>6. \A n \in T : \E i \in S : f[i] = n
    BY <1>5 DEF Surjection
  <1>7. {x[2] : x \in a} = T
    <2>1. \A x \in a : x[2] \in T
      BY <1>1
    <2>2. ASSUME NEW n \in T
          PROVE  \E x \in a : x[2] = n
      <3>1. PICK i \in S : f[i] = n
        BY <1>6
      <3>2. <<i, n>> \in a /\ <<i, n>>[2] = n
        BY <1>1, <3>1
      <3> QED  BY <3>2
    <2> QED  BY <2>1, <2>2
  <1> QED  BY <1>1, <1>7

-----------------------------------------------------------------------------
(* Statements.                                                                    *)

\* What a statement does to the rows: one row comes, or takes another order, or some
\* live rows go.
LEMMA ExecuteCases ==
  ASSUME RowsOK, NEW s, StatementOK(s), Execute(s)
  PROVE  /\ rows' \in [Items -> [state : {"absent", "live", "deleted"}, order : Nat]]
         /\ s.kind \in {"insert", "update", "remove", "children", "grandchildren"}
         /\ s.item \in Items
         /\ s.kind = "insert" => /\ rows'[s.item].state = "live" /\ rows'[s.item].order = s.order
                                 /\ \A i \in Items \ {s.item} : rows'[i] = rows[i]
         /\ s.kind = "update" => /\ \A i \in Items : rows'[i].state = rows[i].state
                                 /\ rows'[s.item].order = IF rows[s.item].state = "live" THEN s.order ELSE rows[s.item].order
                                 /\ \A i \in Items \ {s.item} : rows'[i] = rows[i]
         /\ s.kind \notin {"insert", "update"} =>
              \A i \in Items :
                 /\ rows'[i].order = rows[i].order
                 /\ rows'[i].state = IF /\ rows[i].state = "live"
                                        /\ \/ s.kind = "remove" /\ i = s.item
                                           \/ s.kind = "children" /\ Parent[i] = s.item
                                           \/ s.kind = "grandchildren" /\ Parent[i] \in Items /\ Parent[Parent[i]] = s.item
                                     THEN "deleted" ELSE rows[i].state
  <1>1. /\ s \in Statements
        /\ rows \in [Items -> [state : {"absent", "live", "deleted"}, order : Nat]]
    BY DEF StatementOK, RowsOK
  <1>2. s.kind \in {"insert", "update", "remove", "children", "grandchildren"} /\ s.item \in Items /\ s.order \in Nat
    BY <1>1 DEF Statements
  <1>3. ASSUME NEW S
        PROVE  /\ Deleted(S) \in [Items -> [state : {"absent", "live", "deleted"}, order : Nat]]
               /\ \A i \in Items : /\ Deleted(S)[i].order = rows[i].order
                                   /\ Deleted(S)[i].state = IF i \in S /\ rows[i].state = "live" THEN "deleted" ELSE rows[i].state
    BY <1>1 DEF Deleted
  <1>4. CASE s.kind = "insert"
    BY <1>1, <1>2, <1>4 DEF Execute
  <1>5. CASE s.kind = "update"
    BY <1>1, <1>2, <1>5 DEF Execute
  <1>6. CASE s.kind = "remove"
    BY <1>2, <1>3, <1>6 DEF Execute
  <1>7. CASE s.kind = "children"
    BY <1>2, <1>3, <1>7 DEF Execute, Children
  <1>8. CASE s.kind = "grandchildren"
    <2>1. \A i \in Items : i \in UNION {Children(j) : j \in Children(s.item)}
                              <=> Parent[i] \in Items /\ Parent[Parent[i]] = s.item
      BY DEF Children
    <2> QED  BY <1>2, <1>3, <1>8, <2>1 DEF Execute
  <1> QED  BY <1>2, <1>4, <1>5, <1>6, <1>7, <1>8

\* Rows stay rows; none is taken away, and only an insert brings one.
LEMMA ExecuteRows ==
  ASSUME RowsOK, NEW s, StatementOK(s), Execute(s)
  PROVE  /\ RowsOK'
         /\ \A i \in Items : rows[i].state # "absent" => rows'[i].state # "absent"
         /\ \A i \in Items : rows[i].state = "deleted" => rows'[i].state = "deleted"
         /\ \A i \in Items : rows[i].state = "absent" /\ (s.kind = "insert" => s.item # i) => rows'[i].state = "absent"
         /\ s.kind = "remove" => rows'[s.item].state = "deleted"
  <1>1. /\ rows \in [Items -> [state : {"absent", "live", "deleted"}, order : Nat]]
        /\ \A i \in Items : rows[i].state \in {"absent", "live", "deleted"}
        /\ \A i \in Items : Parent[i] # Root => Parent[i] \in Items
    BY EditorAssumption DEF RowsOK, EditorAssumption
  <1>2. /\ \A i \in Items : rows[i].state # "absent" => rows'[i].state # "absent"
        /\ \A i \in Items : rows[i].state = "deleted" => rows'[i].state = "deleted"
        /\ \A i \in Items : rows[i].state = "absent" /\ (s.kind = "insert" => s.item # i) => rows'[i].state = "absent"
        /\ s.kind = "remove" => rows'[s.item].state = "deleted"
    BY <1>1, ExecuteCases DEF StatementOK
  <1>3. ASSUME NEW i \in Items, rows'[i].state # "absent"
        PROVE  rows'[i].order \in OrdersUnder(Parent[i]) /\ (Parent[i] # Root => rows'[Parent[i]].state # "absent")
    <2>1. CASE s.kind = "insert" /\ s.item = i
      BY <1>1, <1>2, <2>1, ExecuteCases DEF StatementOK
    <2>2. CASE s.kind = "insert" => s.item # i
      <3>1. rows[i].state # "absent"
        BY <1>2, <1>3, <2>2
      <3>2. rows[i].order \in OrdersUnder(Parent[i]) /\ (Parent[i] # Root => rows[Parent[i]].state # "absent")
        BY <3>1 DEF RowsOK
      <3>3. rows'[i].order = rows[i].order \/ (s.kind = "update" /\ s.item = i /\ rows'[i].order = s.order)
        BY <2>2, ExecuteCases
      <3> QED  BY <1>1, <1>2, <3>2, <3>3 DEF StatementOK
    <2> QED  BY <2>1, <2>2
  <1>4. RowsOK'
    BY <1>3, ExecuteCases DEF RowsOK, OrdersUnder, Children
  <1> QED  BY <1>2, <1>4

\* A statement that writes to the row of an item leaves the order among the children of
\* other parents alone; one that deletes below an item leaves no live sibling there.
LEMMA ExecuteOrder ==
  ASSUME RowsOK, NEW s, StatementOK(s), Execute(s), NEW p \in Parents, InOrder(p),
         s.kind \in {"insert", "update", "remove"} => Parent[s.item] # p
  PROVE  InOrder(p)'
  <1>1. CASE LiveIn(p)' = LiveIn(p) /\ \A i \in LiveIn(p) : rows'[i].order = rows[i].order
    BY <1>1 DEF InOrder
  <1>2. CASE LiveIn(p)' = {}
    <2>1. Cardinality(LiveIn(p)') = 0
      BY <1>2, FS_EmptySet
    <2>2. {rows'[i].order : i \in LiveIn(p)'} = {} /\ 0 .. 0 - 1 = {}
      BY <1>2
    <2> QED  BY <2>1, <2>2 DEF InOrder
  <1>3. CASE s.kind \in {"insert", "update", "remove"}
    <2>1. \A i \in Children(p) : i \in Items /\ i # s.item /\ rows'[i] = rows[i]
      BY <1>3, ExecuteCases DEF Children, RowsOK
    <2> QED  BY <1>1, <2>1 DEF LiveIn, Children
  <1>4. CASE s.kind = "children" /\ s.item = p
    <2>1. \A i \in Children(p) : rows'[i].state # "live"
      BY <1>4, ExecuteCases DEF Children
    <2> QED  BY <1>2, <2>1 DEF LiveIn, Children
  <1>5. CASE s.kind = "grandchildren" /\ p \in Items /\ Parent[p] = s.item
    <2>1. \A i \in Children(p) : rows'[i].state # "live"
      BY <1>5, ExecuteCases DEF Children
    <2> QED  BY <1>2, <2>1 DEF LiveIn, Children
  <1>6. CASE /\ s.kind \in {"children", "grandchildren"}
             /\ ~(s.kind = "children" /\ s.item = p) /\ ~(s.kind = "grandchildren" /\ p \in Items /\ Parent[p] = s.item)
    <2>1. \A i \in Children(p) : i \in Items /\ rows'[i].state = rows[i].state /\ rows'[i].order = rows[i].order
      BY <1>6, ExecuteCases DEF Children
    <2> QED  BY <1>1, <2>1 DEF LiveIn, Children
  <1> QED  BY <1>3, <1>4, <1>5, <1>6, ExecuteCases

-----------------------------------------------------------------------------
(* What a statement is to a reader.                                               *)

Shown(i) == IF rows[i].state = "absent" THEN "new" ELSE IF Visible(i) THEN "shown" ELSE "gone"
Shape == [i \in Items |-> Shown(i)]

\* An outline has three levels.
LEMMA LevelFacts ==
  ASSUME NEW i \in Items
  PROVE  /\ Parent[i] = Root \/ Parent[i] \in Items
         /\ Parent[i] \in Items /\ Parent[Parent[i]] \in Items => Parent[Parent[Parent[i]]] = Root
         /\ Root \notin Items
  BY EditorAssumption DEF EditorAssumption

\* The level of what is visible: itself, its parent and the parent of that are live.
LEMMA VisibleFacts ==
  ASSUME NEW i \in Items
  PROVE  /\ Parent[i] = Root => (Visible(i) <=> rows[i].state = "live")
         /\ Parent[i] # Root => Parent[i] \in Items
         /\ Parent[i] # Root => (Visible(i) <=> rows[i].state = "live" /\ Visible(Parent[i]))
  BY LevelFacts DEF Visible

\* An insert shows an item, or puts it below one that is gone.
LEMMA InsertIsAddOrForget ==
  ASSUME RowsOK, NEW s, StatementOK(s), Execute(s), s.kind = "insert"
  PROVE  Outline!OutlineNext
  <1> DEFINE i == s.item
  <1>1. /\ i \in Items /\ rows[i].state = "absent" /\ rows'[i].state = "live"
        /\ \A j \in Items \ {i} : rows'[j] = rows[j]
    BY ExecuteCases DEF StatementOK
  <1>2. ASSUME NEW j \in Items \ {i}
        PROVE  Shown(j)' = Shown(j)
    <2>1. CASE rows[j].state = "absent"
      BY <1>1, <2>1 DEF Shown
    <2>2. CASE rows[j].state # "absent"
      <3>1. Parent[j] # Root => Parent[j] \in Items \ {i} /\ rows[Parent[j]].state # "absent"
        BY <1>1, <2>2, LevelFacts DEF RowsOK
      <3>2. Parent[j] # Root /\ Parent[Parent[j]] # Root => Parent[Parent[j]] \in Items \ {i}
        BY <1>1, <3>1, LevelFacts DEF RowsOK
      <3> QED  BY <1>1, <3>1, <3>2 DEF Shown, Visible
    <2> QED  BY <2>1, <2>2
  <1>3. Shown(i) = "new"
    BY <1>1 DEF Shown
  <1>4. CASE Parent[i] = Root
    <2>1. Shown(i)' = "shown"
      BY <1>1, <1>4 DEF Shown, Visible
    <2>2. Shape' = [Shape EXCEPT ![i] = "shown"]
      BY <1>1, <1>2, <2>1 DEF Shape
    <2>3. Outline!Add(i)
      BY <1>1, <1>3, <1>4, <2>2 DEF Outline!Add, Shape, Shown
    <2> QED  BY <1>1, <2>3 DEF Outline!OutlineNext
  <1>5. CASE Parent[i] # Root
    <2>1. Parent[i] \in Items \ {i} /\ rows[Parent[i]].state # "absent"
      BY <1>1, <1>5, LevelFacts DEF StatementOK
    <2>2. Shown(Parent[i])' = Shown(Parent[i])
      BY <1>2, <2>1
    <2>3. Parent[Parent[i]] # Root => Parent[Parent[i]] \in Items \ {i} /\ Parent[Parent[Parent[i]]] = Root
      BY <1>1, <2>1, LevelFacts DEF RowsOK
    <2>4. Shown(i)' = Shown(Parent[i])
      BY <1>1, <1>5, <2>1, <2>3 DEF Shown, Visible
    <2>5. Shape' = [Shape EXCEPT ![i] = Shown(Parent[i])]
      BY <1>1, <1>2, <2>4 DEF Shape
    <2>6. CASE Shown(Parent[i]) = "shown"
      <3>1. Outline!Add(i)
        BY <1>1, <1>3, <2>1, <2>5, <2>6 DEF Outline!Add, Shape, Shown
      <3> QED  BY <1>1, <3>1 DEF Outline!OutlineNext
    <2>7. CASE Shown(Parent[i]) = "gone"
      <3>1. Outline!Forget(i)
        BY <1>1, <1>3, <1>5, <2>1, <2>5, <2>7 DEF Outline!Forget, Shape, Shown
      <3> QED  BY <1>1, <3>1 DEF Outline!OutlineNext
    <2> QED  BY <2>1, <2>6, <2>7 DEF Shown
  <1> QED  BY <1>4, <1>5

\* The soft delete of a visible item takes all that is below it.
LEMMA RemoveIsRemove ==
  ASSUME RowsOK, NEW s, StatementOK(s), Execute(s), s.kind = "remove"
  PROVE  Outline!OutlineNext \/ Shape' = Shape
  <1> DEFINE i == s.item
             below == {i} \cup Children(i) \cup UNION {Children(j) : j \in Children(i)}
  <1>1. /\ i \in Items /\ rows[i].state # "absent"
        /\ \A j \in Items : rows'[j].state = IF rows[j].state = "live" /\ j = i THEN "deleted" ELSE rows[j].state
    BY ExecuteCases DEF StatementOK
  <1>2. \A j \in Items : j \in below <=> j = i \/ Parent[j] = i \/ (Parent[j] \in Items /\ Parent[Parent[j]] = i)
    BY <1>1 DEF Children
  <1>3. ASSUME NEW j \in Items
        PROVE  Visible(j)' <=> Visible(j) /\ (rows[i].state = "live" => j \notin below)
    BY <1>1, <1>2, LevelFacts DEF Visible
  <1>4. \A j \in Items : rows'[j].state = "absent" <=> rows[j].state = "absent"
    BY <1>1
  <1>5. \A j \in Items : Visible(j) => rows[j].state # "absent"
    BY DEF Visible
  <1>6. CASE Visible(i)
    <2>1. rows[i].state = "live"
      BY <1>6 DEF Visible
    <2>2. Shape' = [j \in Items |-> IF j \in below /\ Shape[j] = "shown" THEN "gone" ELSE Shape[j]]
      <3> HIDE DEF below
      <3>1. ASSUME NEW j \in Items
            PROVE  Shown(j)' = IF j \in below /\ Shown(j) = "shown" THEN "gone" ELSE Shown(j)
        BY <1>3, <1>4, <1>5, <2>1 DEF Shown
      <3> QED  BY <3>1 DEF Shape
    <2>3. Shape[i] = "shown"
      BY <1>1, <1>6 DEF Shape, Shown
    <2>4. Outline!Remove(i)
      BY <2>2, <2>3 DEF Outline!Remove, Outline!Subtree, Outline!Children, Children, Shape, Shown
    <2> QED  BY <1>1, <2>4 DEF Outline!OutlineNext
  <1>7. CASE ~Visible(i)
    <2>1. ASSUME NEW j \in Items, Visible(j)
          PROVE  j \notin below
      <3>1. \A k \in Items : Visible(k) /\ Parent[k] \in Items => Visible(Parent[k])
        BY VisibleFacts, LevelFacts
      <3> HIDE DEF below
      <3> QED  BY <1>1, <1>2, <1>7, <2>1, <3>1
    <2>2. \A j \in Items : Visible(j)' <=> Visible(j)
      BY <1>3, <2>1
    <2> QED  BY <1>4, <2>2 DEF Shape, Shown
  <1> QED  BY <1>6, <1>7

\* Every other statement is nothing to a reader.
LEMMA OthersAreSilent ==
  ASSUME RowsOK, NEW s, StatementOK(s), Execute(s), s.kind \in {"update", "children", "grandchildren"}
  PROVE  Shape' = Shape
  <1>1. CASE s.kind = "update"
    <2>1. \A i \in Items : rows'[i].state = rows[i].state
      BY <1>1, ExecuteCases
    <2> QED  BY <2>1, LevelFacts DEF Shape, Shown, Visible
  <1>2. CASE s.kind \in {"children", "grandchildren"}
    <2>1. s.item \in Items /\ rows[s.item].state = "deleted" /\ rows'[s.item].state = "deleted"
      BY <1>2, ExecuteCases DEF StatementOK
    <2>2. \A i \in Items :
             /\ rows'[i].state = "absent" <=> rows[i].state = "absent"
             /\ rows'[i].state = "live" => rows[i].state = "live"
             /\ rows[i].state = "live" /\ rows'[i].state # "live" =>
                  Parent[i] = s.item \/ (Parent[i] \in Items /\ Parent[Parent[i]] = s.item)
      BY <1>2, ExecuteCases
    <2>3. \A i \in Items : rows[i].state = "live" /\ rows'[i].state # "live" => ~Visible(i)
      BY <2>1, <2>2, LevelFacts DEF Visible
    <2>4. \A i \in Items : Visible(i)' <=> Visible(i)
      BY <2>1, <2>2, <2>3, LevelFacts, VisibleFacts DEF Visible
    <2> QED  BY <2>2, <2>4 DEF Shape, Shown
  <1> QED  BY <1>1, <1>2

-----------------------------------------------------------------------------
(* The requests between two steps.                                                *)

\* Where a request is, and where it goes on to.
LEMMA StepFacts ==
  ASSUME RequestsOK, NEW r \in Requests
  PROVE  /\ req[r] \in Asked /\ GroupOf(req[r]) \in Parents
         /\ req[r].op \in {"create", "delete", "reorder"}
         /\ req[r].op \in {"create", "delete"} => req[r].item \in Items /\ GroupOf(req[r]) = Parent[req[r].item]
         /\ Step(r) \in StepsOf(req[r])
         /\ Step(r) # "answer" /\ Proceed(r) /\ req' = req =>
              /\ at'[r] \in 1 .. Len(Path(req[r]))
              /\ <<Step(r), Step(r)'>> \in Follows(req[r])
  <1>1. req[r] \in Asked /\ at[r] \in 1 .. Len(Path(req[r])) /\ at \in [Requests -> Nat]
    BY DEF RequestsOK
  <1>2. ASSUME Proceed(r), req' = req
        PROVE  at'[r] = at[r] + 1 /\ Step(r)' = Path(req[r])[at[r] + 1]
    BY <1>1, <1>2 DEF Proceed, Step
  <1>3. /\ Path(req[r])[at[r]] \in StepsOf(req[r])
        /\ Path(req[r])[at[r]] # "answer" =>
             /\ at[r] + 1 \in 1 .. Len(Path(req[r]))
             /\ <<Path(req[r])[at[r]], Path(req[r])[at[r] + 1]>> \in Follows(req[r])
    BY <1>1, PathFacts
  <1>4. Step(r) = Path(req[r])[at[r]]
    BY DEF Step
  <1> QED  BY <1>1, <1>2, <1>3, <1>4, AskedFacts

\* What goes on stays among the steps of its request, past the listing for good.
LEMMA FollowsFacts ==
  ASSUME NEW q \in Asked, NEW f \in Follows(q)
  PROVE  /\ f = <<f[1], f[2]>> /\ f[1] # "answer"
         /\ f[1] \notin {"check", "list"} => f[2] \notin {"check", "list"}
         /\ f[2] # "check" /\ (f[2] = "list" => f[1] = "check")
         /\ f[2] = "insert" => f[1] = "list" /\ q.op = "create"
         /\ f[1] = "insert" => f[2] = "audit"
         /\ f[2] = "remove" => f[1] = "check" /\ q.op = "delete"
         /\ f[2] = "children" => f[1] = "remove"
         /\ f[2] = "grandchildren" => f[1] = "children"
         /\ f[2] = "arrange" => f[1] \in {"list", "compact"}
         /\ q.op = "create" => (f[2] = "audit" => f[1] = "insert") /\ (f[2] = "answer" => f[1] = "audit")
         /\ q.op = "reorder" => /\ f[2] = "audit" => f[1] = "arrange"
                                /\ f[2] = "answer" => f[1] = "audit"
         /\ q.op = "delete" => (f[2] = "answer" => f[1] = "arrange") /\ f[1] # "list"
         /\ f[1] = "list" => q.op \in {"create", "reorder"}
         /\ f[1] \in {"compact", "remove", "children", "grandchildren"} => q.op = "delete"
  <1>1. q.op \in {"create", "delete", "reorder"}
    BY AskedFacts
  <1>2. CASE q.op = "create"
    BY <1>2 DEF Follows
  <1>3. CASE q.op = "reorder"
    BY <1>3 DEF Follows
  <1>4. CASE q.op = "delete"
    BY <1>4 DEF Follows
  <1> QED  BY <1>1, <1>2, <1>3, <1>4

\* The step a request is at tells what it may be.
LEMMA StepsOfFacts ==
  ASSUME NEW q \in Asked
  PROVE  /\ StepsOf(q) \subseteq Names
         /\ "insert" \in StepsOf(q) => q.op = "create"
         /\ "arrange" \in StepsOf(q) => q.op \in {"reorder", "delete"}
         /\ "list" \in StepsOf(q) => q.op \in {"create", "reorder"}
         /\ StepsOf(q) \cap {"compact", "remove", "children", "grandchildren"} # {} => q.op = "delete"
  <1>1. q.op \in {"create", "delete", "reorder"}
    BY AskedFacts
  <1>2. CASE q.op = "create"
    BY <1>2 DEF Follows, StepsOf, Names
  <1>3. CASE q.op = "reorder"
    BY <1>3 DEF Follows, StepsOf, Names
  <1>4. CASE q.op = "delete"
    BY <1>4 DEF Follows, StepsOf, Names
  <1> QED  BY <1>1, <1>2, <1>3, <1>4

\* What a request sends may be carried out, and is about its own item or siblings.
LEMMA SendableFacts ==
  ASSUME IInv, NEW r \in Requests, Active(r), NEW s \in Sendable(r)
  PROVE  /\ StatementOK(s)
         /\ s.kind = "insert" => /\ Step(r) = "insert" /\ req[r].op = "create" /\ s.item = req[r].item
                                 /\ <<s.item, s.order>> \in plan[r] /\ \A x \in plan[r] : x = <<s.item, s.order>>
         /\ s.kind = "update" => Step(r) = "arrange" /\ <<s.item, s.order>> \in plan[r]
         /\ s.kind \in {"remove", "children", "grandchildren"} =>
              Step(r) = s.kind /\ req[r].op = "delete" /\ s.item = req[r].item
         /\ s.kind \in {"insert", "update", "remove"} => Parent[s.item] = GroupOf(req[r])
         /\ \A t \in Sendable(r) : t.kind = s.kind /\ (t.kind = "insert" => t = s)
         /\ Step(r) \in {"insert", "arrange", "remove", "children", "grandchildren"}
  <1>1. /\ CallOK(r) /\ req[r] \in Asked /\ plan[r] \subseteq Items \X Nat
        /\ \A x \in plan[r] : x = <<x[1], x[2]>> /\ x[1] \in Items /\ x[2] \in Nat
    BY DEF IInv, CallsOK, RequestsOK
  <1>2. /\ Step(r) \in StepsOf(req[r])
        /\ req[r].op \in {"create", "delete"} => req[r].item \in Items /\ GroupOf(req[r]) = Parent[req[r].item]
    BY StepFacts DEF IInv
  <1>3. CASE Step(r) = "insert"
    <2>1. Sendable(r) = {[kind |-> "insert", item |-> x[1], order |-> x[2]] : x \in plan[r]}
      BY <1>3 DEF Sendable
    <2>2. PICK x \in plan[r] : s = [kind |-> "insert", item |-> x[1], order |-> x[2]]
      BY <2>1
    <2>3. req[r].op = "create"
      BY <1>1, <1>2, <1>3, StepsOfFacts
    <2>4. /\ \A y, z \in plan[r] : y = z /\ y[1] = req[r].item
          /\ rows[req[r].item].state = "absent"
          /\ Parent[req[r].item] # Root => rows[Parent[req[r].item]].state # "absent"
          /\ \A y \in plan[r] : Parent[y[1]] = GroupOf(req[r]) /\ y[2] \in OrdersUnder(GroupOf(req[r]))
      BY <1>1, <1>2, <1>3, <2>3 DEF CallOK
    <2>5. s \in Statements
      BY <1>1, <2>2 DEF Statements
    <2> QED  BY <1>1, <1>2, <1>3, <2>1, <2>2, <2>3, <2>4, <2>5 DEF StatementOK
  <1>4. CASE Step(r) = "arrange"
    <2>1. Sendable(r) = {[kind |-> "update", item |-> x[1], order |-> x[2]] : x \in plan[r]}
      BY <1>4 DEF Sendable
    <2>2. PICK x \in plan[r] : s = [kind |-> "update", item |-> x[1], order |-> x[2]]
      BY <2>1
    <2>3. \A y \in plan[r] : Parent[y[1]] = GroupOf(req[r]) /\ y[2] \in OrdersUnder(GroupOf(req[r]))
      BY <1>1 DEF CallOK
    <2>4. s \in Statements
      BY <1>1, <2>2 DEF Statements
    <2> QED  BY <1>1, <1>4, <2>1, <2>2, <2>3, <2>4 DEF StatementOK
  <1>5. CASE Step(r) \in {"remove", "children", "grandchildren"}
    <2>1. Sendable(r) = {[kind |-> Step(r), item |-> req[r].item, order |-> 0]}
      BY <1>5 DEF Sendable
    <2>2. req[r].op = "delete"
      BY <1>1, <1>2, <1>5, StepsOfFacts
    <2>3. /\ rows[req[r].item].state # "absent"
          /\ Step(r) \in {"children", "grandchildren"} => rows[req[r].item].state = "deleted"
      BY <1>1, <2>2 DEF CallOK
    <2>4. s = [kind |-> Step(r), item |-> req[r].item, order |-> 0]
      BY <2>1
    <2>5. s \in Statements
      BY <1>2, <1>5, <2>2, <2>4 DEF Statements
    <2> QED  BY <1>1, <1>2, <1>5, <2>1, <2>2, <2>3, <2>4, <2>5 DEF StatementOK
  <1>6. Step(r) \in {"insert", "arrange", "remove", "children", "grandchildren"}
    BY DEF Sendable
  <1> QED  BY <1>3, <1>4, <1>5, <1>6

-----------------------------------------------------------------------------
(* What a step leaves as it was.                                                  *)

\* A request that stays where it is keeps its part of the invariant while rows only
\* change as statements change them.
LEMMA CallFrame ==
  ASSUME NEW r \in Requests, CallOK(r), Step(r)' = Step(r), req'[r] = req[r], plan'[r] = plan[r], req[r] \in Asked,
         \A i \in Items : rows[i].state # "absent" => rows'[i].state # "absent",
         \A i \in Items : rows[i].state = "deleted" => rows'[i].state = "deleted",
         req[r].op = "create" /\ rows[req[r].item].state = "absent" => rows'[req[r].item].state = "absent"
  PROVE  CallOK(r)'
  <1>1. /\ req[r].op \in {"create", "delete"} => req[r].item \in Items
        /\ GroupOf(req[r]) \in Parents /\ GroupOf(req[r])' = GroupOf(req[r])
    BY AskedFacts DEF GroupOf
  <1>2. GroupOf(req[r]) # Root => GroupOf(req[r]) \in Items
    BY <1>1 DEF Parents
  <1> QED  BY <1>1, <1>2 DEF CallOK

LEMMA AloneFrame ==
  ASSUME NEW r \in Requests, AloneOK(r), Step(r)' = Step(r), req'[r] = req[r], plan'[r] = plan[r],
         rows' = rows, damaged' = damaged
  PROVE  AloneOK(r)'
  <1>1. GroupOf(req[r])' = GroupOf(req[r])
    BY DEF GroupOf
  <1>2. \A p : LiveIn(p)' = LiveIn(p) /\ (InOrder(p) => InOrder(p)') /\ (Arranging(r, p) => Arranging(r, p)')
    BY DEF LiveIn, Children, InOrder, Arranging
  <1> QED  BY <1>1, <1>2 DEF AloneOK

LEMMA LateFrame ==
  ASSUME NEW s, LateOK(s), Parent[s.item] \in damaged => Parent[s.item] \in damaged',
         \A r \in Requests : state[r] = "failed" /\ req[r].op = "create" => state'[r] = "failed" /\ req'[r] = req[r],
         \A i \in Items : rows[i].state # "absent" => rows'[i].state # "absent",
         \A i \in Items : rows[i].state = "deleted" => rows'[i].state = "deleted",
         s.kind = "insert" /\ rows[s.item].state = "absent" => rows'[s.item].state = "absent",
         \A t \in late' : t \in late \/ ~(s.kind = "insert" /\ t.kind = "insert" /\ t.item = s.item)
  PROVE  LateOK(s)'
  <1>1. StatementOK(s)'
    <2>1. s \in Statements /\ s.item \in Items /\ (Parent[s.item] # Root => Parent[s.item] \in Items)
      BY LevelFacts DEF LateOK, StatementOK, Statements
    <2> QED  BY <2>1 DEF LateOK, StatementOK
  <1> QED  BY <1>1 DEF LateOK

\* While a request is under way, nobody else runs alone.
LEMMA OnlyOneAlone ==
  ASSUME RequestsOK, NEW r \in Requests, Active(r), NEW t \in Requests, Active(t), t \notin exposed
  PROVE  t = r /\ late = {}
  BY DEF RequestsOK

\* A step of one request that writes nothing and goes on.
LEMMA QuietStep ==
  ASSUME IInv, NEW r \in Requests, Active(r), Step(r) # "answer", Proceed(r),
         UNCHANGED <<rows, canonical, state, req, late, exposed, damaged>>,
         plan' \in [Requests -> SUBSET (Items \X Nat)], \A t \in Requests \ {r} : plan'[t] = plan[t],
         CallOK(r)', r \notin exposed => AloneOK(r)'
  PROVE  IInv'
  <1> USE DEF IInv
  <1>1. \A t \in Requests : Active(t)' <=> Active(t)
    BY DEF Active
  <1>2. ASSUME NEW t \in Requests \ {r}
        PROVE  Step(t)' = Step(t) /\ at'[t] = at[t]
    BY DEF Step, Proceed, RequestsOK
  <1>3. /\ at'[r] \in 1 .. Len(Path(req[r])) /\ at' \in [Requests -> Nat]
        /\ <<Step(r), Step(r)'>> \in Follows(req[r]) /\ req[r] \in Asked
    <2>1. at' \in [Requests -> Nat]
      BY DEF Proceed, RequestsOK
    <2> QED  BY <2>1, StepFacts
  <1>4. RowsOK'
    BY DEF RowsOK
  <1>5. RequestsOK'
    <2>1. \A t \in Requests : state'[t] = "idle" => plan'[t] = {}
      BY DEF RequestsOK, Active
    <2>2. \A t \in Requests : at'[t] \in 1 .. Len(Path(req'[t]))
      BY <1>2, <1>3 DEF RequestsOK
    <2> QED  BY <1>1, <1>3, <2>1, <2>2 DEF RequestsOK
  <1>6. CallsOK'
    <2>1. ASSUME NEW t \in Requests \ {r}, Active(t)
          PROVE  CallOK(t)'
      BY <1>2, <2>1, CallFrame DEF CallsOK, RequestsOK
    <2> QED  BY <1>1, <2>1 DEF CallsOK
  <1>7. LatesOK'
    <2>1. ASSUME NEW s \in late
          PROVE  LateOK(s)'
      BY LateFrame DEF LatesOK
    <2> QED  BY <2>1 DEF LatesOK
  <1>8. OrderOK'
    <2>1. ASSUME NEW p \in Parents
          PROVE  InOrder(p) => InOrder(p)'
      BY DEF InOrder, LiveIn
    <2>2. ASSUME NEW t \in Requests, Active(t), Step(t) \notin {"check", "list"}
          PROVE  Active(t)' /\ Step(t)' \notin {"check", "list"} /\ GroupOf(req[t])' = GroupOf(req[t])
      <3>1. CASE t # r
        BY <1>1, <1>2, <2>2, <3>1 DEF GroupOf
      <3>2. CASE t = r
        <4>1. /\ <<Step(r), Step(r)'>>[1] = Step(r)
              /\ <<Step(r), Step(r)'>>[2] = Step(r)'
          OBVIOUS
        <4> QED  BY <1>1, <1>3, <2>2, <3>2, <4>1, FollowsFacts DEF GroupOf
      <3> QED  BY <3>1, <3>2
    <2> QED  BY <2>1, <2>2 DEF OrderOK
  <1>9. SoloOK'
    BY <1>1, OnlyOneAlone DEF SoloOK
  <1> QED  BY <1>4, <1>5, <1>6, <1>7, <1>8, <1>9

-----------------------------------------------------------------------------
(* The actions that write nothing.                                                *)

\* The step after the present one, as the table has it.
LEMMA GoesOn ==
  ASSUME RequestsOK, NEW r \in Requests, Step(r) # "answer", Proceed(r), req' = req
  PROVE  /\ <<Step(r), Step(r)'>> \in Follows(req[r]) /\ req[r] \in Asked
         /\ <<Step(r), Step(r)'>>[1] = Step(r) /\ <<Step(r), Step(r)'>>[2] = Step(r)'
         /\ GroupOf(req[r])' = GroupOf(req[r]) /\ GroupOf(req[r]) \in Parents
         /\ req[r].op \in {"create", "delete", "reorder"}
         /\ req[r].op \in {"create", "delete"} => req[r].item \in Items /\ GroupOf(req[r]) = Parent[req[r].item]
  BY StepFacts DEF GroupOf

\* When a request ends, its parent is in order or marked.
LEMMA EndStep ==
  ASSUME IInv, NEW r \in Requests, Active(r), NEW outcome \in {"ok", "unreadable", "refused", "failed"}, End(r, outcome),
         UNCHANGED <<rows, canonical, req, at, plan, exposed>>,
         outcome = "refused" => Step(r) \in {"check", "list"} /\ late' = late,
         outcome \in {"ok", "unreadable"} => Step(r) = "answer" /\ late' = late,
         outcome = "failed" => \E S \in SUBSET Sendable(r) : late' = late \cup S
  PROVE  IInv'
  <1>0. \A s \in Sendable(r) :
          /\ StatementOK(s)
          /\ s.kind = "insert" => req[r].op = "create" /\ s.item = req[r].item
          /\ s.kind \in {"insert", "update", "remove"} => Parent[s.item] = GroupOf(req[r])
          /\ \A t \in Sendable(r) : t.kind = "insert" => t = s
    <2> SUFFICES ASSUME NEW s \in Sendable(r)
                 PROVE  /\ StatementOK(s)
                        /\ s.kind = "insert" => req[r].op = "create" /\ s.item = req[r].item
                        /\ s.kind \in {"insert", "update", "remove"} => Parent[s.item] = GroupOf(req[r])
                        /\ \A t \in Sendable(r) : t.kind = "insert" => t = s
      OBVIOUS
    <2>1. \A t \in Sendable(r) : t.kind = s.kind /\ (t.kind = "insert" => t = s)
      BY SendableFacts
    <2> QED  BY <2>1, SendableFacts
  <1> USE DEF IInv
  <1> DEFINE p == GroupOf(req[r])
  <1>1. /\ p \in Parents /\ req[r].op \in {"create", "delete", "reorder"} /\ state[r] = "active"
        /\ state' = [state EXCEPT ![r] = outcome]
        /\ state \in [Requests -> {"idle", "active", "ok", "unreadable", "refused", "failed"}]
    BY StepFacts DEF RequestsOK, End, Active
  <1>2. \A t \in Requests : /\ state'[t] = IF t = r THEN outcome ELSE state[t]
                            /\ Active(t)' <=> Active(t) /\ t # r
                            /\ Step(t)' = Step(t)
    BY <1>1 DEF Active, Step
  <1>3. damaged' \subseteq damaged \cup {p} /\ \A g \in Parents \ {p} : g \in damaged => g \in damaged'
    BY DEF End
  <1>4. r \in exposed \/ outcome \in {"refused", "failed"} => damaged \subseteq damaged'
    BY DEF End
  <1>5. outcome # "refused" => p \in damaged' \/ InOrder(p)
    <2>1. CASE outcome = "failed" \/ (outcome # "refused" /\ r \in exposed)
      BY <2>1 DEF End
    <2>2. CASE outcome \notin {"refused", "failed"} /\ r \notin exposed
      <3>1. AloneOK(r) /\ Step(r) = "answer"
        BY <2>2 DEF SoloOK
      <3>2. CASE req[r].op = "create"
        BY <2>2, <3>1, <3>2 DEF AloneOK, End
      <3>3. CASE req[r].op \in {"delete", "reorder"}
        BY <3>1, <3>3 DEF AloneOK
      <3> QED  BY <1>1, <3>2, <3>3
    <2> QED  BY <2>1, <2>2
  <1>6. \A g : LiveIn(g)' = LiveIn(g) /\ (InOrder(g) => InOrder(g)')
    BY DEF LiveIn, InOrder
  <1>7. RowsOK'
    BY DEF RowsOK
  <1>8. RequestsOK'
    <2>1. /\ state' \in [Requests -> {"idle", "active", "ok", "unreadable", "refused", "failed"}]
          /\ damaged' \subseteq Parents
      BY <1>1, <1>3 DEF RequestsOK
    <2>2. ASSUME NEW t \in Requests, Active(t)', t \notin exposed
          PROVE  FALSE
      BY <1>2, <2>2, OnlyOneAlone
    <2>3. \A t \in Requests : state'[t] # "idle" <=> state[t] # "idle"
      BY <1>1, <1>2
    <2>4. \A t \in Requests : at'[t] \in 1 .. Len(Path(req'[t])) /\ (state'[t] = "idle" => plan'[t] = {})
      BY <2>3 DEF RequestsOK
    <2> QED  BY <2>1, <2>2, <2>3, <2>4 DEF RequestsOK
  <1>9. CallsOK'
    <2>1. ASSUME NEW t \in Requests, Active(t)'
          PROVE  CallOK(t)'
      BY <1>2, <2>1, CallFrame DEF CallsOK, RequestsOK
    <2> QED  BY <2>1 DEF CallsOK
  <1>10. LatesOK'
    <2>1. \A s \in late' : s \in late \/ (s \in Sendable(r) /\ outcome = "failed")
      BY <1>1
    <2>2. ASSUME NEW s \in late, NEW t \in Sendable(r), s.kind = "insert", t.kind = "insert", s.item = t.item
          PROVE  FALSE
      <3>1. PICK c \in Requests : state[c] = "failed" /\ req[c].op = "create" /\ req[c].item = s.item
        BY <2>2 DEF LatesOK, LateOK
      <3>2. req[r].op = "create" /\ req[r].item = t.item
        BY <1>0, <2>2
      <3> QED  BY <1>1, <2>2, <3>1, <3>2 DEF RequestsOK
    <2>3. ASSUME NEW s \in late
          PROVE  LateOK(s)'
      <3>1. LateOK(s)
        BY DEF LatesOK
      <3>2. damaged \subseteq damaged'
        BY <1>4, OnlyOneAlone
      <3>3. \A c \in Requests : state[c] = "failed" /\ req[c].op = "create" => state'[c] = "failed" /\ req'[c] = req[c]
        BY <1>1, <1>2
      <3>4. \A t \in late' : t \in late \/ ~(s.kind = "insert" /\ t.kind = "insert" /\ t.item = s.item)
        BY <2>1, <2>2
      <3> QED  BY <3>1, <3>2, <3>3, <3>4, LateFrame
    <2>4. ASSUME NEW s \in Sendable(r), outcome = "failed"
          PROVE  LateOK(s)'
      <3>1. StatementOK(s)'
        BY <1>0 DEF StatementOK
      <3>2. s.kind \in {"insert", "update", "remove"} => Parent[s.item] \in damaged'
        BY <1>0, <2>4 DEF End
      <3>3. s.kind = "insert" => state'[r] = "failed" /\ req'[r].op = "create" /\ req'[r].item = s.item
        BY <1>0, <1>2, <2>4
      <3>4. ASSUME s.kind = "insert", NEW t \in late', t.kind = "insert", t.item = s.item
            PROVE  t = s
        <4>1. t \in Sendable(r)
          BY <2>1, <2>2, <3>4
        <4> QED  BY <1>0, <3>4, <4>1
      <3> QED  BY <3>1, <3>2, <3>3, <3>4 DEF LateOK
    <2> QED  BY <2>1, <2>3, <2>4 DEF LatesOK
  <1>11. OrderOK'
    <2>1. ASSUME NEW g \in Parents
          PROVE  g \in damaged' \/ InOrder(g)'
                   \/ \E t \in Requests : Active(t)' /\ Step(t)' \notin {"check", "list"} /\ GroupOf(req[t])' = g
      <3>1. CASE g = p /\ outcome # "refused"
        BY <1>5, <1>6, <3>1
      <3>2. CASE g # p \/ outcome = "refused"
        <4>1. g \in damaged => g \in damaged'
          BY <1>3, <1>4, <3>2
        <4>2. ASSUME NEW t \in Requests, Active(t), Step(t) \notin {"check", "list"}, GroupOf(req[t]) = g
              PROVE  t # r /\ GroupOf(req[t])' = g
          BY <3>2, <4>2 DEF GroupOf
        <4> QED  BY <1>2, <1>6, <4>1, <4>2 DEF OrderOK
      <3> QED  BY <3>1, <3>2
    <2> QED  BY <2>1 DEF OrderOK
  <1>12. SoloOK'
    BY <1>2, OnlyOneAlone DEF SoloOK
  <1> QED  BY <1>7, <1>8, <1>9, <1>10, <1>11, <1>12

LEMMA CheckStep ==
  ASSUME IInv, NEW r \in Requests, Check(r)
  PROVE  IInv'
  <1> USE DEF IInv
  <1> DEFINE needed == IF req[r].op = "delete" THEN req[r].item ELSE GroupOf(req[r])
  <1>1. Active(r) /\ Step(r) = "check"
    BY DEF Check
  <1>2. CASE canonical /\ (needed # Root => rows[needed].state = "live") /\ Proceed(r) /\ UNCHANGED <<state, damaged>>
    <2>1. CallOK(r)
      BY <1>1 DEF CallsOK
    <2>2. /\ UNCHANGED <<rows, canonical, state, req, plan, late, exposed, damaged>>
          /\ plan' \in [Requests -> SUBSET (Items \X Nat)] /\ \A t \in Requests : plan'[t] = plan[t]
      BY <1>2 DEF Check, RequestsOK
    <2>3. Step(r)' \in {"list", "remove"} /\ (Step(r)' = "list" => req[r].op # "delete")
      BY <1>1, <1>2, <2>2, GoesOn DEF Follows
    <2>4. req[r].op = "create" /\ GroupOf(req[r]) # Root => rows[GroupOf(req[r])].state # "absent"
      BY <1>2
    <2>5. CallOK(r)'
      BY <1>1, <2>1, <2>2, <2>3, <2>4 DEF CallOK, GroupOf
    <2>6. AloneOK(r)'
      BY <2>3 DEF AloneOK
    <2> QED  BY <1>1, <1>2, <2>2, <2>5, <2>6, QuietStep
  <1>3. CASE End(r, "refused") /\ UNCHANGED at
    <2>1. UNCHANGED <<rows, canonical, req, at, plan, exposed>> /\ late' = late
      BY <1>3 DEF Check
    <2> QED  BY <1>1, <1>3, <2>1, EndStep
  <1> QED  BY <1>2, <1>3 DEF Check

LEMMA AnswerStep ==
  ASSUME IInv, NEW r \in Requests, Answer(r)
  PROVE  IInv'
  <1>1. /\ Active(r) /\ Step(r) = "answer" /\ UNCHANGED <<rows, canonical, req, at, plan, late, exposed>>
        /\ End(r, "ok") \/ End(r, "unreadable")
    BY DEF Answer, Answering
  <1> QED  BY <1>1, EndStep

LEMMA FailStep ==
  ASSUME IInv, NEW r \in Requests, Fail(r)
  PROVE  IInv'
  <1>1. /\ Active(r) /\ End(r, "failed") /\ UNCHANGED <<rows, canonical, req, at, plan, exposed>>
        /\ \E S \in SUBSET Sendable(r) : late' = late \cup S
    BY DEF Fail
  <1> QED  BY <1>1, EndStep

\* The live siblings of a new item number at most one less than its parent has room for.
LEMMA ListStep ==
  ASSUME IInv, NEW r \in Requests, List(r)
  PROVE  IInv'
  <1> USE DEF IInv
  <1> DEFINE p == GroupOf(req[r])
             siblings == LiveIn(p)
  <1>1. Active(r) /\ Step(r) = "list" /\ UNCHANGED <<rows, canonical, req, late, exposed>> /\ CallOK(r)
    BY DEF List, CallsOK
  <1>2. p \in Parents /\ siblings \in SUBSET Children(p)
    BY StepFacts DEF LiveIn
  <1>3. /\ IsFiniteSet(siblings) /\ Cardinality(siblings) \in Nat /\ Cardinality(Children(p)) \in Nat
        /\ \A i \in Children(p) \ siblings : Cardinality(siblings) + 1 <= Cardinality(Children(p))
    BY <1>2, SiblingFacts
  <1>4. LiveIn(p)' = siblings /\ (InOrder(p) => InOrder(p)')
    BY <1>1 DEF LiveIn, InOrder
  <1>5. CASE /\ req[r].op = "create"
             /\ plan' = [plan EXCEPT ![r] = {<<req[r].item, Cardinality(siblings)>>}]
             /\ Proceed(r) /\ UNCHANGED <<state, damaged>>
    <2>1. Step(r)' = "insert" /\ req[r].item \in Items /\ p = Parent[req[r].item] /\ GroupOf(req[r])' = p
      BY <1>1, <1>5, GoesOn DEF Follows
    <2>2. /\ plan'[r] = {<<req[r].item, Cardinality(siblings)>>}
          /\ plan' \in [Requests -> SUBSET (Items \X Nat)] /\ \A t \in Requests \ {r} : plan'[t] = plan[t]
      BY <1>3, <1>5, <2>1 DEF RequestsOK
    <2>3. Cardinality(siblings) \in OrdersUnder(p)
      <3>1. req[r].item \in Children(p) \ siblings
        BY <1>1, <1>5, <2>1 DEF CallOK, Children, LiveIn
      <3>2. Cardinality(siblings) + 1 <= Cardinality(Children(p))
        BY <1>3, <3>1
      <3> QED  BY <1>3, <3>2 DEF OrdersUnder
    <2>4. CallOK(r)'
      <3>1. \A x \in plan'[r] : x[1] = req[r].item /\ Parent[x[1]] = p /\ x[2] \in OrdersUnder(p)
        BY <2>1, <2>2, <2>3
      <3>2. \A x, y \in plan'[r] : x = y
        BY <2>2
      <3>3. rows[req[r].item].state = "absent" /\ (p # Root => rows[p].state # "absent")
        BY <1>1, <1>5 DEF CallOK
      <3> QED  BY <1>1, <1>5, <2>1, <3>1, <3>2, <3>3 DEF CallOK
    <2>5. ASSUME r \notin exposed
          PROVE  AloneOK(r)'
      <3>1. p \in damaged \/ InOrder(p)
        BY <1>1, <1>2, <2>5, OnlyOneAlone DEF OrderOK, RequestsOK
      <3> QED  BY <1>1, <1>4, <1>5, <2>1, <2>2, <3>1 DEF AloneOK
    <2> QED  BY <1>1, <1>5, <2>2, <2>4, <2>5, QuietStep
  <1>6. CASE /\ req[r].op = "reorder" /\ {x[1] : x \in plan[r]} = siblings
             /\ Proceed(r) /\ UNCHANGED <<state, damaged, plan>>
    <2>1. Step(r)' = "arrange" /\ GroupOf(req[r])' = p
      BY <1>1, <1>6, GoesOn DEF Follows
    <2>2. PICK S \in SUBSET Children(p) : plan[r] \in Arrangements(S)
      BY <1>1, <1>6 DEF CallOK
    <2>3. plan[r] \in Arrangements(siblings)
      <3>1. IsFiniteSet(S)
        BY <1>2, SiblingFacts
      <3>2. {x[1] : x \in plan[r]} = S
        BY <2>2, <3>1, ArrangementFacts
      <3> QED  BY <1>6, <2>2, <3>2
    <2>4. CallOK(r)'
      BY <1>1, <1>6, <2>1 DEF CallOK
    <2>5. Arranging(r, p)'
      BY <1>1, <1>4, <1>6, <2>3 DEF Arranging
    <2>6. AloneOK(r)'
      BY <1>1, <1>6, <2>1, <2>5 DEF AloneOK
    <2>7. plan' \in [Requests -> SUBSET (Items \X Nat)] /\ \A t \in Requests \ {r} : plan'[t] = plan[t]
      BY <1>6 DEF RequestsOK
    <2> QED  BY <1>1, <1>6, <2>4, <2>6, <2>7, QuietStep
  <1>7. CASE End(r, "refused") /\ UNCHANGED <<at, plan>>
    BY <1>1, <1>7, EndStep
  <1> QED  BY <1>5, <1>6, <1>7 DEF List

\* An arrangement that is carried out to the end is in order.
LEMMA Arranged ==
  ASSUME NEW S, IsFiniteSet(S), NEW R, NEW a \in Arrangements(S), \A x \in a : R[x[1]].order = x[2]
  PROVE  {R[i].order : i \in S} = 0 .. Cardinality(S) - 1
  <1>1. {x[1] : x \in a} = S /\ {x[2] : x \in a} = 0 .. Cardinality(S) - 1
    BY ArrangementFacts
  <1>2. {R[i].order : i \in S} = {x[2] : x \in a}
    <2>1. \A i \in S : \E x \in a : x[1] = i
      BY <1>1
    <2>2. \A x \in a : x[1] \in S
      BY <1>1
    <2>3. \A i \in S : R[i].order \in {x[2] : x \in a}
      BY <2>1
    <2>4. \A x \in a : x[2] \in {R[i].order : i \in S}
      BY <2>2
    <2> QED  BY <2>3, <2>4
  <1> QED  BY <1>1, <1>2

LEMMA ArrangedIsInOrder ==
  ASSUME NEW r \in Requests, NEW p \in Parents
  PROVE  /\ Arranging(r, p) /\ plan[r] = {} => InOrder(p)
         /\ Arranging(r, p)' /\ plan'[r] = {} => InOrder(p)'
  <1>1. IsFiniteSet(LiveIn(p)) /\ IsFiniteSet(LiveIn(p)')
    BY SiblingFacts DEF LiveIn
  <1>2. ASSUME Arranging(r, p), plan[r] = {}
        PROVE  InOrder(p)
    <2>1. PICK a \in Arrangements(LiveIn(p)) : \A x \in a : rows[x[1]].order = x[2]
      BY <1>2 DEF Arranging
    <2> QED  BY <1>1, <2>1, Arranged DEF InOrder
  <1>3. ASSUME Arranging(r, p)', plan'[r] = {}
        PROVE  InOrder(p)'
    <2>1. PICK a \in Arrangements(LiveIn(p)') : \A x \in a : rows'[x[1]].order = x[2]
      BY <1>3 DEF Arranging
    <2> QED  BY <1>1, <2>1, Arranged DEF InOrder
  <1> QED  BY <1>2, <1>3

LEMMA CompactStep ==
  ASSUME IInv, NEW r \in Requests, Compact(r)
  PROVE  IInv'
  <1> USE DEF IInv
  <1> DEFINE p == GroupOf(req[r])
  <1>1. /\ Active(r) /\ Step(r) = "compact" /\ Proceed(r) /\ CallOK(r)
        /\ UNCHANGED <<rows, canonical, state, req, late, exposed, damaged>>
    BY DEF Compact, CallsOK
  <1>2. Step(r)' = "arrange" /\ req[r].op = "delete" /\ p \in Parents /\ GroupOf(req[r])' = p
    <2>1. req[r].op = "delete"
      BY <1>1, StepFacts, StepsOfFacts
    <2> QED  BY <1>1, <2>1, GoesOn DEF Follows
  <1>3. PICK a \in Arrangements(LiveIn(p)) : plan' = [plan EXCEPT ![r] = a]
    BY DEF Compact, Listings
  <1>4. /\ IsFiniteSet(LiveIn(p)) /\ Cardinality(LiveIn(p)) \in Nat /\ Cardinality(Children(p)) \in Nat
        /\ Cardinality(LiveIn(p)) <= Cardinality(Children(p)) /\ LiveIn(p) \subseteq Children(p)
    BY <1>2, SiblingFacts DEF LiveIn
  <1>5. \A x \in a : x = <<x[1], x[2]>> /\ x[1] \in LiveIn(p) /\ x[2] \in 0 .. Cardinality(LiveIn(p)) - 1
    BY <1>4, ArrangementFacts
  <1>6. \A x \in a : x[1] \in Items /\ Parent[x[1]] = p /\ x[2] \in Nat /\ x[2] \in OrdersUnder(p)
    BY <1>4, <1>5 DEF OrdersUnder, LiveIn, Children
  <1>7. /\ plan'[r] = a /\ \A t \in Requests \ {r} : plan'[t] = plan[t]
        /\ plan' \in [Requests -> SUBSET (Items \X Nat)]
    <2>1. a \in SUBSET (Items \X Nat)
      BY <1>5, <1>6
    <2> QED  BY <1>3, <2>1 DEF RequestsOK
  <1>8. CallOK(r)'
    BY <1>1, <1>2, <1>6, <1>7 DEF CallOK, OrdersUnder
  <1>9. AloneOK(r)'
    <2>1. LiveIn(p)' = LiveIn(p)
      BY <1>1 DEF LiveIn
    <2>2. Arranging(r, p)'
      BY <1>7, <2>1 DEF Arranging
    <2> QED  BY <1>1, <1>2, <2>2 DEF AloneOK
  <1> QED  BY <1>1, <1>7, <1>8, <1>9, QuietStep

LEMMA PassStep ==
  ASSUME IInv, NEW r \in Requests, Pass(r)
  PROVE  IInv'
  <1> USE DEF IInv
  <1> DEFINE p == GroupOf(req[r])
  <1>1. /\ Active(r) /\ Proceed(r) /\ CallOK(r) /\ req[r] \in Asked
        /\ Step(r) = "audit" \/ (Step(r) = "arrange" /\ plan[r] = {})
        /\ UNCHANGED <<rows, canonical, state, req, plan, late, exposed, damaged>>
    BY StepFacts DEF Pass, CallsOK
  <1>2. /\ p \in Parents /\ GroupOf(req[r])' = p
        /\ req[r].op \in {"create", "delete", "reorder"}
        /\ Step(r)' \in {"audit", "answer", "compact"}
        /\ Step(r)' = "audit" => Step(r) = "arrange" /\ req[r].op = "reorder"
        /\ req[r].op = "delete" /\ Step(r)' = "answer" => Step(r) = "arrange"
        /\ req[r].op \in {"create", "reorder"} /\ Step(r)' = "answer" => Step(r) = "audit"
    <2>1. /\ <<Step(r), Step(r)'>> \in Follows(req[r]) /\ Step(r) # "answer"
          /\ req[r].op \in {"create", "delete", "reorder"}
      BY <1>1, GoesOn
    <2>2. p \in Parents /\ GroupOf(req[r])' = p
      BY <1>1, GoesOn
    <2>3. CASE req[r].op = "create"
      BY <1>1, <2>1, <2>2, <2>3 DEF Follows
    <2>4. CASE req[r].op = "reorder"
      BY <1>1, <2>1, <2>2, <2>4 DEF Follows
    <2>5. CASE req[r].op = "delete"
      BY <1>1, <2>1, <2>2, <2>5 DEF Follows
    <2> QED  BY <2>1, <2>3, <2>4, <2>5
  <1>3. CallOK(r)'
    BY <1>1, <1>2 DEF CallOK
  <1>4. ASSUME r \notin exposed
        PROVE  AloneOK(r)'
    <2>1. AloneOK(r) /\ (InOrder(p) => InOrder(p)')
      BY <1>1, <1>4 DEF SoloOK, InOrder, LiveIn
    <2>2. Step(r) = "arrange" => InOrder(p)
      BY <1>1, <1>2, <2>1, ArrangedIsInOrder DEF AloneOK
    <2> QED  BY <1>1, <1>2, <2>1, <2>2 DEF AloneOK
  <1>5. plan' \in [Requests -> SUBSET (Items \X Nat)] /\ \A t \in Requests \ {r} : plan'[t] = plan[t]
    BY <1>1 DEF RequestsOK
  <1> QED  BY <1>1, <1>3, <1>4, <1>5, QuietStep

-----------------------------------------------------------------------------
(* The actions that write.                                                        *)

\* A new item at the end keeps its siblings in order.
LEMMA InsertAtTheEnd ==
  ASSUME RowsOK, NEW s, StatementOK(s), Execute(s), s.kind = "insert",
         InOrder(Parent[s.item]), s.order = Cardinality(LiveIn(Parent[s.item]))
  PROVE  InOrder(Parent[s.item])'
  <1> DEFINE p == Parent[s.item]
  <1>1. /\ s.item \in Items /\ rows[s.item].state = "absent"
        /\ rows'[s.item].state = "live" /\ rows'[s.item].order = s.order
        /\ \A i \in Items \ {s.item} : rows'[i] = rows[i]
    BY ExecuteCases DEF StatementOK
  <1>2. p \in Parents /\ LiveIn(p) \in SUBSET Children(p) /\ s.item \in Children(p) \ LiveIn(p)
    BY <1>1, LevelFacts DEF Parents, LiveIn, Children
  <1>3. Cardinality(LiveIn(p)) \in Nat /\ Cardinality(LiveIn(p) \cup {s.item}) = Cardinality(LiveIn(p)) + 1
    BY <1>2, SiblingFacts
  <1>4. LiveIn(p)' = LiveIn(p) \cup {s.item}
    BY <1>1 DEF LiveIn, Children
  <1>5. {rows'[i].order : i \in LiveIn(p) \cup {s.item}} = {rows[i].order : i \in LiveIn(p)} \cup {s.order}
    <2>1. \A i \in LiveIn(p) : rows'[i].order = rows[i].order
      BY <1>1 DEF LiveIn, Children
    <2> HIDE DEF p
    <2> QED  BY <1>1, <2>1
  <1>6. (0 .. Cardinality(LiveIn(p)) - 1) \cup {s.order} = 0 .. (Cardinality(LiveIn(p)) + 1) - 1
    BY <1>3
  <1> QED  BY <1>3, <1>4, <1>5, <1>6 DEF InOrder

\* One update of an arrangement leaves one less to do.
LEMMA ArrangeOne ==
  ASSUME RowsOK, NEW s, StatementOK(s), Execute(s), s.kind = "update",
         NEW r \in Requests, NEW p \in Parents, Arranging(r, p),
         <<s.item, s.order>> \in plan[r], plan'[r] = plan[r] \ {<<s.item, s.order>>}
  PROVE  Arranging(r, p)'
  <1> DEFINE done == <<s.item, s.order>>
  <1>1. PICK a \in Arrangements(LiveIn(p)) : plan[r] \subseteq a /\ \A x \in a \ plan[r] : rows[x[1]].order = x[2]
    BY DEF Arranging
  <1>2. IsFiniteSet(LiveIn(p))
    BY SiblingFacts DEF LiveIn
  <1>3. \A x \in a : x = <<x[1], x[2]>> /\ x[1] \in LiveIn(p)
    BY <1>1, <1>2, ArrangementFacts
  <1>4. \A x, y \in a : x[1] = y[1] => x = y
    BY <1>1, <1>2, ArrangementFacts
  <1>5. /\ \A i \in Items : rows'[i].state = rows[i].state
        /\ \A i \in Items \ {s.item} : rows'[i] = rows[i]
        /\ rows'[s.item].order = IF rows[s.item].state = "live" THEN s.order ELSE rows[s.item].order
    BY ExecuteCases
  <1>6. LiveIn(p)' = LiveIn(p)
    BY <1>5 DEF LiveIn, Children
  <1>7. done \in a /\ done[1] = s.item /\ done[2] = s.order /\ s.item \in LiveIn(p)
    BY <1>1, <1>3
  <1>8. \A x \in a \ plan'[r] : rows'[x[1]].order = x[2]
    <2> SUFFICES ASSUME NEW x \in a \ plan'[r]
                 PROVE  rows'[x[1]].order = x[2]
      OBVIOUS
    <2>1. CASE x = done
      BY <1>5, <1>7, <2>1 DEF LiveIn
    <2>2. CASE x # done
      <3>1. x \in a \ plan[r] /\ x[1] # s.item
        BY <1>4, <1>7, <2>2
      <3>2. x[1] \in Items \ {s.item}
        BY <1>3, <3>1 DEF LiveIn, Children
      <3> QED  BY <1>1, <1>5, <3>1, <3>2
    <2> QED  BY <2>1, <2>2
  <1>9. plan'[r] \subseteq a
    BY <1>1
  <1> QED  BY <1>1, <1>6, <1>8, <1>9 DEF Arranging

\* The request that sent a statement, once it is carried out.
LEMMA WriterOK ==
  ASSUME IInv, NEW r \in Requests, Active(r), NEW s \in Sendable(r), Execute(s), req' = req, damaged' = damaged,
         plan'[r] = plan[r] \ {<<s.item, s.order>>},
         IF plan'[r] = {} \/ Step(r) # "arrange" THEN Proceed(r) ELSE UNCHANGED at
  PROVE  CallOK(r)' /\ (r \notin exposed => AloneOK(r)')
  <1> DEFINE q == req[r]
             p == GroupOf(q)
  <1>1. RowsOK /\ RequestsOK /\ CallOK(r) /\ (r \notin exposed => AloneOK(r))
    BY DEF IInv, CallsOK, SoloOK
  <1>2. /\ p \in Parents /\ GroupOf(req[r])' = p /\ q \in Asked /\ Step(r) \in StepsOf(q)
        /\ q.op \in {"create", "delete", "reorder"}
        /\ q.op \in {"create", "delete"} => q.item \in Items /\ p = Parent[q.item]
    BY <1>1, StepFacts DEF GroupOf
  <1>3. /\ StatementOK(s)
        /\ Step(r) \in {"insert", "arrange", "remove", "children", "grandchildren"}
        /\ s.kind \in {"insert", "update", "remove", "children", "grandchildren"}
        /\ Step(r) \in {"remove", "children", "grandchildren"} => s.kind = Step(r) /\ q.op = "delete" /\ s.item = q.item
    <2>1. StatementOK(s) /\ Step(r) \in {"insert", "arrange", "remove", "children", "grandchildren"}
      BY SendableFacts
    <2>2. s.kind \in {"insert", "update", "remove", "children", "grandchildren"}
      BY <1>1, <2>1, ExecuteCases
    <2>3. /\ s.kind = "insert" => Step(r) = "insert"
          /\ s.kind = "update" => Step(r) = "arrange"
          /\ s.kind \in {"remove", "children", "grandchildren"} =>
               Step(r) = s.kind /\ q.op = "delete" /\ s.item = q.item
      BY SendableFacts
    <2> QED  BY <2>1, <2>2, <2>3
  <1>4. /\ \A i \in Items : rows[i].state # "absent" => rows'[i].state # "absent"
        /\ \A i \in Items : rows[i].state = "deleted" => rows'[i].state = "deleted"
        /\ s.kind = "remove" => rows'[s.item].state = "deleted"
    BY <1>1, <1>3, ExecuteRows
  <1>5. p # Root => p \in Items
    BY <1>2 DEF Parents
  <1>6. CASE Step(r) = "insert"
    <2>1. /\ s.kind = "insert" /\ q.op = "create" /\ s.item = q.item
          /\ <<s.item, s.order>> \in plan[r] /\ \A x \in plan[r] : x = <<s.item, s.order>>
      BY <1>3, <1>6, SendableFacts, ExecuteCases, <1>1
    <2>2. Step(r)' = "audit"
      BY <1>1, <1>6, <2>1, GoesOn DEF Follows
    <2>3. CallOK(r)'
      BY <1>1, <1>2, <1>4, <1>5, <1>6, <2>1, <2>2 DEF CallOK
    <2>4. ASSUME r \notin exposed
          PROVE  AloneOK(r)'
      <3>1. s.order = Cardinality(LiveIn(p)) /\ (p \in damaged \/ InOrder(p))
        BY <1>1, <1>6, <2>1, <2>4 DEF AloneOK
      <3>2. p = Parent[s.item]
        BY <1>2, <2>1
      <3>3. InOrder(p) => InOrder(p)'
        BY <1>1, <1>3, <2>1, <3>1, <3>2, InsertAtTheEnd
      <3> QED  BY <1>2, <2>1, <2>2, <3>1, <3>3 DEF AloneOK
    <2> QED  BY <2>3, <2>4
  <1>7. CASE Step(r) = "arrange"
    <2>1. s.kind = "update" /\ <<s.item, s.order>> \in plan[r]
      BY <1>1, <1>3, <1>7, SendableFacts, ExecuteCases
    <2>2. q.op \in {"reorder", "delete"}
      BY <1>2, <1>7, StepsOfFacts
    <2>3. \/ Step(r)' = "arrange"
          \/ plan'[r] = {} /\ q.op = "reorder" /\ Step(r)' = "audit"
          \/ plan'[r] = {} /\ q.op = "delete" /\ Step(r)' = "answer"
      <3>1. CASE plan'[r] = {}
        BY <1>1, <1>7, <2>2, <3>1, GoesOn DEF Follows
      <3>2. CASE plan'[r] # {}
        BY <1>7, <3>2 DEF Step
      <3> QED  BY <3>1, <3>2
    <2>4. CallOK(r)'
      BY <1>1, <1>2, <1>4, <2>2, <2>3 DEF CallOK
    <2>5. ASSUME r \notin exposed
          PROVE  AloneOK(r)'
      <3>1. Arranging(r, p)
        BY <1>1, <1>7, <2>5 DEF AloneOK
      <3>2. Arranging(r, p)'
        BY <1>1, <1>2, <1>3, <2>1, <3>1, ArrangeOne
      <3>3. plan'[r] = {} => InOrder(p)'
        BY <1>2, <3>2, ArrangedIsInOrder
      <3> QED  BY <1>2, <2>2, <2>3, <3>2, <3>3 DEF AloneOK
    <2> QED  BY <2>4, <2>5
  <1>8. CASE Step(r) \in {"remove", "children", "grandchildren"}
    <2>1. s.kind = Step(r) /\ q.op = "delete" /\ s.item = q.item
      BY <1>3, <1>8
    <2>2. /\ Step(r)' \in {"children", "grandchildren", "audit"}
      BY <1>1, <1>8, <2>1, GoesOn DEF Follows
    <2>3. rows'[q.item].state = "deleted"
      BY <1>1, <1>2, <1>3, <1>4, <1>8, <2>1 DEF StatementOK
    <2>4. CallOK(r)'
      BY <1>1, <1>2, <2>1, <2>2, <2>3 DEF CallOK
    <2>5. AloneOK(r)'
      BY <1>2, <2>1, <2>2 DEF AloneOK
    <2> QED  BY <2>4, <2>5
  <1> QED  BY <1>3, <1>6, <1>7, <1>8

\* A statement of one request spoils nothing for the others.
LEMMA WriteStep ==
  ASSUME IInv, NEW r \in Requests, Write(r)
  PROVE  IInv'
  <1> USE DEF IInv
  <1> DEFINE p == GroupOf(req[r])
  <1>1. /\ Active(r) /\ UNCHANGED <<canonical, state, req, late, exposed, damaged>>
        /\ IF plan'[r] = {} \/ Step(r) # "arrange" THEN Proceed(r) ELSE UNCHANGED at
    BY DEF Write
  <1>2. PICK s \in Sendable(r) : Execute(s) /\ plan' = [plan EXCEPT ![r] = @ \ {<<s.item, s.order>>}]
    BY DEF Write
  <1>3. /\ plan'[r] = plan[r] \ {<<s.item, s.order>>}
        /\ plan' \in [Requests -> SUBSET (Items \X Nat)] /\ \A t \in Requests \ {r} : plan'[t] = plan[t]
    BY <1>2 DEF RequestsOK
  <1>4. /\ StatementOK(s) /\ Step(r) \in {"insert", "arrange", "remove", "children", "grandchildren"}
        /\ s.kind = "insert" => req[r].op = "create" /\ s.item = req[r].item
        /\ s.kind \in {"insert", "update", "remove"} => Parent[s.item] = p
    BY <1>1, SendableFacts
  <1>5. /\ RowsOK'
        /\ \A i \in Items : rows[i].state # "absent" => rows'[i].state # "absent"
        /\ \A i \in Items : rows[i].state = "deleted" => rows'[i].state = "deleted"
        /\ \A i \in Items : rows[i].state = "absent" /\ (s.kind = "insert" => s.item # i) => rows'[i].state = "absent"
    BY <1>2, <1>4, ExecuteRows
  <1>6. \A t \in Requests : Active(t)' <=> Active(t)
    BY <1>1 DEF Active
  <1>7. ASSUME NEW t \in Requests \ {r}
        PROVE  Step(t)' = Step(t) /\ at'[t] = at[t]
    BY <1>1 DEF Step, Proceed, RequestsOK
  <1>8. at' \in [Requests -> Nat] /\ at'[r] \in 1 .. Len(Path(req[r])) /\ Step(r)' \notin {"check", "list"}
    <2>1. CASE Proceed(r)
      <3>1. /\ at'[r] \in 1 .. Len(Path(req[r])) /\ <<Step(r), Step(r)'>> \in Follows(req[r]) /\ req[r] \in Asked
            /\ <<Step(r), Step(r)'>>[1] = Step(r) /\ <<Step(r), Step(r)'>>[2] = Step(r)'
        BY <1>1, <1>4, <2>1, StepFacts
      <3>2. Step(r)' \notin {"check", "list"}
        BY <1>4, <3>1, FollowsFacts
      <3> QED  BY <2>1, <3>1, <3>2 DEF Proceed, RequestsOK
    <2>2. CASE UNCHANGED at
      BY <1>1, <1>4, <2>2 DEF RequestsOK, Step
    <2> QED  BY <1>1, <2>1, <2>2
  <1>9. RequestsOK'
    <2>1. \A t \in Requests : at'[t] \in 1 .. Len(Path(req'[t]))
      BY <1>1, <1>7, <1>8 DEF RequestsOK
    <2>2. \A t \in Requests : state'[t] = "idle" => plan'[t] = {}
      BY <1>1, <1>3 DEF RequestsOK, Active
    <2> QED  BY <1>1, <1>3, <1>6, <1>8, <2>1, <2>2 DEF RequestsOK
  <1>10. CallOK(r)' /\ (r \notin exposed => AloneOK(r)')
    <2> HIDE DEF IInv
    <2> QED  BY <1>1, <1>2, <1>3, WriterOK
  <1>11. CallsOK'
    <2>1. ASSUME NEW t \in Requests \ {r}, Active(t)
          PROVE  CallOK(t)'
      <3>1. req[t].op = "create" /\ rows[req[t].item].state = "absent" => rows'[req[t].item].state = "absent"
        <4>1. req[t].op = "create" => req[t].item \in Items
          BY StepFacts
        <4>2. req[t].op = "create" /\ s.kind = "insert" => s.item # req[t].item
          BY <1>1, <1>4, <2>1 DEF RequestsOK, Active
        <4> QED  BY <1>5, <4>1, <4>2
      <3>2. CallOK(t) /\ req[t] \in Asked
        BY <2>1 DEF CallsOK, RequestsOK
      <3> QED  BY <1>1, <1>3, <1>5, <1>7, <3>1, <3>2, CallFrame
    <2> QED  BY <1>6, <1>10, <2>1 DEF CallsOK
  <1>12. LatesOK'
    <2>1. ASSUME NEW u \in late
          PROVE  LateOK(u)'
      <3>1. LateOK(u) /\ u.item \in Items
        BY DEF LatesOK, LateOK, StatementOK, Statements
      <3>2. ~(u.kind = "insert" /\ s.kind = "insert" /\ s.item = u.item)
        BY <1>1, <1>4, <3>1 DEF LateOK, RequestsOK, Active
      <3>3. u.kind = "insert" /\ rows[u.item].state = "absent" => rows'[u.item].state = "absent"
        BY <1>5, <3>1, <3>2
      <3> QED  BY <1>1, <1>5, <3>1, <3>3, LateFrame
    <2> QED  BY <1>1, <2>1 DEF LatesOK
  <1>13. OrderOK'
    <2>1. ASSUME NEW g \in Parents, g # p
          PROVE  InOrder(g) => InOrder(g)'
      BY <1>2, <1>4, <2>1, ExecuteOrder
    <2>2. ASSUME NEW t \in Requests, Active(t), Step(t) \notin {"check", "list"}
          PROVE  Active(t)' /\ Step(t)' \notin {"check", "list"} /\ GroupOf(req[t])' = GroupOf(req[t])
      BY <1>1, <1>6, <1>7, <1>8, <2>2 DEF GroupOf
    <2>3. Active(r)' /\ Step(r)' \notin {"check", "list"} /\ GroupOf(req[r])' = p
      BY <1>1, <1>4, <2>2
    <2> QED  BY <1>1, <2>1, <2>2, <2>3 DEF OrderOK
  <1>14. SoloOK'
    BY <1>1, <1>6, <1>10, OnlyOneAlone DEF SoloOK
  <1> QED  BY <1>5, <1>9, <1>11, <1>12, <1>13, <1>14

\* Nor does a late one, for which its parent is marked already.
LEMMA LateWriteStep ==
  ASSUME IInv, NEW s \in late, LateWrite(s)
  PROVE  IInv'
  <1> USE DEF IInv
  <1>1. late' = late \ {s} /\ Execute(s) /\ UNCHANGED <<canonical, state, req, at, plan, exposed, damaged>>
    BY DEF LateWrite
  <1>2. LateOK(s) /\ StatementOK(s) /\ s.item \in Items
    BY DEF LatesOK, LateOK, StatementOK, Statements
  <1>3. /\ RowsOK'
        /\ \A i \in Items : rows[i].state # "absent" => rows'[i].state # "absent"
        /\ \A i \in Items : rows[i].state = "deleted" => rows'[i].state = "deleted"
        /\ \A i \in Items : rows[i].state = "absent" /\ (s.kind = "insert" => s.item # i) => rows'[i].state = "absent"
    BY <1>1, <1>2, ExecuteRows
  <1>4. \A t \in Requests : (Active(t)' <=> Active(t)) /\ Step(t)' = Step(t) /\ GroupOf(req[t])' = GroupOf(req[t])
    BY <1>1 DEF Active, Step, GroupOf
  <1>5. \A t \in Requests : Active(t) => t \in exposed
    BY DEF RequestsOK
  <1>6. RequestsOK'
    BY <1>1, <1>4, <1>5 DEF RequestsOK
  <1>7. CallsOK'
    <2>1. ASSUME NEW t \in Requests, Active(t)
          PROVE  CallOK(t)'
      <3>1. req[t].op = "create" /\ rows[req[t].item].state = "absent" => rows'[req[t].item].state = "absent"
        <4>1. req[t].op = "create" => req[t].item \in Items
          BY StepFacts
        <4>2. req[t].op = "create" /\ s.kind = "insert" => s.item # req[t].item
          BY <1>2, <2>1 DEF RequestsOK, Active, LateOK
        <4> QED  BY <1>3, <4>1, <4>2
      <3>2. CallOK(t) /\ req[t] \in Asked
        BY <2>1 DEF CallsOK, RequestsOK
      <3> QED  BY <1>1, <1>3, <1>4, <3>1, <3>2, CallFrame
    <2> QED  BY <1>4, <2>1 DEF CallsOK
  <1>8. LatesOK'
    <2>1. ASSUME NEW u \in late'
          PROVE  LateOK(u)'
      <3>1. LateOK(u) /\ u.item \in Items /\ u # s
        BY <1>1 DEF LatesOK, LateOK, StatementOK, Statements
      <3>2. ~(u.kind = "insert" /\ s.kind = "insert" /\ s.item = u.item)
        BY <3>1 DEF LateOK
      <3>3. u.kind = "insert" /\ rows[u.item].state = "absent" => rows'[u.item].state = "absent"
        BY <1>3, <3>1, <3>2
      <3> QED  BY <1>1, <1>3, <3>1, <3>3, LateFrame
    <2> QED  BY <2>1 DEF LatesOK
  <1>9. OrderOK'
    <2>1. ASSUME NEW g \in Parents \ damaged
          PROVE  InOrder(g) => InOrder(g)'
      BY <1>1, <1>2, <2>1, ExecuteOrder DEF LateOK
    <2> QED  BY <1>1, <1>4, <2>1 DEF OrderOK
  <1>10. SoloOK'
    BY <1>1, <1>4, <1>5 DEF SoloOK
  <1> QED  BY <1>3, <1>6, <1>7, <1>8, <1>9, <1>10

\* A new request exposes all that are under way, and itself beside them.
LEMMA BeginStep ==
  ASSUME IInv, NEW r \in Requests, Begin(r)
  PROVE  IInv'
  <1> USE DEF IInv
  <1> DEFINE others == {t \in Requests : Active(t)}
  <1>1. /\ state[r] = "idle" /\ state' = [state EXCEPT ![r] = "active"] /\ at' = [at EXCEPT ![r] = 1]
        /\ exposed' = exposed \cup others \cup (IF others # {} \/ late # {} THEN {r} ELSE {})
        /\ UNCHANGED <<rows, canonical, late, damaged>>
    BY DEF Begin
  <1>2. PICK q \in Asked :
          /\ q.op = "create" =>
               /\ rows[q.item].state = "absent"
               /\ \A t \in Requests : state[t] # "idle" => ~(req[t].op = "create" /\ req[t].item = q.item)
          /\ q.op = "delete" => rows[q.item].state # "absent"
          /\ req' = [req EXCEPT ![r] = q]
          /\ IF q.op = "reorder"
             THEN \E S \in SUBSET {i \in Children(q.group) : rows[i].state # "absent"} :
                    S # {} /\ \E a \in Arrangements(S) : plan' = [plan EXCEPT ![r] = a]
             ELSE plan' = plan
    BY DEF Begin
  <1>3. /\ req' \in [Requests -> Asked] /\ req'[r] = q /\ \A t \in Requests \ {r} : req'[t] = req[t]
        /\ at' \in [Requests -> Nat] /\ at'[r] = 1 /\ \A t \in Requests \ {r} : at'[t] = at[t]
        /\ state' \in [Requests -> {"idle", "active", "ok", "unreadable", "refused", "failed"}]
        /\ state'[r] = "active" /\ \A t \in Requests \ {r} : state'[t] = state[t]
    BY <1>1, <1>2 DEF RequestsOK
  <1>4. 1 \in 1 .. Len(Path(q)) /\ Path(q)[1] = "check"
    <2>1. at[r] \in 1 .. Len(Path(req[r])) /\ req[r] \in Asked
      BY DEF RequestsOK
    <2>2. Len(Path(q)) = 5 \/ Len(Path(q)) = 6 \/ Len(Path(q)) = 7 \/ Len(Path(q)) = 8
      BY DEF Path
    <2>3. 1 \in 1 .. Len(Path(q))
      BY <2>2
    <2> QED  BY <2>3, PathFacts
  <1>5. Step(r)' = "check" /\ \A t \in Requests \ {r} : Step(t)' = Step(t) /\ GroupOf(req[t])' = GroupOf(req[t])
    BY <1>3, <1>4 DEF Step, GroupOf
  <1>6. ~Active(r) /\ Active(r)' /\ \A t \in Requests \ {r} : Active(t)' <=> Active(t)
    BY <1>1, <1>3 DEF Active
  <1>7. \/ plan' = plan /\ q.op # "reorder"
        \/ q.op = "reorder" /\ \E S \in SUBSET Children(q.group) : \E a \in Arrangements(S) : plan' = [plan EXCEPT ![r] = a]
    BY <1>2
  <1>8. /\ plan' \in [Requests -> SUBSET (Items \X Nat)] /\ \A t \in Requests \ {r} : plan'[t] = plan[t]
        /\ \A x \in plan'[r] : Parent[x[1]] = GroupOf(q) /\ x[2] \in OrdersUnder(GroupOf(q))
        /\ q.op = "reorder" => \E S \in SUBSET Children(GroupOf(q)) : plan'[r] \in Arrangements(S)
    <2>1. CASE plan' = plan /\ q.op # "reorder"
      BY <1>1, <2>1 DEF RequestsOK
    <2>2. CASE q.op = "reorder"
      <3>1. q.group \in Parents /\ GroupOf(q) = q.group
        BY <2>2, AskedFacts
      <3>2. PICK S \in SUBSET Children(q.group) : \E a \in Arrangements(S) : plan' = [plan EXCEPT ![r] = a]
        BY <1>7, <2>2
      <3>3. PICK a \in Arrangements(S) : plan' = [plan EXCEPT ![r] = a]
        BY <3>2
      <3>4. /\ IsFiniteSet(S) /\ Cardinality(S) \in Nat /\ Cardinality(Children(q.group)) \in Nat
            /\ Cardinality(S) <= Cardinality(Children(q.group))
        BY <3>1, SiblingFacts
      <3>5. \A x \in a : x = <<x[1], x[2]>> /\ x[1] \in S /\ x[2] \in 0 .. Cardinality(S) - 1
        BY <3>4, ArrangementFacts
      <3>6. \A x \in a : x[1] \in Items /\ Parent[x[1]] = q.group /\ x[2] \in Nat /\ x[2] \in OrdersUnder(q.group)
        BY <3>4, <3>5 DEF OrdersUnder, Children
      <3>7. a \in SUBSET (Items \X Nat)
        BY <3>5, <3>6
      <3>8. plan'[r] = a
        BY <3>3 DEF RequestsOK
      <3> QED  BY <3>1, <3>3, <3>6, <3>7, <3>8 DEF RequestsOK
    <2> QED  BY <1>7, <2>1, <2>2
  <1>9. RowsOK'
    BY <1>1 DEF RowsOK
  <1>10. \A t \in Requests : Active(t) => t \in exposed'
    BY <1>1
  <1>11. RequestsOK'
    <2>1. ASSUME NEW t \in Requests, NEW u \in Requests, t # u, state'[t] # "idle", state'[u] # "idle",
                 req'[t].op = "create", req'[u].op = "create"
          PROVE  req'[t].item # req'[u].item
      BY <1>2, <1>3, <2>1 DEF RequestsOK
    <2>2. ASSUME NEW t \in Requests, Active(t)', t \notin exposed'
          PROVE  late' = {} /\ \A u \in Requests \ {t} : ~Active(u)'
      <3>1. t = r
        BY <1>6, <1>10, <2>2
      <3>2. others = {} /\ late = {}
        BY <1>1, <2>2, <3>1
      <3> QED  BY <1>1, <1>6, <3>1, <3>2
    <2>3. \A t \in Requests : at'[t] \in 1 .. Len(Path(req'[t]))
      BY <1>3, <1>4 DEF RequestsOK
    <2>4. exposed' \subseteq Requests
      BY <1>1 DEF RequestsOK
    <2> QED  BY <1>1, <1>3, <1>8, <2>1, <2>2, <2>3, <2>4 DEF RequestsOK
  <1>12. CallsOK'
    <2>1. ASSUME NEW t \in Requests \ {r}, Active(t)
          PROVE  CallOK(t)'
      BY <1>1, <1>3, <1>5, <1>8, <2>1, CallFrame DEF CallsOK, RequestsOK
    <2>2. CallOK(r)'
      BY <1>1, <1>2, <1>3, <1>5, <1>8 DEF CallOK
    <2> QED  BY <1>6, <2>1, <2>2 DEF CallsOK
  <1>13. LatesOK'
    <2>1. ASSUME NEW s \in late
          PROVE  LateOK(s)'
      BY <1>1, <1>3, LateFrame DEF LatesOK
    <2> QED  BY <1>1, <2>1 DEF LatesOK
  <1>14. OrderOK'
    <2>1. \A p \in Parents : InOrder(p) => InOrder(p)'
      BY <1>1 DEF InOrder, LiveIn
    <2> QED  BY <1>1, <1>5, <1>6, <2>1 DEF OrderOK
  <1>15. SoloOK'
    <2>1. AloneOK(r)'
      BY <1>5 DEF AloneOK
    <2> QED  BY <1>6, <1>10, <2>1 DEF SoloOK
  <1> QED  BY <1>9, <1>11, <1>12, <1>13, <1>14, <1>15

LEMMA ArchiveStep ==
  ASSUME IInv, Archive
  PROVE  IInv'
  <1> USE DEF IInv
  <1>1. canonical' \in BOOLEAN /\ UNCHANGED <<rows, state, req, at, plan, late, exposed, damaged>>
    BY DEF Archive
  <1>2. /\ \A r \in Requests : (Active(r)' <=> Active(r)) /\ Step(r)' = Step(r) /\ GroupOf(req[r])' = GroupOf(req[r])
        /\ \A p \in Parents : InOrder(p) => InOrder(p)'
    BY <1>1 DEF Active, Step, GroupOf, InOrder, LiveIn
  <1>3. RowsOK' /\ RequestsOK' /\ OrderOK'
    BY <1>1, <1>2 DEF RowsOK, RequestsOK, OrderOK
  <1>4. CallsOK'
    BY <1>1, <1>2, CallFrame DEF CallsOK, RequestsOK
  <1>5. LatesOK'
    BY <1>1, LateFrame DEF LatesOK
  <1>6. SoloOK'
    BY <1>1, <1>2, AloneFrame DEF SoloOK
  <1> QED  BY <1>3, <1>4, <1>5, <1>6

-----------------------------------------------------------------------------
(* The invariant.                                                                 *)

\* The promoted resume is in order, below rows that are there.
LEMMA InitRows ==
  ASSUME Init
  PROVE  RowsOK /\ \A p \in Parents : InOrder(p)
  <1> DEFINE There(i) == \E x \in Promoted : x[1] = i
  <1>1. /\ Promoted \subseteq Items \X Nat
        /\ \A x, y \in Promoted : x[1] = y[1] => x = y
        /\ \A x \in Promoted : Parent[x[1]] = Root \/ \E y \in Promoted : y[1] = Parent[x[1]]
        /\ \A x \in Promoted : x = <<x[1], x[2]>> /\ x[1] \in Items /\ x[2] \in Nat
    BY EditorAssumption DEF EditorAssumption
  <1>2. ASSUME NEW i \in Items
        PROVE  /\ There(i) => rows[i].state = "live" /\ <<i, rows[i].order>> \in Promoted
               /\ rows[i].state # "absent" => There(i)
               /\ rows[i] \in [state : {"absent", "live", "deleted"}, order : Nat]
    <2>1. CASE There(i)
      <3> DEFINE y == CHOOSE x \in Promoted : x[1] = i
      <3>1. y \in Promoted /\ y[1] = i
        BY <2>1
      <3>2. rows[i] = [state |-> "live", order |-> y[2]]
        BY <2>1 DEF Init
      <3> HIDE DEF y
      <3>3. y = <<i, y[2]>> /\ y[2] \in Nat
        BY <1>1, <3>1
      <3> QED  BY <2>1, <3>1, <3>2, <3>3
    <2>2. CASE ~There(i)
      BY <2>2 DEF Init
    <2> QED  BY <2>1, <2>2
  <1>3. rows \in [Items -> [state : {"absent", "live", "deleted"}, order : Nat]]
    <2>1. rows = [i \in Items |-> rows[i]]
      BY DEF Init
    <2> QED  BY <1>2, <2>1
  <1>4. ASSUME NEW p \in Parents
        PROVE  {rows[i].order : i \in LiveIn(p)} = 0 .. Cardinality(LiveIn(p)) - 1
    <2> DEFINE here == {x \in Promoted : Parent[x[1]] = p}
               f == [i \in LiveIn(p) |-> <<i, rows[i].order>>]
    <2>1. {x[2] : x \in here} = 0 .. Cardinality(here) - 1
      BY EditorAssumption DEF EditorAssumption, Parents
    <2>2. \A i \in LiveIn(p) : i \in Items /\ Parent[i] = p /\ f[i] \in here /\ f[i][1] = i /\ f[i][2] = rows[i].order
      BY <1>2 DEF LiveIn, Children
    <2>3. ASSUME NEW x \in here
          PROVE  x[1] \in LiveIn(p) /\ f[x[1]] = x /\ rows[x[1]].order = x[2]
      <3>1. x[1] \in Items /\ There(x[1])
        BY <1>1
      <3>2. rows[x[1]].state = "live" /\ <<x[1], rows[x[1]].order>> \in Promoted
        BY <1>2, <3>1
      <3>3. x = <<x[1], rows[x[1]].order>>
        BY <1>1, <3>2
      <3> QED  BY <3>1, <3>2, <3>3 DEF LiveIn, Children
    <2>4. IsFiniteSet(LiveIn(p))
      BY SiblingFacts DEF LiveIn
    <2>5. f \in Surjection(LiveIn(p), here) /\ f \in Injection(LiveIn(p), here)
      BY <2>2, <2>3 DEF Surjection, Injection, IsInjective
    <2>6. Cardinality(here) = Cardinality(LiveIn(p))
      BY <2>4, <2>5, FS_Surjection
    <2>7. {rows[i].order : i \in LiveIn(p)} = {x[2] : x \in here}
      <3>1. \A i \in LiveIn(p) : \E x \in here : x[2] = rows[i].order
        BY <2>2
      <3>2. \A x \in here : \E i \in LiveIn(p) : rows[i].order = x[2]
        BY <2>3
      <3> QED  BY <3>1, <3>2
    <2> QED  BY <2>1, <2>6, <2>7
  <1>5. ASSUME NEW i \in Items, rows[i].state # "absent"
        PROVE  rows[i].order \in OrdersUnder(Parent[i]) /\ (Parent[i] # Root => rows[Parent[i]].state # "absent")
    <2>1. There(i)
      BY <1>2, <1>5
    <2>2. rows[i].state = "live" /\ <<i, rows[i].order>> \in Promoted
      BY <1>2, <2>1
    <2>3. Parent[i] # Root => Parent[i] \in Items /\ There(Parent[i])
      BY <1>1, <2>2, LevelFacts
    <2>4. Parent[i] \in Parents /\ i \in LiveIn(Parent[i])
      BY <2>2, LevelFacts DEF LiveIn, Children, Parents
    <2>5. rows[i].order \in 0 .. Cardinality(LiveIn(Parent[i])) - 1
      BY <1>4, <2>4
    <2>6. /\ Cardinality(LiveIn(Parent[i])) \in Nat /\ Cardinality(Children(Parent[i])) \in Nat
          /\ Cardinality(LiveIn(Parent[i])) <= Cardinality(Children(Parent[i]))
      BY <2>4, SiblingFacts DEF LiveIn
    <2>7. rows[i].order \in OrdersUnder(Parent[i])
      BY <2>5, <2>6 DEF OrdersUnder
    <2>8. Parent[i] # Root => rows[Parent[i]].state = "live"
      BY <1>2, <2>3
    <2> QED  BY <2>7, <2>8
  <1> QED  BY <1>3, <1>4, <1>5 DEF RowsOK, InOrder

\* Reads are nothing to the rest of the invariant.
LEMMA ReadingsAreSilent ==
  ASSUME IInv, UNCHANGED <<rows, canonical, state, req, at, plan, late, exposed, damaged>>
  PROVE  IInv'
  <1>2. /\ \A r \in Requests : (Active(r)' <=> Active(r)) /\ Step(r)' = Step(r) /\ GroupOf(req[r])' = GroupOf(req[r])
        /\ \A p \in Parents : InOrder(p) => InOrder(p)'
    BY DEF Active, Step, GroupOf, InOrder, LiveIn
  <1>3. RowsOK' /\ RequestsOK' /\ OrderOK'
    BY <1>2 DEF IInv, RowsOK, RequestsOK, OrderOK
  <1>4. CallsOK'
    BY <1>2, CallFrame DEF IInv, CallsOK, RequestsOK
  <1>5. LatesOK'
    BY LateFrame DEF IInv, LatesOK
  <1>6. SoloOK'
    BY <1>2, AloneFrame DEF IInv, SoloOK
  <1> QED  BY <1>3, <1>4, <1>5, <1>6 DEF IInv

LEMMA ReadStep ==
  ASSUME IInv, NEW r \in Requests, Reopen(r) \/ ReadSections(r) \/ ReadBelow(r)
  PROVE  IInv'
  <1>1. CASE Reopen(r) /\ ~canonical
    <2>1. /\ Active(r) /\ Step(r) = "answer" /\ UNCHANGED <<rows, canonical, req, at, plan, late, exposed>>
          /\ End(r, "unreadable")
      BY <1>1 DEF Reopen, Answering
    <2> QED  BY <2>1, EndStep
  <1>2. CASE (Reopen(r) /\ canonical) \/ ReadSections(r) \/ ReadBelow(r)
    <2>1. UNCHANGED <<rows, canonical, state, req, at, plan, late, exposed, damaged>>
      BY <1>2 DEF Reopen, ReadSections, ReadBelow
    <2> QED  BY <2>1, ReadingsAreSilent
  <1> QED  BY <1>1, <1>2

LEMMA InitInv == Init => IInv
  <1> SUFFICES ASSUME Init
               PROVE  IInv
    OBVIOUS
  <1>1. RowsOK /\ OrderOK
    BY InitRows DEF OrderOK
  <1>2. \A r \in Requests : ~Active(r) /\ state[r] = "idle"
    BY DEF Init, Active
  <1>3. RequestsOK
    <2>1. [op |-> "reorder", group |-> Root] \in Asked
      BY DEF Asked
    <2>2. 1 \in 1 .. Len(Path([op |-> "reorder", group |-> Root]))
      BY DEF Path
    <2> QED  BY <1>2, <2>1, <2>2 DEF RequestsOK, Init
  <1>4. CallsOK /\ SoloOK /\ LatesOK
    BY <1>2 DEF CallsOK, SoloOK, LatesOK, Init
  <1> QED  BY <1>1, <1>3, <1>4 DEF IInv

LEMMA NextInv == IInv /\ [Next]_vars => IInv'
  <1> SUFFICES ASSUME IInv, [Next]_vars
               PROVE  IInv'
    OBVIOUS
  <1>1. ASSUME NEW r \in Requests,
               \/ Begin(r) \/ Check(r) \/ List(r) \/ Compact(r) \/ Write(r) \/ Pass(r) \/ Fail(r)
               \/ Reopen(r) \/ ReadSections(r) \/ ReadBelow(r) \/ Answer(r)
        PROVE  IInv'
    BY <1>1, BeginStep, CheckStep, ListStep, CompactStep, WriteStep, PassStep, FailStep, ReadStep, AnswerStep
  <1>2. ASSUME NEW s \in late, LateWrite(s)
        PROVE  IInv'
    BY <1>2, LateWriteStep
  <1>3. CASE Archive
    BY <1>3, ArchiveStep
  <1>4. CASE UNCHANGED vars
    BY <1>4, ReadingsAreSilent DEF vars
  <1> QED  BY <1>1, <1>2, <1>3, <1>4 DEF Next

LEMMA InvAlways == Spec => []IInv
  BY InitInv, NextInv, PTL DEF Spec

-----------------------------------------------------------------------------
(* Reads.                                                                         *)

\* Nothing comes back, so what a reader knows stays true while others write.
LEMMA ReadFrame ==
  ASSUME IInv, ReadingInv, NEW r \in Requests, reading'[r] = reading[r], RowsOK',
         \A i \in Items : rows[i].state # "absent" => rows'[i].state # "absent",
         \A i \in Items : rows[i].state = "deleted" => rows'[i].state = "deleted"
  PROVE  ReadOK(r)'
  <1> DEFINE d == reading[r]
  <1>1. ReadOK(r) /\ d \in Readings
    BY DEF ReadingInv
  <1>2. \A i \in Items : rows[i].state # "absent" /\ rows'[i].state = "live" => rows[i].state = "live"
    BY DEF IInv, RowsOK
  <1>3. ASSUME NEW i \in Items, rows[i].state # "absent", Visible(i)'
        PROVE  Visible(i)
    <2>1. /\ rows[i].state = "live"
          /\ Parent[i] # Root => Parent[i] \in Items /\ rows[Parent[i]].state # "absent"
      BY <1>2, <1>3, LevelFacts DEF Visible, IInv, RowsOK
    <2>2. Parent[i] # Root /\ Parent[Parent[i]] # Root =>
            Parent[Parent[i]] \in Items /\ rows[Parent[Parent[i]]].state # "absent"
      BY <2>1, LevelFacts DEF IInv, RowsOK
    <2> QED  BY <1>2, <1>3, <2>1, <2>2 DEF Visible
  <1>4. d.gone \subseteq Items /\ d.shown \subseteq Items
    BY <1>1 DEF Readings
  <1> QED  BY <1>1, <1>3, <1>4 DEF ReadOK

\* The first SELECT.
LEMMA SectionsFacts ==
  ASSUME IInv, ReadingInv, NEW r \in Requests, ReadSections(r)
  PROVE  ReadOK(r)' /\ reading' \in [Requests -> Readings]
  <1> DEFINE top == LiveIn(Root)
             shown == {i \in Items : Visible(i)}
             gone == {i \in Items : rows[i].state # "absent" /\ ~Visible(i)}
             d == [phase |-> "below", seen |-> top, todo |-> top, clash |-> Clash(top), shown |-> shown, gone |-> gone]
  <1>1. reading' = [reading EXCEPT ![r] = d] /\ rows' = rows
    BY DEF ReadSections
  <1>2. top \subseteq Items /\ \A i \in Items : i \in top <=> Parent[i] = Root /\ rows[i].state = "live"
    BY DEF LiveIn, Children
  <1>3. Clash(top) \in BOOLEAN
    BY DEF Clash
  <1>4. d \in Readings
    <2> HIDE DEF top
    <2> QED  BY <1>2, <1>3 DEF Readings
  <1>5. reading' \in [Requests -> Readings] /\ reading'[r] = d
    <2> HIDE DEF d
    <2> QED  BY <1>1, <1>4 DEF ReadingInv
  <1>6. ASSUME NEW i \in gone
        PROVE  rows[i].state = "deleted" \/ Parent[i] \in gone
    BY VisibleFacts, <1>6 DEF IInv, RowsOK
  <1>7. ASSUME NEW i \in shown
        PROVE  /\ rows[i].state # "absent"
               /\ i \in top \/ Parent[i] \in top \/ (Parent[i] # Root /\ Parent[Parent[i]] \in top)
    <2>1. rows[i].state = "live" /\ i \in Items
      BY DEF Visible
    <2>2. CASE Parent[i] = Root
      BY <1>2, <2>1, <2>2
    <2>3. CASE Parent[i] # Root
      <3>1. Parent[i] \in Items /\ Visible(Parent[i])
        BY <2>1, <2>3, VisibleFacts
      <3>2. rows[Parent[i]].state = "live"
        BY <3>1 DEF Visible
      <3>3. CASE Parent[Parent[i]] = Root
        BY <1>2, <2>1, <3>1, <3>2, <3>3
      <3>4. CASE Parent[Parent[i]] # Root
        <4>1. Parent[Parent[i]] \in Items /\ Visible(Parent[Parent[i]])
          BY <3>1, <3>4, VisibleFacts
        <4>2. rows[Parent[Parent[i]]].state = "live" /\ Parent[Parent[Parent[i]]] = Root
          BY <3>1, <4>1, LevelFacts DEF Visible
        <4> QED  BY <1>2, <2>1, <2>3, <4>1, <4>2
      <3> QED  BY <3>3, <3>4
    <2> QED  BY <2>2, <2>3
  <1>8. \A i \in top : Visible(i)
    BY <1>2, VisibleFacts
  <1>9. top \cap gone = {}
    BY <1>8
  <1>10. \A i \in shown : Visible(i)' => Visible(i)
    OBVIOUS
  <1>11. ReadOK(r)'
    <2>1. /\ d.phase = "below" /\ d.seen = top /\ d.todo = top /\ d.gone = gone /\ d.shown = shown
      OBVIOUS
    <2> HIDE DEF d, top, gone, shown
    <2> QED  BY <1>1, <1>5, <1>6, <1>7, <1>9, <2>1 DEF ReadOK
  <1> QED  BY <1>5, <1>11

\* Every other SELECT.
LEMMA BelowFacts ==
  ASSUME IInv, ReadingInv, NEW r \in Requests, ReadBelow(r)
  PROVE  ReadOK(r)' /\ reading' \in [Requests -> Readings]
  <1> DEFINE d == reading[r]
             more(p) == IF Level(p) = "section" THEN LiveIn(p) ELSE {}
  <1>1. PICK p \in d.todo :
          reading' = [reading EXCEPT ![r].seen = @ \cup LiveIn(p), ![r].todo = (@ \ {p}) \cup more(p),
                                     ![r].clash = @ \/ Clash(LiveIn(p))]
    BY DEF ReadBelow
  <1>2. /\ d \in Readings /\ d.phase = "below" /\ rows' = rows /\ ReadOK(r)
        /\ d.todo \subseteq Items /\ d.shown \subseteq Items /\ d.gone \subseteq Items
    BY DEF ReadBelow, Answering, ReadingInv, Readings
  <1> DEFINE here == LiveIn(p)
             e == [d EXCEPT !.seen = @ \cup here, !.todo = (@ \ {p}) \cup more(p), !.clash = @ \/ Clash(here)]
  <1>3. reading'[r] = e /\ \A t \in Requests \ {r} : reading'[t] = reading[t]
    BY <1>1 DEF ReadingInv
  <1>4. /\ p \in Items /\ here \subseteq Items
        /\ \A i \in Items : i \in here <=> Parent[i] = p /\ rows[i].state = "live"
        /\ Clash(here) \in BOOLEAN
    BY <1>2 DEF LiveIn, Children, Clash
  <1>5. more(p) \subseteq here /\ (Parent[p] = Root => more(p) = here)
    BY DEF Level
  <1> HIDE DEF here, more
  <1>6. /\ e.phase = "below" /\ e.seen = d.seen \cup here /\ e.todo = (d.todo \ {p}) \cup more(p)
        /\ e.shown = d.shown /\ e.gone = d.gone /\ e \in Readings
    BY <1>2, <1>4, <1>5 DEF Readings
  <1> HIDE DEF e
  <1>7. reading' \in [Requests -> Readings]
    <2>1. reading' = [reading EXCEPT ![r] = e]
      <3>1. \E x : reading' = [reading EXCEPT ![r] = x]
        BY <1>1
      <3>2. PICK x : reading' = [reading EXCEPT ![r] = x]
        BY <3>1
      <3>3. x = e
        BY <1>3, <3>2 DEF ReadingInv
      <3> QED  BY <3>2, <3>3
    <2> QED  BY <1>6, <2>1 DEF ReadingInv
  <1>8. e.seen \cap e.gone = {}
    <2>1. ASSUME NEW i \in here, i \in d.gone
          PROVE  FALSE
      <3>1. rows[i].state = "live" /\ Parent[i] = p
        BY <1>4, <2>1
      <3>2. p \in d.gone
        BY <1>2, <2>1, <3>1 DEF ReadOK
      <3> QED  BY <1>2, <3>2 DEF ReadOK
    <2> QED  BY <1>2, <1>6, <2>1 DEF ReadOK
  <1>9. e.todo \subseteq e.seen
    BY <1>2, <1>5, <1>6 DEF ReadOK
  <1>10. ASSUME NEW i \in d.shown, Visible(i)
         PROVE  i \in e.seen \/ Parent[i] \in e.todo \/ (Parent[i] # Root /\ Parent[Parent[i]] \in e.todo)
    <2>1. i \in Items /\ rows[i].state = "live" /\ (Parent[i] # Root => Parent[i] \in Items /\ Visible(Parent[i]))
      BY <1>2, <1>10, VisibleFacts DEF Visible
    <2>2. i \in d.seen \/ Parent[i] \in d.todo \/ (Parent[i] # Root /\ Parent[Parent[i]] \in d.todo)
      BY <1>2, <1>10 DEF ReadOK
    <2>3. CASE Parent[i] = p
      BY <1>4, <1>6, <2>1, <2>3
    <2>4. CASE Parent[i] # Root /\ Parent[Parent[i]] = p
      <3>1. rows[Parent[i]].state = "live" /\ Parent[p] = Root
        BY <1>4, <2>1, <2>4, LevelFacts DEF Visible
      <3> QED  BY <1>4, <1>5, <1>6, <2>1, <2>4, <3>1
    <2> QED  BY <1>6, <2>2, <2>3, <2>4
  <1>11. ReadOK(r)'
    BY <1>2, <1>3, <1>6, <1>8, <1>9, <1>10 DEF ReadOK, Visible
  <1> QED  BY <1>7, <1>11

LEMMA ReadingNext == IInv /\ IInv' /\ ReadingInv /\ [Next]_vars => ReadingInv'
  <1> SUFFICES ASSUME IInv, IInv', ReadingInv, [Next]_vars
               PROVE  ReadingInv'
    OBVIOUS
  <1>0. NotReading \in Readings /\ NotReading.phase # "below"
    BY DEF NotReading, Readings
  <1>1. ASSUME rows' = rows, reading' \in [Requests -> Readings], NEW r \in Requests, ReadOK(r)',
               \A t \in Requests \ {r} : reading'[t] = reading[t]
        PROVE  ReadingInv'
    BY <1>1, ReadFrame DEF ReadingInv, IInv
  <1>2. ASSUME NEW r \in Requests, Reopen(r) \/ Answer(r) \/ Fail(r)
        PROVE  ReadingInv'
    <2>1. rows' = rows
      BY <1>2 DEF Reopen, Answer, Fail
    <2>2. CASE reading' = reading
      BY <1>1, <2>1, <2>2, ReadFrame DEF ReadingInv, IInv
    <2>3. CASE reading' = [reading EXCEPT ![r] = NotReading]
      <3>1. /\ reading' \in [Requests -> Readings] /\ reading'[r].phase # "below"
            /\ \A t \in Requests \ {r} : reading'[t] = reading[t]
        BY <1>0, <2>3 DEF ReadingInv
      <3> QED  BY <1>1, <2>1, <3>1 DEF ReadOK
    <2>4. CASE reading' = [reading EXCEPT ![r].phase = "sections"]
      <3>1. \A x \in Readings : [x EXCEPT !.phase = "sections"] \in Readings /\ [x EXCEPT !.phase = "sections"].phase = "sections"
        BY DEF Readings
      <3>2. reading' = [reading EXCEPT ![r] = [reading[r] EXCEPT !.phase = "sections"]] /\ reading[r] \in Readings
        BY <2>4 DEF ReadingInv
      <3>3. /\ reading' \in [Requests -> Readings] /\ reading'[r].phase # "below"
            /\ \A t \in Requests \ {r} : reading'[t] = reading[t]
        BY <3>1, <3>2 DEF ReadingInv
      <3> QED  BY <1>1, <2>1, <3>3 DEF ReadOK
    <2> QED  BY <1>2, <2>2, <2>3, <2>4 DEF Reopen, Answer, Fail
  <1>3. ASSUME NEW r \in Requests, ReadSections(r) \/ ReadBelow(r)
        PROVE  ReadingInv'
    <2>1. rows' = rows /\ \A t \in Requests \ {r} : reading'[t] = reading[t]
      BY <1>3 DEF ReadSections, ReadBelow, ReadingInv
    <2> QED  BY <1>1, <1>3, <2>1, SectionsFacts, BelowFacts
  <1>4. ASSUME reading' = reading, rows' = rows
        PROVE  ReadingInv'
    BY <1>4, ReadFrame DEF ReadingInv, IInv
  <1>5. ASSUME NEW r \in Requests, Begin(r) \/ Check(r) \/ List(r) \/ Compact(r) \/ Pass(r)
        PROVE  ReadingInv'
    BY <1>4, <1>5 DEF Begin, Check, List, Compact, Pass
  <1>6. ASSUME NEW s, StatementOK(s), Execute(s), reading' = reading
        PROVE  ReadingInv'
    BY <1>6, ExecuteRows, ReadFrame DEF ReadingInv, IInv
  <1>7. ASSUME NEW r \in Requests, Write(r)
        PROVE  ReadingInv'
    <2>1. PICK s \in Sendable(r) : Execute(s)
      BY <1>7 DEF Write
    <2>2. StatementOK(s) /\ reading' = reading
      BY <1>7, <2>1, SendableFacts DEF Write
    <2> QED  BY <1>6, <2>1, <2>2
  <1>8. ASSUME NEW s \in late, LateWrite(s)
        PROVE  ReadingInv'
    BY <1>6, <1>8 DEF LateWrite, IInv, LatesOK, LateOK
  <1>9. Archive \/ UNCHANGED vars => ReadingInv'
    BY <1>4 DEF Archive, vars
  <1> QED  BY <1>2, <1>3, <1>5, <1>7, <1>8, <1>9 DEF Next

LEMMA ReadingAlways == Spec => []ReadingInv
  <1>1. Init => ReadingInv
    BY DEF Init, ReadingInv, ReadOK, NotReading, Readings
  <1> QED  BY <1>1, InvAlways, ReadingNext, PTL DEF Spec

-----------------------------------------------------------------------------
(* The theorems.                                                                  *)

\* Every variable keeps its type, and the display orders of rows stay below the number
\* of siblings there can be, however requests overlap and fail.
THEOREM TypeCorrect == Spec => []TypeOK
  <1>1. IInv /\ ReadingInv => TypeOK
    <2> SUFFICES ASSUME IInv, ReadingInv
                 PROVE  TypeOK
      OBVIOUS
    <2>1. /\ rows \in [Items -> [state : {"absent", "live", "deleted"}, order : Nat]]
          /\ \A i \in Items : rows[i].state # "absent" => rows[i].order \in OrdersUnder(Parent[i])
      BY DEF IInv, RowsOK
    <2>2. late \subseteq Statements
      BY DEF IInv, LatesOK, LateOK, StatementOK
    <2>3. reading \in [Requests -> [phase : {"resume", "sections", "below"}, seen : SUBSET Items, todo : SUBSET Items,
                                     clash : BOOLEAN, shown : SUBSET Items, gone : SUBSET Items]]
      BY DEF ReadingInv, Readings
    <2> QED  BY <2>1, <2>2, <2>3 DEF IInv, RequestsOK, TypeOK, Parents
  <1> QED  BY <1>1, InvAlways, ReadingAlways, PTL

\* Between requests, children whose parent no failure or overlap has marked since its
\* last delete or reorder that ran alone have the display orders 0, 1, 2, ...
THEOREM OrderIsKept == Spec => []UndamagedIsInOrder
  <1>1. IInv => UndamagedIsInOrder
    BY DEF IInv, OrderOK, UndamagedIsInOrder, AtRest, Parents
  <1> QED  BY <1>1, InvAlways, PTL

\* getParsedDraft over postgres: however its statements interleave with those of edits, a
\* read misses nothing that is there from its first to its last, and shows nothing that
\* had gone before.
THEOREM ReadsAreTrue == Spec => []ReadsAreOfTheirTime
  <1>1. ReadingInv => ReadsAreOfTheirTime
    BY DEF ReadingInv, Readings, ReadOK, ReadsAreOfTheirTime, Answering
  <1> QED  BY <1>1, ReadingAlways, PTL

\* However requests overlap or fail, what is live below live rows changes by the steps of
\* ResumeOutline: a subtree goes in one of them, although its soft deletes are several
\* statements.
THEOREM OutlineIsImplemented == Spec => ImplementsOutline
  <1>1. Init => Outline!OutlineInit
    <2> SUFFICES ASSUME Init
                 PROVE  Outline!OutlineInit
      OBVIOUS
    <2>1. \A i \in Items : rows[i].state \in {"absent", "live"}
      BY DEF Init
    <2>2. \A i \in Items : rows[i].state = "live" /\ Parent[i] # Root => Parent[i] \in Items /\ rows[Parent[i]].state = "live"
      BY <2>1, InitRows, LevelFacts DEF RowsOK
    <2>3. \A i \in Items : rows[i].state = "live" => Visible(i)
      BY <2>2 DEF Visible
    <2>4. \A i \in Items : Shape[i] = IF rows[i].state = "absent" THEN "new" ELSE "shown"
      BY <2>1, <2>3 DEF Shape, Shown
    <2>5. Shape \in [Items -> {"new", "shown"}]
      BY <2>4 DEF Shape
    <2>6. \A i \in Items : Shape[i] = "shown" => Parent[i] = Root \/ Shape[Parent[i]] = "shown"
      BY <2>1, <2>2, <2>4
    <2> QED  BY <2>5, <2>6 DEF Outline!OutlineInit, Shape, Shown
  <1>2. IInv /\ [Next]_vars => Outline!OutlineNext \/ Shape' = Shape
    <2> SUFFICES ASSUME IInv, [Next]_vars
                 PROVE  Outline!OutlineNext \/ Shape' = Shape
      OBVIOUS
    <2>1. ASSUME NEW s, StatementOK(s), Execute(s)
          PROVE  Outline!OutlineNext \/ Shape' = Shape
      BY <2>1, ExecuteCases, InsertIsAddOrForget, RemoveIsRemove, OthersAreSilent DEF IInv
    <2>2. ASSUME NEW r \in Requests, Write(r)
          PROVE  Outline!OutlineNext \/ Shape' = Shape
      <3>1. PICK s \in Sendable(r) : Execute(s)
        BY <2>2 DEF Write
      <3>2. StatementOK(s)
        BY <2>2, <3>1, SendableFacts DEF Write
      <3> QED  BY <2>1, <3>1, <3>2
    <2>3. ASSUME NEW s \in late, LateWrite(s)
          PROVE  Outline!OutlineNext \/ Shape' = Shape
      BY <2>1, <2>3 DEF LateWrite, IInv, LatesOK, LateOK
    <2>4. rows' = rows => Shape' = Shape
      BY DEF Shape, Shown, Visible
    <2>5. ASSUME NEW r \in Requests, \/ Begin(r) \/ Check(r) \/ List(r) \/ Compact(r) \/ Pass(r) \/ Fail(r)
                                     \/ Reopen(r) \/ ReadSections(r) \/ ReadBelow(r) \/ Answer(r)
          PROVE  rows' = rows
      BY <2>5 DEF Begin, Check, List, Compact, Pass, Fail, Reopen, ReadSections, ReadBelow, Answer
    <2>6. Archive \/ UNCHANGED vars => rows' = rows
      BY DEF Archive, vars
    <2> QED  BY <2>2, <2>3, <2>4, <2>5, <2>6 DEF Next
  <1>3. IInv /\ [Next]_vars => [Outline!OutlineNext]_[i \in Items |-> IF rows[i].state = "absent" THEN "new"
                                                                     ELSE IF Visible(i) THEN "shown" ELSE "gone"]
    BY <1>2 DEF Shape, Shown
  <1> QED  BY <1>1, <1>3, InvAlways, PTL DEF Spec, ImplementsOutline, Outline!OutlineSpec
=============================================================================
