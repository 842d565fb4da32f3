---------------------------- MODULE ResumeOutline ----------------------------
(* What the resume editor does to the outline of a canonical resume as its tables  *)
(* have it at one moment: sections, entities and bullets appear one at a time     *)
(* under a parent that is shown, and disappear one subtree at a time, never to    *)
(* come back.  A reader of several statements may see more than one moment.       *)
CONSTANTS Items, Root, Parent

VARIABLE outline  \* per item: "new", "shown" or "gone"

Children(p) == {i \in Items : Parent[i] = p}
Subtree(i) == {i} \cup Children(i) \cup UNION {Children(j) : j \in Children(i)}

\* An item is shown at last.
Add(i) ==
  /\ outline[i] = "new"
  /\ Parent[i] = Root \/ outline[Parent[i]] = "shown"
  /\ outline' = [outline EXCEPT ![i] = "shown"]

\* An item whose parent has gone meanwhile is never shown.
Forget(i) ==
  /\ outline[i] = "new"
  /\ Parent[i] # Root /\ outline[Parent[i]] = "gone"
  /\ outline' = [outline EXCEPT ![i] = "gone"]

\* An item goes, and with it all that is shown below it.
Remove(i) ==
  /\ outline[i] = "shown"
  /\ outline' = [j \in Items |-> IF j \in Subtree(i) /\ outline[j] = "shown" THEN "gone" ELSE outline[j]]

OutlineInit ==
  /\ outline \in [Items -> {"new", "shown"}]
  /\ \A i \in Items : outline[i] = "shown" => Parent[i] = Root \/ outline[Parent[i]] = "shown"

OutlineNext == \E i \in Items : Add(i) \/ Forget(i) \/ Remove(i)

OutlineSpec == OutlineInit /\ [][OutlineNext]_outline
=============================================================================
