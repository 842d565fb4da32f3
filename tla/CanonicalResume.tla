--------------------------- MODULE CanonicalResume ---------------------------
(* The canonical resume as matching, optimization and versioning read it        *)
(* (getParsedDraft), and the edits of it that they can tell apart.  Under the    *)
(* memory driver, of which this is a model, a request is one turn of the event   *)
(* loop, so an operation is one step.                                           *)
(*                                                                              *)
(* A text is the set of its words.  The order of the rows is that of Layout;     *)
(* reordering them is the business of ResumeEditor.                             *)
EXTENDS Integers, Sequences, SequencesExt

CONSTANTS
  Layout,    \* the bullets there may be, in reading order, each with its entity and its section
  FirstText, \* what each row of the promoted draft says: a bullet, or a title (with the organization)
  Phrases,   \* the texts a user may write into a bullet
  Titles,    \* the titles a user may give a section or an entity
  MaxEdits   \* bound: how often the resume is edited

None == "none"

Places == ToSet(Layout)
Bullets == {p.bullet : p \in Places}
Entities == {p.entity : p \in Places}
Sections == {p.section : p \in Places}
Rows == Bullets \cup Entities \cup Sections

ASSUME ResumeAssumption ==
  /\ Layout \in Seq(ToSet(Layout))
  /\ \A i, j \in DOMAIN Layout : Layout[i].bullet = Layout[j].bullet => i = j
  /\ \A p, q \in Places : p.entity = q.entity => p.section = q.section
  /\ Bullets \cap Entities = {} /\ Bullets \cap Sections = {} /\ Entities \cap Sections = {}
  /\ DOMAIN FirstText \subseteq Rows
  /\ \A x \in DOMAIN FirstText : FirstText[x] \in SUBSET STRING
  /\ \A p \in Places : /\ p.bullet \in DOMAIN FirstText => p.entity \in DOMAIN FirstText
                       /\ p.entity \in DOMAIN FirstText => p.section \in DOMAIN FirstText
  /\ Phrases \subseteq SUBSET STRING /\ Titles \subseteq SUBSET STRING
  /\ MaxEdits \in Nat

VARIABLES
  resume, \* the rows of the resume: what each says, and its state
  active, \* the status of the resume is "active"
  edits   \* how often it was edited

resumeVars == <<resume, active, edits>>

States == {"absent", "visible", "hidden", "deleted"}

\* The word that stands for the blanks a text begins or ends with; nothing but trim() sees it.
OuterBlanks == "outer blanks"
Trim(text) == text \ {OuterBlanks}

\* The two loops of the code, written with recursive functions so that the prover can
\* expand them: the items that pass a test, in their order (filter), and what the
\* items make of a first value, one after the other (reduce).
Where(s, Passes(_)) == FlattenSeq([i \in DOMAIN s |-> IF Passes(s[i]) THEN <<s[i]>> ELSE <<>>])

Folded(Op(_, _), base, s) ==
  LET fold[n \in 0 .. Len(s)] == IF n = 0 THEN base ELSE Op(fold[n - 1], s[n])
  IN  fold[Len(s)]

PlaceOf(b) == CHOOSE p \in Places : p.bullet = b
SectionOf(e) == (CHOOSE p \in Places : p.entity = e).section

\* A row and those under it.
Under(x) ==
  {x} \cup {p.entity : p \in {q \in Places : q.section = x}}
      \cup {p.bullet : p \in {q \in Places : x \in {q.section, q.entity}}}

\* The rows as getParsedDraft lists them: a section, its entities, each with its bullets.
ReadingOrder ==
  LET Opens(i, x) == \A j \in 1 .. (i - 1) : x \notin {Layout[j].section, Layout[j].entity}
      Heads(i) == <<Layout[i].section, Layout[i].entity>>
  IN  FlattenSeq([i \in DOMAIN Layout |-> Where(Heads(i), LAMBDA x : Opens(i, x)) \o <<Layout[i].bullet>>])

Live(r, x) == r.state[x] \in {"visible", "hidden"}

\* What buildResumeMatchProfile reads: the visible bullets of visible sections.  (No
\* operation changes the visibility of an entity.)
VisibleBullets(r) == Where(Layout, LAMBDA x : r.state[x.bullet] = "visible" /\ r.state[x.section] = "visible")

\* The bullet as a target of a patch: its own visibility counts, its section's does not.
FindBullet(r, b) == r.state[b] = "visible"
FindEntity(r, e) == r.state[e] = "visible"

-----------------------------------------------------------------------------
(* The operations.                                                              *)

Edit(r) ==
  /\ active /\ edits < MaxEdits
  /\ resume' = r
  /\ edits' = edits + 1
  /\ UNCHANGED active

\* What the operations on the three kinds of rows share.  A new row goes behind those beside
\* it; a deleted one takes those under it along.
Write(x, t) == Live(resume, x) /\ Edit([resume EXCEPT !.text[x] = t])

Add(x, t, beside) ==
  LET Position(y) == CHOOSE i \in DOMAIN ReadingOrder : ReadingOrder[i] = y
  IN  /\ resume.state[x] = "absent"
      /\ \A y \in beside : Live(resume, y) => Position(y) < Position(x)
      /\ Edit([resume EXCEPT !.text[x] = t, !.state[x] = "visible"])

SoftDelete(x) ==
  /\ Live(resume, x)
  /\ Edit([resume EXCEPT !.state =
             [y \in Rows |-> IF y \in Under(x) /\ Live(resume, y) THEN "deleted" ELSE resume.state[y]]])

Show(x, v) == Live(resume, x) /\ Edit([resume EXCEPT !.state[x] = v])

CreateBullet(b, t) ==
  LET e == PlaceOf(b).entity
  IN  Live(resume, e) /\ t # {} /\ Add(b, t, Bullets \cap Under(e))

UpdateBullet(b, t) == Trim(t) # {} /\ Write(b, t)
DeleteBullet(b) == SoftDelete(b)
SetBulletVisibility(b, v) == Show(b, v)

CreateEntity(e, t) == Live(resume, SectionOf(e)) /\ Add(e, t, Entities \cap Under(SectionOf(e)))
UpdateEntity(e, t) == Write(e, t)
DeleteEntity(e) == SoftDelete(e)

\* A section without a title gets one.
CreateSection(s, t) == t # {} /\ Add(s, t, Sections)
UpdateSection(s, t) == Write(s, t)
DeleteSection(s) == SoftDelete(s)
SetSectionVisibility(s, v) == Show(s, v)

\* The resume is archived: every operation below asks for an active one.
ArchiveResume ==
  /\ active
  /\ active' = FALSE
  /\ UNCHANGED <<resume, edits>>

ResumeInit ==
  /\ resume = [text |-> [x \in Rows |-> IF x \in DOMAIN FirstText THEN FirstText[x] ELSE {}],
               state |-> [x \in Rows |-> IF x \in DOMAIN FirstText THEN "visible" ELSE "absent"]]
  /\ active = TRUE
  /\ edits = 0

EditStep ==
  \/ \E b \in Bullets :
       \/ \E t \in Phrases : UpdateBullet(b, t) \/ CreateBullet(b, t)
       \/ DeleteBullet(b)
       \/ \E v \in {"visible", "hidden"} : SetBulletVisibility(b, v)
  \/ \E e \in Entities :
       \/ \E t \in Titles : UpdateEntity(e, t) \/ CreateEntity(e, t)
       \/ DeleteEntity(e)
  \/ \E s \in Sections :
       \/ \E t \in Titles : UpdateSection(s, t) \/ CreateSection(s, t)
       \/ DeleteSection(s)
       \/ \E v \in {"visible", "hidden"} : SetSectionVisibility(s, v)
  \/ ArchiveResume

\* What is live stands under what is live.
ResumeType ==
  /\ resume.text \in [Rows -> SUBSET STRING] /\ resume.state \in [Rows -> States]
  /\ \A p \in Places : /\ Live(resume, p.bullet) => Live(resume, p.entity)
                       /\ Live(resume, p.entity) => Live(resume, p.section)
  /\ active \in BOOLEAN /\ edits \in 0 .. MaxEdits
=============================================================================
