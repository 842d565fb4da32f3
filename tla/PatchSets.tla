------------------------------- MODULE PatchSets -------------------------------
(* OptimizationService and ReviewStateService: the recommendations of a readiness *)
(* report become patches, each of them checked against the resume; a set with one  *)
(* bad patch is refused as a whole.  The user accepts or rejects patches one by    *)
(* one or all together, as often as they like.                                   *)
EXTENDS Readiness

CONSTANTS
  Across(_), \* the terms a sequence of texts says only where one text goes over into the next
  MaxSets    \* bound: patch sets made

ASSUME SetsAssumption == MaxSets \in Nat

VARIABLE sets \* the patch sets, in the order they were made

-----------------------------------------------------------------------------
(* PatchGenerator.                                                              *)

\* The two fixed texts of a new bullet.
LeadershipHint == "leadership hint"
ClarificationHint == "clarification hint"

Patch(operation, target, before, after) ==
  [operation |-> operation, target |-> target, before |-> before, after |-> after]

\* The first entity of a visible section.
FirstWritableEntity(r) ==
  LET writable == Where(Layout, LAMBDA x : FindEntity(r, x.entity) /\ r.state[x.section] = "visible")
  IN  IF writable = <<>> THEN None ELSE Head(writable).entity

\* The wording pipeline: the text of the bullet, trimmed, and in brackets the advice.
Reworded(text, advice) == Trim(text) \cup {"advice:" \o advice.category}

\* The patch a recommendation leads to, if any.
PatchesFor(advice, report, r) ==
  LET bullet == report.evidence[advice.basis].bullet
      entity == FirstWritableEntity(r)
  IN  IF advice.basis # 0 THEN
        IF FindBullet(r, bullet)
        THEN <<Patch("replace_bullet", bullet, r.text[bullet], Reworded(r.text[bullet], advice))>>
        ELSE <<>>
      ELSE IF advice.category = "leadership" /\ entity # None THEN <<Patch("insert_bullet", entity, {}, {LeadershipHint})>>
      ELSE IF advice.skill # None THEN <<Patch("insert_skill", "skills", {}, {advice.skill})>>
      ELSE <<>>

Candidates(n, r) ==
  LET report == matches[readiness[n].match]
      advice == readiness[n].recommendations
      found == FlattenSeq([i \in DOMAIN advice |-> PatchesFor(advice[i], report, r)])
  IN  IF found = <<>> /\ FirstWritableEntity(r) # None
      THEN <<Patch("insert_bullet", FirstWritableEntity(r), {}, {ClarificationHint})>>
      ELSE found

-----------------------------------------------------------------------------
(* PatchValidator.                                                              *)

\* The texts that are joined: titles and bullets, the hidden ones too, but none that is blank.
Joined(r) ==
  LET rows == Where(ReadingOrder, LAMBDA x : Live(r, x) /\ Trim(r.text[x]) # {})
  IN  [i \in DOMAIN rows |-> r.text[rows[i]]]

\* Mutant: texts of deleted rows count too.
CanonicalTextOfAll(r) == Across(Joined(r)) \cup UNION {r.text[x] : x \in Rows}

\* What the resume says, read as one text.
CanonicalText(r) == Across(Joined(r)) \cup UNION {r.text[x] : x \in {y \in Rows : Live(r, y)}}

\* Of the two texts that are compared only the one in the patch is trimmed.
IsValid(patch, r) ==
  CASE patch.operation = "replace_bullet" ->
         FindBullet(r, patch.target) /\ Trim(patch.before) \in {{}, r.text[patch.target]}
    [] patch.operation = "insert_bullet" -> FindEntity(r, patch.target) /\ ~(patch.after \subseteq CanonicalText(r))
    [] patch.operation = "insert_skill" -> ~(patch.after \subseteq CanonicalText(r))

\* What createPatchSet asks of the report before anything is stored.
CanBePatched(n) == \A patch \in ToSet(Candidates(n, resume)) : IsValid(patch, resume)

-----------------------------------------------------------------------------
\* A new set: every patch waits for its review.
PatchSetOf(n) ==
  LET patches == Candidates(n, resume)
  IN  [readiness |-> n, patches |-> patches, review |-> [i \in DOMAIN patches |-> "pending"]]

CreatePatchSet(n) ==
  /\ active
  /\ CanBePatched(n)
  /\ Len(sets) < MaxSets
  /\ sets' = Append(sets, PatchSetOf(n))

SetPatchReviewState(s, i, v) == sets' = [sets EXCEPT ![s].review[i] = v]

SetPatchSetReviewState(s, v) == sets' = [sets EXCEPT ![s].review = [i \in DOMAIN @ |-> v]]

ReviewStep ==
  \E s \in DOMAIN sets, v \in {"accepted", "rejected"} :
    SetPatchSetReviewState(s, v) \/ \E i \in DOMAIN sets[s].patches : SetPatchReviewState(s, i, v)

PatchSetType ==
  \A s \in DOMAIN sets :
    /\ sets[s].readiness \in DOMAIN readiness
    /\ DOMAIN sets[s].review = DOMAIN sets[s].patches
    /\ \A i \in DOMAIN sets[s].review : sets[s].review[i] \in {"pending", "accepted", "rejected"}
=============================================================================
