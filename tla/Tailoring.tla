------------------------------- MODULE Tailoring -------------------------------
(* From the canonical resume to a tailored version: match, readiness, patches,     *)
(* review, build, with the user editing the resume at any moment between.          *)
EXTENDS Versions

vars == <<resumeVars, matches, readiness, sets, versions>>

Init == ResumeInit /\ matches = <<>> /\ readiness = <<>> /\ sets = <<>> /\ VersionsInit

Next ==
  \/ EditStep /\ UNCHANGED <<matches, readiness, sets, versions>>
  \/ CreateMatchReport /\ UNCHANGED <<resumeVars, readiness, sets, versions>>
  \/ \E m \in DOMAIN matches : CreateReadinessReport(m) /\ UNCHANGED <<resumeVars, matches, sets, versions>>
  \/ \E n \in DOMAIN readiness : CreatePatchSet(n) /\ UNCHANGED <<resumeVars, matches, readiness, versions>>
  \/ ReviewStep /\ UNCHANGED <<resumeVars, matches, readiness, versions>>
  \/ \E s \in DOMAIN sets :
       CreateVersionFromPatchSet(s) /\ UNCHANGED <<active, edits, matches, readiness, sets>>

Spec == Init /\ [][Next]_vars

-----------------------------------------------------------------------------
(* Properties.                                                                  *)

\* The type of every variable.
TypeOK == ResumeType /\ MatchType /\ ReadinessType /\ PatchSetType /\ VersionType

\* The patches a version was just built from.
Built(s) == ToSet(Accepted(sets[s]))

\* No edit is lost to a review that is older: a bullet a new version replaces says at
\* that moment what it said when the patch was made.
NoEditIsLost ==
  [][\A i \in DOMAIN versions' \ DOMAIN versions :
       \A p \in Built(versions'[i].set) :
         p.operation = "replace_bullet" => resume.text[p.target] = p.before /\ resume.state[p.target] = "visible"]_vars

\* What is rendered is what was reviewed: every accepted patch is in the document, and
\* all else in it is a bullet the user has not hidden, as it stands.
RenderedIsReviewed ==
  [][\A i \in DOMAIN versions' \ DOMAIN versions :
       LET built == Built(versions'[i].set)
           replaced == {p.target : p \in {x \in built : x.operation = "replace_bullet"}}
           kept == {b \in Bullets : resume.state[b] = "visible"} \ replaced
       IN  versions'[i].rendered = {resume.text[b] : b \in kept} \cup {p.after : p \in built}]_vars

\* Optimization and versioning never edit the canonical resume: only an edit does.
NoAutomaticEdit == [][resume' # resume => edits' = edits + 1 /\ UNCHANGED <<matches, readiness, sets, versions>>]_vars

\* The versions of a resume are numbered in the order they were made, and each has the
\* one before it for parent.
VersionsFormAChain == \A i \in DOMAIN versions : versions[i].number = i /\ versions[i].parent = i - 1

\* Of a report of the resume as it stands a patch is refused (and with it the set) only for
\* what neither matching nor gap analysis looks at: a bullet that is stored with blanks around
\* it; a hint that is written out; a missing skill or duty in a title, in hidden text or from
\* one text over into the next; a missing credential there, in a bullet no evidence cites, or
\* in a cited one with other blanks between its words.
RefusedForOverlookedTextOnly ==
  \A n \in DOMAIN readiness :
    LET report == matches[readiness[n].match]
        cited == {report.evidence[i].bullet : i \in DOMAIN report.evidence}
        Saying(term) == {x \in Rows : Live(resume, x) /\ term \in resume.text[x]}
        IsHidden(b) == "hidden" \in {resume.state[b], resume.state[PlaceOf(b).section]}
        Overlooked(gap, x) ==
          \/ x \notin Bullets
          \/ IF gap.type = "missing_credential" THEN x \notin cited \/ ~Verbatim(resume.text[x], gap.term)
             ELSE IsHidden(x)
        IsExplained(p) ==
          CASE p.operation = "replace_bullet" -> p.target \in cited /\ OuterBlanks \in resume.text[p.target]
            [] p.operation = "insert_bullet" -> p.after \subseteq CanonicalText(resume) /\ p.after \subseteq {LeadershipHint, ClarificationHint}
            [] p.operation = "insert_skill" ->
                 \E gap \in ToSet(report.gaps) :
                   /\ p.after = {gap.term}
                   /\ gap.term \in Across(Joined(resume)) \/ \E x \in Saying(gap.term) : Overlooked(gap, x)
    IN  active /\ report.of = resume => \A p \in ToSet(Candidates(n, resume)) : IsValid(p, resume) \/ IsExplained(p)

\* Showing a bullet or a section never lowers the match, hiding one never raises it.
ShowingNeverLowersTheMatch ==
  [][LET seen == ToSet(VisibleBullets(resume))
         next == ToSet(VisibleBullets(resume'))
         Score(r) == OverallScore(EvidenceIn(r))
     IN  (seen # next /\ resume'.text = resume.text)
           => (seen \subseteq next => Score(resume) <= Score(resume')) /\ (next \subseteq seen => Score(resume') <= Score(resume))]_vars
=============================================================================
