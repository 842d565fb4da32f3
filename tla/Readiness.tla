------------------------------ MODULE Readiness ------------------------------
(* ReadinessService: findings about a match report, the recommendations drawn     *)
(* from them, and a readiness score.  The explanation pipeline may reword them but *)
(* changes no decision, so it is left out.                                       *)
(*                                                                              *)
(* Of the evidence a finding cites only the first item matters later, and only when *)
(* it is evidence of the match: "basis" is its index there, or 0.                 *)
EXTENDS Matching

VARIABLE readiness \* the readiness reports, in the order they were made

\* The words the finding generator looks for in the texts of the evidence.
ImpactWord == "impact"
MetricWord == "metric"
LeadershipWord == "lead"

TechnicalCategories == {"programming_language", "framework", "cloud_platform", "tool", "database"}

-----------------------------------------------------------------------------
(* ReadinessFindingGenerator.                                                   *)

Finding(category, severity, basis, reason, skill) ==
  [category |-> category, severity |-> severity, basis |-> basis, reason |-> reason, skill |-> skill]

\* The first of the indices of evidence found, or 0.
FirstOf(found) == IF found = {} THEN 0 ELSE Min(found)

OverallFinding(report) ==
  Finding("overall_completeness",
          IF report.overallScore >= 75 THEN "strength" ELSE IF report.overallScore >= 50 THEN "warning" ELSE "weakness",
          0, "coverage", None)

TechnicalFinding(report) ==
  LET IsTechnical(x) == x.category \in TechnicalCategories
  IN  Finding("technical_skills",
              IF Len(Where(report.evidence, IsTechnical)) >= Len(Where(report.gaps, IsTechnical))
              THEN "strength" ELSE "weakness",
              0, "balance", None)

AlignmentFinding(report) ==
  Finding("experience_alignment",
          IF \E g \in DOMAIN report.gaps : report.gaps[g].type = "missing_experience" THEN "warning" ELSE "strength",
          FirstOf({i \in DOMAIN report.evidence :
                     \/ report.evidence[i].category = "responsibility"
                     \/ "experience" \in report.evidence[i].title}),
          "responsibilities", None)

\* A strength if some evidence uses the word.
WordFinding(report, category, word) ==
  LET at == FirstOf({i \in DOMAIN report.evidence : word \in report.evidence[i].text})
  IN  Finding(category, IF at # 0 THEN "strength" ELSE "warning", at, word, None)

\* Evidence is looked up under the category itself, so a category counted under its
\* plural finds none.
CategoryFinding(report, key) ==
  LET score == report.categoryScores[key]
  IN  Finding(key,
              IF score >= 80 THEN "strength" ELSE IF score >= 50 THEN "warning" ELSE "weakness",
              FirstOf({i \in DOMAIN report.evidence : report.evidence[i].category = key}), "support", None)

GapFinding(gap) ==
  Finding(gap.category, IF gap.importance = "high" THEN "weakness" ELSE "warning", 0, gap.reason, gap.term)

\* No gap is ever about projects, so this is always a strength.
ProjectsFinding(report) ==
  Finding("projects", "strength",
          FirstOf({i \in DOMAIN report.evidence : "project" \in report.evidence[i].title}), "projects", None)

SameFinding(f, g) == f.category = g.category /\ f.severity = g.severity /\ f.reason = g.reason

\* dedupeFindings: the first of each category, severity and reason.
Deduped(findings) ==
  Folded(LAMBDA kept, f : IF \E i \in DOMAIN kept : SameFinding(kept[i], f) THEN kept ELSE Append(kept, f),
           <<>>, findings)

Findings(report) ==
  LET firstGaps == SubSeq(report.gaps, 1, IF Len(report.gaps) < 8 THEN Len(report.gaps) ELSE 8)
  IN  Deduped(<<OverallFinding(report), TechnicalFinding(report), AlignmentFinding(report),
                WordFinding(report, "impact", ImpactWord)>>
              \o [i \in DOMAIN CategoryOrder |-> CategoryFinding(report, CategoryOrder[i])]
              \o [i \in DOMAIN firstGaps |-> GapFinding(firstGaps[i])]
              \o <<WordFinding(report, "quantified_achievements", MetricWord),
                   WordFinding(report, "leadership", LeadershipWord), ProjectsFinding(report)>>)

-----------------------------------------------------------------------------
(* ReadinessRecommendationGenerator and the summary.                             *)

Recommendations(findings) ==
  LET advised == Where(findings, LAMBDA f : f.severity # "strength")
      kept == SubSeq(advised, 1, IF Len(advised) < 10 THEN Len(advised) ELSE 10)
  IN  [i \in DOMAIN kept |-> [category |-> kept[i].category, basis |-> kept[i].basis, skill |-> kept[i].skill]]

CountOf(findings, severity) == Len(Where(findings, LAMBDA f : f.severity = severity))

RawScore(report, findings) ==
  report.overallScore - 7 * CountOf(findings, "weakness") - 3 * CountOf(findings, "warning")
                      + 2 * CountOf(findings, "strength")

\* Mutant: the score may leave the scale at the lower end.
ScoreWithoutFloor(report, findings) ==
  IF RawScore(report, findings) > 100 THEN 100 ELSE RawScore(report, findings)

ReadinessScore(report, findings) ==
  IF RawScore(report, findings) < 0 THEN 0 ELSE IF RawScore(report, findings) > 100 THEN 100 ELSE RawScore(report, findings)

ReadinessReportOn(m) ==
  LET findings == Findings(matches[m])
  IN  [match |-> m, recommendations |-> Recommendations(findings), readinessScore |-> ReadinessScore(matches[m], findings)]

CreateReadinessReport(m) ==
  /\ active
  /\ Len(readiness) < MaxReports
  /\ readiness' = Append(readiness, ReadinessReportOn(m))

ReadinessType ==
  \A n \in DOMAIN readiness : readiness[n].match \in DOMAIN matches /\ readiness[n].readinessScore \in 0 .. 100
=============================================================================
