------------------------------- MODULE Matching -------------------------------
(* MatchingService: a report of the evidence the visible resume gives for the     *)
(* requirements of a job description, the gaps it leaves, and a score.            *)
(*                                                                              *)
(* Weights are in hundredths and scores of evidence in percent.  That a text      *)
(* contains a term, or names a known skill, is membership of the term in its words. *)
EXTENDS CanonicalResume

CONSTANTS
  Requirements, \* of the job: term, type, category, importance and weight of each
  Credentials,  \* its education and certification signals: term and kind of each
  Related,      \* per term: the terms relatedTermsFor gives
  MaxReports    \* bound: reports made of either kind

ASSUME JobAssumption ==
  /\ Requirements \in Seq(ToSet(Requirements)) /\ Credentials \in Seq(ToSet(Credentials))
  /\ \A n \in DOMAIN Requirements :
       /\ Requirements[n].weight \in 1 .. 100
       /\ Requirements[n].importance \in {"high", "medium"}
       /\ Related[Requirements[n].term] \subseteq STRING
  /\ \A n \in DOMAIN Credentials : Credentials[n].kind \in {"education", "certification"}
  /\ MaxReports \in Nat

VARIABLE matches \* the match reports, in the order they were made

SumOf(s) == Folded(LAMBDA a, b : a + b, 0, s)

\* Math.round(part / whole * 100), of a part in percent of the whole's unit.
Percent(part, whole) == IF whole = 0 THEN 0 ELSE (2 * part + whole) \div (2 * whole)

-----------------------------------------------------------------------------
(* EvidenceGenerator.                                                           *)

Direct(r, q) == Where(VisibleBullets(r), LAMBDA x : q.term \in r.text[x.bullet])
Nearby(r, q) == Where(VisibleBullets(r), LAMBDA x : Related[q.term] \cap r.text[x.bullet] # {})

EvidenceRecord(r, n, x, score) ==
  [requirement |-> n, category |-> Requirements[n].category, bullet |-> x.bullet,
   title |-> r.text[x.section], text |-> r.text[x.bullet], score |-> score]

\* Mutant: the first bullet that names the requirement or a related term, whichever.
EvidenceOfEither(r, n) ==
  LET q == Requirements[n]
      either == Where(VisibleBullets(r), LAMBDA x : ({q.term} \cup Related[q.term]) \cap r.text[x.bullet] # {})
  IN  IF either = <<>> THEN <<>>
      ELSE <<EvidenceRecord(r, n, Head(either), IF q.term \in r.text[Head(either).bullet] THEN 100 ELSE 65)>>

\* The first bullet that names the requirement, else the first that names a related term.
EvidenceFor(r, n) ==
  LET direct == Direct(r, Requirements[n])
      nearby == Nearby(r, Requirements[n])
  IN  IF direct # <<>> THEN <<EvidenceRecord(r, n, Head(direct), 100)>>
      ELSE IF nearby # <<>> THEN <<EvidenceRecord(r, n, Head(nearby), 65)>>
      ELSE <<>>

EvidenceIn(r) == FlattenSeq([n \in DOMAIN Requirements |-> EvidenceFor(r, n)])

-----------------------------------------------------------------------------
(* GapAnalyzer.                                                                 *)

RequirementGap(n) ==
  LET q == Requirements[n]
  IN  [term |-> q.term, category |-> q.category, importance |-> q.importance,
       type |-> IF q.type = "responsibility" THEN "missing_experience" ELSE "missing_skill",
       reason |-> IF q.type = "responsibility" THEN "unsupported" ELSE "unmatched"]

\* The text has the term letter by letter.  The matcher and the validator read any blanks
\* between two words as one; that those of a term are not a single blank in a text is the word
\* "spaced:" and the term.
Verbatim(text, term) == term \in text /\ ("spaced:" \o term) \notin text

CredentialGap(c) ==
  [term |-> c.term, category |-> c.kind, importance |-> "medium", type |-> "missing_credential", reason |-> c.kind]

GapsLeftBy(evidence) ==
  LET Matched(n) == \E i \in DOMAIN evidence : evidence[i].requirement = n
      gaps == FlattenSeq([n \in DOMAIN Requirements |-> IF Matched(n) THEN <<>> ELSE <<RequirementGap(n)>>])
      Known(found, c) == \/ \E i \in DOMAIN evidence : Verbatim(evidence[i].text, c.term)
                         \/ \E g \in DOMAIN found : found[g].term = c.term
  IN  Folded(LAMBDA found, c : IF Known(found, c) THEN found ELSE Append(found, CredentialGap(c)), gaps, Credentials)

-----------------------------------------------------------------------------
(* WeightedScorer.                                                              *)

\* Two categories are counted under their plural.
CategoryKey(n) ==
  CASE Requirements[n].category = "programming_language" -> "programming_languages"
    [] Requirements[n].category = "cloud_platform" -> "cloud_platforms"
    [] OTHER -> Requirements[n].category

CategoryOrder ==
  Folded(LAMBDA seen, key : IF key \in ToSet(seen) THEN seen ELSE Append(seen, key),
           <<>>, [n \in DOMAIN Requirements |-> CategoryKey(n)])

\* The score of the requirements counted.
ScoreOf(evidence, counted) ==
  LET For(n) == {i \in DOMAIN evidence : evidence[i].requirement = n}
      ScoreFor(n) == IF For(n) = {} THEN 0 ELSE evidence[Max(For(n))].score
  IN  Percent(SumOf([n \in DOMAIN Requirements |-> IF n \in counted THEN Requirements[n].weight * ScoreFor(n) ELSE 0]),
              SumOf([n \in DOMAIN Requirements |-> IF n \in counted THEN Requirements[n].weight ELSE 0]))

OverallScore(evidence) == ScoreOf(evidence, DOMAIN Requirements)
CategoryScore(evidence, key) == ScoreOf(evidence, {n \in DOMAIN Requirements : CategoryKey(n) = key})

-----------------------------------------------------------------------------
MatchReportOn(r) ==
  LET evidence == EvidenceIn(r)
  IN  [evidence |-> evidence, gaps |-> GapsLeftBy(evidence), overallScore |-> OverallScore(evidence),
       categoryScores |-> [key \in ToSet(CategoryOrder) |-> CategoryScore(evidence, key)],
       of |-> r] \* of: history, the resume the report is about

CreateMatchReport ==
  /\ active
  /\ Len(matches) < MaxReports
  /\ matches' = Append(matches, MatchReportOn(resume))

MatchType ==
  \A m \in DOMAIN matches :
    /\ matches[m].overallScore \in 0 .. 100
    /\ \A key \in DOMAIN matches[m].categoryScores : matches[m].categoryScores[key] \in 0 .. 100
=============================================================================
