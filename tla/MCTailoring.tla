----------------------------- MODULE MCTailoring -----------------------------
(* Tailoring for TLC: a section with one job of which one bullet is written, a      *)
(* section still to be made, and a posting of a skill and two duties.              *)
EXTENDS Tailoring, TLC

MCLayout ==
  <<[bullet |-> "b1", entity |-> "job", section |-> "work"],
    [bullet |-> "b2", entity |-> "job", section |-> "work"],
    [bullet |-> "b3", entity |-> "list", section |-> "extras"]>>

MCFirstText == [work |-> {"experience"}, job |-> {"on"}, b1 |-> {"javascript", "mentoring", "impact", "lead", "a degree"}]

MCPhrases == {{"call", "typescript", "mentoring", LeadershipHint, OuterBlanks}, {"on call", "metric", "a degree", "spaced:a degree"}}

MCTitles == {{"on call"}, {}}

\* A text that has "on" ends with it, one that has "call" begins with it.
MCAcross(texts) ==
  IF \E i \in 1 .. (Len(texts) - 1) : "on" \in texts[i] /\ "call" \in texts[i + 1] THEN {"on call"} ELSE {}

MCRequirements ==
  <<[term |-> "typescript", type |-> "required_skill", category |-> "programming_language", importance |-> "high", weight |-> 100],
    [term |-> "mentoring", type |-> "responsibility", category |-> "responsibility", importance |-> "medium", weight |-> 60],
    [term |-> "on call", type |-> "responsibility", category |-> "responsibility", importance |-> "medium", weight |-> 60]>>

MCCredentials == <<[term |-> "a degree", kind |-> "education"]>>

MCRelated == [typescript |-> {"javascript"}, mentoring |-> {}] @@ ("on call" :> {})
=============================================================================
