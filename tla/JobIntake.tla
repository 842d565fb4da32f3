------------------------------ MODULE JobIntake ------------------------------
(* The intake of a job description (JobDescriptionService.parseAndPersist): its   *)
(* row, then one statement for each requirement and each keyword.  What the parser *)
(* and the AI pipeline make of a text is left out but for the number of rows.      *)
EXTENDS Requests

CONSTANTS Texts, Requirements, Keywords  \* the texts, by hash; how many rows a text makes

ASSUME IntakeAssumption == Requirements \in Nat /\ Keywords \in Nat /\ Requirements + Keywords > 0

VARIABLES
  descriptions, \* rows [id, user, text]
  parts,        \* per description: how many of its requirements and then keywords are there
  found,        \* per call: the description it answers about
  listed        \* per call: how many requirements and keywords it answers with

intakeVars == <<descriptions, parts, found, listed>>

Parts == Requirements + Keywords
Least(m, n) == IF m < n THEN m ELSE n

\* listForJob of requirements and of keywords.
RequirementsOf(d) == Least(parts[d], Requirements)
KeywordsOf(d) == parts[d] - RequirementsOf(d)

-----------------------------------------------------------------------------
(* Statements.                                                                  *)

Taken(c) == {d \in descriptions : d.user = who[c] /\ d.text = about[c]}

DescriptionRow(c) == [id |-> c, user |-> who[c], text |-> about[c]]

\* The unique index of job_descriptions, which the memory driver has not.
TextIsFree(c) == Driver = "postgres" /\ step[c] = "describe" => Taken(c) = {}

\* The write of the step at which c is, or has stopped.
WriteIntake(c) ==
  \/ step[c] = "describe" /\ descriptions' = descriptions \cup {DescriptionRow(c)} /\ UNCHANGED parts
  \/ step[c] = "part" /\ parts' = [parts EXCEPT ![c] = @ + 1] /\ UNCHANGED descriptions

WritesIntake(c) == step[c] \in {"describe", "part"}

-----------------------------------------------------------------------------
(* Actions.                                                                     *)

RequestIntake(c, k) ==
  /\ \E t \in Texts : Arrive(c, "intake", t, k, "authenticate")
  /\ UNCHANGED intakeVars

\* Mutant of FindByHash: the requirements of a text taken in before are forgotten.
FindByHashKeywordsOnly(c) ==
  /\ At(c, "existing")
  /\ \E d \in descriptions \cup {DescriptionRow(c)} :
       /\ IF Taken(c) = {} THEN d.id = c ELSE d \in Taken(c)
       /\ found' = [found EXCEPT ![c] = d.id]
       /\ Proceed(c, IF d.id = c THEN "describe" ELSE "keywords")
  /\ UNCHANGED <<descriptions, parts, listed>>

FindByHash(c) ==
  /\ At(c, "existing")
  /\ \/ /\ Taken(c) = {}
        /\ found' = [found EXCEPT ![c] = c]
        /\ Proceed(c, "describe")
     \/ \E d \in Taken(c) :
          /\ found' = [found EXCEPT ![c] = d.id]
          /\ Proceed(c, "requirements")
  /\ UNCHANGED <<descriptions, parts, listed>>

\* A text that was taken in before is answered with the rows that are there by now.
ListRequirements(c) ==
  /\ At(c, "requirements")
  /\ listed' = [listed EXCEPT ![c] = RequirementsOf(found[c])]
  /\ Proceed(c, "keywords")
  /\ UNCHANGED <<descriptions, parts, found>>

ListKeywords(c) ==
  /\ At(c, "keywords")
  /\ listed' = [listed EXCEPT ![c] = @ + KeywordsOf(found[c])]
  /\ Answer(c, "ok")
  /\ UNCHANGED <<descriptions, parts, found>>

CreateDescription(c) ==
  /\ At(c, "describe")
  /\ IF TextIsFree(c)
     THEN WriteIntake(c) /\ Proceed(c, "part")
     ELSE Answer(c, "failed") /\ UNCHANGED <<descriptions, parts>>
  /\ UNCHANGED <<found, listed>>

\* Mutant of CreatePart: the loop runs once too often.
CreatePartTooMany(c) ==
  /\ At(c, "part")
  /\ WriteIntake(c)
  /\ IF parts[c] = Parts
     THEN Answer(c, "ok") /\ listed' = [listed EXCEPT ![c] = Parts]
     ELSE Proceed(c, "part") /\ UNCHANGED listed
  /\ UNCHANGED found

\* createMany of requirements, then of keywords: a row, a statement.
CreatePart(c) ==
  /\ At(c, "part")
  /\ WriteIntake(c)
  /\ IF parts[c] + 1 = Parts
     THEN Answer(c, "ok") /\ listed' = [listed EXCEPT ![c] = Parts]
     ELSE Proceed(c, "part") /\ UNCHANGED listed
  /\ UNCHANGED found

\* A given-up write of a call arrives.
LateIntakeWrite(c) ==
  /\ Arrives(c) /\ WritesIntake(c)
  /\ IF TextIsFree(c) THEN WriteIntake(c) ELSE UNCHANGED <<descriptions, parts>>
  /\ UNCHANGED <<found, listed>>

IntakeStep(c) ==
  \/ FindByHash(c) \/ ListRequirements(c) \/ ListKeywords(c)
  \/ CreateDescription(c) \/ CreatePart(c) \/ LateIntakeWrite(c)

IntakeInit ==
  /\ descriptions = {}
  /\ parts = [c \in Calls |-> 0]
  /\ found = [c \in Calls |-> Nobody]
  /\ listed = [c \in Calls |-> 0]

-----------------------------------------------------------------------------
(* Properties.                                                                  *)

IntakeType ==
  /\ descriptions \subseteq [id : Calls, user : Accounts, text : Texts]
  /\ parts \in [Calls -> 0 .. Parts]
  /\ found \in [Calls -> Calls \cup {Nobody}]
  /\ listed \in [Calls -> 0 .. Parts]

\* No account has two descriptions of one text, and none that lacks a part unless
\* its intake is under way or broken off.
DescriptionsAreWhole ==
  /\ \A d, e \in descriptions : d.user = e.user /\ d.text = e.text => d = e
  /\ \A d \in descriptions : parts[d.id] = Parts \/ Unfinished(d.id)

\* Who is told of a description gets all of it.
AnswersAreWhole == \A c \in Calls : op[c] = "intake" /\ state[c] = "ok" => listed[c] = Parts
=============================================================================
