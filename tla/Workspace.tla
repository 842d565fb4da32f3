------------------------------ MODULE Workspace ------------------------------
(* The API as its users meet it: accounts, resume uploads, job descriptions and   *)
(* applications behind one session check, over one database and one process.       *)
EXTENDS Accounts, ResumeUpload, JobIntake, Applications

vars == <<requestVars, accountVars, uploadVars, intakeVars, applicationVars>>

Init == RequestsInit /\ AccountsInit /\ UploadInit /\ IntakeInit /\ ApplicationsInit

\* A protected operation is asked for with a session that was issued.
RequestProtected(c) ==
  \E s \in sessions :
    /\ \/ RequestUpload(c, s.id) /\ UNCHANGED <<intakeVars, applicationVars>>
       \/ RequestIntake(c, s.id) /\ UNCHANGED <<uploadVars, applicationVars>>
       \/ /\ RequestApply(c, s.id) \/ RequestMove(c, s.id) \/ RequestNote(c, s.id)
          /\ UNCHANGED <<uploadVars, intakeVars>>
    /\ UNCHANGED accountVars

Writing ==
  {c \in Calls : Open(c) /\ (WritesAccounts(c) \/ WritesUploads(c) \/ WritesIntake(c) \/ WritesApplications(c))}

\* A call or the process fails.
Failure ==
  /\ (\E c \in Calls : CallFails(c, Writing)) \/ ProcessEnds(Writing)
  /\ UNCHANGED <<accountVars, uploadVars, intakeVars, applicationVars>>

Next ==
  \/ \E c \in Calls :
       \/ RequestProtected(c)
       \/ AccountsStep(c) /\ UNCHANGED <<uploadVars, intakeVars, applicationVars>>
       \/ UploadStep(c) /\ UNCHANGED <<accountVars, intakeVars, applicationVars>>
       \/ IntakeStep(c) /\ UNCHANGED <<accountVars, uploadVars, applicationVars>>
       \/ ApplicationsStep(c) /\ UNCHANGED <<accountVars, uploadVars, intakeVars>>
  \/ \E s \in sessions : SessionExpires(s) /\ UNCHANGED <<uploadVars, intakeVars, applicationVars>>
  \/ Failure

Spec == Init /\ [][Next]_vars

-----------------------------------------------------------------------------
(* Properties.                                                                  *)

\* The type of every variable.
TypeOK ==
  /\ \A c \in Calls : state[c] \in {"idle", "open", "ok", "refused", "failed"}
  /\ who \in [Calls -> Accounts \cup {Nobody}]
  /\ cookie \in [Calls -> Accounts \cup {Nobody}]
  /\ late \subseteq {c \in Calls : state[c] = "failed"}
  /\ failures \in 0 .. MaxFailures
  /\ AccountsType /\ UploadType /\ IntakeType /\ ApplicationsType

\* What an operation leaves half made belongs to a request that is under way or was
\* broken off: an answer "ok" means all of it is there, in every component.
HalfMadeIsExplained == AccountsAreWhole /\ UploadsAreWhole /\ DescriptionsAreWhole /\ TimelinesAreWhole

\* Once a log-out is answered, its session opens nothing: a request that has not had
\* its session looked up by then, whenever it was sent, is not let in.  (One that has
\* may still come through, since the account is read after the session.)
LoggedOutSessionOpensNothing ==
  [][\A c, d \in Calls :
       (op[c] = "logout" /\ state[c] = "ok" /\ cookie[d] = cookie[c] /\ Open(d) /\ step[d] = "authenticate")
         => step'[d] = "authenticate"]_vars
=============================================================================
