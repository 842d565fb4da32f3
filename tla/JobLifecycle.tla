---------------------------- MODULE JobLifecycle ----------------------------
(* What a parse job promises to its owner, as the architecture notes state it:  *)
(*     queued -> running -> succeeded                                           *)
(*     queued -> running -> failed                                              *)
(*     failed -> queued                                                         *)
(* One job is followed: its status and how many of its executions have failed.  *)
(* One transition is added that the review screen offers and the notes do not   *)
(* list: a succeeded job goes back to queued when its draft is parsed again.    *)
EXTENDS Naturals

VARIABLES status, attempts

lifecycleVars == <<status, attempts>>

JobStatuses == {"queued", "running", "succeeded", "failed"}

LifecycleTypeOK == status \in JobStatuses /\ attempts \in Nat

LifecycleInit == status = "queued" /\ attempts = 0

\* An execution takes the job; only a queued job can be taken.
Take == status = "queued" /\ status' = "running" /\ UNCHANGED attempts

\* The execution that took the job reports its result.
Succeed == status = "running" /\ status' = "succeeded" /\ UNCHANGED attempts

\* The execution that took the job reports an error; the attempt is counted.
Fail == status = "running" /\ status' = "failed" /\ attempts' = attempts + 1

\* The owner asks for another execution.
Requeue ==
  /\ status \in {"failed", "succeeded"}
  /\ status' = "queued"
  /\ UNCHANGED attempts

LifecycleNext == Take \/ Succeed \/ Fail \/ Requeue

LifecycleSpec == LifecycleInit /\ [][LifecycleNext]_lifecycleVars
=============================================================================
