--------------------------- MODULE ResumeDraftProofs ---------------------------
(* More theorems about ResumePipeline, each from a strengthening of its own on top *)
(* of the inductive invariant of ResumePipelineProofs: how failures are counted,    *)
(* what one client can rely on, and what a promotion takes.                        *)
EXTENDS ResumePipelineProofs, FiniteSetTheorems

-----------------------------------------------------------------------------
(* Failures and attempts.                                                       *)

RunsAt(step) == {r \in Runs : pc[r] = step}

\* The executions that died and have no report of their failure under way.
Unreported == {r \in RunsAt("dead") : \A s \in late : s.run = r => s.step # "fail"}

\* A report that is under way is the only one of its execution.
ReportsAreSingle == \A s \in late : s.step = "fail" => pc[s.run] = "dead" /\ s.row = row[s.run]

AttemptsBounded ==
  /\ Cardinality(RunsAt("failed")) <= job.attempts
  /\ job.attempts <= Cardinality(RunsAt("failed")) + Cardinality(Unreported)

CountInv == ReportsAreSingle /\ AttemptsBounded

LEMMA SizeOfRuns ==
  \A S \in SUBSET Runs : IsFiniteSet(S) /\ Cardinality(S) \in Nat
BY PipelineAssumption, FS_Subset, FS_CardinalityType

\* A step counts an attempt exactly when one more execution has failed, or one more
\* has died with its report carried out.
LEMMA Counted ==
  ASSUME TypeOK, AttemptsBounded, job'.attempts \in Nat,
         \/ /\ job'.attempts = job.attempts
            /\ RunsAt("failed")' = RunsAt("failed") /\ Unreported \subseteq Unreported'
         \/ \E r \in Runs \ RunsAt("failed") :
              /\ job'.attempts = job.attempts + 1
              /\ RunsAt("failed")' = RunsAt("failed") \cup {r} /\ Unreported \subseteq Unreported'
         \/ \E r \in Runs \ Unreported :
              /\ job'.attempts = job.attempts + 1
              /\ RunsAt("failed")' = RunsAt("failed") /\ Unreported \cup {r} \subseteq Unreported'
  PROVE  AttemptsBounded'
<1> DEFINE F == RunsAt("failed")
           U == Unreported
<1>1. F \subseteq Runs /\ U \subseteq Runs /\ F' \subseteq Runs /\ U' \subseteq Runs
  BY DEF RunsAt, Unreported
<1>2. /\ IsFiniteSet(F) /\ Cardinality(F) \in Nat /\ IsFiniteSet(U) /\ Cardinality(U) \in Nat
      /\ IsFiniteSet(F') /\ Cardinality(F') \in Nat /\ IsFiniteSet(U') /\ Cardinality(U') \in Nat
  BY <1>1, SizeOfRuns
<1>3. job.attempts \in Nat
  BY DEF TypeOK
<1>4. AttemptsBounded <=> Cardinality(F) <= job.attempts /\ job.attempts <= Cardinality(F) + Cardinality(U)
  BY DEF AttemptsBounded
<1>5. AttemptsBounded' <=> Cardinality(F') <= job'.attempts /\ job'.attempts <= Cardinality(F') + Cardinality(U')
  BY DEF AttemptsBounded
<1> HIDE DEF F, U
<1>6. CASE job'.attempts = job.attempts /\ F' = F /\ U \subseteq U'
  <2>1. Cardinality(U) <= Cardinality(U')
    BY <1>2, <1>6, FS_Subset
  <2> QED BY <2>1, <1>2, <1>3, <1>4, <1>5, <1>6
<1>7. ASSUME NEW r \in Runs \ F, job'.attempts = job.attempts + 1, F' = F \cup {r}, U \subseteq U'
      PROVE  AttemptsBounded'
  <2>1. Cardinality(U) <= Cardinality(U')
    BY <1>2, <1>7, FS_Subset
  <2>2. Cardinality(F') = Cardinality(F) + 1
    BY <1>2, <1>7, FS_AddElement
  <2> QED BY <2>1, <2>2, <1>2, <1>3, <1>4, <1>5, <1>7
<1>8. ASSUME NEW r \in Runs \ U, job'.attempts = job.attempts + 1, F' = F, U \cup {r} \subseteq U'
      PROVE  AttemptsBounded'
  <2>1. Cardinality(U \cup {r}) <= Cardinality(U')
    BY <1>2, <1>8, FS_Subset
  <2>2. Cardinality(U \cup {r}) = Cardinality(U) + 1
    BY <1>2, <1>8, FS_AddElement
  <2> QED BY <2>1, <2>2, <1>2, <1>3, <1>4, <1>5, <1>8
<1> QED BY <1>6, <1>7, <1>8 DEF F, U

LEMMA AttemptsOfExecute ==
  ASSUME TypeOK, NEW s \in Statements, Execute(s)
  PROVE  job'.attempts = IF s.step = "fail" THEN job.attempts + 1 ELSE job.attempts
BY DEF Execute, UpdateJob, ReplaceDraft, RequireReview, Progressed, Completed, Failed, TypeOK, StageSteps, DeleteSteps

LEMMA CountInit == ASSUME Init PROVE CountInv
<1>1. RunsAt("failed") = {} /\ Unreported = {} /\ job.attempts = 0
  BY DEF Init, RunsAt, Unreported
<1>2. Cardinality({}) = 0
  BY FS_EmptySet
<1> QED BY <1>1, <1>2 DEF CountInv, ReportsAreSingle, AttemptsBounded, Init

\* A step that writes nothing to the job.
LEMMA CountQuiet ==
  ASSUME TypeOK, CountInv, job'.attempts = job.attempts, row' = row, late' = late,
         \A r \in Runs : /\ pc'[r] = "failed" <=> pc[r] = "failed"
                         /\ pc[r] = "dead" => pc'[r] = "dead"
  PROVE  CountInv'
<1>1. ReportsAreSingle'
  BY DEF CountInv, ReportsAreSingle, TypeOK, Statements
<1>2. RunsAt("failed")' = RunsAt("failed") /\ Unreported \subseteq Unreported'
  BY DEF RunsAt, Unreported
<1>3. job.attempts \in Nat
  BY DEF TypeOK
<1> QED BY <1>1, <1>2, <1>3, Counted DEF CountInv

LEMMA CountMoves ==
  ASSUME TypeOK, CountInv,
         \/ \E r \in Runs : Start(r) \/ ReadObject(r) \/ WorkFails(r) \/ WriteFails(r)
         \/ Crash \/ Retry \/ Approve \/ Reject \/ UNCHANGED vars
  PROVE  CountInv'
<1>1. ASSUME NEW r \in Runs, Start(r) \/ ReadObject(r) \/ WorkFails(r) \/ WriteFails(r) PROVE CountInv'
  <2>1. /\ UNCHANGED <<job, row, late>> /\ pc[r] \notin Ended
        /\ \E step \in Steps \ {"failed"} : pc' = [pc EXCEPT ![r] = step]
    BY <1>1 DEF Start, ReadObject, WorkFails, WriteFails, GoTo, OnError, Steps, WriteSteps, StageSteps, DeleteSteps, Ended
  <2>2. pc \in [Runs -> Steps]
    BY DEF TypeOK
  <2> QED BY <2>1, <2>2, CountQuiet DEF Ended
<1>2. CASE Crash
  BY <1>2, CountQuiet DEF Crash, Active, Ended
<1>3. CASE Retry
  <2>1. job'.attempts = job.attempts
    BY <1>3 DEF Retry, Requeued, TypeOK
  <2> QED BY <1>3, <2>1, CountQuiet DEF Retry
<1>4. CASE Approve \/ Reject \/ UNCHANGED vars
  BY <1>4, CountQuiet DEF Approve, Reject, vars
<1> QED BY <1>1, <1>2, <1>3, <1>4

LEMMA CountWrite == ASSUME IndInv, CountInv, NEW r \in Runs, Write(r) PROVE CountInv'
<1> DEFINE step == IF pc[r] = "insert" /\ row[r] + 1 < RowCount THEN "insert" ELSE After[pc[r]]
<1>0. TypeOK /\ TypeOK'
  BY WriteInv DEF IndInv
<1>1. /\ pc[r] \in WriteSteps /\ pc' = [pc EXCEPT ![r] = step] /\ late' = late
      /\ pc \in [Runs -> Steps] /\ row \in [Runs -> 0 .. RowCount] /\ late \subseteq Statements
      /\ row' = (IF pc[r] = "insert" THEN [row EXCEPT ![r] = @ + 1] ELSE row)
      /\ Statement(r) \in Statements /\ Execute(Statement(r))
  BY <1>0 DEF Write, GoTo, TypeOK, Statement, Statements
<1>2. step = "failed" <=> pc[r] = "fail"
  BY <1>1 DEF After, WriteSteps, StageSteps, DeleteSteps
<1>3. step # "dead" /\ pc[r] \notin {"dead", "failed"}
  BY <1>1 DEF After, WriteSteps, StageSteps, DeleteSteps
<1>4. job'.attempts = IF pc[r] = "fail" THEN job.attempts + 1 ELSE job.attempts
  BY <1>0, <1>1, AttemptsOfExecute DEF Statement
<1> HIDE DEF step
<1>5. ReportsAreSingle'
  <2> SUFFICES ASSUME NEW s \in late, s.step = "fail"
               PROVE  pc'[s.run] = "dead" /\ s.row = row'[s.run]
    BY <1>1 DEF ReportsAreSingle
  <2>1. pc[s.run] = "dead" /\ s.row = row[s.run] /\ s.run \in Runs
    BY <1>1 DEF CountInv, ReportsAreSingle, Statements
  <2> QED BY <2>1, <1>1, <1>3
<1>6. Unreported' = Unreported
  BY <1>1, <1>3 DEF Unreported, RunsAt
<1>7. CASE pc[r] = "fail"
  <2>1. RunsAt("failed")' = RunsAt("failed") \cup {r} /\ r \notin RunsAt("failed")
    BY <1>1, <1>2, <1>7 DEF RunsAt
  <2>2. job'.attempts \in Nat
    BY <1>0 DEF TypeOK
  <2> QED BY <1>0, <1>4, <1>5, <1>6, <1>7, <2>1, <2>2, Counted DEF CountInv
<1>8. CASE pc[r] # "fail"
  <2>1. RunsAt("failed")' = RunsAt("failed")
    BY <1>1, <1>2, <1>3, <1>8 DEF RunsAt
  <2>2. job'.attempts \in Nat
    BY <1>0 DEF TypeOK
  <2> QED BY <1>0, <1>4, <1>5, <1>6, <1>8, <2>1, <2>2, Counted DEF CountInv
<1> QED BY <1>7, <1>8

LEMMA CountTimesOut == ASSUME IndInv, CountInv, NEW r \in Runs, WriteTimesOut(r) PROVE CountInv'
<1>1. /\ pc[r] \in WriteSteps /\ pc' = [pc EXCEPT ![r] = OnError(r)] /\ late' = late \cup {Statement(r)}
      /\ pc \in [Runs -> Steps] /\ late \subseteq Statements /\ row' = row /\ job' = job
      /\ job.attempts \in Nat /\ TypeOK
  BY DEF WriteTimesOut, GoTo, TypeOK, IndInv
<1>2. /\ OnError(r) # "failed" /\ (pc[r] = "fail" => OnError(r) = "dead")
      /\ pc[r] \notin {"dead", "failed"}
      /\ Statement(r).run = r /\ Statement(r).step = pc[r] /\ Statement(r).row = row[r]
  BY <1>1 DEF OnError, Statement, WriteSteps, StageSteps, DeleteSteps
<1>3. ReportsAreSingle'
  <2> SUFFICES ASSUME NEW s \in late', s.step = "fail"
               PROVE  pc'[s.run] = "dead" /\ s.row = row[s.run]
    BY <1>1 DEF ReportsAreSingle
  <2>1. CASE s \in late
    <3>1. pc[s.run] = "dead" /\ s.row = row[s.run] /\ s.run \in Runs
      BY <1>1, <2>1 DEF CountInv, ReportsAreSingle, Statements
    <3> QED BY <3>1, <1>1, <1>2
  <2>2. CASE s = Statement(r)
    BY <2>2, <1>1, <1>2
  <2> QED BY <2>1, <2>2, <1>1
<1>4. RunsAt("failed")' = RunsAt("failed")
  BY <1>1, <1>2 DEF RunsAt
<1>5. Unreported \subseteq Unreported'
  BY <1>1, <1>2 DEF Unreported, RunsAt
<1> QED BY <1>1, <1>3, <1>4, <1>5, Counted DEF CountInv

LEMMA CountLate == ASSUME IndInv, CountInv, NEW s \in late, LateWrite(s) PROVE CountInv'
<1>0. TypeOK /\ TypeOK'
  BY LateWriteInv DEF IndInv
<1>1. /\ s \in Statements /\ late \subseteq Statements /\ late' = late \ {s} /\ pc' = pc /\ row' = row
      /\ Execute(s) /\ job'.attempts \in Nat
  BY <1>0 DEF LateWrite, TypeOK
<1>2. job'.attempts = IF s.step = "fail" THEN job.attempts + 1 ELSE job.attempts
  BY <1>0, <1>1, AttemptsOfExecute
<1>3. ReportsAreSingle'
  BY <1>1 DEF CountInv, ReportsAreSingle
<1>4. RunsAt("failed")' = RunsAt("failed") /\ Unreported \subseteq Unreported'
  BY <1>1 DEF RunsAt, Unreported
<1>5. CASE s.step = "fail"
  <2>1. s.run \in Runs /\ pc[s.run] = "dead" /\ s.row = row[s.run]
    BY <1>1, <1>5 DEF CountInv, ReportsAreSingle, Statements
  <2>2. s.run \notin Unreported
    BY <1>5 DEF Unreported
  <2>3. \A t \in late : t.run = s.run /\ t.step = "fail" => t = s
    BY <1>1, <1>5, <2>1 DEF CountInv, ReportsAreSingle, Statements
  <2>4. s.run \in Unreported'
    BY <1>1, <2>1, <2>3 DEF Unreported, RunsAt
  <2> QED BY <1>0, <1>1, <1>2, <1>3, <1>4, <1>5, <2>1, <2>2, <2>4, Counted DEF CountInv
<1>6. CASE s.step # "fail"
  BY <1>0, <1>1, <1>2, <1>3, <1>4, <1>6, Counted DEF CountInv
<1> QED BY <1>5, <1>6

\* The attempts of a job are its failed executions, but for one whose last statement
\* was lost (failJob, retryJob), for any number of executions.
THEOREM FailuresAreCounted == Spec => []AttemptsCountFailures
<1>1. Init => CountInv
  BY CountInit
<1>2. IndInv /\ CountInv /\ [Next]_vars => CountInv'
  BY CountMoves, CountWrite, CountTimesOut, CountLate DEF Next, Proceed, IndInv
<1>3. IndInv /\ CountInv => AttemptsCountFailures
  <2> SUFFICES ASSUME IndInv, CountInv PROVE AttemptsCountFailures
    OBVIOUS
  <2> DEFINE F == Cardinality(RunsAt("failed"))
             D == Cardinality(RunsAt("dead"))
             U == Cardinality(Unreported)
  <2>1. RunsAt("failed") \subseteq Runs /\ RunsAt("dead") \subseteq Runs /\ Unreported \subseteq RunsAt("dead")
    BY DEF RunsAt, Unreported
  <2>2. F \in Nat /\ D \in Nat /\ U \in Nat /\ U <= D
    BY <2>1, SizeOfRuns, FS_Subset
  <2>3. F <= job.attempts /\ job.attempts <= F + U /\ job.attempts \in Nat
    BY DEF CountInv, AttemptsBounded, IndInv, TypeOK
  <2>4. AttemptsCountFailures <=> job.attempts \in F .. F + D
    BY DEF AttemptsCountFailures, RunsAt
  <2> HIDE DEF F, D, U
  <2> QED BY <2>2, <2>3, <2>4
<1> QED BY <1>1, <1>2, <1>3, Invariance, PTL DEF Spec

-----------------------------------------------------------------------------
(* The draft, as far as the execution that replaces it has come.                 *)

DraftSoFar(r) ==
  /\ pc[r] = "delete_entities" => \A x \in live : x[3] # "bullet"
  /\ pc[r] = "delete_sections" => \A x \in live : x[3] = "section"
  /\ pc[r] = "insert" => live = Inserted(r, row[r])
  /\ pc[r] \in {"review", "completed", "complete"} => live = Draft(r)

LEMMA InsertedStep ==
  ASSUME NEW r \in Runs, NEW n \in Nat
  PROVE  Inserted(r, n + 1) = Inserted(r, n) \cup {<<r, RowAt(n)[1], RowAt(n)[2]>>}
<1>1. 0 .. (n + 1) - 1 = (0 .. n - 1) \cup {n}
  OBVIOUS
<1> QED BY <1>1 DEF Inserted

LEMMA WholeDraft == ASSUME NEW r \in Runs PROVE Inserted(r, RowCount) = Draft(r)
<1>1. Inserted(r, RowCount) \subseteq Draft(r)
  BY RowAtType DEF Inserted, Draft
<1> QED BY <1>1, InsertedAll

\* Writing takes the draft from one stage to the next.
LEMMA DraftWrite ==
  ASSUME IndInv, NEW r \in Runs, Write(r), DraftSoFar(r)
  PROVE  DraftSoFar(r)'
<1> DEFINE step == IF pc[r] = "insert" /\ row[r] + 1 < RowCount THEN "insert" ELSE After[pc[r]]
<1>1. /\ pc[r] \in WriteSteps /\ pc' = [pc EXCEPT ![r] = step] /\ pc \in [Runs -> Steps]
      /\ row \in [Runs -> 0 .. RowCount] /\ live \subseteq Rows
      /\ row' = (IF pc[r] = "insert" THEN [row EXCEPT ![r] = @ + 1] ELSE row)
      /\ Execute(Statement(r))
      /\ Statement(r).step = pc[r] /\ Statement(r).run = r /\ Statement(r).row = row[r]
  BY DEF Write, GoTo, IndInv, TypeOK, Statement
<1>2. pc'[r] = step
  BY <1>1
<1>3. CASE pc[r] \in DeleteSteps
  <2>1. live' = {x \in live : x[3] # Deleted[pc[r]]} /\ row' = row
    BY <1>1, <1>3 DEF Execute, UpdateJob, ReplaceDraft, RequireReview, StageSteps, DeleteSteps
  <2>2. \A x \in live : x[3] \in Kinds
    BY <1>1 DEF Rows
  <2>3. CASE pc[r] = "delete_bullets"
    <3>1. pc'[r] = "delete_entities" /\ \A x \in live' : x[3] # "bullet"
      BY <1>2, <2>1, <2>3 DEF After, Deleted
    <3> QED BY <3>1 DEF DraftSoFar
  <2>4. CASE pc[r] = "delete_entities"
    <3>1. pc'[r] = "delete_sections" /\ \A x \in live' : x[3] = "section"
      BY <1>2, <2>1, <2>2, <2>4 DEF After, Deleted, DraftSoFar, Kinds
    <3> QED BY <3>1 DEF DraftSoFar
  <2>5. CASE pc[r] = "delete_sections"
    <3>1. pc'[r] = "insert" /\ live' = {}
      BY <1>2, <2>1, <2>5 DEF After, Deleted, DraftSoFar
    <3>2. row'[r] = 0
      BY <2>1, <2>5 DEF IndInv, RowsFollowSteps, BeforeInsert, DeleteSteps
    <3> QED BY <3>1, <3>2, InsertedNone DEF DraftSoFar, Inserted
  <2> QED BY <1>3, <2>3, <2>4, <2>5 DEF DeleteSteps
<1>4. CASE pc[r] = "insert"
  <2>1. live' = live \cup {<<r, RowAt(row[r])[1], RowAt(row[r])[2]>>}
    BY <1>1, <1>4 DEF Execute, UpdateJob, ReplaceDraft, RequireReview, StageSteps, DeleteSteps
  <2>2. row[r] \in Nat /\ row'[r] = row[r] + 1 /\ row[r] < RowCount /\ RowCount \in Nat
    BY <1>1, <1>4, PipelineAssumption DEF IndInv, RowsFollowSteps, RowCount
  <2>3. live' = Inserted(r, row'[r])
    BY <1>4, <2>1, <2>2, InsertedStep DEF DraftSoFar
  <2>4. live' = Inserted(r, row[r])'
    BY <2>3 DEF Inserted
  <2>5. CASE row[r] + 1 < RowCount
    <3>1. pc'[r] = "insert"
      BY <1>2, <1>4, <2>5
    <3> QED BY <2>4, <3>1 DEF DraftSoFar
  <2>6. CASE ~(row[r] + 1 < RowCount)
    <3>1. pc'[r] = "review" /\ row'[r] = RowCount
      BY <1>2, <1>4, <2>2, <2>6 DEF After
    <3> QED BY <2>3, <3>1, WholeDraft DEF DraftSoFar
  <2> QED BY <2>5, <2>6
<1>5. CASE pc[r] \notin DeleteSteps \cup {"insert"}
  <2>1. live' = live
    BY <1>1, <1>5 DEF Execute, UpdateJob, ReplaceDraft, RequireReview
  <2>2. /\ pc'[r] \notin {"delete_entities", "delete_sections", "insert"}
        /\ pc'[r] \in {"review", "completed", "complete"} => pc[r] \in {"review", "completed", "complete"}
    BY <1>1, <1>2, <1>5 DEF After, WriteSteps, StageSteps, DeleteSteps
  <2> QED BY <2>1, <2>2 DEF DraftSoFar, Draft
<1> QED BY <1>3, <1>4, <1>5

\* The draft does not change under an execution that is not amid replacing it.
LEMMA DraftIdle ==
  ASSUME NEW r \in Runs, pc'[r] \notin {"delete_entities", "delete_sections", "insert", "review", "completed", "complete"}
  PROVE  DraftSoFar(r)'
BY DEF DraftSoFar

-----------------------------------------------------------------------------
(* One browser tab, and every statement answered.                                *)

\* At most one execution is under way, and the status of the job is its own.
OnlyRunInv ==
  /\ late = {}
  /\ \A r \in Runs : Active(r) =>
       /\ \A q \in Runs : Active(q) => q = r
       /\ job.status = IF pc[r] = "running" THEN "queued" ELSE "running"

\* No trace of former attempts is left in a job that waits, runs or succeeded.
CleanJobInv ==
  /\ job.status \in {"queued", "running"} => ~job.error
  /\ \A r \in Runs : DraftSoFar(r)
  /\ SucceededJobHasItsDraft

TabInv == OnlyRunInv /\ CleanJobInv

LEMMA TabInit == ASSUME Init PROVE TabInv
BY DEF Init, TabInv, OnlyRunInv, CleanJobInv, DraftSoFar, SucceededJobHasItsDraft, Active

\* A step of an execution that writes nothing.
LEMMA TabMove ==
  ASSUME IndInv, TabInv, NEW r \in Runs,
         \/ Start(r) /\ OneClient
         \/ ReadObject(r) \/ WorkFails(r) \/ WriteFails(r)
  PROVE  TabInv'
<1>1. PICK step \in Steps : pc' = [pc EXCEPT ![r] = step] /\ UNCHANGED <<job, live, row, late>>
  BY DEF Start, ReadObject, WorkFails, WriteFails, GoTo, OnError, Steps, WriteSteps, StageSteps, DeleteSteps, Ended
<1>2. pc \in [Runs -> Steps]
  BY DEF IndInv, TypeOK
<1>3. /\ pc[r] \notin Ended /\ step \in {"running", "extracting_text", "fail", "dead"}
      /\ pc[r] = "new" => step = "running" /\ job.status = "queued" /\ NoRunActive
      /\ pc[r] = "running" => step = "dead"
      /\ step = "running" => pc[r] = "new"
  BY <1>1, <1>2 DEF Start, ReadObject, WorkFails, WriteFails, GoTo, OnError, WriteSteps, StageSteps, DeleteSteps, Ended
<1>4. OnlyRunInv'
  <2>1. \A q \in Runs \ {r} : Active(q)' <=> Active(q)
    BY <1>1, <1>2 DEF Active
  <2>2. Active(r)' => pc[r] = "new" \/ Active(r)
    BY <1>3 DEF Active
  <2>3. \A q \in Runs \ {r} : pc'[q] = pc[q]
    BY <1>1, <1>2
  <2>4. pc'[r] = step
    BY <1>1, <1>2
  <2> SUFFICES ASSUME NEW q \in Runs, Active(q)'
               PROVE  /\ \A p \in Runs : Active(p)' => p = q
                      /\ job.status = IF pc'[q] = "running" THEN "queued" ELSE "running"
    BY <1>1 DEF OnlyRunInv, TabInv
  <2>5. CASE pc[r] = "new"
    <3>1. q = r
      BY <1>3, <2>1, <2>5 DEF NoRunActive
    <3> QED BY <1>3, <2>1, <2>4, <2>5, <3>1 DEF NoRunActive
  <2>6. CASE pc[r] # "new"
    <3>1. Active(r)
      BY <1>3, <2>6 DEF Active
    <3>2. q = r
      BY <2>1, <3>1 DEF TabInv, OnlyRunInv
    <3>3. pc[r] # "running"
      BY <1>3, <2>4, <3>2 DEF Active, Ended
    <3> QED BY <1>3, <2>1, <2>4, <2>6, <3>1, <3>2, <3>3 DEF TabInv, OnlyRunInv
  <2> QED BY <2>5, <2>6
<1>5. \A q \in Runs : DraftSoFar(q)'
  <2>1. DraftSoFar(r)'
    BY <1>1, <1>2, <1>3, DraftIdle
  <2>2. ASSUME NEW q \in Runs \ {r} PROVE DraftSoFar(q)'
    <3>1. pc'[q] = pc[q]
      BY <1>1, <1>2
    <3> QED BY <1>1, <3>1 DEF TabInv, CleanJobInv, DraftSoFar, Inserted, Draft
  <2> QED BY <2>1, <2>2
<1>6. SucceededJobHasItsDraft'
  <2>1. \A q \in Runs : pc[q] = "done" => pc'[q] = "done"
    BY <1>1, <1>2, <1>3 DEF Ended
  <2> QED BY <1>1, <2>1 DEF TabInv, CleanJobInv, SucceededJobHasItsDraft, Draft
<1> QED BY <1>1, <1>4, <1>5, <1>6 DEF TabInv, CleanJobInv

LEMMA TabWrite == ASSUME IndInv, TabInv, NEW r \in Runs, Write(r) PROVE TabInv'
<1> DEFINE step == IF pc[r] = "insert" /\ row[r] + 1 < RowCount THEN "insert" ELSE After[pc[r]]
<1>1. /\ pc[r] \in WriteSteps /\ pc' = [pc EXCEPT ![r] = step] /\ pc \in [Runs -> Steps]
      /\ Execute(Statement(r)) /\ Statement(r).step = pc[r] /\ late' = late
      /\ job \in [status : {"queued", "running", "succeeded", "failed"},
                  stage : {"queued", "reading_pdf"} \cup StageSteps,
                  error : BOOLEAN, attempts : Nat, completed : BOOLEAN]
  BY DEF Write, GoTo, IndInv, TypeOK, Statement
<1>2. /\ pc'[r] = step /\ \A q \in Runs \ {r} : pc'[q] = pc[q]
      /\ step \in Steps
      /\ step \in Ended <=> pc[r] \in {"complete", "fail"}
      /\ step \notin {"new", "running"}
      /\ pc[r] = "complete" => step = "done"
  BY <1>1 DEF After, Steps, WriteSteps, StageSteps, DeleteSteps, Ended
<1> HIDE DEF step
<1>3. Active(r) /\ \A q \in Runs \ {r} : ~Active(q) /\ ~Active(q)'
  <2>1. Active(r)
    BY <1>1 DEF Active, WriteSteps, StageSteps, DeleteSteps, Ended
  <2> QED BY <1>2, <2>1 DEF TabInv, OnlyRunInv, Active
<1>4. job.status = IF pc[r] = "running" THEN "queued" ELSE "running"
  BY <1>3 DEF TabInv, OnlyRunInv
<1>5. /\ pc[r] \notin {"complete", "fail"} => job'.status = "running" /\ job'.error = job.error
      /\ pc[r] = "complete" => /\ job'.status = "succeeded" /\ job'.error = job.error
                               /\ job'.completed /\ job'.stage = "completed"
      /\ pc[r] = "fail" => job'.status = "failed"
  BY <1>1, <1>4
  DEF Execute, UpdateJob, ReplaceDraft, RequireReview, Progressed, Completed, Failed, StageSteps, DeleteSteps, WriteSteps
<1>6. ~job.error
  BY <1>4 DEF TabInv, CleanJobInv
<1>7. OnlyRunInv'
  <2>1. Active(r)' <=> pc[r] \notin {"complete", "fail"}
    BY <1>2 DEF Active
  <2> QED BY <1>1, <1>2, <1>3, <1>5, <2>1 DEF TabInv, OnlyRunInv
<1>8. \A q \in Runs : DraftSoFar(q)'
  <2>1. DraftSoFar(r)'
    BY DraftWrite DEF TabInv, CleanJobInv
  <2>2. ASSUME NEW q \in Runs \ {r} PROVE DraftSoFar(q)'
    BY <1>3, DraftIdle DEF Active, Ended
  <2> QED BY <2>1, <2>2
<1>9. SucceededJobHasItsDraft'
  <2> SUFFICES ASSUME job'.status = "succeeded"
               PROVE  /\ ~job'.error /\ job'.completed /\ job'.stage = "completed"
                      /\ \E q \in Runs : pc'[q] = "done" /\ live' = Draft(q)
    BY DEF SucceededJobHasItsDraft, Draft
  <2>1. pc[r] = "complete"
    BY <1>5
  <2>2. live' = live
    BY <1>1, <2>1 DEF Execute, UpdateJob, ReplaceDraft, RequireReview, DeleteSteps
  <2>3. live = Draft(r)
    BY <2>1 DEF TabInv, CleanJobInv, DraftSoFar
  <2> QED BY <1>2, <1>5, <1>6, <2>1, <2>2, <2>3
<1> QED BY <1>5, <1>6, <1>7, <1>8, <1>9 DEF TabInv, CleanJobInv

LEMMA TabOthers ==
  ASSUME IndInv, TabInv, Crash \/ (Retry /\ OneClient) \/ Approve \/ Reject \/ UNCHANGED vars
  PROVE  TabInv'
<1>1. CASE Crash
  <2>1. pc' = [r \in Runs |-> IF Active(r) THEN "crashed" ELSE pc[r]] /\ UNCHANGED <<job, live, row, late>>
    BY <1>1 DEF Crash
  <2>2. \A r \in Runs : ~Active(r)' /\ (pc[r] = "done" => pc'[r] = "done")
    BY <2>1 DEF Active, Ended
  <2>3. \A r \in Runs : DraftSoFar(r)'
    BY <2>2, DraftIdle DEF Active, Ended
  <2>4. SucceededJobHasItsDraft'
    BY <2>1, <2>2 DEF TabInv, CleanJobInv, SucceededJobHasItsDraft, Draft
  <2> QED BY <2>1, <2>2, <2>3, <2>4 DEF TabInv, OnlyRunInv, CleanJobInv
<1>2. CASE Retry /\ OneClient
  <2>1. /\ UNCHANGED <<live, pc, row, late>> /\ NoRunActive
        /\ job'.status = "queued" /\ job'.error = FALSE
    BY <1>2 DEF Retry, Requeued, IndInv, TypeOK
  <2>2. \A r \in Runs : DraftSoFar(r)'
    BY <2>1 DEF TabInv, CleanJobInv, DraftSoFar, Inserted, Draft
  <2>3. OnlyRunInv'
    BY <2>1 DEF TabInv, OnlyRunInv, NoRunActive, Active
  <2> QED BY <2>1, <2>2, <2>3 DEF TabInv, CleanJobInv, SucceededJobHasItsDraft
<1>3. CASE Approve \/ Reject \/ UNCHANGED vars
  <2>1. UNCHANGED <<job, live, pc, row, late>>
    BY <1>3 DEF Approve, Reject, vars
  <2> QED BY <2>1 DEF TabInv, OnlyRunInv, CleanJobInv, DraftSoFar, SucceededJobHasItsDraft, Active, Inserted, Draft
<1> QED BY <1>1, <1>2, <1>3

LEMMA TabInvariance == ASSUME OneClient, ~Timeouts PROVE Spec => []TabInv
<1>1. ASSUME IndInv, TabInv, [Next]_vars PROVE TabInv'
  <2>1. ASSUME NEW s \in late, LateWrite(s) PROVE TabInv'
    BY <1>1 DEF TabInv, OnlyRunInv
  <2>2. \A r \in Runs : ~WriteTimesOut(r)
    BY DEF WriteTimesOut
  <2> QED BY <1>1, <2>1, <2>2, TabMove, TabWrite, TabOthers DEF Next, Proceed
<1> QED BY <1>1, TabInit, Invariance, PTL DEF Spec

\* With one tab, and statements that are answered or refused, a succeeded job has no
\* trace of former attempts and exactly one whole draft, for any number of attempts,
\* of crashes and of blocks (executeParseJob, replaceParsedDraft, retryJob).
THEOREM SuccessIsClean ==
  ASSUME OneClient, ~Timeouts
  PROVE  Spec => []SucceededJobHasItsDraft
<1>1. TabInv => SucceededJobHasItsDraft
  BY DEF TabInv, CleanJobInv
<1> QED BY <1>1, TabInvariance, PTL

\* With one tab the job goes through its documented lifecycle: each step of the
\* implementation takes it, ends it, queues it again, or leaves it as it is.
THEOREM LifecycleIsImplemented ==
  ASSUME OneClient, ~Timeouts
  PROVE  Spec => ImplementsLifecycle
<1> USE DEF Lifecycle!LifecycleNext, Lifecycle!Take, Lifecycle!Succeed, Lifecycle!Fail, Lifecycle!Requeue,
            Lifecycle!lifecycleVars
<1>1. Init => Lifecycle!LifecycleInit
  BY DEF Init, Lifecycle!LifecycleInit
<1>2. ASSUME IndInv, TabInv, [Next]_vars PROVE [Lifecycle!LifecycleNext]_<<job.status, job.attempts>>
  <2> SUFFICES ASSUME job' # job PROVE Lifecycle!LifecycleNext \/ UNCHANGED <<job.status, job.attempts>>
    OBVIOUS
  <2>1. CASE \E r \in Runs : Write(r)
    <3>1. PICK r \in Runs : Write(r)
      BY <2>1
    <3>2. /\ pc[r] \in WriteSteps /\ Execute(Statement(r)) /\ Statement(r).step = pc[r]
          /\ job \in [status : {"queued", "running", "succeeded", "failed"},
                      stage : {"queued", "reading_pdf"} \cup StageSteps,
                      error : BOOLEAN, attempts : Nat, completed : BOOLEAN]
      BY <1>2, <3>1 DEF Write, Statement, IndInv, TypeOK
    <3>3. job.status = IF pc[r] = "running" THEN "queued" ELSE "running"
      BY <1>2, <3>2 DEF TabInv, OnlyRunInv, Active, WriteSteps, StageSteps, DeleteSteps, Ended
    <3>4. /\ pc[r] \notin {"complete", "fail"} => job'.status = "running" /\ job'.attempts = job.attempts
          /\ pc[r] = "complete" => job'.status = "succeeded" /\ job'.attempts = job.attempts
          /\ pc[r] = "fail" => job'.status = "failed" /\ job'.attempts = job.attempts + 1
      BY <3>2, <3>3
      DEF Execute, UpdateJob, ReplaceDraft, RequireReview, Progressed, Completed, Failed, StageSteps, DeleteSteps, WriteSteps
    <3> QED BY <3>3, <3>4
  <2>2. CASE Retry
    <3>1. job'.status = "queued" /\ job'.attempts = job.attempts /\ job.status \in {"failed", "succeeded"}
      BY <1>2, <2>2 DEF Retry, Requeued, IndInv, TypeOK
    <3> QED BY <3>1
  <2>3. ASSUME NEW s \in late, LateWrite(s) PROVE FALSE
    BY <1>2 DEF TabInv, OnlyRunInv
  <2> QED
    BY <1>2, <2>1, <2>2, <2>3
    DEF Next, Proceed, Start, ReadObject, WorkFails, WriteFails, WriteTimesOut, Crash, Approve, Reject, vars
<1>3. Spec => Lifecycle!LifecycleInit /\ [][Lifecycle!LifecycleNext]_<<job.status, job.attempts>>
  BY <1>1, <1>2, TabInvariance, Invariance, PTL DEF Spec
<1> QED BY <1>3 DEF ImplementsLifecycle, Lifecycle!LifecycleSpec

-----------------------------------------------------------------------------
(* The memory driver.                                                           *)

\* Between two awaits one execution has the event loop; whoever waits leaves a whole
\* draft behind.
TurnInv ==
  /\ late = {}
  /\ \A r \in Runs : Active(r) => pc[r] = "read" \/ turn = {r}
  /\ \A r \in Runs : DraftSoFar(r)
  /\ (\A r \in Runs : pc[r] \notin {"delete_entities", "delete_sections", "insert"}) =>
       live = {} \/ \E r \in Runs : live = Draft(r)

MemoryInv == TurnInv /\ PromotionTakesOneWholeDraft

LEMMA MemoryInit == ASSUME Init PROVE MemoryInv
BY DEF Init, MemoryInv, TurnInv, Active, DraftSoFar, PromotionTakesOneWholeDraft

LEMMA MemoryMove ==
  ASSUME IndInv, MemoryInv, Driver = "memory", NEW r \in Runs, Start(r) \/ ReadObject(r) \/ WorkFails(r)
  PROVE  MemoryInv'
<1>1. PICK step \in {"running", "extracting_text", "fail"} :
        pc' = [pc EXCEPT ![r] = step] /\ turn' = {r} /\ UNCHANGED <<job, resume, live, row, late, versions, approved>>
  BY DEF Start, ReadObject, WorkFails, GoTo, Ended
<1>2. /\ pc \in [Runs -> Steps] /\ turn \subseteq {r}
      /\ pc[r] \in {"new", "read", "parsing_resume", "saving_draft"}
  BY DEF IndInv, TypeOK, Start, ReadObject, WorkFails, MayMove
<1>3. \A q \in Runs : pc'[q] = IF q = r THEN step ELSE pc[q]
  BY <1>1, <1>2
<1>4. \A q \in Runs : DraftSoFar(q)'
  <2>1. DraftSoFar(r)'
    BY <1>3, DraftIdle
  <2>2. ASSUME NEW q \in Runs \ {r} PROVE DraftSoFar(q)'
    BY <1>1, <1>3 DEF MemoryInv, TurnInv, DraftSoFar, Inserted, Draft
  <2> QED BY <2>1, <2>2
<1>5. \A q \in Runs : Active(q)' => pc'[q] = "read" \/ turn' = {q}
  BY <1>1, <1>2, <1>3 DEF MemoryInv, TurnInv, Active
<1>6. (\A q \in Runs : pc'[q] \notin {"delete_entities", "delete_sections", "insert"}) =>
        live' = {} \/ \E q \in Runs : live' = Draft(q)
  BY <1>1, <1>2, <1>3 DEF MemoryInv, TurnInv
<1>7. TurnInv'
  BY <1>1, <1>4, <1>5, <1>6 DEF MemoryInv, TurnInv, Draft
<1> QED BY <1>1, <1>7 DEF MemoryInv, PromotionTakesOneWholeDraft, Draft

LEMMA MemoryWrite ==
  ASSUME IndInv, MemoryInv, Driver = "memory", NEW r \in Runs, Write(r)
  PROVE  MemoryInv'
<1> DEFINE step == IF pc[r] = "insert" /\ row[r] + 1 < RowCount THEN "insert" ELSE After[pc[r]]
           amid == {"delete_entities", "delete_sections", "insert"}
<1>1. /\ pc[r] \in WriteSteps /\ pc' = [pc EXCEPT ![r] = step] /\ pc \in [Runs -> Steps]
      /\ turn' = (IF step \notin Ended \cup {"read"} THEN {r} ELSE {}) /\ turn \subseteq {r}
      /\ Execute(Statement(r)) /\ Statement(r).step = pc[r]
      /\ UNCHANGED <<late, versions, approved>>
  BY DEF Write, GoTo, MayMove, IndInv, TypeOK, Statement
<1>2. step \notin {"new"}
  BY <1>1 DEF After, WriteSteps, StageSteps, DeleteSteps
<1>3. pc'[r] = step /\ \A q \in Runs \ {r} : pc'[q] = pc[q]
  BY <1>1
<1>4. Active(r) /\ \A q \in Runs \ {r} : Active(q) => pc[q] = "read"
  <2>1. Active(r)
    BY <1>1 DEF Active, WriteSteps, StageSteps, DeleteSteps, Ended
  <2> QED BY <1>1, <2>1 DEF MemoryInv, TurnInv
<1>5. DraftSoFar(r)'
  BY DraftWrite DEF MemoryInv, TurnInv
<1>6. \A q \in Runs : DraftSoFar(q)'
  <2>1. ASSUME NEW q \in Runs \ {r} PROVE DraftSoFar(q)'
    BY <1>3, <1>4, DraftIdle DEF Active, Ended
  <2> QED BY <1>5, <2>1
<1>7. \A q \in Runs : Active(q)' => pc'[q] = "read" \/ turn' = {q}
  BY <1>1, <1>3, <1>4 DEF Active
<1>8. ASSUME \A q \in Runs : pc'[q] \notin amid
      PROVE  live' = {} \/ \E q \in Runs : live' = Draft(q)
  <2>1. step \notin amid
    BY <1>3, <1>8
  <2>2. CASE pc[r] = "insert"
    <3>1. pc'[r] = "review"
      BY <1>3, <2>1, <2>2 DEF After
    <3>2. live' = Draft(r)
      BY <1>5, <3>1 DEF DraftSoFar, Draft
    <3> QED BY <3>2
  <2>3. CASE pc[r] # "insert"
    <3>1. pc[r] \notin DeleteSteps
      BY <2>1, <2>3 DEF After, DeleteSteps
    <3>2. live' = live
      BY <1>1, <2>3, <3>1 DEF Execute, UpdateJob, ReplaceDraft, RequireReview
    <3>3. \A q \in Runs : pc[q] \notin amid
      BY <1>3, <1>8, <2>3, <3>1 DEF DeleteSteps
    <3> QED BY <3>2, <3>3 DEF MemoryInv, TurnInv
  <2> QED BY <2>2, <2>3
<1>9. resume'.canonical = resume.canonical
  BY <1>1 DEF Execute, UpdateJob, ReplaceDraft, RequireReview, IndInv, TypeOK
<1>10. TurnInv'
  BY <1>1, <1>6, <1>7, <1>8 DEF MemoryInv, TurnInv, Draft
<1> QED BY <1>1, <1>9, <1>10 DEF MemoryInv, PromotionTakesOneWholeDraft, Draft

LEMMA MemoryRequests ==
  ASSUME IndInv, MemoryInv, Driver = "memory", Retry \/ Approve \/ Reject \/ UNCHANGED vars
  PROVE  MemoryInv'
<1>1. UNCHANGED <<live, pc, row, late, turn>>
  BY DEF Retry, Approve, Reject, vars
<1>2. TurnInv'
  BY <1>1 DEF MemoryInv, TurnInv, Active, DraftSoFar, Inserted, Draft
<1>3. PromotionTakesOneWholeDraft'
  <2>1. CASE Approve /\ resume' # resume
    <3>1. /\ ~resume.canonical /\ Visible("section") # {} /\ turn = {}
          /\ versions' = versions + 1 /\ resume' = [status |-> "active", canonical |-> TRUE] /\ approved' = live
      BY <2>1 DEF Approve, PromoteDraft, ValidForPromotion
    <3>2. \A r \in Runs : pc[r] \notin {"delete_entities", "delete_sections", "insert"}
      BY <3>1 DEF MemoryInv, TurnInv, Active, Ended
    <3>3. live # {}
      BY <3>1 DEF Visible
    <3>4. PICK r \in Runs : live = Draft(r)
      BY <3>2, <3>3 DEF MemoryInv, TurnInv
    <3>5. versions = 0 /\ resume'.canonical
      BY <3>1 DEF MemoryInv, PromotionTakesOneWholeDraft
    <3> QED BY <3>1, <3>4, <3>5 DEF PromotionTakesOneWholeDraft, Draft
  <2>2. CASE ~(Approve /\ resume' # resume)
    <3>1. resume'.canonical = resume.canonical /\ UNCHANGED <<versions, approved>>
      <4>1. CASE Approve
        BY <2>2, <4>1 DEF Approve, PromoteDraft
      <4>2. CASE Retry \/ Reject \/ UNCHANGED vars
        BY <4>2 DEF Retry, Reject, vars, IndInv, TypeOK
      <4> QED BY <4>1, <4>2
    <3> QED BY <3>1 DEF MemoryInv, PromotionTakesOneWholeDraft, Draft
  <2> QED BY <2>1, <2>2
<1> QED BY <1>2, <1>3 DEF MemoryInv

\* Under the memory driver a resume is promoted at most once, and with the whole
\* draft of one execution, for any number of executions and of blocks
\* (DraftPromotionService.promoteDraft, InMemoryPromotionRepository).
THEOREM PromotionsAreWhole ==
  ASSUME Driver = "memory"
  PROVE  Spec => []PromotionTakesOneWholeDraft
<1>1. ASSUME IndInv, MemoryInv, [Next]_vars PROVE MemoryInv'
  <2>1. ASSUME NEW s \in late, LateWrite(s) PROVE MemoryInv'
    BY <1>1 DEF MemoryInv, TurnInv
  <2>2. ~Crash /\ \A r \in Runs : ~WriteTimesOut(r) /\ ~WriteFails(r)
    BY PipelineAssumption DEF Crash, WriteTimesOut, WriteFails
  <2> QED BY <1>1, <2>1, <2>2, MemoryMove, MemoryWrite, MemoryRequests DEF Next, Proceed
<1>2. MemoryInv => PromotionTakesOneWholeDraft
  BY DEF MemoryInv
<1> QED BY <1>1, <1>2, MemoryInit, Invariance, PTL DEF Spec
=============================================================================
