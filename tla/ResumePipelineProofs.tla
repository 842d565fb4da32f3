------------------------ MODULE ResumePipelineProofs ------------------------
(* Theorems about ResumePipeline, for every set of executions, every number of   *)
(* blocks and both drivers: its types, RunningJobHasRunner and                  *)
(* QuiescentDraftIsWhole, from one inductive invariant.                         *)
EXTENDS ResumePipeline, TLAPS

\* Steps before the first insert, and from the last insert on.
BeforeInsert == {"new", "running", "read", "extracting_text", "parsing_resume", "generating_draft",
                 "saving_draft"} \cup DeleteSteps
AfterInsert == {"review", "completed", "complete", "done"}

\* Steps of an execution that has met an error or was cut short.
Harmed == {"fail", "failed", "dead", "crashed"}

\* The row counter says how far into the draft an execution is.
RowsFollowSteps ==
  \A r \in Runs :
    /\ pc[r] \in BeforeInsert => row[r] = 0
    /\ pc[r] = "insert" => row[r] < RowCount
    /\ pc[r] \in AfterInsert => row[r] = RowCount

\* Only a harmed execution has statements left at the server; one whose first
\* write was given up is dead.
LateIsHarmed ==
  \A s \in late :
    /\ s.step = "insert" => s.row < RowCount
    /\ pc[s.run] \in Harmed
    /\ s.step = "running" => pc[s.run] = "dead"

\* No execution is between its first and its last soft delete.
NoneDeleting == \A r \in Runs : pc[r] \notin {"delete_entities", "delete_sections"}

NoneHarmed == \A r \in Runs : pc[r] \notin Harmed

Inserting(r) == pc[r] \in {"insert"} \cup AfterInsert

\* While nothing has gone wrong and no execution is amid its deletes, the rows of
\* some execution, as far as it has inserted them, are all live: the one that
\* deleted last.
LastDeleterIsWhole ==
  NoneHarmed /\ NoneDeleting /\ (\E r \in Runs : Inserting(r))
    => \E r \in Runs : Inserting(r) /\ Inserted(r, row[r]) \subseteq live

IndInv == TypeOK /\ RowsFollowSteps /\ LateIsHarmed /\ RunningJobHasRunner /\ LastDeleterIsWhole

-----------------------------------------------------------------------------
(* The rows of a draft.                                                         *)

LEMMA RowAtType ==
  ASSUME NEW n \in 0 .. RowCount - 1
  PROVE  RowAt(n)[1] \in 1 .. Blocks /\ RowAt(n)[2] \in Kinds
  BY PipelineAssumption DEF RowAt, RowCount, Kinds

LEMMA InsertedNone == \A r \in Runs : Inserted(r, 0) = {}
  BY DEF Inserted

LEMMA InsertedNext ==
  ASSUME NEW r \in Runs, NEW n \in Nat
  PROVE  Inserted(r, n + 1) \subseteq Inserted(r, n) \cup {<<r, RowAt(n)[1], RowAt(n)[2]>>}
  BY DEF Inserted

LEMMA InsertedAll ==
  ASSUME NEW r \in Runs
  PROVE  Draft(r) \subseteq Inserted(r, RowCount)
<1> SUFFICES ASSUME NEW b \in 1 .. Blocks, NEW k \in Kinds
             PROVE  \E i \in 0 .. RowCount - 1 : RowAt(i)[1] = b /\ RowAt(i)[2] = k
  BY DEF Draft, Inserted
<1>1. CASE k = "section"
  <2>1. 3 * (b - 1) \in 0 .. RowCount - 1
    BY PipelineAssumption DEF RowCount
  <2>2. (3 * (b - 1)) \div 3 = b - 1 /\ (3 * (b - 1)) % 3 = 0
    OBVIOUS
  <2> QED BY <1>1, <2>1, <2>2 DEF RowAt
<1>2. CASE k = "entity"
  <2>1. 3 * (b - 1) + 1 \in 0 .. RowCount - 1
    BY PipelineAssumption DEF RowCount
  <2>2. (3 * (b - 1) + 1) \div 3 = b - 1 /\ (3 * (b - 1) + 1) % 3 = 1
    OBVIOUS
  <2> QED BY <1>2, <2>1, <2>2 DEF RowAt
<1>3. CASE k = "bullet"
  <2>1. 3 * (b - 1) + 2 \in 0 .. RowCount - 1
    BY PipelineAssumption DEF RowCount
  <2>2. (3 * (b - 1) + 2) \div 3 = b - 1 /\ (3 * (b - 1) + 2) % 3 = 2
    OBVIOUS
  <2> QED BY <1>3, <2>1, <2>2 DEF RowAt
<1> QED BY <1>1, <1>2, <1>3 DEF Kinds
-----------------------------------------------------------------------------
(* The inductive invariant holds initially and is kept by every action.          *)

LEMMA InitInv == Init => IndInv
<1> SUFFICES ASSUME Init PROVE IndInv
  OBVIOUS
<1> USE DEF Init
<1>1. TypeOK
  BY PipelineAssumption DEF TypeOK, StageSteps, Steps, RowCount
<1>2. RowsFollowSteps
  BY DEF RowsFollowSteps, AfterInsert
<1>3. LateIsHarmed /\ RunningJobHasRunner
  BY DEF LateIsHarmed, RunningJobHasRunner
<1>4. LastDeleterIsWhole
  BY DEF LastDeleterIsWhole, Inserting, AfterInsert
<1> QED BY <1>1, <1>2, <1>3, <1>4 DEF IndInv

\* The write of a statement keeps the rows of the tables well typed.
LEMMA ExecuteType ==
  ASSUME TypeOK, NEW s \in Statements, Execute(s), s.step = "insert" => s.row < RowCount
  PROVE  /\ job' \in [status : {"queued", "running", "succeeded", "failed"},
                      stage : {"queued", "reading_pdf"} \cup StageSteps,
                      error : BOOLEAN, attempts : Nat, completed : BOOLEAN]
         /\ resume' \in [status : {"parsing", "review_required", "active", "archived"},
                         canonical : BOOLEAN]
         /\ live' \subseteq Rows
<1> USE DEF TypeOK
<1>1. CASE UpdateJob(s)
  <2>1. job' \in [status : {"queued", "running", "succeeded", "failed"},
                  stage : {"queued", "reading_pdf"} \cup StageSteps,
                  error : BOOLEAN, attempts : Nat, completed : BOOLEAN]
    <3>1. CASE s.step = "running" /\ job' = Progressed("running", "reading_pdf")
      BY <3>1 DEF Progressed
    <3>2. CASE s.step \in StageSteps /\ job' = Progressed(job.status, s.step)
      BY <3>2 DEF Progressed
    <3>3. CASE job' = Completed
      BY <3>3 DEF Completed, StageSteps
    <3>4. CASE job' = Failed
      <4>1. job.attempts + 1 \in Nat
        OBVIOUS
      <4>2. job \in [status : {"queued", "running", "succeeded", "failed"},
                     stage : {"queued", "reading_pdf"} \cup StageSteps,
                     error : BOOLEAN, attempts : Nat, completed : BOOLEAN]
        OBVIOUS
      <4> HIDE DEF TypeOK
      <4> QED BY <3>4, <4>1, <4>2 DEF Failed
    <3> QED BY <1>1, <3>1, <3>2, <3>3, <3>4 DEF UpdateJob
  <2> QED BY <1>1, <2>1 DEF UpdateJob
<1>2. CASE ReplaceDraft(s)
  <2>1. CASE s.step \in DeleteSteps
    BY <1>2, <2>1 DEF ReplaceDraft, DeleteSteps
  <2>2. CASE s.step = "insert"
    <3>1. s.row \in 0 .. RowCount - 1
      BY <2>2, PipelineAssumption DEF RowCount, Statements
    <3>2. <<s.run, RowAt(s.row)[1], RowAt(s.row)[2]>> \in Rows
      BY <3>1, RowAtType DEF Rows, Statements
    <3> QED BY <1>2, <2>2, <3>2 DEF ReplaceDraft, DeleteSteps
  <2> QED BY <1>2, <2>1, <2>2 DEF ReplaceDraft
<1>3. CASE RequireReview(s)
  BY <1>3 DEF RequireReview
<1> QED BY <1>1, <1>2, <1>3 DEF Execute

\* Going on to another step keeps turn and pc well typed.
LEMMA GoToType ==
  ASSUME TypeOK, NEW r \in Runs, NEW step \in Steps, GoTo(r, step)
  PROVE  pc' \in [Runs -> Steps] /\ turn' \subseteq Runs
  BY DEF TypeOK, GoTo

\* A step of execution r that writes nothing and does not abandon a statement.
LEMMA MoveInv ==
  ASSUME IndInv, NEW r \in Runs, NEW step \in Steps, GoTo(r, step),
         UNCHANGED <<job, resume, live, versions, approved, reply, row, late>>,
         \/ pc[r] = "new" /\ step = "running"
         \/ pc[r] = "read" /\ step = "extracting_text"
         \/ Active(r) /\ pc[r] # "fail" /\ step = "fail" /\ pc[r] # "running"
         \/ Active(r) /\ step = "dead"
  PROVE  IndInv'
<1> USE DEF IndInv
<1>0. pc' = [pc EXCEPT ![r] = step] /\ pc \in [Runs -> Steps] /\ late \subseteq Statements
  BY DEF GoTo, TypeOK
<1>1. TypeOK'
  BY GoToType DEF TypeOK
<1>2. RowsFollowSteps'
  BY <1>0 DEF RowsFollowSteps, BeforeInsert, AfterInsert, DeleteSteps
<1>3. LateIsHarmed'
  BY <1>0 DEF LateIsHarmed, Harmed, Statements, Active, Ended
<1>4. RunningJobHasRunner'
  BY <1>0 DEF RunningJobHasRunner, Active, Ended
<1>5. LastDeleterIsWhole'
  <2> SUFFICES ASSUME NoneHarmed', NoneDeleting', \E q \in Runs : Inserting(q)'
               PROVE  \E q \in Runs : Inserting(q)' /\ Inserted(q, row[q]) \subseteq live
    BY DEF LastDeleterIsWhole, Inserted
  <2>1. NoneHarmed
    BY <1>0 DEF NoneHarmed, Harmed, Active, Ended
  <2>2. step \notin Harmed
    BY <1>0 DEF NoneHarmed
  <2>3. NoneDeleting /\ \A q \in Runs : Inserting(q)' <=> Inserting(q)
    BY <1>0, <2>2 DEF NoneDeleting, Inserting, AfterInsert, Harmed
  <2> QED BY <2>1, <2>3 DEF LastDeleterIsWhole
<1> QED BY <1>1, <1>2, <1>3, <1>4, <1>5

LEMMA StartInv == ASSUME IndInv, NEW r \in Runs, Start(r) PROVE IndInv'
  BY MoveInv DEF Start, Steps, WriteSteps

LEMMA ReadObjectInv == ASSUME IndInv, NEW r \in Runs, ReadObject(r) PROVE IndInv'
  BY MoveInv DEF ReadObject, Steps, WriteSteps, StageSteps

LEMMA WorkFailsInv == ASSUME IndInv, NEW r \in Runs, WorkFails(r) PROVE IndInv'
  BY MoveInv DEF WorkFails, Steps, WriteSteps, Active, Ended

LEMMA WriteFailsInv == ASSUME IndInv, NEW r \in Runs, WriteFails(r) PROVE IndInv'
  BY MoveInv DEF WriteFails, OnError, Steps, WriteSteps, StageSteps, DeleteSteps, Active, Ended

LEMMA WriteTimesOutInv == ASSUME IndInv, NEW r \in Runs, WriteTimesOut(r) PROVE IndInv'
<1> USE DEF IndInv
<1>0. /\ pc' = [pc EXCEPT ![r] = OnError(r)] /\ pc \in [Runs -> Steps] /\ pc[r] \in WriteSteps
      /\ row \in [Runs -> 0 .. RowCount] /\ late \subseteq Statements
      /\ late' = late \cup {Statement(r)} /\ row' = row /\ job' = job /\ live' = live
  BY DEF WriteTimesOut, GoTo, TypeOK
<1>1. TypeOK'
  <2>1. Statement(r) \in Statements
    BY <1>0 DEF Statement, Statements
  <2>2. OnError(r) \in Steps
    BY DEF OnError, Steps, WriteSteps, Ended
  <2> QED BY <1>0, <2>1, <2>2, GoToType DEF TypeOK, WriteTimesOut
<1>2. RowsFollowSteps'
  BY <1>0 DEF RowsFollowSteps, BeforeInsert, AfterInsert, DeleteSteps, OnError
<1>3. LateIsHarmed'
  <2> SUFFICES ASSUME NEW s \in late'
               PROVE  /\ s.step = "insert" => s.row < RowCount
                      /\ pc'[s.run] \in Harmed
                      /\ s.step = "running" => pc'[s.run] = "dead"
    BY <1>0 DEF LateIsHarmed
  <2>1. CASE s = Statement(r)
    BY <1>0, <2>1 DEF Statement, RowsFollowSteps, OnError, Harmed
  <2>2. CASE s \in late
    BY <1>0, <2>2 DEF LateIsHarmed, Harmed, Statements, OnError, WriteSteps, StageSteps, DeleteSteps
  <2> QED BY <1>0, <2>1, <2>2
<1>4. RunningJobHasRunner'
  BY <1>0 DEF RunningJobHasRunner, Active, Ended, OnError
<1>5. LastDeleterIsWhole'
  BY <1>0 DEF LastDeleterIsWhole, NoneHarmed, Harmed, OnError
<1> QED BY <1>1, <1>2, <1>3, <1>4, <1>5

LEMMA LateWriteInv == ASSUME IndInv, NEW s \in late, LateWrite(s) PROVE IndInv'
<1> USE DEF IndInv
<1>0. /\ late' = late \ {s} /\ Execute(s) /\ pc' = pc /\ row' = row
      /\ s \in Statements /\ pc[s.run] \in Harmed
  BY DEF LateWrite, TypeOK, LateIsHarmed
<1>1. TypeOK'
  BY <1>0, ExecuteType DEF LateWrite, TypeOK, LateIsHarmed
<1>2. RowsFollowSteps'
  BY <1>0 DEF RowsFollowSteps
<1>3. LateIsHarmed'
  BY <1>0 DEF LateIsHarmed
<1>4. RunningJobHasRunner'
  <2>1. CASE s.step = "running"
    BY <1>0, <2>1 DEF LateIsHarmed, RunningJobHasRunner, Statements
  <2>2. CASE s.step # "running"
    <3>1. job'.status = "running" => job.status = "running"
      BY <1>0, <2>2 DEF Execute, UpdateJob, ReplaceDraft, RequireReview, Progressed, Completed, Failed,
                        TypeOK
    <3> QED BY <1>0, <3>1 DEF RunningJobHasRunner, Active
  <2> QED BY <2>1, <2>2
<1>5. LastDeleterIsWhole'
  BY <1>0 DEF LastDeleterIsWhole, NoneHarmed, Statements
<1> QED BY <1>1, <1>2, <1>3, <1>4, <1>5

LEMMA CrashInv == ASSUME IndInv, Crash PROVE IndInv'
<1> USE DEF IndInv
<1>0. /\ pc' = [r \in Runs |-> IF Active(r) THEN "crashed" ELSE pc[r]] /\ pc \in [Runs -> Steps]
      /\ UNCHANGED <<job, resume, live, versions, approved, reply, row, late, turn>>
      /\ late \subseteq Statements
  BY DEF Crash, TypeOK
<1>1. TypeOK'
  BY <1>0 DEF TypeOK, Steps, Ended
<1>2. RowsFollowSteps'
  BY <1>0 DEF RowsFollowSteps, BeforeInsert, AfterInsert, DeleteSteps
<1>3. LateIsHarmed'
  BY <1>0 DEF LateIsHarmed, Harmed, Statements, Active, Ended
<1>4. RunningJobHasRunner'
  BY <1>0 DEF RunningJobHasRunner, Active, Ended
<1>5. LastDeleterIsWhole'
  <2>1. \E r \in Runs : pc'[r] = "crashed"
    BY <1>0 DEF Crash, NoRunActive
  <2> QED BY <2>1 DEF LastDeleterIsWhole, NoneHarmed, Harmed
<1> QED BY <1>1, <1>2, <1>3, <1>4, <1>5

\* A request of the owner touches neither the executions nor the draft, and leaves
\* no job running.
LEMMA RequestInv == ASSUME IndInv, Retry \/ Approve \/ Reject PROVE IndInv'
<1> USE DEF IndInv
<1>0. UNCHANGED <<live, pc, row, late>> /\ job'.status \in {job.status, "queued"}
  BY DEF Retry, Approve, PromoteDraft, Reject, Requeued, TypeOK
<1>1. TypeOK'
  <2>1. CASE Retry
    BY <2>1 DEF TypeOK, Retry, Requeued
  <2>2. CASE Approve
    <3>1. reply' \in {"none", "invalid", "conflict", "promoted", "error"}
      BY <2>2 DEF Approve, PromoteDraft
    <3>2. versions' \in Nat /\ approved' \subseteq Rows
      BY <2>2 DEF Approve, PromoteDraft, TypeOK
    <3>3. resume' \in [status : {"parsing", "review_required", "active", "archived"}, canonical : BOOLEAN]
      <4>1. CASE reply' = "promoted"
        <5>1. [status |-> "active", canonical |-> TRUE]
                \in [status : {"parsing", "review_required", "active", "archived"}, canonical : BOOLEAN]
          OBVIOUS
        <5>2. resume' = [status |-> "active", canonical |-> TRUE]
          BY <2>2, <4>1 DEF Approve, PromoteDraft
        <5> QED BY <5>1, <5>2
      <4>2. CASE reply' # "promoted"
        BY <2>2, <4>2 DEF Approve, PromoteDraft, TypeOK
      <4> QED BY <4>1, <4>2
    <3> QED BY <2>2, <3>1, <3>2, <3>3 DEF TypeOK, Approve, PromoteDraft
  <2>3. CASE Reject
    BY <2>3 DEF TypeOK, Reject
  <2> QED BY <2>1, <2>2, <2>3
<1>2. RowsFollowSteps' /\ LateIsHarmed'
  BY <1>0 DEF RowsFollowSteps, LateIsHarmed
<1>3. RunningJobHasRunner'
  BY <1>0 DEF RunningJobHasRunner, Active
<1>4. LastDeleterIsWhole'
  BY <1>0 DEF LastDeleterIsWhole, NoneHarmed, NoneDeleting, Inserting, Inserted
<1> QED BY <1>1, <1>2, <1>3, <1>4

LEMMA WriteInv == ASSUME IndInv, NEW r \in Runs, Write(r) PROVE IndInv'
<1> USE DEF IndInv
<1> DEFINE step == IF pc[r] = "insert" /\ row[r] + 1 < RowCount THEN "insert" ELSE After[pc[r]]
           s == Statement(r)
<1>0. /\ pc[r] \in WriteSteps /\ Execute(s) /\ GoTo(r, step) /\ pc' = [pc EXCEPT ![r] = step]
      /\ row' = (IF pc[r] = "insert" THEN [row EXCEPT ![r] = @ + 1] ELSE row)
      /\ UNCHANGED <<versions, approved, reply, late>>
      /\ pc \in [Runs -> Steps] /\ row \in [Runs -> 0 .. RowCount] /\ late \subseteq Statements
  BY DEF Write, GoTo, TypeOK
<1>1. s \in Statements /\ (s.step = "insert" => s.row < RowCount) /\ s.step = pc[r] /\ s.run = r
  BY <1>0 DEF Statement, Statements, RowsFollowSteps
<1>2. step \in Steps
  BY <1>0 DEF After, Steps, WriteSteps, StageSteps, DeleteSteps, Ended
<1>3. TypeOK'
  <2>1. row' \in [Runs -> 0 .. RowCount]
    <3>1. CASE pc[r] = "insert"
      <4>1. row[r] + 1 \in 0 .. RowCount
        BY <1>0, <3>1, PipelineAssumption DEF RowsFollowSteps, RowCount
      <4> QED BY <1>0, <3>1, <4>1
    <3>2. CASE pc[r] # "insert"
      BY <1>0, <3>2
    <3> QED BY <3>1, <3>2
  <2> QED BY <1>0, <1>1, <1>2, <2>1, ExecuteType, GoToType DEF TypeOK
<1>4. RowsFollowSteps'
  <2> SUFFICES ASSUME NEW q \in Runs
               PROVE  /\ pc'[q] \in BeforeInsert => row'[q] = 0
                      /\ pc'[q] = "insert" => row'[q] < RowCount
                      /\ pc'[q] \in AfterInsert => row'[q] = RowCount
    BY DEF RowsFollowSteps
  <2>1. CASE q # r
    BY <1>0, <2>1 DEF RowsFollowSteps
  <2>2. CASE q = r /\ pc[r] = "insert"
    <3>1. row[r] \in 0 .. RowCount /\ row[r] < RowCount /\ row'[r] = row[r] + 1 /\ RowCount \in Nat
      BY <1>0, <2>2, PipelineAssumption DEF RowsFollowSteps, RowCount
    <3>2. CASE row[r] + 1 < RowCount
      BY <1>0, <2>2, <3>1, <3>2 DEF BeforeInsert, AfterInsert, DeleteSteps
    <3>3. CASE ~(row[r] + 1 < RowCount)
      <4>1. pc'[r] = "review" /\ row'[r] = RowCount
        BY <1>0, <2>2, <3>1, <3>3 DEF After
      <4> QED BY <2>2, <4>1 DEF BeforeInsert, DeleteSteps
    <3> QED BY <3>2, <3>3
  <2>3. CASE q = r /\ pc[r] # "insert"
    BY <1>0, <2>3, PipelineAssumption
       DEF RowsFollowSteps, After, BeforeInsert, AfterInsert, WriteSteps, StageSteps, DeleteSteps, RowCount
  <2> QED BY <2>1, <2>2, <2>3
<1>5. LateIsHarmed'
  <2>1. pc[r] = "fail" => \A t \in late : t.step = "running" => t.run # r
    BY DEF LateIsHarmed
  <2>2. pc[r] \in Harmed => pc[r] = "fail" /\ step = "failed"
    BY <1>0 DEF Harmed, WriteSteps, StageSteps, DeleteSteps, After
  <2> QED BY <1>0, <2>1, <2>2 DEF LateIsHarmed, Harmed, Statements
<1>6. RunningJobHasRunner'
  <2>1. CASE pc[r] = "running"
    BY <1>0, <2>1 DEF RunningJobHasRunner, After, Active, Ended
  <2>2. CASE pc[r] \in {"complete", "fail"}
    BY <1>0, <1>1, <2>2
       DEF RunningJobHasRunner, Execute, UpdateJob, ReplaceDraft, RequireReview, StageSteps, DeleteSteps,
           Completed, Failed, TypeOK
  <2>3. CASE pc[r] \notin {"running", "complete", "fail"}
    <3>1. job'.status = job.status
      BY <1>0, <1>1, <2>3
         DEF Execute, UpdateJob, ReplaceDraft, RequireReview, Progressed, TypeOK
    <3>2. step \notin Ended \cup {"new", "running"}
      BY <1>0, <2>3 DEF After, WriteSteps, StageSteps, DeleteSteps, Ended
    <3> QED BY <1>0, <2>3, <3>1, <3>2 DEF RunningJobHasRunner, Active, WriteSteps, StageSteps, DeleteSteps, Ended
  <2> QED BY <2>1, <2>2, <2>3
<1>7. LastDeleterIsWhole'
  <2> SUFFICES ASSUME NoneHarmed', NoneDeleting', \E q \in Runs : Inserting(q)'
               PROVE  \E q \in Runs : Inserting(q)' /\ Inserted(q, row'[q]) \subseteq live'
    BY DEF LastDeleterIsWhole, Inserted
  <2>1. NoneHarmed
    <3>1. pc[r] # "fail"
      BY <1>0 DEF NoneHarmed, Harmed, After
    <3>2. pc[r] \notin Harmed
      BY <1>0, <3>1 DEF Harmed, WriteSteps, StageSteps, DeleteSteps
    <3> QED BY <1>0, <3>2 DEF NoneHarmed
  <2>2. CASE pc[r] \in {"delete_bullets", "delete_entities"}
    BY <1>0, <2>2 DEF NoneDeleting, After
  <2>3. CASE pc[r] = "delete_sections"
    <3>1. Inserting(r)' /\ row'[r] = 0
      BY <1>0, <2>3 DEF Inserting, After, RowsFollowSteps, BeforeInsert, DeleteSteps
    <3> QED BY <3>1, InsertedNone
  <2>4. CASE pc[r] = "insert"
    <3>1. NoneDeleting /\ (\A q \in Runs : Inserting(q)' <=> Inserting(q)) /\ Inserting(r)
      BY <1>0, <2>4 DEF NoneDeleting, Inserting, After, AfterInsert
    <3>2. live' = live \cup {<<r, RowAt(row[r])[1], RowAt(row[r])[2]>>}
      BY <1>0, <1>1, <2>4
         DEF Execute, UpdateJob, ReplaceDraft, RequireReview, StageSteps, DeleteSteps, Statement
    <3>3. PICK q \in Runs : Inserting(q) /\ Inserted(q, row[q]) \subseteq live
      BY <2>1, <3>1 DEF LastDeleterIsWhole
    <3>4. CASE q = r
      <4>1. row[r] \in Nat /\ row'[r] = row[r] + 1
        BY <1>0, <2>4 DEF RowCount
      <4>2. Inserted(r, row'[r]) \subseteq live'
        BY <3>2, <3>3, <3>4, <4>1, InsertedNext
      <4> QED BY <3>1, <4>2
    <3>5. CASE q # r
      <4>1. row'[q] = row[q]
        BY <1>0, <3>5
      <4> QED BY <3>1, <3>2, <3>3, <4>1
    <3> QED BY <3>4, <3>5
  <2>5. CASE pc[r] \notin DeleteSteps \cup {"insert"}
    <3>1. NoneDeleting /\ (\A q \in Runs : Inserting(q)' <=> Inserting(q))
      BY <1>0, <2>1, <2>5
         DEF NoneDeleting, NoneHarmed, Harmed, Inserting, After, AfterInsert, WriteSteps, StageSteps, DeleteSteps
    <3>2. live' = live /\ row' = row
      BY <1>0, <1>1, <2>5 DEF Execute, UpdateJob, ReplaceDraft, RequireReview
    <3> QED BY <2>1, <3>1, <3>2 DEF LastDeleterIsWhole
  <2> QED BY <2>2, <2>3, <2>4, <2>5 DEF DeleteSteps
<1> QED BY <1>3, <1>4, <1>5, <1>6, <1>7

LEMMA StutterInv == ASSUME IndInv, UNCHANGED vars PROVE IndInv'
  BY DEF IndInv, vars, TypeOK, RowsFollowSteps, LateIsHarmed, RunningJobHasRunner, Active,
         LastDeleterIsWhole, NoneHarmed, NoneDeleting, Inserting, Inserted

\* Every reachable state satisfies the inductive invariant.
THEOREM Invariance == Spec => []IndInv
<1>1. IndInv /\ [Next]_vars => IndInv'
  BY StartInv, ReadObjectInv, WorkFailsInv, WriteFailsInv, WriteInv, WriteTimesOutInv, LateWriteInv,
     CrashInv, RequestInv, StutterInv DEF Next, Proceed
<1> QED BY InitInv, <1>1, PTL DEF Spec

\* Every variable keeps its type, for every set of executions and both drivers.
THEOREM TypeCorrect == Spec => []TypeOK
  BY Invariance, PTL DEF IndInv

\* No interleaving of executions, retries, lost answers and crashes leaves a job
\* "running" behind an execution that reported its end (executeParseJob).
THEOREM RunningJobTheorem == Spec => []RunningJobHasRunner
  BY Invariance, PTL DEF IndInv

\* However many executions overlap, once all came to their normal end the draft of
\* one of them is in the tables in full (PostgresResumeParserRepository).
THEOREM QuiescentDraftTheorem == Spec => []QuiescentDraftIsWhole
<1>1. IndInv => QuiescentDraftIsWhole
  <2> SUFFICES ASSUME IndInv, \A r \in Runs : pc[r] \in {"new", "done"}, \E r \in Runs : pc[r] = "done"
               PROVE  \E r \in Runs : pc[r] = "done" /\ Draft(r) \subseteq live
    BY DEF QuiescentDraftIsWhole
  <2>1. NoneHarmed /\ NoneDeleting /\ \E r \in Runs : Inserting(r)
    BY DEF NoneHarmed, Harmed, NoneDeleting, Inserting, AfterInsert
  <2>2. PICK r \in Runs : Inserting(r) /\ Inserted(r, row[r]) \subseteq live
    BY <2>1 DEF IndInv, LastDeleterIsWhole
  <2>3. pc[r] = "done" /\ row[r] = RowCount
    BY <2>2 DEF Inserting, AfterInsert, IndInv, RowsFollowSteps
  <2> QED BY <2>2, <2>3, InsertedAll
<1> QED BY Invariance, <1>1, PTL
=============================================================================
