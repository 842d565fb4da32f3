--------------------------- MODULE ResumePipeline ---------------------------
(* One uploaded resume from its parse job to its promotion.                     *)
(*                                                                              *)
(* Actors: the executions of ResumeParserService.executeParseJob (Runs: each    *)
(* POST /run, each worker invocation is one of them), the owner's other         *)
(* requests (retry, promote, reject-draft), and the process itself.  State: the       *)
(* async_jobs row, the resumes row, the rows of the three draft tables, and     *)
(* what each execution is about to do.                                          *)
(*                                                                              *)
(* Under the "postgres" driver every repository call is one autocommitted       *)
(* statement, so the statements of two executions interleave freely, and an     *)
(* execution can be told a statement failed that the server carries out later.  *)
(* Under the "memory" driver the repository calls await nothing but microtasks: *)
(* an execution keeps the event loop (turn) until it awaits the object storage. *)
EXTENDS Naturals, FiniteSets

CONSTANTS
  Runs,       \* the executions of the parse job that are ever started
  Blocks,     \* sections the parser finds, each with one entity and one bullet
  Driver,     \* the repository driver: "memory" or "postgres"
  OneClient,  \* the owner uses one browser tab, which offers Run only for a queued job
  Timeouts,   \* a statement may time out and still be carried out by the server
  Crashes     \* the process may stop and start again

ASSUME PipelineAssumption ==
  /\ IsFiniteSet(Runs)
  /\ Blocks \in Nat \ {0}
  /\ Driver \in {"memory", "postgres"}
  /\ OneClient \in BOOLEAN /\ Timeouts \in BOOLEAN /\ Crashes \in BOOLEAN
  /\ Driver = "memory" => ~Timeouts /\ ~Crashes

VARIABLES
  job,       \* the async_jobs row
  resume,    \* the resumes row: its status and whether canonical_version_id is set
  live,      \* the rows of resume_sections, _entities, _bullets with no deleted_at
  versions,  \* how many master versions the promotion has created
  approved,  \* the live rows at the moment of the promotion
  reply,     \* the answer to the latest approve request
  pc,        \* the next thing each execution does
  row,       \* how many rows each execution has inserted
  late,      \* the statements given up by their execution, still at the server
  turn       \* the execution that holds the event loop, under the memory driver

vars == <<job, resume, live, versions, approved, reply, pc, row, late, turn>>

-----------------------------------------------------------------------------
(* The steps of an execution, in the order of executeParseJob.                  *)

Kinds == {"section", "entity", "bullet"}

StageSteps == {"extracting_text", "parsing_resume", "generating_draft", "saving_draft", "completed"}

DeleteSteps == {"delete_bullets", "delete_entities", "delete_sections"}

\* The kind of row each of the three soft deletes of replaceParsedDraft covers.
Deleted == [delete_bullets |-> "bullet", delete_entities |-> "entity", delete_sections |-> "section"]

\* The steps that write to the repository; "read" (the object storage) is not one.
WriteSteps == {"running", "insert", "review", "complete", "fail"} \cup StageSteps \cup DeleteSteps

Ended == {"done", "failed", "dead", "crashed"}

Steps == WriteSteps \cup Ended \cup {"new", "read"}

\* Mutant of After: the sections of the former draft are deleted after the inserts.
AfterSectionsLast ==
  [running          |-> "read",             read             |-> "extracting_text",
   extracting_text  |-> "parsing_resume",   parsing_resume   |-> "generating_draft",
   generating_draft |-> "saving_draft",     saving_draft     |-> "delete_bullets",
   delete_bullets   |-> "delete_entities",  delete_entities  |-> "insert",
   insert           |-> "delete_sections",  delete_sections  |-> "review",
   review           |-> "completed",        completed        |-> "complete",
   complete         |-> "done",             fail             |-> "failed"]

\* Where an execution stands once the step it was about to do is done.
After ==
  [running          |-> "read",             read             |-> "extracting_text",
   extracting_text  |-> "parsing_resume",   parsing_resume   |-> "generating_draft",
   generating_draft |-> "saving_draft",     saving_draft     |-> "delete_bullets",
   delete_bullets   |-> "delete_entities",  delete_entities  |-> "delete_sections",
   delete_sections  |-> "insert",           insert           |-> "review",
   review           |-> "completed",        completed        |-> "complete",
   complete         |-> "done",             fail             |-> "failed"]

\* The rows of a draft are inserted block by block: section, entity, bullet.
RowAt(n) == <<(n \div 3) + 1,
              IF n % 3 = 0 THEN "section" ELSE IF n % 3 = 1 THEN "entity" ELSE "bullet">>

RowCount == 3 * Blocks

Rows == Runs \X (1 .. Blocks) \X Kinds

\* The rows execution r has inserted when it has inserted n, and its whole draft.
Inserted(r, n) == {<<r, RowAt(i)[1], RowAt(i)[2]>> : i \in 0 .. n - 1}
Draft(r) == {r} \X (1 .. Blocks) \X Kinds

Active(r) == pc[r] \notin Ended \cup {"new"}
NoRunActive == \A r \in Runs : ~Active(r)

Terminal == {"succeeded", "failed", "canceled"}

-----------------------------------------------------------------------------
(* The writes.                                                                  *)

\* updateJobProgress: a status or a stage that is not given is kept.
Progressed(status, stage) ==
  [job EXCEPT !.status = status, !.stage = stage, !.completed = IF status \in Terminal THEN TRUE ELSE @]

\* Mutant of Completed: the status of packages/queue's list instead of the table's.
CompletedAsInQueue == [job EXCEPT !.status = "completed", !.stage = "completed", !.completed = TRUE]

\* completeJob does not look at the status it overwrites and keeps the error fields.
Completed == [job EXCEPT !.status = "succeeded", !.stage = "completed", !.completed = TRUE]

\* Mutants of Failed: the attempt is not counted; the status is not written.
FailedUncounted == [job EXCEPT !.status = "failed", !.error = TRUE, !.completed = TRUE]
FailedKeepsStatus == [job EXCEPT !.error = TRUE, !.attempts = @ + 1, !.completed = TRUE]

\* failJob keeps the stage, and counts the attempt.
Failed == [job EXCEPT !.status = "failed", !.error = TRUE, !.attempts = @ + 1, !.completed = TRUE]

\* Mutants of Requeued: the error fields are kept; the attempts start again.
RequeuedKeepsError == [job EXCEPT !.status = "queued", !.stage = "queued", !.completed = FALSE]
RequeuedResetsAttempts ==
  [job EXCEPT !.status = "queued", !.stage = "queued", !.error = FALSE, !.completed = FALSE,
              !.attempts = 0]

\* retryJob asks for nothing either.
Requeued == [job EXCEPT !.status = "queued", !.stage = "queued", !.error = FALSE, !.completed = FALSE]

\* The statements on the async_jobs row.
UpdateJob(s) ==
  /\ \/ s.step = "running" /\ job' = Progressed("running", "reading_pdf")
     \/ s.step \in StageSteps /\ job' = Progressed(job.status, s.step)
     \/ s.step = "complete" /\ job' = Completed
     \/ s.step = "fail" /\ job' = Failed
  /\ UNCHANGED <<live, resume>>

\* replaceParsedDraft: three soft deletes, then one insert per row.
ReplaceDraft(s) ==
  /\ \/ s.step \in DeleteSteps /\ live' = {x \in live : x[3] # Deleted[s.step]}
     \/ s.step = "insert" /\ live' = live \cup {<<s.run, RowAt(s.row)[1], RowAt(s.row)[2]>>}
  /\ UNCHANGED <<job, resume>>

\* updateResumeStatus, which keeps canonical_version_id.
RequireReview(s) ==
  /\ s.step = "review"
  /\ resume' = [resume EXCEPT !.status = "review_required"]
  /\ UNCHANGED <<job, live>>

\* The statement execution r is about to send, and what the server does for it.
Statement(r) == [run |-> r, step |-> pc[r], row |-> row[r]]

Statements == [run : Runs, step : WriteSteps, row : 0 .. RowCount]

Execute(s) == UpdateJob(s) \/ ReplaceDraft(s) \/ RequireReview(s)

\* Mutant of GoTo: the memory repository awaits real I/O between two rows.
GoToReleasing(r, step) ==
  /\ pc' = [pc EXCEPT ![r] = step]
  /\ turn' = IF Driver = "memory" /\ step \notin Ended \cup {"read", "insert"} THEN {r} ELSE {}

\* Execution r goes on to step.  Under the memory driver it keeps the event
\* loop, unless it now awaits the object storage or is over.
GoTo(r, step) ==
  /\ pc' = [pc EXCEPT ![r] = step]
  /\ turn' = IF Driver = "memory" /\ step \notin Ended \cup {"read"} THEN {r} ELSE {}

MayMove(r) == turn \subseteq {r}

-----------------------------------------------------------------------------
(* The steps of an execution.                                                   *)

\* A request or a worker starts an execution: the job is looked up, whatever its
\* status.  Only the buttons of the page keep the owner from starting a second.
Start(r) ==
  /\ pc[r] = "new"
  /\ turn = {}
  /\ OneClient => job.status = "queued" /\ NoRunActive
  /\ GoTo(r, "running")
  /\ UNCHANGED <<job, resume, live, versions, approved, reply, row, late>>

\* The object storage answers; under both drivers this is real I/O.
ReadObject(r) ==
  /\ pc[r] = "read"
  /\ MayMove(r)
  /\ GoTo(r, "extracting_text")
  /\ UNCHANGED <<job, resume, live, versions, approved, reply, row, late>>

\* The next write is carried out and acknowledged.
Write(r) ==
  /\ pc[r] \in WriteSteps
  /\ MayMove(r)
  /\ Execute(Statement(r))
  /\ row' = IF pc[r] = "insert" THEN [row EXCEPT ![r] = @ + 1] ELSE row
  /\ GoTo(r, IF pc[r] = "insert" /\ row[r] + 1 < RowCount THEN "insert" ELSE After[pc[r]])
  /\ UNCHANGED <<versions, approved, reply, late>>

\* Reading the file, extracting its text or validating the parser's output throws:
\* the catch block is next.
WorkFails(r) ==
  /\ pc[r] \in {"read", "parsing_resume", "saving_draft"}
  /\ MayMove(r)
  /\ GoTo(r, "fail")
  /\ UNCHANGED <<job, resume, live, versions, approved, reply, row, late>>

\* An error outside the try block, or inside the catch block, ends the execution.
OnError(r) == IF pc[r] \in {"running", "fail"} THEN "dead" ELSE "fail"

\* The database refuses the next statement or cannot be reached.
WriteFails(r) ==
  /\ Driver = "postgres"
  /\ pc[r] \in WriteSteps
  /\ GoTo(r, OnError(r))
  /\ UNCHANGED <<job, resume, live, versions, approved, reply, row, late>>

\* The client gives the next statement up; the server still has it.
WriteTimesOut(r) ==
  /\ Timeouts
  /\ pc[r] \in WriteSteps
  /\ late' = late \cup {Statement(r)}
  /\ GoTo(r, OnError(r))
  /\ UNCHANGED <<job, resume, live, versions, approved, reply, row>>

\* The server carries out a statement nobody waits for any more.
LateWrite(s) ==
  /\ s \in late
  /\ late' = late \ {s}
  /\ Execute(s)
  /\ UNCHANGED <<versions, approved, reply, pc, row, turn>>

\* The process stops; nothing looks for its unfinished jobs when it starts again.
Crash ==
  /\ Crashes
  /\ ~NoRunActive
  /\ pc' = [r \in Runs |-> IF Active(r) THEN "crashed" ELSE pc[r]]
  /\ UNCHANGED <<job, resume, live, versions, approved, reply, row, late, turn>>

-----------------------------------------------------------------------------
(* The owner's other requests.                                                  *)

\* POST /retry: the page offers it for a failed job, and "parse again" in the
\* review uses it for a succeeded one; the service asks for neither.
Retry ==
  /\ turn = {}
  /\ OneClient => job.status \in {"failed", "succeeded"} /\ NoRunActive
  /\ job' = Requeued
  /\ UNCHANGED <<resume, live, versions, approved, reply, pc, row, late, turn>>

\* What getParsedDraft returns: rows whose parents are live too.
Visible(kind) ==
  {x \in live : /\ x[3] = kind
                /\ <<x[1], x[2], "section">> \in live
                /\ kind = "bullet" => <<x[1], x[2], "entity">> \in live}

\* validateDraftForPromotion.  The parser is deterministic: the entities of one
\* block have the same key in every execution, those of two blocks have not.
ValidForPromotion ==
  /\ resume.status = "review_required"
  /\ job.status = "succeeded"
  /\ Visible("section") # {}
  /\ \A x, y \in Visible("entity") : x[2] = y[2] => x = y
  /\ Visible("bullet") # {}

\* promoteDraft, once the resume has no canonical version.  The memory repository
\* builds the version and marks the resume active.  The server refuses the
\* statement of the postgres one, whose data-modifying WITH is not at the top level.
PromoteDraft ==
  IF Driver = "memory"
  THEN /\ versions' = versions + 1
       /\ resume' = [status |-> "active", canonical |-> TRUE]
       /\ approved' = live
       /\ reply' = "promoted"
  ELSE /\ reply' = "error"
       /\ UNCHANGED <<resume, versions, approved>>

\* POST /promote.  Under the memory driver the checks and the promotion are one
\* turn.  Under postgres the reads of the check are statements of their own, taken
\* here as one: with the promotion refused, they only choose the reply.
Approve ==
  /\ turn = {}
  /\ \/ /\ ValidForPromotion /\ ~resume.canonical
        /\ PromoteDraft
     \/ /\ ~ValidForPromotion \/ resume.canonical
        /\ reply' = IF ValidForPromotion THEN "conflict" ELSE "invalid"
        /\ UNCHANGED <<resume, versions, approved>>
  /\ UNCHANGED <<job, live, pc, row, late, turn>>

\* POST /reject-draft: the resume is archived, whatever its status.
Reject ==
  /\ turn = {}
  /\ resume' = [resume EXCEPT !.status = "archived"]
  /\ UNCHANGED <<job, live, versions, approved, reply, pc, row, late, turn>>

-----------------------------------------------------------------------------
Init ==
  /\ job = [status |-> "queued", stage |-> "queued", error |-> FALSE, attempts |-> 0, completed |-> FALSE]
  /\ resume = [status |-> "parsing", canonical |-> FALSE]
  /\ live = {} /\ versions = 0 /\ approved = {} /\ reply = "none"
  /\ pc = [r \in Runs |-> "new"]
  /\ row = [r \in Runs |-> 0]
  /\ late = {} /\ turn = {}

Proceed(r) == ReadObject(r) \/ Write(r) \/ WorkFails(r) \/ WriteFails(r) \/ WriteTimesOut(r)

Next ==
  \/ \E r \in Runs : Start(r) \/ Proceed(r)
  \/ \E s \in late : LateWrite(s)
  \/ Crash \/ Retry \/ Approve \/ Reject

Spec == Init /\ [][Next]_vars

\* An execution that was started goes on: the event loop serves every callback,
\* and every statement is answered or times out.  Nothing obliges the owner to
\* act, a statement to fail, or the process to stop.
FairSpec == Spec /\ \A r \in Runs : WF_vars(Proceed(r))
-----------------------------------------------------------------------------
(* Properties.                                                                  *)

\* The type of every variable.
TypeOK ==
  /\ job \in [status : {"queued", "running", "succeeded", "failed"},
              stage : {"queued", "reading_pdf"} \cup StageSteps,
              error : BOOLEAN, attempts : Nat, completed : BOOLEAN]
  /\ resume \in [status : {"parsing", "review_required", "active", "archived"}, canonical : BOOLEAN]
  /\ live \subseteq Rows
  /\ versions \in Nat
  /\ approved \subseteq Rows
  /\ reply \in {"none", "invalid", "conflict", "promoted", "error"}
  /\ pc \in [Runs -> Steps]
  /\ row \in [Runs -> 0 .. RowCount]
  /\ late \subseteq Statements
  /\ turn \subseteq Runs

\* A job shown as running is being run: by an execution past its first write, or
\* one that the process or the database cut short.  No interleaving of several
\* executions, retries and late statements leaves "running" behind an execution
\* that reported its end (executeParseJob, lines 134-153).
RunningJobHasRunner ==
  job.status = "running" =>
    \E r \in Runs : pc[r] \in {"dead", "crashed"} \/ (Active(r) /\ pc[r] # "running")

\* When every execution that was started came to its normal end, however their
\* statements interleaved, the draft of one of them is there in full: the soft
\* deletes of one execution cannot strip the others of theirs without being
\* followed by its own inserts (PostgresResumeParserRepository.replaceParsedDraft).
QuiescentDraftIsWhole ==
  (/\ \A r \in Runs : pc[r] \in {"new", "done"}
   /\ \E r \in Runs : pc[r] = "done")
    => \E r \in Runs : pc[r] = "done" /\ Draft(r) \subseteq live

\* attempt_count is the number of executions that failed; only one whose last
\* statement was lost may or may not be counted (failJob increments in the server,
\* retryJob keeps the count).
AttemptsCountFailures ==
  LET ended(step) == Cardinality({r \in Runs : pc[r] = step})
  IN  job.attempts \in ended("failed") .. ended("failed") + ended("dead")

\* With one client, a succeeded job has no trace of former attempts, is at its last
\* stage, and the draft is exactly what one completed execution inserted: nothing
\* an interrupted execution wrote is left in it.
SucceededJobHasItsDraft ==
  job.status = "succeeded" =>
    /\ ~job.error /\ job.completed /\ job.stage = "completed"
    /\ \E r \in Runs : pc[r] = "done" /\ live = Draft(r)

Lifecycle == INSTANCE JobLifecycle WITH status <- job.status, attempts <- job.attempts

\* With one client, the job goes through the documented lifecycle, to which the
\* "parse again" of the review adds succeeded -> queued.
ImplementsLifecycle == Lifecycle!LifecycleSpec

\* Under the memory driver a resume is promoted at most once, and what is promoted
\* is the whole draft of one execution, whatever ran at the same time.
PromotionTakesOneWholeDraft ==
  /\ versions = (IF resume.canonical THEN 1 ELSE 0)
  /\ resume.canonical => \E r \in Runs : approved = Draft(r)

\* docs/architecture/sprint-3-resume-parser.md, "Job lifecycle": a running job
\* becomes succeeded or failed.
JobSettles == job.status = "running" ~> job.status # "running"
=============================================================================
