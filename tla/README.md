# TLA+ models of TailorStack

TailorStack is a Node.js monorepo: an HTTP API over repositories with two drivers (an in-memory one, used by
the tests, and PostgreSQL through a client written in `packages/database`), a browser application, and a worker
that runs parse jobs. This directory holds TLA+ models of the parts whose correctness depends on the order of
events, the TLC configurations that check them, and TLAPS proofs.

- From the upload to the promoted resume: `ResumePipeline`, with the abstract `JobLifecycle`.
- The database client: `ConnectionPool` (`PostgresPool`), `WireProtocol` (one connection and the backend).
- The resume editor: `ResumeEditor`, with the abstract `ResumeOutline`.
- The API as its users meet it: `Requests`, which `Accounts`, `ResumeUpload`, `JobIntake` and `Applications` extend, and
  `Workspace`, their composition.
- From the resume to a tailored version: `CanonicalResume`, `Matching`, `Readiness`, `PatchSets`, `Versions`, each
  extending the one before, and `Tailoring`, which closes the chain with the user editing at any moment.
- The browser: `WebPage`.
- `MC*`: the modules TLC runs; one `.cfg` per run. `*Proofs`: the theorems.
- `PROJECT.json` lists components, runs, mutants, the map from definitions to source lines, findings, hazards and theorems.

## Inventory

For each component: state; operations; interactions; what is hard; what makes it correct. "Statement" is one
autocommitted SQL statement: under PostgreSQL every repository call is one or more of them, and only
`PostgresPool.transaction` groups any (the migration runner calls it; the API's `withTransaction` has no caller).

| Component | State | Operations | Hard behaviour | Correct when | Module |
|---|---|---|---|---|---|
| Parse job and draft (`resume-parser.service.js`, `async-job.`/`resume-parser.`/`resume.repository.js`) | `async_jobs`, `resumes`, three draft tables | executeParseJob, retryParseJob, getParsedDraft | concurrent executions of a job; a draft replaced by many statements; failure of the failure handler; crash | job follows its lifecycle, attempts count failures, a succeeded job has one whole draft | `ResumePipeline` |
| Draft review and promotion (`draft-promotion.service.js`, `promotion-validator.js`, `promotion.repository.js`) | `resume_versions`, `resumes.canonical_version_id` | getReview, promote, reject | check then act, beside an execution | promoted once, with one whole draft | `ResumePipeline` |
| Database pool (`packages/database`, PostgresPool) | idle stack, active set, waiters, closed, timers | query, transaction, connect, release, withRetry, close | counting around an await, timers, retries, close under load | exclusive use, no wasted capacity, waiters served, nothing the pool knew open after close | `ConnectionPool` |
| Wire client (PostgresClient) | socket, byte buffer, pollers | connect, query | several pollers on one buffer after a timeout; packets left over after an error | each statement gets its own answer; transactions do not mix | `WireProtocol` |
| Accounts and sessions (`auth.service.js`, `auth.repository.js`, `middleware/auth.js`, `packages/auth`) | users, identities, sessions | signup, login, logout, session check | check then create; three writes; log-out against requests under way | one account per address, which can be entered again; an ended session opens nothing | `Accounts` |
| Resume upload (`resume-upload.service.js`, `uploaded-file.repository.js`) | `uploaded_files`, stored objects, `resumes`, `async_jobs` | uploadMasterResume | four writes, check then act, two writers of one object | a stored file is whole and leads to a job | `ResumeUpload` |
| Job descriptions (`job-description.service.js`, parsers, repositories) | descriptions, requirements, keywords | parseAndPersist | check then create, one statement per row | an answer has all of a description | `JobIntake` |
| Application workspace (`application.service.js`, `timeline.service.js`, `notes.service.js`) | applications, events, notes | create, change status, add note | status read, updated and logged in three steps | the timeline tells the status | `Applications` |
| HTTP application (`app.js`, `server.js`) | shutting-down flag, rate limiter | route, authenticate, answer, stop | requests overlap; the process ends under them | what is half made belongs to a request that was broken off | `Requests`, `Workspace` |
| Resume editor (`resume-editor.service.js`, its repository) | sections, entities, bullets with display orders | create, delete, reorder | order numbers computed from a count; reorder by parallel updates | siblings have orders 0..n-1 after an edit that ran alone; nothing is left live of a subtree that went; a read misses nothing that stays | `ResumeEditor` |
| Matching (`matching.service.js`, `evidence-generator.js`, `gap-analyzer.js`, `weighted-scorer.js`) | match reports | create | order of evidence, rounding | showing more never lowers a score | `Matching` |
| Readiness (`readiness.service.js`, its two generators) | reports | create | bonuses and penalties at the bounds | scores within 0..100 | `Readiness` |
| Optimization patches (`optimization.service.js`, `patch-generator.js`, `patch-validator.js`, `review-state.service.js`) | patch sets, review states | generate, accept, reject | a report older than the resume; one bad patch refuses the set | a patch refused only for outer blanks or for text that matching overlooks | `PatchSets` |
| Versioning (`version-builder.service.js`, `conflict-detector.js`, `patch-applier.js`, `renderer.service.js`, `versioning.repository.js`) | versions, snapshots | build, render | reviews older than the resume | no edit is lost; what is rendered was reviewed; a chain of versions | `Versions` |
| Web application (`apps/web/public/app.js`) | page, listeners, poll timer | navigate, poll, review, upload, log in | an answer that arrives after the page moved on | the review shows its own draft, approves what it shows, polling ends | `WebPage` |
| Queue (`packages/queue`), object storage, workers | jobs; objects | submitJob; putObject, getObject; run a job | failing, late and overlapping writes | as for upload and parse job | in `ResumeUpload`, `ResumePipeline` |
| AI pipeline, PDF extraction, config, logger, schemas, migrations, scripts | none at run time | pure functions, start-up | - | - | wording of a patch in `PatchSets` |

Interactions: the page calls the API (`WebPage` takes the server as answers that come late or fail); the API's requests share
the database and the process (`Workspace`); an upload submits the job that `ResumePipeline` runs; a promotion makes the
resume that `ResumeEditor` and `CanonicalResume` edit; every repository call of the postgres driver borrows a client
(`ConnectionPool`) and sends one or more statements (`WireProtocol`).

## How the modules correspond to the code

### ResumePipeline (with JobLifecycle)

One resume and its parse job. An execution (`Runs`) is a call of `executeParseJob`; `pc[r]` names the next
repository call it makes (`running`, the five stages, the three deletes and the inserts of `replaceParsedDraft`,
`review` = `updateResumeStatus`, `complete`, `fail`). `job`, `resume` and `live` are the rows. A draft row is
`<<execution, block, kind>>`: what tells two drafts apart is who inserted a row, not its text. A block is a section
with one entity and one bullet.

| Action | Code |
|---|---|
| `Start` | `findJobById` and the checks of lines 25-38; no status is looked at |
| `ReadObject` | lines 50-69, the one await of real I/O under both drivers |
| `Write` | the next statement, carried out and answered (`UpdateJob`, `ReplaceDraft`, `RequireReview`) |
| `WorkFails`, `WriteFails` | an exception from the work, from a statement; `OnError` is the catch block: the first write is outside the try, and an error inside the catch ends the execution |
| `WriteTimesOut`, `LateWrite` | `withTimeout` gives the statement up, the server still carries it out |
| `Crash` | the process ends; nothing in `server.js` or the worker looks for running jobs |
| `Retry`, `Approve`, `Reject` | the owner's other requests |

Under the memory driver the repository calls await only microtasks, so an execution runs from one real await to
the next without interruption: `turn` names it. Under the postgres driver each statement is an action and all
interleave. `OneClient` adds the guards of the page (`apps/web/public/app.js`: Run for a queued job, Retry for a failed
one, "parse again" in the review for a succeeded one); it is how the runs state what holds for a single tab and
what for clients of the API in general. (It idealises the page: a poll that survives a navigation may offer Run once more.)

`JobLifecycle` is the abstract job: the transitions of `docs/architecture/sprint-3-resume-parser.md:25-27` and the review's
`succeeded -> queued`. `ImplementsLifecycle` is the refinement `status <- job.status, attempts <- job.attempts`. It holds
with one tab only: neither retry nor run looks at the status, so with two clients a running job can be queued again under
its execution.

The module assumes that every statement gets its own answer. `WireProtocol` shows when this is not so: after a
refused statement on the same connection. The two are not composed; what `ResumePipeline` shows holds of executions
whose connections have not seen an SQL error.

### ConnectionPool

One action per stretch of code between two awaits of the network: `Pop`, `Open`, `Wait` and `Refuse` are the branches of
`connect`, `OpenDone` and `OpenFails` its continuations, `Finish` the end of an attempt, `Release` with `Settle` the
`finally` block and what `withRetry` does then, `IdleTimeout` the timer callback, `Close` the method. `socket` is what the client
would notice of its connection: `ended` has the server's 57P01 still to be read, `dead` has nothing to read (a reset
socket raises no error in `query`, which then times out). Microtasks run before the next event: while a call is at
`acquire` or `release`, actions that need an event are disabled (`Quiet`). An opening that is refused or reset has lost its socket; one that times out
(`waitForConnect`) or is refused in the startup dialogue (`startup`) rejects and destroys nothing, so its socket stays open (`givenUp`), referred to by nobody, until the server drops it (`ServerDrops`) or for ever.
`ClosedPoolDrains` therefore says that the sockets which outlive a closed pool are exactly these: the pool does leak the sockets of failed openings, and no other. A call that is resumed by `Release` does not run
before the releasing call settles; both orders lead to the same states here since neither looks at the other.

### WireProtocol

The calls that borrow one connection in turn, the pollers their statements leave, the packets in `buffer`, and the
backend, which is external: it answers statements in order, a query with a row, everything with a ready packet,
a refused one with an error first, and a COMMIT of a failed transaction with a rollback. `Poll(n)` is one turn of the
loop in `query`; any live poller may find the next packet. `TimeOut` is `withTimeout`. Row descriptions, tags and the five
messages of a parametrised query are left out: no property tells them apart.

### ResumeEditor (with ResumeOutline)

Requests of `ResumeEditorService` that create, delete or reorder sections, entities and bullets. The three levels
have the same code, so an item knows its level only from `Parent`. `rows` is the state of an item in its table with its
`display_order`; a request walks along `Path`: its checks (`Check`), the list of the siblings (`List`: the number of them is
a new item's order, and `assertSameIds` wants a reorder to name them all), its statements (`Write`; those of
`Promise.all` in any order), the audit event (`Pass`), after a delete the second list (`Compact`) and the updates of
`compactSectionOrders` or its like, and the resume it answers with: is it canonical still (`Reopen`), its sections (`ReadSections`), the entities of
each and the bullets of these (`ReadBelow`, one SELECT per parent), and `validateRelationships`, which refuses two siblings that share an order (`Answer`). `Fail` is an exception at any step; what was sent may still be carried out (`LateWrite`).
`Archive` is a rejection of the draft, after which the resume is no longer canonical.

The reads of `Check` are one step: what it asks can only cease to be true. The reads of the answer are a step each, since edits land between them:
a reader may see a section without the entities that were deleted with it a moment ago, or an entity that was created below a section that has just gone.
`ReadsAreOfTheirTime` says what it can rely on nonetheless. A GET of the resume is these reads alone. Under the memory driver a request is one turn
of the event loop, so its behaviours are those without overlap and failure.

Two history variables serve the properties: `exposed` holds the requests that ran beside another or beside a late
statement, `damaged` the parents whose children a failed or exposed request has touched since the last delete or reorder
that ran alone. `ResumeOutline` is the abstract specification: an item is new, shown or gone; it is shown only under a parent
that is shown, and a removal takes the whole subtree in one step. The refinement maps an item to `shown` when it and
what is above it are live at that moment, as the memory driver's `getParsedDraft` joins them in one expression; the statements that soft-delete the entities and bullets of
a deleted section are then stutters, whatever else runs. It is a statement about the tables, and about readers that nothing overlaps; `reading` also
keeps what was shown and what had gone at the first SELECT of a reader, for `ReadsAreOfTheirTime`.

### Requests, Accounts, ResumeUpload, JobIntake, Applications (composed in Workspace)

A request (`Calls`) is answered at most once; a row has the name of the request that made it, which keeps rows apart without
counters. `step` is the wait a request is at: `authenticate` and `owner` are the two reads of `attachCurrentUser`, then the
steps of its operation, one statement, hash or file operation each. Every statement that an operation makes is an action, in the
order of the code (`SignupSteps`, `LoginSteps`, `UploadSteps`; `CreatePart` once per requirement and keyword; `CreateApplication`
once per event).

Under postgres any open call may go next. Under the memory driver a repository answers in microtasks, so a call runs
until it waits for something real: `RealWaits` lists these steps (the body, scrypt, a file, and the first read, which follows
the body), and `OwnTurn` lets nobody else act while a call is at another. `CallFails` is a statement that fails or times out, `ProcessEnds` the end of the process; in either case
a write that was sent may still be carried out (`late`, `Late...Write`). A unique index answers a second row with an error
(`AddressIsFree`, `FileIsFree`, `TextIsFree`); the maps of the memory driver have none.

| Component | What is where |
|---|---|
| `Accounts` | `AuthService.signup`, `login`, `logout` and the session check; sessions expire (`SessionExpires`); passwords and signatures are taken to work |
| `ResumeUpload` | `uploadMasterResume`: duplicate check, object, file row, resume, job. `fs.writeFile` truncates and then writes, so an object is `partial` in between and two writers may leave it so; MinIO replaces it at once |
| `JobIntake` | `parseAndPersist`: a text taken in before is answered with what is there by now |
| `Applications` | creation with its events, `updateStatus` (read, update, event), notes; `overlapped` is a history variable: the applications two moves have worked on at once |

### CanonicalResume, Matching, Readiness, PatchSets, Versions (composed in Tailoring)

Under the memory driver, of which these are models, a request is one turn, so an operation is one step, and the interleaving
that matters is that of operations: the user edits the resume between match, readiness report, patch set, review and build. Under postgres
`createVersionWithSnapshot` is a statement the server refuses (the wrapper puts a data-modifying `WITH` into `FROM`), so no version is
ever built there.

A text is a set of words: that a text contains a term, names a skill or has a metric is membership. Scores are integers in percent, weights in
hundredths, rounded as `Math.round` does. `EvidenceFor`, `GapsLeftBy`, `ScoreOf`, `Findings`, `Recommendations`, `ReadinessScore`,
`PatchesFor`, `IsValid`, `Conflicts` and `ApplyPatch` translate the functions of the same names or files, with the limits of the
code (8 gaps, 10 recommendations). A match report keeps the resume it was made for (`of`), a history field that only
`RefusedForOverlookedTextOnly` reads. An archived resume refuses every operation but a review.

`CanonicalResume` has every operation of the editor that changes what these readers see: creating, writing and deleting a bullet, an entity or a section, a deletion with all that stands under it, and
the visibility of a bullet and of a section. A reordering changes only which of two bullets is found first; the order is a constant (`Layout`), and `ResumeEditor` has the orders. The editor stores a text as it comes:
blanks around it are the word `OuterBlanks`, which only `trim()` sees. Two things a set of words cannot tell are stated where the code looks at them. The validator joins all texts and reads any blanks as one, so that a
term of several words may be there only across the join of two texts: what a sequence of texts says in this way is the constant operator `Across`, of which nothing is assumed. And the search for a credential is letter by letter
(`Verbatim`): a term that is there with other blanks between its words is in a text for the matcher and the validator and not for it.

Three parts of the code read three parts of the resume: matching the visible bullets, the gap analysis of credentials only the texts that evidence cites, and the patch validator everything, titles and hidden bullets included. So
a set may be refused for a word that stands in plain sight: a credential in a visible bullet that is evidence of no requirement is reported missing, and the patch that would add it is invalid. The validator also compares
the bullet as it is stored with the trimmed text of the patch, so that a bullet with outer blanks refuses every set that would replace it. `RefusedForOverlookedTextOnly` says of each refused patch of an
up-to-date report that it is one of these: a replacement of a cited bullet with outer blanks; one of the two fixed hints, already written out; a missing skill or duty that is in a title, in hidden text or
across two texts; a missing credential that is there, in a bullet nothing cites, or in a cited one with other blanks between its words. It does not say that each of these refuses a set: a hint that no recommendation
proposes, for one, refuses none. The run reaches each of them: without any one of these exceptions TLC finds a counterexample.

### WebPage

One document of the browser. `history` is the list of pages of `pushState`; `content` what the container of the page shows; `buttons` the
listeners on the elements of the document, each with the thing it acts on and the container it writes into; `slots` the
handlers that wait for an answer or a timer; `handle` the one variable `state.parsePollTimer`, shared by all polls. A handler that
kept its container (`KeepsContainer`) writes into a detached element once the page is gone; one that looks it up again
(`LooksUpAgain`) may find the container of another visit, or none. `Load` also binds listeners with `document.querySelector`, so an
answer of a page that is gone binds to the button of the page that is there (`Binds`). `Tick` is the poll, which replaces whatever page is shown by the review when the job
has succeeded, and clears the timer that was armed last, its own or not.

The server is the status of a parse job per resume, answers that come in any order, and errors. Links that are not bound and
addresses that are typed load the document anew, which is `Init`.

## Runs

| Run | Instance | Shows |
|---|---|---|
| `pipeline_oneclient` | 3 executions, 2 blocks, postgres, one tab, crashes | type invariant; refinement of `JobLifecycle`; `SucceededJobHasItsDraft`: whatever failed attempts left behind is gone |
| `pipeline_concurrent` | 2 executions, 1 block, postgres, any client, timeouts, crashes | `RunningJobHasRunner`, `QuiescentDraftIsWhole`, `AttemptsCountFailures` |
| `pipeline_memory` | 2 executions, 2 blocks, memory, any client, fair | `PromotionTakesOneWholeDraft`, `JobSettles` |
| `pool` | 3 calls, max 1, 1 retry, fair | type invariant, `Exclusive`, `NoWastedCapacity`, `ClosedPoolDrains`, `WaiterIsServed` |
| `wire_safety` | 3 calls, timeouts | type invariant, `CleanConnectionAnswersOwn`, `LagIsPermanent`, `TransactionsDoNotMix` |
| `wire_answers` | 3 calls, no timeouts | violation of `AnswersAreOwn`, below |
| `editor` | 2 requests of any kind, 6 items on three levels, at most 1 failure | type invariant, `UndamagedIsInOrder`, `ReadsAreOfTheirTime`, `ImplementsOutline` |
| `workspace` | 3 requests of any kind, 2 at a time, 1 failure, postgres, file system | type invariant, `SessionsCanLogInAgain`, `StoredFileIsWhole`, `UploadsBelongTogether`, `HalfMadeIsExplained`, `UndisturbedHistoryTellsStatus`, `LoggedOutSessionOpensNothing` |
| `workspace_memory` | 3 requests of any kind, all at a time, memory, MinIO | `OneAccountPerAddress`, `AnswersAreWhole`: what the turns of the event loop give without any index |
| `tailoring` | 3 bullets in 2 sections, 3 requirements and a credential, 2 edits, a report and a set of each kind, 3 versions | type invariant with all scores in 0..100, `VersionsFormAChain`, `RefusedForOverlookedTextOnly`, `NoEditIsLost`, `RenderedIsReviewed`, `NoAutomaticEdit`, `ShowingNeverLowersTheMatch` |
| `page` | 2 resumes, 2 waiting handlers, 4 actions of the user, from the upload, a preview or a patch set, fair | type invariant, `ReviewShowsItsDraft`, `PollingEnds` |
| `page_approval` | the same with 5 actions, from the upload or a review | violation of `ApprovedWasShown`, below |

Bounds. An execution has a fixed number of steps and is started once, so `Runs` bounds the number of attempts; two give
every pairwise interleaving, three (one tab) a failed, a failed again and a completed attempt. Retries by the owner are
not bounded, their effect is idempotent. Two blocks let a draft be cut inside and between blocks. In the pool, three
calls over one connection give a holder and two waiters, or two openings at once; as many clients as calls, and one more for a socket given up (`MaxGivenUp` = 1 at a
time), are enough because a client is created only when none is idle. Three calls on a connection give a statement that fails or times out, one that suffers from it, and
one after. Two edits give every overlap of two, and an edit that runs alone after one that failed (`MaxFailures` = 1); two promoted
sections, an entity with a bullet, and one section and one entity to create give siblings and cascades on all levels.
Of the requests, three give a first that is broken off, two that overlap after it, or two that overlap and one that meets what they left; the
hazards of each operation are between two requests of one kind, and `Home`, `Seed` and the seed application give them something
to meet. One failure is what tells a half-made object from a whole one (`MaxFailures` also counts expiries). In `tailoring` two edits give one before and one after the
report or the review; the promoted draft is one section, its title with the word "experience", with one bullet that is direct evidence of one requirement and related evidence of another, the third is named by no bullet; a second bullet
and a second section with its entity and bullet are still to be made, so that what is added, renamed, hidden and deleted is of every kind of row. One report and set suffice as reports do not see each other; three versions are the promoted one, one built on it and
one built on that, the first whose parent could be confused with another. In `page` two handlers that wait are what it takes for one to be late, four actions for leaving a page, coming back and
pressing a button; a poll keeps no count, so it is not bounded.
`CHECK_DEADLOCK FALSE` stands in all runs but the pipeline's: there every call, request or action of the user is made a bounded number of times and the system
then rests.

Fairness. `ResumePipeline!FairSpec`: an execution that was started goes on, because the event loop runs every callback and a
statement is answered or times out; neither the owner, nor a failure, nor a crash is obliged. `ConnectionPool!FairSpec`: a call
takes its microtasks, and its query ends (`withTimeout`); an opening is not fair, since the startup dialogue has no
timeout. A waiter is served nonetheless, because it waits only while `Max` calls hold clients. `WebPage!FairSpec`: a call is answered or fails, and the browser runs
the continuation of an answer and a timer that has run out; nothing is assumed of the user or of the parser, so `PollingEnds` says that polling
ends if the job does.

### What the violations show

- `wire_answers`: the poller returns at an error packet and leaves the ready packet behind it; from then on the connection
  lags by one answer, for ever (`LagIsPermanent`), and a query can resolve without its own rows. `CleanConnectionAnswersOwn` says that it takes a failure for it,
  `TransactionsDoNotMix` that no call ever works in the transaction of another even then.
- `page_approval`: `docs/architecture/sprint-4-canonical-promotion.md:3` calls explicit user approval the only path to a canonical resume. The handler of a review binds its
  listener to `#approve-draft` of the document after its fetch; when the user has meanwhile gone on to another review, one press approves both drafts, and that of the first may never have been shown.

## Proofs

Every theorem holds for all values of the constants, under the named assumptions of the modules only. Each follows from an inductive invariant
(first lemma: initially; then one lemma per action; the last step is temporal), which TLC checked on a small instance before it was proved.

**`ResumePipelineProofs`** (any executions, any number of blocks, both drivers, every combination of the switches): `TypeCorrect`,
`RunningJobTheorem`, `QuiescentDraftTheorem`. Neither `RunningJobHasRunner` nor `QuiescentDraftIsWhole` is inductive alone. For the first, a
statement given up may still write "running" later: `LateIsHarmed` says that its execution is dead then. For the second,
`LastDeleterIsWhole` says that, while no execution has failed and none is between its first and last soft delete, some inserting
execution has all of its rows so far live: the one that deleted last. `RowsFollowSteps` ties the row counter to the step, so that "so far"
is "all" at the end.

**`ResumeDraftProofs`** builds on that invariant, with one strengthening per theorem. `FailuresAreCounted` counts: a step raises the attempts exactly when one more
execution has failed or one more has died with its report carried out (`Counted`), and `ReportsAreSingle` keeps a report from arriving twice.
`SuccessIsClean` and `LifecycleIsImplemented` assume one client and no timeouts: then one execution is at work (`OnlyRunInv`), and what it has deleted and inserted so far is all there is
(`DraftSoFar`, `CleanJobInv`); the refinement of `JobLifecycle` maps every step to a step or a stutter of the abstract job.
`PromotionsAreWhole` assumes the memory driver: `TurnInv` says that between two turns the draft is that of one execution, so what a promotion checks and takes is one.

**`WorkspaceProofs`** (any requests, both drivers and stores, failures, late writes). The invariant is one part per component over the common `RequestsInv`; every action of a component moves one
call and leaves the others `Alone`, and a frame lemma per component takes care of the steps of the others. The parts say what is known at a step: the identity of an account exists before its first session
(`SessionsHaveIdentities`), an object is written before its row, so a `partial` object has a writer (`StoredFilesAreWhole`), a request past its duplicate check under the memory driver is in its turn,
so its check still holds (`AccountsAreUnique`, `DescriptionsAreExplained`, `MemoryAnswersAreWhole`), the parts of a description are counted by the call that makes them. `LogoutsClose` is an
action property: a session that was revoked is never live again. `UploadsAreConnected` assumes postgres, since without the unique index two uploads of one file may both go through.
`AccountsAreExplained`, `UploadsAreExplained`, `DescriptionsAreExplained` and `TimelinesAreExplained` are the conjuncts of `HalfMadeIsExplained` (`HalfMadeIsAccountedFor`). Also `TypeCorrect`.
The timelines have an invariant of their own, `TimelineInv`: a row is that of the one call that wrote it (`RowsOK`, `NotesOK`), events are by the owner (`EventsOK`), no timeline tells of more notes than
there are, nor of fewer than were answered for (`CountOK`, by cardinalities), and where no two moves have overlapped there is at most one, whose status is one event ahead between its two writes (`MoveOK`):
that gives `UndisturbedMovesAreTold`. Over the memory driver a move is one turn, so nothing is ever overlapped (`TurnsOK`), and the same holds of every application at the end of a turn (`MemoryMovesAreTold`). `ApplicationsAssumption` says that no
attached artifact has the type of another event; in the code the types are distinct literals.

**`ConnectionPoolProofs`** (any number of calls and clients, any size, any retries): `TypeCorrect`, `ClientsAreExclusive`, `CapacityIsUsed`, `ClosingDrains`. `Exclusive` needs that a client under way is in nobody's stack or queue
(`HeldInv`, `QueueInv`, `StackInv`: each at most once); `NoWastedCapacity` needs that a call is queued only when the pool is full, and that a release goes to the queue first (`FullInv`); draining needs that a connection
belongs to a call or to the stack or was given up (`OwnedInv`, `GivenUpInv`), also while it is being opened (`OpeningInv`), and that what counts as active is in the hands of a call (`ActiveInv`).

**`WireProtocolProofs`** (any number of calls and statements): `TypeCorrect`, `CleanConnectionsAnswer`, `TransactionsAreSeparate`, `LagStays`. `AnswerInv` spells out what the buffer may hold while nothing has been
rejected; `OrderInv` and `TxnInv` say that a statement after one that leaves a transaction open is of the same call, whatever answer the call believed; the lag is the number of
ready packets in the buffer or still to come, less the pollers that may take one, and no step lowers it (`SendLag`, `PollLag`, `ProcessLag`).

**`TailoringProofs`** (any layout, texts, job description and number of edits, reports, sets and versions): `VersionsAreAChain`, `EditsAreKept`, `OnlyEditsEdit`, `TypeCorrect`, `RefusalsAreExplained`,
`WhatIsRenderedWasReviewed`, `ShowingIsMonotone`. The loops of the code are the operators `Where` (filter) and `Folded` (reduce) over recursive functions. `Iteration` shows once that such a loop has a value
and `IterationIs` that it stays in its domain, by induction on the rounds (`UpTo`, from the least round at which a claim would fail); sums, percentages, evidence, gaps, findings, recommendations and the patched copy each have a lemma that
says what they hold for every input. `ScoreOfIs` turns the score into a sum over requirements of weight times 100, 65 or 0, from which `ScoresAreInRange` and `ScoresGrow` follow. `DataInv` says of every report, set and
version that it is one these operators make: match reports are of resumes there may be, recommendations rest on their match, patches are candidates, and what is live of a resume stands under live rows (TLC checked it with the resumes that occur in place of all there may be). A build appends one version (`BuildAppends`), the highest number is the last
(`LastIsLatest`), what a build requires (`~Conflicts`) is what `NoEditIsLost` says of its patches, and with it no two replacements share a target, so that `CopyIs` describes the copy that is rendered.
`RefusalsAreExplained` rests on `GapIsOverlooked`: a live row that says the term of a gap is a title, or a bullet no evidence cites, or hidden, itself or by its section, for its section is live as well.
`JobAssumption` and `ResumeAssumption` say that the inputs are sequences of items and texts sets of words, with weights from 1 to 100 hundredths, and that rows are of three kinds, an entity in one section.

**`WebPageProofs`** (any resumes, pages, handlers and actions of the user): `ReviewsAreTheirOwn`, `TypeCorrect`. `SlotOK` says which handlers may still write into the review that is shown: those that were started there, since a rendering
detaches all others (`DetachedFacts`), and those that look their container up are of other pages; `ContentInv` that the buttons of a review that are in its container are of its resume, and that no button of a review starts a change.
For the types, a view that is about a thing is never opened without one (`PlacesAssumption`, as the routes have the identifier in their pattern), so its buttons and the calls they make name one.

**`ResumeEditorProofs`** (any outline of three levels, any promoted resume, any number of requests and failures): `TypeCorrect`, `OrderIsKept`, `ReadsAreTrue`, `OutlineIsImplemented`. `UndamagedIsInOrder` speaks of the states between requests
only, so `OrderOK` says what holds amid them: children out of order are marked or under a request past its list. `AloneOK` says what a request that nothing has run beside has done so far, `Arranging` that the orders it has written
and those it still plans are one arrangement of what is live; that a finished arrangement uses every number is the pigeonhole principle. `StatementOK` and `LateOK` say what holds of a statement whenever it arrives: an item to be inserted was never
there, and the item below which others are deleted has gone before. From this alone each statement is an `Add`, `Forget` or `Remove` of `ResumeOutline`, or silent. A reader's invariant is `ReadOK`: what it has still to look below leads to all that was shown and still is, and what had gone, from above, is nowhere in what it has seen;
no statement disturbs it because nothing deleted comes back.

Only model-checked: the liveness properties `JobSettles`, `WaiterIsServed` and `PollingEnds`, as the prover has no `ENABLED`. Every other property of a passing run is a theorem.
Of the two violations nothing is proved; TLC gives their counterexamples.

## Not modelled

- Text processing (PDF extraction, the parsing of job descriptions, AI pipelines but for the wording of a patch), shape checks, configuration, logging, routing: functions without interleavings.
- `cancelJob` and the in-memory queue, which have no caller; the stub workers. The rate limiter, a counter per window that no document gives a promise for. The cache of pools by URL.
- Startup and SCRAM of the wire client, which precede every use of a connection, and the encoding of values.
- In `ResumeEditor`, the editing of texts and visibility flags, which touches neither order nor presence (`CanonicalResume` has it); in `CanonicalResume`, reorderings (`ResumeEditor` has them), and every
  column of a row but its text and its state.
- In the page, the forms for job descriptions and matches, downloads, drag and drop, and links that `bindLinks` has bound twice, which open their page twice.
- `createVersionWithSnapshot` and `promoteDraft` over postgres, beyond the fact that the server refuses them.
- Migrations and scripts: the migration runner applies every file in order at start-up, before anything else runs.
