--------------------------- MODULE WorkspaceProofs ---------------------------
(* Theorems about Workspace, for every set of calls, every bound, both drivers and *)
(* both stores.  The inductive invariant has a part for the requests and one for   *)
(* each component; a step of one component leaves the part of another alone        *)
(* because the part speaks only of calls of its own operations.                    *)
EXTENDS Workspace, SequenceTheorems, FiniteSetTheorems, TLAPS

-----------------------------------------------------------------------------
(* The requests.                                                                *)

Operations == {"none", "signup", "login", "logout", "upload", "intake", "apply", "move", "note"}
States == {"idle", "open", "ok", "refused", "failed"}

\* The steps in front of the operation proper, and those at which nobody is known yet.
Front == {"authenticate", "owner"}
Early == Front \cup {"none", "lookup", "user", "identify"}

\* The steps of an operation.
StepsOf(o) ==
  CASE o = "none" -> {"none"}
    [] o = "signup" -> {"lookup", "user", "hash", "identity", "session"}
    [] o = "login" -> {"identify", "verify", "account", "session"}
    [] o = "logout" -> Front \cup {"revoke"}
    [] o = "upload" -> Front \cup {"duplicate", "object", "opened", "file", "resume", "job"}
    [] o = "intake" -> Front \cup {"existing", "requirements", "keywords", "describe", "part"}
    [] o = "apply" -> Front \cup {"references", "application", "created", "attach", "get"}
    [] o = "move" -> Front \cup {"current", "update", "event", "get"}
    [] o = "note" -> Front \cup {"noted", "keep", "tell"}

\* What an operation names.
NamedBy(o) ==
  CASE o \in {"signup", "login"} -> Addresses
    [] o = "upload" -> Files
    [] o = "intake" -> Texts
    [] o = "move" -> Statuses
    [] o = "apply" -> {"draft"}
    [] OTHER -> {"none"}

\* The variables of the requests are functions on the calls.
RequestTypes ==
  /\ op \in [Calls -> Operations]
  /\ about = [c \in Calls |-> about[c]]
  /\ cookie \in [Calls -> Accounts \cup {Nobody}]
  /\ who \in [Calls -> Accounts \cup {Nobody}]
  /\ step = [c \in Calls |-> step[c]]
  /\ state \in [Calls -> States]
  /\ failures \in 0 .. MaxFailures
  /\ late \subseteq Calls

\* A call follows the steps of its operation and acts for an account once it is known;
\* only a failed one has left a statement behind, and none has under the memory driver.
CallOK(c) ==
  /\ step[c] \in StepsOf(op[c])
  /\ about[c] \in NamedBy(op[c])
  /\ state[c] = "idle" <=> op[c] = "none"
  /\ step[c] \notin Early => who[c] \in Accounts
  /\ c \in late => state[c] = "failed" /\ Driver = "postgres"

RequestsInv == RequestTypes /\ \A c \in Calls : CallOK(c)

\* Only call c has acted.
Alone(c) ==
  \A d \in Calls \ {c} :
    /\ op'[d] = op[d] /\ about'[d] = about[d] /\ cookie'[d] = cookie[d] /\ who'[d] = who[d]
    /\ step'[d] = step[d] /\ state'[d] = state[d] /\ (d \in late' <=> d \in late)

-----------------------------------------------------------------------------
(* What the operators of Requests do.                                            *)

LEMMA ArriveActs ==
  ASSUME RequestsInv, NEW c \in Calls, NEW o \in Operations \ {"none"}, NEW a \in NamedBy(o),
         NEW k \in Accounts \cup {Nobody}, NEW s \in StepsOf(o) \cap Early, Arrive(c, o, a, k, s)
  PROVE  /\ RequestsInv' /\ Alone(c) /\ late' = late
         /\ op[c] = "none" /\ op'[c] = o /\ cookie'[c] = k
         /\ step[c] = "none" /\ step'[c] = s /\ state'[c] = "open"
<1> USE DEF RequestsInv, RequestTypes, Arrive
<1>1. Alone(c) /\ op'[c] = o /\ about'[c] = a /\ cookie'[c] = k /\ step'[c] = s /\ state'[c] = "open"
  BY DEF Alone
<1>2. op[c] = "none" /\ step[c] = "none" /\ c \notin late
  BY DEF CallOK, StepsOf
<1>3. RequestTypes'
  BY DEF StepsOf, Front, States
<1>4. CallOK(c)'
  BY <1>1, <1>2 DEF CallOK
<1>5. \A d \in Calls \ {c} : CallOK(d)'
  BY <1>1 DEF CallOK, Alone
<1> QED BY <1>1, <1>2, <1>3, <1>4, <1>5

LEMMA ProceedActs ==
  ASSUME RequestsInv, NEW c \in Calls, NEW s \in StepsOf(op[c]), Open(c), Proceed(c, s),
         s \notin Early => who[c] \in Accounts
  PROVE  /\ RequestsInv' /\ Alone(c) /\ late' = late
         /\ op' = op /\ about' = about /\ cookie' = cookie /\ who' = who /\ state' = state
         /\ step'[c] = s
<1> USE DEF RequestsInv, RequestTypes, Proceed
<1>1. Alone(c) /\ step'[c] = s
  BY DEF Alone
<1>2. RequestTypes'
  BY DEF StepsOf, Front
<1>3. CallOK(c)'
  BY <1>1 DEF CallOK
<1>4. \A d \in Calls \ {c} : CallOK(d)'
  BY <1>1 DEF CallOK, Alone
<1> QED BY <1>1, <1>2, <1>3, <1>4

LEMMA ProceedAsActs ==
  ASSUME RequestsInv, NEW c \in Calls, NEW s \in StepsOf(op[c]), NEW u \in Accounts, Open(c),
         ProceedAs(c, u, s)
  PROVE  /\ RequestsInv' /\ Alone(c) /\ late' = late
         /\ op' = op /\ about' = about /\ cookie' = cookie /\ state' = state
         /\ step'[c] = s /\ who'[c] = u
<1> USE DEF RequestsInv, RequestTypes, ProceedAs
<1>1. Alone(c) /\ step'[c] = s /\ who'[c] = u
  BY DEF Alone
<1>2. RequestTypes'
  BY DEF StepsOf, Front
<1>3. CallOK(c)'
  BY <1>1 DEF CallOK
<1>4. \A d \in Calls \ {c} : CallOK(d)'
  BY <1>1 DEF CallOK, Alone
<1> QED BY <1>1, <1>2, <1>3, <1>4

LEMMA AnswerActs ==
  ASSUME RequestsInv, NEW c \in Calls, NEW outcome \in {"ok", "refused", "failed"}, Open(c),
         Answer(c, outcome)
  PROVE  /\ RequestsInv' /\ Alone(c) /\ late' = late
         /\ op' = op /\ about' = about /\ cookie' = cookie /\ who' = who /\ step' = step
         /\ state'[c] = outcome
<1> USE DEF RequestsInv, RequestTypes, Answer
<1>1. Alone(c) /\ state'[c] = outcome
  BY DEF Alone
<1>2. RequestTypes'
  BY DEF States
<1>3. CallOK(c)'
  BY <1>1 DEF CallOK, Open, States
<1>4. \A d \in Calls \ {c} : CallOK(d)'
  BY <1>1 DEF CallOK, Alone
<1> QED BY <1>1, <1>2, <1>3, <1>4

LEMMA ArrivesActs ==
  ASSUME RequestsInv, NEW c \in Calls, Arrives(c)
  PROVE  /\ RequestsInv' /\ Alone(c) /\ c \in late /\ c \notin late' /\ late' \subseteq late
         /\ op' = op /\ about' = about /\ cookie' = cookie /\ who' = who /\ step' = step /\ state' = state
         /\ state[c] = "failed" /\ Driver = "postgres"
  BY DEF RequestsInv, RequestTypes, Arrives, CallOK, Alone

-----------------------------------------------------------------------------
(* The paths of the operations.                                                  *)

LEMMA AfterSignup ==
  ASSUME NEW c \in Calls
  PROVE  /\ step[c] = "lookup" => After(c, SignupSteps) = "user"
         /\ step[c] = "user" => After(c, SignupSteps) = "hash"
         /\ step[c] = "hash" => After(c, SignupSteps) = "identity"
         /\ step[c] = "identity" => After(c, SignupSteps) = "session" /\ ~IsLast(c, SignupSteps)
         /\ step[c] = "session" => IsLast(c, SignupSteps)
<1>1. Len(SignupSteps) = 5
  BY DEF SignupSteps
<1>2. ASSUME NEW n \in 1 .. 5, SignupSteps[n] = step[c]
      PROVE  After(c, SignupSteps) = SignupSteps[1 + n]
  <2>1. \A i \in 1 .. Len(SignupSteps) : SignupSteps[i] = step[c] => i = n
    BY <1>1, <1>2 DEF SignupSteps
  <2>2. (CHOOSE i \in 1 .. Len(SignupSteps) : SignupSteps[i] = step[c]) = n
    BY <1>1, <1>2, <2>1
  <2> QED BY <2>2 DEF After
<1> QED BY <1>1, <1>2 DEF SignupSteps, IsLast

LEMMA AfterLogin ==
  ASSUME NEW c \in Calls
  PROVE  /\ step[c] = "identify" => After(c, LoginSteps) = "verify"
         /\ step[c] = "verify" => After(c, LoginSteps) = "account"
         /\ step[c] = "account" => After(c, LoginSteps) = "session"
         /\ step[c] = "session" => IsLast(c, LoginSteps)
<1>1. Len(LoginSteps) = 4
  BY DEF LoginSteps
<1>2. ASSUME NEW n \in 1 .. 4, LoginSteps[n] = step[c]
      PROVE  After(c, LoginSteps) = LoginSteps[1 + n]
  <2>1. \A i \in 1 .. Len(LoginSteps) : LoginSteps[i] = step[c] => i = n
    BY <1>1, <1>2 DEF LoginSteps
  <2>2. (CHOOSE i \in 1 .. Len(LoginSteps) : LoginSteps[i] = step[c]) = n
    BY <1>1, <1>2, <2>1
  <2> QED BY <2>2 DEF After
<1> QED BY <1>1, <1>2 DEF LoginSteps, IsLast

LEMMA AfterUpload ==
  ASSUME NEW c \in Calls
  PROVE  /\ step[c] = "duplicate" => After(c, UploadSteps) = "object"
         /\ step[c] = "object" => After(c, UploadSteps) = "opened" /\ ~IsLast(c, UploadSteps)
         /\ step[c] = "opened" => After(c, UploadSteps) = "file" /\ ~IsLast(c, UploadSteps)
         /\ step[c] = "file" => After(c, UploadSteps) = "resume"
         /\ step[c] = "resume" => After(c, UploadSteps) = "job" /\ ~IsLast(c, UploadSteps)
         /\ step[c] = "job" => IsLast(c, UploadSteps)
<1>1. Len(UploadSteps) = 6
  BY DEF UploadSteps
<1>2. ASSUME NEW n \in 1 .. 6, UploadSteps[n] = step[c]
      PROVE  After(c, UploadSteps) = UploadSteps[1 + n]
  <2>1. \A i \in 1 .. Len(UploadSteps) : UploadSteps[i] = step[c] => i = n
    BY <1>1, <1>2 DEF UploadSteps
  <2>2. (CHOOSE i \in 1 .. Len(UploadSteps) : UploadSteps[i] = step[c]) = n
    BY <1>1, <1>2, <2>1
  <2> QED BY <2>2 DEF After
<1> QED BY <1>1, <1>2 DEF UploadSteps, IsLast

-----------------------------------------------------------------------------
(* Failures.                                                                    *)

\* Nothing but a failure has happened to the requests.
Failed ==
  /\ op' = op /\ about' = about /\ cookie' = cookie /\ who' = who /\ step' = step
  /\ \A c \in Calls :
       /\ state'[c] = state[c] \/ (Open(c) /\ state'[c] = "failed")
       /\ c \in late' => c \in late \/ Open(c)
       /\ Driver = "memory" => state'[c] = state[c]

LEMMA FailureActs ==
  ASSUME RequestsInv, Failure
  PROVE  RequestsInv' /\ Failed
<1> USE DEF RequestsInv, RequestTypes
<1>1. CASE \E c \in Calls : CallFails(c, Writing)
  <2>1. PICK c \in Calls : CallFails(c, Writing)
    BY <1>1
  <2> USE <2>1 DEF CallFails, Writing
  <2>2. RequestTypes'
    BY RequestsAssumption DEF States
  <2>3. Failed
    BY RequestsAssumption DEF Failed
  <2>4. \A d \in Calls : CallOK(d)'
    BY DEF CallOK, Open
  <2> QED BY <2>2, <2>3, <2>4
<1>2. CASE ProcessEnds(Writing)
  <2> USE <1>2 DEF ProcessEnds, Writing
  <2>2. RequestTypes'
    BY RequestsAssumption DEF States
  <2>3. Failed
    BY RequestsAssumption DEF Failed
  <2>4. \A d \in Calls : CallOK(d)'
    BY DEF CallOK, Open
  <2> QED BY <2>2, <2>3, <2>4
<1> QED BY <1>1, <1>2 DEF Failure

-----------------------------------------------------------------------------
(* Resume uploads.                                                              *)

\* What the step of an upload says of its object and of its rows.
UploadCallOK(c) ==
  op[c] = "upload" =>
    /\ step[c] \in {"opened", "file"} => objects[<<who[c], about[c]>>] # "absent"
    /\ step[c] \in {"resume", "job"} => FileRow(c) \in files
    /\ step[c] = "job" => ResumeRow(c) \in resumes
    /\ state[c] = "ok" => JobRow(c) \in jobs
    /\ state[c] = "refused" => step[c] \in Front \cup {"duplicate"}

\* What a row says of the upload that made it.
UploadRowsOK ==
  /\ \A f \in files : /\ op[f.id] = "upload" /\ step[f.id] \in {"file", "resume", "job"} /\ f = FileRow(f.id)
                      /\ objects[<<f.user, f.file>>] # "absent"
  /\ \A r \in resumes : r = ResumeRow(r.id) /\ FileRow(r.id) \in files
  /\ \A j \in jobs : j = JobRow(j.id) /\ ResumeRow(j.id) \in resumes

\* An object that is partial is being written, or its writing was broken off.
PartialIsWritten ==
  \A u \in Accounts, f \in Files :
    objects[<<u, f>>] = "partial" =>
      /\ Store = "filesystem"
      /\ \E d \in Calls : op[d] = "upload" /\ step[d] = "opened" /\ Unfinished(d) /\ who[d] = u /\ about[d] = f

FilesAreUnique ==
  Driver = "postgres" => \A f, g \in files : f.user = g.user /\ f.file = g.file => f = g

UploadInv ==
  UploadType /\ (\A c \in Calls : UploadCallOK(c)) /\ UploadRowsOK /\ PartialIsWritten /\ FilesAreUnique

\* A step that is no part of an upload proper leaves the uploads alone.
LEMMA UploadFrame ==
  ASSUME RequestsInv, UploadInv, NEW c \in Calls, Alone(c), UNCHANGED uploadVars,
         op[c] # "upload" \/ step[c] \in Front \cup {"none"},
         op'[c] = "upload" => step'[c] \in Front \cup {"duplicate"} /\ state'[c] # "ok"
  PROVE  UploadInv'
<1> USE DEF UploadInv, uploadVars, Front
<1>1. UploadType'
  BY DEF UploadType
<1>2. \A d \in Calls : UploadCallOK(d)'
  BY DEF UploadCallOK, Alone, FileRow, ResumeRow, JobRow
<1>3. \A f \in files : f.id # c /\ f.id \in Calls
  BY DEF UploadRowsOK, UploadType
<1>4. UploadRowsOK'
  <2>1. \A f \in files : op'[f.id] = "upload" /\ step'[f.id] \in {"file", "resume", "job"} /\ f = FileRow(f.id)'
    BY <1>3, ZenonT(60) DEF UploadRowsOK, Alone, FileRow
  <2>2. \A r \in resumes : r.id \in Calls /\ r.id # c
    BY <1>3 DEF UploadRowsOK, UploadType, FileRow
  <2>3. \A r \in resumes : r = ResumeRow(r.id)' /\ (FileRow(r.id) \in files)'
    BY <2>2 DEF UploadRowsOK, Alone, FileRow, ResumeRow
  <2>4. \A j \in jobs : j.id \in Calls /\ j.id # c
    BY <2>2 DEF UploadRowsOK, UploadType, ResumeRow
  <2>5. \A j \in jobs : j = JobRow(j.id)' /\ (ResumeRow(j.id) \in resumes)'
    BY <2>4 DEF UploadRowsOK, Alone, JobRow, ResumeRow
  <2> QED BY <2>1, <2>3, <2>5 DEF UploadRowsOK
<1>5. PartialIsWritten'
  BY DEF PartialIsWritten, Alone, Unfinished
<1>6. FilesAreUnique'
  BY DEF FilesAreUnique
<1> QED BY <1>1, <1>2, <1>4, <1>5, <1>6

LEMMA UploadFailure ==
  ASSUME RequestsInv, UploadInv, Failed, UNCHANGED uploadVars
  PROVE  UploadInv'
<1> USE DEF UploadInv, uploadVars, Failed
<1>1. UploadType'
  BY DEF UploadType
<1>2. \A d \in Calls : UploadCallOK(d)'
  BY DEF UploadCallOK, FileRow, ResumeRow, JobRow, Open
<1>3. UploadRowsOK' /\ FilesAreUnique'
  BY DEF UploadRowsOK, FileRow, ResumeRow, JobRow, FilesAreUnique
<1>4. PartialIsWritten'
  BY DEF PartialIsWritten, Unfinished, Open
<1> QED BY <1>1, <1>2, <1>3, <1>4

\* The operation of a step, where only one has it.
LEMMA StepTells ==
  ASSUME RequestsInv, NEW c \in Calls
  PROVE  /\ step[c] \in {"lookup", "user", "hash", "identity"} => op[c] = "signup"
         /\ step[c] \in {"identify", "verify", "account"} => op[c] = "login"
         /\ step[c] = "session" => op[c] \in {"signup", "login"}
         /\ step[c] = "revoke" => op[c] = "logout"
         /\ step[c] \in {"duplicate", "object", "opened", "file", "resume", "job"} => op[c] = "upload"
         /\ step[c] \in {"existing", "requirements", "keywords", "describe", "part"} => op[c] = "intake"
         /\ step[c] \in {"references", "application", "created", "attach"} => op[c] = "apply"
         /\ step[c] \in {"current", "update", "event"} => op[c] = "move"
         /\ step[c] \in {"noted", "keep", "tell"} => op[c] = "note"
         /\ step[c] = "get" => op[c] \in {"apply", "move"}
  BY DEF RequestsInv, RequestTypes, Operations, CallOK, StepsOf, Front

\* An object is written: a partial one has its writer.
LEMMA WriteObjectKeeps ==
  ASSUME RequestsInv, UploadInv, NEW c \in Calls, op[c] = "upload", Unfinished(c),
         step[c] \in {"object", "opened"}, WriteObject(c), Alone(c),
         op' = op, about' = about, who' = who, state' = state,
         step[c] = "object" => Store = "minio" \/ step'[c] = "opened"
  PROVE  /\ objects' \in [Accounts \X Files -> {"absent", "partial", "whole"}]
         /\ objects'[<<who[c], about[c]>>] # "absent"
         /\ \A k \in Accounts \X Files : objects[k] # "absent" => objects'[k] # "absent"
         /\ PartialIsWritten'
<1> DEFINE k == <<who[c], about[c]>>
<1>1. k \in Accounts \X Files
  BY DEF RequestsInv, CallOK, Early, Front, NamedBy
<1>2. PICK is \in {"partial", "whole"} :
        /\ objects' = [objects EXCEPT ![k] = is]
        /\ is = "partial" => Store = "filesystem" /\ (step[c] = "object" \/ Writers(c) \ {c} # {})
  BY StoreAssumption DEF WriteObject
<1>3. objects \in [Accounts \X Files -> {"absent", "partial", "whole"}]
  BY DEF UploadInv, UploadType
<1>4. ASSUME NEW u \in Accounts, NEW f \in Files, objects'[<<u, f>>] = "partial", <<u, f>> # k
      PROVE  /\ Store = "filesystem"
             /\ \E d \in Calls : op'[d] = "upload" /\ step'[d] = "opened" /\ Unfinished(d)' /\ who'[d] = u /\ about'[d] = f
  <2>1. objects[<<u, f>>] = "partial"
    BY <1>1, <1>2, <1>3, <1>4
  <2>2. PICK d \in Calls : op[d] = "upload" /\ step[d] = "opened" /\ Unfinished(d) /\ who[d] = u /\ about[d] = f
    BY <2>1 DEF UploadInv, PartialIsWritten
  <2>3. d # c
    BY <2>2, <1>4
  <2> QED BY <2>1, <2>2, <2>3 DEF UploadInv, PartialIsWritten, Alone, Unfinished
<1>5. ASSUME objects'[k] = "partial"
      PROVE  /\ Store = "filesystem"
             /\ \E d \in Calls : op'[d] = "upload" /\ step'[d] = "opened" /\ Unfinished(d)' /\ who'[d] = who[c] /\ about'[d] = about[c]
  <2>1. is = "partial"
    BY <1>1, <1>2, <1>3, <1>5
  <2>2. CASE step[c] = "object"
    BY <1>2, <2>1, <2>2 DEF Unfinished
  <2>3. CASE step[c] # "object"
    <3>1. PICK d \in Writers(c) : d # c
      BY <1>2, <2>1, <2>3
    <3> QED BY <1>2, <2>1, <3>1 DEF Writers, Uploads, Alone, Unfinished
  <2> QED BY <2>2, <2>3
<1>6. PartialIsWritten'
  <2> SUFFICES ASSUME NEW u \in Accounts, NEW f \in Files, objects'[<<u, f>>] = "partial"
               PROVE  /\ Store = "filesystem"
                      /\ \E d \in Calls : op'[d] = "upload" /\ step'[d] = "opened" /\ Unfinished(d)' /\ who'[d] = u /\ about'[d] = f
    BY DEF PartialIsWritten
  <2>1. CASE <<u, f>> = k
    BY <1>5, <2>1
  <2>2. CASE <<u, f>> # k
    BY <1>4, <2>2
  <2> QED BY <2>1, <2>2
<1> QED BY <1>1, <1>2, <1>3, <1>6

\* What a step of an upload must show for the invariant to be kept.
LEMMA UploadMoves ==
  ASSUME RequestsInv, UploadInv, NEW c \in Calls, op[c] = "upload", Alone(c),
         op' = op, about' = about, who' = who,
         UploadType', PartialIsWritten', UploadCallOK(c)',
         \A k \in Accounts \X Files : objects[k] # "absent" => objects'[k] # "absent",
         files' \in {files, files \cup {FileRow(c)}},
         resumes' \in {resumes, resumes \cup {ResumeRow(c)}},
         jobs' \in {jobs, jobs \cup {JobRow(c)}},
         FileRow(c) \in files' =>
           step'[c] \in {"file", "resume", "job"} /\ objects'[<<who[c], about[c]>>] # "absent",
         Driver = "postgres" /\ files' # files => ~Uploaded(c),
         resumes' # resumes => FileRow(c) \in files,
         jobs' # jobs => ResumeRow(c) \in resumes
  PROVE  UploadInv'
<1>1. \A d \in Calls : FileRow(d)' = FileRow(d) /\ ResumeRow(d)' = ResumeRow(d) /\ JobRow(d)' = JobRow(d)
  BY DEF FileRow, ResumeRow, JobRow
<1>2. files \subseteq files' /\ resumes \subseteq resumes' /\ jobs \subseteq jobs'
  OBVIOUS
<1>3. \A d \in Calls : UploadCallOK(d)'
  <2> SUFFICES ASSUME NEW d \in Calls, d # c PROVE UploadCallOK(d)'
    OBVIOUS
  <2>1. UploadCallOK(d) /\ step'[d] = step[d] /\ state'[d] = state[d]
    BY DEF UploadInv, Alone
  <2>2. op[d] = "upload" /\ step[d] \in {"opened", "file"} => <<who[d], about[d]>> \in Accounts \X Files
    BY DEF RequestsInv, CallOK, Early, Front, NamedBy
  <2> QED BY <1>1, <1>2, <2>1, <2>2 DEF UploadCallOK
<1>4. UploadRowsOK'
  <2>1. \A f \in files : f.id \in Calls /\ <<f.user, f.file>> \in Accounts \X Files
    BY DEF UploadInv, UploadType
  <2>2. \A f \in files : /\ op'[f.id] = "upload" /\ step'[f.id] \in {"file", "resume", "job"} /\ f = FileRow(f.id)'
                         /\ objects'[<<f.user, f.file>>] # "absent"
    <3> SUFFICES ASSUME NEW f \in files
                 PROVE  /\ op'[f.id] = "upload" /\ step'[f.id] \in {"file", "resume", "job"} /\ f = FileRow(f.id)'
                        /\ objects'[<<f.user, f.file>>] # "absent"
      OBVIOUS
    <3>1. op[f.id] = "upload" /\ step[f.id] \in {"file", "resume", "job"} /\ f = FileRow(f.id)
          /\ objects[<<f.user, f.file>>] # "absent"
      BY DEF UploadInv, UploadRowsOK
    <3>2. step'[f.id] \in {"file", "resume", "job"}
      BY <1>2, <2>1, <3>1 DEF Alone
    <3> QED BY <1>1, <2>1, <3>1, <3>2
  <2>3. FileRow(c) \in files' => /\ op'[c] = "upload" /\ FileRow(c).id = c
                                 /\ objects'[<<FileRow(c).user, FileRow(c).file>>] # "absent"
    BY DEF FileRow
  <2>4. \A f \in files' : /\ op'[f.id] = "upload" /\ step'[f.id] \in {"file", "resume", "job"} /\ f = FileRow(f.id)'
                          /\ objects'[<<f.user, f.file>>] # "absent"
    BY <1>1, <2>2, <2>3
  <2>5. \A r \in resumes : r.id \in Calls /\ r = ResumeRow(r.id) /\ FileRow(r.id) \in files
    BY DEF UploadInv, UploadType, UploadRowsOK
  <2>6. ResumeRow(c).id = c
    BY DEF ResumeRow
  <2>7. \A r \in resumes' : r = ResumeRow(r.id)' /\ (FileRow(r.id) \in files)'
    BY <1>1, <1>2, <2>5, <2>6
  <2>8. \A j \in jobs : j.id \in Calls /\ j = JobRow(j.id) /\ ResumeRow(j.id) \in resumes
    BY DEF UploadInv, UploadType, UploadRowsOK
  <2>9. JobRow(c).id = c
    BY DEF JobRow
  <2>10. \A j \in jobs' : j = JobRow(j.id)' /\ (ResumeRow(j.id) \in resumes)'
    BY <1>1, <1>2, <2>8, <2>9
  <2> QED BY <2>4, <2>7, <2>10 DEF UploadRowsOK
<1>5. FilesAreUnique'
  <2> SUFFICES ASSUME Driver = "postgres", NEW f \in files', NEW g \in files', f.user = g.user, f.file = g.file
               PROVE  f = g
    BY DEF FilesAreUnique
  <2>1. FileRow(c).user = who[c] /\ FileRow(c).file = about[c]
    BY DEF FileRow
  <2> QED BY <2>1 DEF UploadInv, FilesAreUnique, Uploaded
<1> QED BY <1>3, <1>4, <1>5 DEF UploadInv

\* A step of an upload that writes nothing, or one that only the requests see.
LEMMA UploadIdles ==
  ASSUME RequestsInv, UploadInv, NEW c \in Calls, op[c] = "upload", Alone(c),
         op' = op, about' = about, who' = who, UNCHANGED uploadVars,
         UploadCallOK(c)', FileRow(c) \in files => step'[c] \in {"file", "resume", "job"},
         step[c] = "opened" /\ Unfinished(c) => Store = "minio" \/ (step'[c] = "opened" /\ Unfinished(c)')
  PROVE  UploadInv'
<1> USE DEF uploadVars
<1>1. UploadType'
  BY DEF UploadInv, UploadType
<1>2. PartialIsWritten'
  BY StoreAssumption DEF UploadInv, PartialIsWritten, Alone, Unfinished
<1>3. FileRow(c) \in files => objects[<<who[c], about[c]>>] # "absent"
  BY DEF UploadInv, UploadRowsOK, FileRow
<1> QED BY <1>1, <1>2, <1>3, UploadMoves

\* An upload that writes a row at its step, on its way or given up.
LEMMA UploadWrites ==
  ASSUME RequestsInv, UploadInv, NEW c \in Calls, op[c] = "upload", Alone(c), Unfinished(c),
         op' = op, about' = about, who' = who, Unfinished(c)' \/ step[c] = "job",
         state'[c] # "refused", state'[c] = "ok" => step[c] = "job",
         step[c] \in {"file", "resume", "job"}, WriteUpload(c), FileIsFree(c),
         step'[c] = step[c] \/ (step[c] = "file" /\ step'[c] = "resume") \/ (step[c] = "resume" /\ step'[c] = "job")
  PROVE  UploadInv'
<1>1. who[c] \in Accounts /\ about[c] \in Files
  BY DEF RequestsInv, CallOK, Early, Front, NamedBy
<1>2. UploadCallOK(c) /\ UploadType
  BY DEF UploadInv
<1>3. FileRow(c)' = FileRow(c) /\ ResumeRow(c)' = ResumeRow(c) /\ JobRow(c)' = JobRow(c)
  BY DEF FileRow, ResumeRow, JobRow
<1>4. objects' = objects
  BY DEF WriteUpload
<1>5. UploadType'
  BY <1>1, <1>2, <1>4 DEF WriteUpload, UploadType, FileRow, ResumeRow, JobRow
<1>6. PartialIsWritten'
  BY <1>4 DEF UploadInv, PartialIsWritten, Alone, Unfinished
<1>7. FileRow(c) \in files => objects[<<who[c], about[c]>>] # "absent"
  BY DEF UploadInv, UploadRowsOK, FileRow
<1>8. UploadCallOK(c)'
  BY <1>2, <1>3, <1>4 DEF UploadCallOK, WriteUpload, Unfinished
<1>9. CASE step[c] = "file"
  BY <1>2, <1>4, <1>5, <1>6, <1>7, <1>8, <1>9, UploadMoves DEF WriteUpload, FileIsFree, UploadCallOK
<1>10. CASE step[c] = "resume"
  BY <1>2, <1>4, <1>5, <1>6, <1>7, <1>8, <1>10, UploadMoves DEF WriteUpload, UploadCallOK
<1>11. CASE step[c] = "job"
  BY <1>2, <1>4, <1>5, <1>6, <1>7, <1>8, <1>11, UploadMoves DEF WriteUpload, UploadCallOK
<1> QED BY <1>9, <1>10, <1>11

\* An upload that writes its object.
LEMMA UploadStores ==
  ASSUME RequestsInv, UploadInv, NEW c \in Calls, op[c] = "upload", Alone(c), Unfinished(c),
         op' = op, about' = about, who' = who, state' = state,
         step[c] \in {"object", "opened"}, WriteUpload(c),
         step[c] = "object" => step'[c] = "opened" \/ (step'[c] = "object" /\ Store = "minio"),
         step[c] = "opened" => step'[c] = "file"
  PROVE  UploadInv'
<1>1. WriteObject(c) /\ UNCHANGED <<files, resumes, jobs>>
  BY DEF WriteUpload
<1>2. /\ objects' \in [Accounts \X Files -> {"absent", "partial", "whole"}]
      /\ objects'[<<who[c], about[c]>>] # "absent"
      /\ \A k \in Accounts \X Files : objects[k] # "absent" => objects'[k] # "absent"
      /\ PartialIsWritten'
  BY <1>1, WriteObjectKeeps
<1>3. UploadType'
  BY <1>1, <1>2 DEF UploadInv, UploadType
<1>4. UploadCallOK(c)'
  BY <1>2 DEF UploadCallOK, Unfinished
<1>5. FileRow(c) \notin files
  BY DEF UploadInv, UploadRowsOK, FileRow
<1> QED BY <1>1, <1>2, <1>3, <1>4, <1>5, UploadMoves

\* The steps of an upload keep its invariant.
LEMMA UploadKeeps ==
  ASSUME RequestsInv, UploadInv, NEW c \in Calls, UploadStep(c)
  PROVE  /\ RequestsInv' /\ UploadInv' /\ Alone(c) /\ op' = op /\ cookie' = cookie
         /\ op[c] = "upload" /\ step[c] \notin Front
<1>1. UploadCallOK(c)
  BY DEF UploadInv
<1>2. FileRow(c) \in files => step[c] \in {"file", "resume", "job"}
  BY DEF UploadInv, UploadRowsOK, FileRow
<1>4. CASE FindByChecksum(c)
  <2>1. op[c] = "upload" /\ Open(c) /\ step[c] = "duplicate" /\ who[c] \in Accounts
    BY <1>4, StepTells DEF FindByChecksum, At, RequestsInv, CallOK, Early, Front
  <2>2. CASE Uploaded(c)
    <3>1. Answer(c, "refused") /\ UNCHANGED uploadVars
      BY <1>4, <2>2 DEF FindByChecksum
    <3>2. /\ RequestsInv' /\ Alone(c) /\ op' = op /\ cookie' = cookie
          /\ about' = about /\ who' = who /\ step' = step /\ state'[c] = "refused"
      BY <2>1, <3>1, AnswerActs
    <3>3. UploadCallOK(c)'
      BY <2>1, <3>2 DEF UploadCallOK
    <3> QED BY <1>2, <2>1, <3>1, <3>2, <3>3, UploadIdles DEF Front
  <2>3. CASE ~Uploaded(c)
    <3>1. Proceed(c, "object") /\ UNCHANGED uploadVars /\ "object" \in StepsOf(op[c])
      BY <1>4, <2>1, <2>3, AfterUpload DEF FindByChecksum, StepsOf
    <3>2. /\ RequestsInv' /\ Alone(c) /\ op' = op /\ cookie' = cookie
          /\ about' = about /\ who' = who /\ state' = state /\ step'[c] = "object"
      BY <2>1, <3>1, ProceedActs
    <3>3. UploadCallOK(c)'
      BY <2>1, <3>2 DEF UploadCallOK, Open
    <3> QED BY <1>2, <2>1, <3>1, <3>2, <3>3, UploadIdles DEF Front
  <2> QED BY <2>2, <2>3
<1>5. CASE PutObject(c)
  <2>1. /\ op[c] = "upload" /\ Open(c) /\ step[c] \in {"object", "opened"} /\ who[c] \in Accounts
        /\ Unfinished(c)
    BY <1>5, StepTells DEF PutObject, At, RequestsInv, CallOK, Early, Front, Unfinished, Open
  <2>2. PICK s \in {"opened", "file"} :
          Proceed(c, s) /\ (step[c] = "object" <=> s = "opened") /\ s \in StepsOf(op[c])
    BY <1>5, <2>1, AfterUpload DEF PutObject, Advance, StepsOf
  <2>3. /\ RequestsInv' /\ Alone(c) /\ op' = op /\ cookie' = cookie
        /\ about' = about /\ who' = who /\ state' = state /\ step'[c] = s
    BY <2>1, <2>2, ProceedActs
  <2>4. CASE step[c] = "opened" /\ Store = "minio"
    <3>1. UNCHANGED uploadVars
      BY <1>5, <2>4 DEF PutObject
    <3>2. UploadCallOK(c)'
      BY <1>1, <2>1, <2>2, <2>3, <2>4, <3>1 DEF UploadCallOK, Open, uploadVars
    <3> QED BY <1>2, <2>1, <2>2, <2>3, <2>4, <3>1, <3>2, UploadIdles DEF Front
  <2>5. CASE ~(step[c] = "opened" /\ Store = "minio")
    <3>1. WriteUpload(c)
      BY <1>5, <2>5 DEF PutObject
    <3> QED BY <2>1, <2>2, <2>3, <3>1, UploadStores DEF Front
  <2> QED BY <2>4, <2>5
<1>6. CASE CreateUploadedFile(c)
  <2>1. /\ op[c] = "upload" /\ Open(c) /\ step[c] = "file" /\ who[c] \in Accounts
        /\ Unfinished(c)
    BY <1>6, StepTells DEF CreateUploadedFile, At, RequestsInv, CallOK, Early, Front, Unfinished, Open
  <2>2. CASE FileIsFree(c)
    <3>1. WriteUpload(c) /\ Proceed(c, "resume") /\ "resume" \in StepsOf(op[c])
      BY <1>6, <2>1, <2>2, AfterUpload DEF CreateUploadedFile, StepsOf
    <3>2. /\ RequestsInv' /\ Alone(c) /\ op' = op /\ cookie' = cookie
          /\ about' = about /\ who' = who /\ state' = state /\ step'[c] = "resume"
      BY <2>1, <3>1, ProceedActs
    <3>3. Unfinished(c)' /\ state'[c] = "open"
      BY <2>1, <3>2 DEF Unfinished, Open
    <3> QED BY <2>1, <2>2, <3>1, <3>2, <3>3, UploadWrites DEF Front
  <2>3. CASE ~FileIsFree(c)
    <3>1. Answer(c, "failed") /\ UNCHANGED uploadVars
      BY <1>6, <2>3 DEF CreateUploadedFile
    <3>2. /\ RequestsInv' /\ Alone(c) /\ op' = op /\ cookie' = cookie
          /\ about' = about /\ who' = who /\ step' = step /\ state'[c] = "failed"
      BY <2>1, <3>1, AnswerActs
    <3>3. UploadCallOK(c)'
      BY <1>1, <2>1, <3>1, <3>2 DEF UploadCallOK, uploadVars
    <3> QED BY <1>2, <2>1, <3>1, <3>2, <3>3, UploadIdles DEF Front
  <2> QED BY <2>2, <2>3
<1>7. CASE CreateResume(c)
  <2>1. /\ op[c] = "upload" /\ Open(c) /\ step[c] = "resume" /\ who[c] \in Accounts
        /\ Unfinished(c) /\ FileIsFree(c)
    BY <1>7, StepTells DEF CreateResume, At, RequestsInv, CallOK, Early, Front, Unfinished, Open, FileIsFree
  <2>2. WriteUpload(c) /\ Proceed(c, "job") /\ "job" \in StepsOf(op[c])
    BY <1>7, <2>1, AfterUpload DEF CreateResume, Advance, StepsOf
  <2>3. /\ RequestsInv' /\ Alone(c) /\ op' = op /\ cookie' = cookie
        /\ about' = about /\ who' = who /\ state' = state /\ step'[c] = "job"
    BY <2>1, <2>2, ProceedActs
  <2>4. Unfinished(c)' /\ state'[c] = "open"
    BY <2>1, <2>3 DEF Unfinished, Open
  <2> QED BY <2>1, <2>2, <2>3, <2>4, UploadWrites DEF Front
<1>8. CASE SubmitJob(c)
  <2>1. /\ op[c] = "upload" /\ Open(c) /\ step[c] = "job" /\ Unfinished(c) /\ FileIsFree(c)
    BY <1>8, StepTells DEF SubmitJob, At, Unfinished, Open, FileIsFree
  <2>2. WriteUpload(c) /\ Answer(c, "ok")
    BY <1>8, <2>1, AfterUpload DEF SubmitJob, Advance
  <2>3. /\ RequestsInv' /\ Alone(c) /\ op' = op /\ cookie' = cookie
        /\ about' = about /\ who' = who /\ step' = step /\ state'[c] = "ok"
    BY <2>1, <2>2, AnswerActs
  <2> QED BY <2>1, <2>2, <2>3, UploadWrites DEF Front
<1>9. CASE LateUploadWrite(c)
  <2>1. /\ RequestsInv' /\ Alone(c) /\ op' = op /\ about' = about /\ cookie' = cookie /\ who' = who
        /\ step' = step /\ state' = state /\ state[c] = "failed"
    BY <1>9, ArrivesActs DEF LateUploadWrite
  <2>2. /\ step[c] \in {"object", "file", "resume", "job"} /\ (step[c] = "object" => Store = "minio")
        /\ op[c] = "upload" /\ step[c] \notin Front
    BY <1>9, StepTells DEF LateUploadWrite, WritesUploads, Front
  <2>3. Unfinished(c) /\ Unfinished(c)'
    BY <2>1 DEF Unfinished
  <2>4. CASE FileIsFree(c)
    <3>1. WriteUpload(c)
      BY <1>9, <2>4 DEF LateUploadWrite
    <3>2. CASE step[c] = "object"
      BY <2>1, <2>2, <2>3, <3>1, <3>2, UploadStores
    <3>3. CASE step[c] # "object"
      BY <2>1, <2>2, <2>3, <2>4, <3>1, <3>3, UploadWrites
    <3> QED BY <2>1, <2>2, <3>2, <3>3
  <2>5. CASE ~FileIsFree(c)
    <3>1. UNCHANGED uploadVars
      BY <1>9, <2>5 DEF LateUploadWrite
    <3>2. UploadCallOK(c)'
      BY <1>1, <2>1, <3>1 DEF UploadCallOK, uploadVars, FileRow, ResumeRow, JobRow
    <3> QED BY <1>2, <2>1, <2>2, <3>1, <3>2, UploadIdles
  <2> QED BY <2>4, <2>5
<1> QED BY <1>4, <1>5, <1>6, <1>7, <1>8, <1>9 DEF UploadStep

-----------------------------------------------------------------------------
(* Accounts.                                                                    *)

HasIdentity(u) == \E i \in identities : i.user = u

\* What the step of a call says of accounts, identities and sessions.
SignupOK(c) ==
  op[c] = "signup" =>
    /\ step[c] \in {"hash", "identity", "session"} => who[c] = c /\ UserRow(c) \in users
    /\ step[c] = "session" => HasIdentity(c)
    /\ state[c] = "ok" => step[c] = "session"
    /\ state[c] = "refused" => step[c] = "lookup"
    /\ Driver = "memory" /\ Open(c) /\ step[c] = "user" => \A u \in users : u.address # about[c]

LoginOK(c) ==
  op[c] = "login" /\ step[c] \in {"verify", "account", "session"} => HasIdentity(who[c])

LogoutOK(c) ==
  op[c] = "logout" =>
    /\ \E s \in sessions : s.id = cookie[c]
    /\ state[c] = "ok" => \A s \in sessions : s.id = cookie[c] => s.is # "live"

\* What a row says of the call that made it and of other rows.
UsersOK ==
  /\ \A u, v \in users : u.address = v.address => u = v
  /\ \A u \in users : u.id = Seed \/ (op[u.id] = "signup" /\ step[u.id] # "lookup" /\ u.address = about[u.id])

IdentitiesOK ==
  /\ \A i, j \in identities : i.address = j.address => i = j
  /\ \A i \in identities : [id |-> i.user, address |-> i.address] \in users
  /\ HasIdentity(Seed)

SessionsOK ==
  \A s \in sessions :
    /\ HasIdentity(s.user)
    /\ s.id = Seed \/ (op[s.id] \in {"signup", "login"} /\ step[s.id] = "session" /\ ~Open(s.id) /\ s.id \notin late)

AccountsInv ==
  /\ AccountsType /\ UsersOK /\ IdentitiesOK /\ SessionsOK
  /\ \A c \in Calls : SignupOK(c) /\ LoginOK(c) /\ LogoutOK(c)

\* What the step of a call must show to keep what the steps of the others say.
LEMMA OthersKeep ==
  ASSUME RequestsInv, AccountsInv, NEW c \in Calls, Alone(c),
         users \subseteq users', identities \subseteq identities',
         Driver = "memory" /\ users' # users => OwnTurn(c),
         \A s \in sessions : \E t \in sessions' : t.id = s.id,
         \A s \in sessions' : s.is = "live" => s \in sessions \/ \A t \in sessions : t.id # s.id
  PROVE  \A d \in Calls \ {c} : SignupOK(d)' /\ LoginOK(d)' /\ LogoutOK(d)'
<1> SUFFICES ASSUME NEW d \in Calls \ {c} PROVE SignupOK(d)' /\ LoginOK(d)' /\ LogoutOK(d)'
  OBVIOUS
<1> USE DEF Alone
<1>1. SignupOK(d) /\ LoginOK(d) /\ LogoutOK(d)
  BY DEF AccountsInv
<1>2. \A u : HasIdentity(u) => HasIdentity(u)'
  BY DEF HasIdentity
<1>3. SignupOK(d)'
  <2>1. Driver = "memory" /\ Open(d) /\ step[d] = "user" => users' = users
    BY DEF OwnTurn, RealWaits
  <2> QED BY <1>1, <1>2, <2>1 DEF SignupOK, UserRow, Open
<1>4. LoginOK(d)'
  BY <1>1, <1>2 DEF LoginOK
<1>5. LogoutOK(d)'
  BY <1>1 DEF LogoutOK
<1> QED BY <1>3, <1>4, <1>5

\* A step that leaves the tables of accounts alone.
LEMMA AccountsIdle ==
  ASSUME RequestsInv, AccountsInv, NEW c \in Calls, Alone(c), UNCHANGED accountVars,
         SignupOK(c)', LoginOK(c)', LogoutOK(c)',
         \/ op[c] \notin {"signup", "login"}
         \/ /\ op'[c] = op[c] /\ about'[c] = about[c] /\ step'[c] # "lookup"
            /\ step[c] = "session" => step'[c] = "session" /\ (~Open(c) => ~Open(c)') /\ (c \notin late => c \notin late')
         \/ op[c] = "signup" /\ step[c] = "lookup"
  PROVE  AccountsInv'
<1> USE DEF AccountsInv, accountVars
<1>1. AccountsType' /\ IdentitiesOK'
  BY DEF AccountsType, IdentitiesOK, HasIdentity
<1>2. \A u \in users : u.id \in Accounts
  BY DEF AccountsType
<1>3. UsersOK'
  BY <1>2, RequestsAssumption DEF UsersOK, Alone, Accounts
<1>4. \A s \in sessions : s.id \in Accounts
  BY DEF AccountsType
<1>5. SessionsOK'
  BY <1>4, RequestsAssumption DEF SessionsOK, HasIdentity, Alone, Open, Accounts
<1>6. \A d \in Calls \ {c} : SignupOK(d)' /\ LoginOK(d)' /\ LogoutOK(d)'
  BY OthersKeep
<1> QED BY <1>1, <1>3, <1>5, <1>6

\* A step of another component leaves the accounts alone.
LEMMA AccountsFrame ==
  ASSUME RequestsInv, AccountsInv, NEW c \in Calls, Alone(c), UNCHANGED accountVars,
         op[c] \notin {"signup", "login", "logout"}, op'[c] \notin {"signup", "login", "logout"}
  PROVE  AccountsInv'
  BY AccountsIdle DEF SignupOK, LoginOK, LogoutOK

LEMMA AccountsFailure ==
  ASSUME RequestsInv, AccountsInv, Failed, UNCHANGED accountVars
  PROVE  AccountsInv'
<1> USE DEF AccountsInv, accountVars, Failed
<1>1. AccountsType' /\ IdentitiesOK' /\ UsersOK'
  BY DEF AccountsType, IdentitiesOK, HasIdentity, UsersOK
<1>2. \A s \in sessions : s.id \in Accounts
  BY DEF AccountsType
<1>3. SessionsOK'
  BY <1>2 DEF SessionsOK, HasIdentity, Open, Accounts
<1>4. \A d \in Calls : SignupOK(d)' /\ LoginOK(d)' /\ LogoutOK(d)'
  BY DEF SignupOK, LoginOK, LogoutOK, HasIdentity, UserRow, Open
<1> QED BY <1>1, <1>3, <1>4

LEMMA AccountsExpiry ==
  ASSUME RequestsInv, AccountsInv, NEW s \in sessions, SessionExpires(s)
  PROVE  RequestsInv' /\ AccountsInv' /\ Failed /\ late' = late
<1> USE DEF SessionExpires
<1>1. RequestsInv'
  BY RequestsAssumption DEF RequestsInv, RequestTypes, CallOK
<1>2. Failed
  BY DEF Failed
<1>3. [s EXCEPT !.is = "expired"] = [id |-> s.id, user |-> s.user, is |-> "expired"]
  BY DEF AccountsInv, AccountsType
<1>4. AccountsType' /\ IdentitiesOK' /\ UsersOK'
  BY <1>3 DEF AccountsInv, AccountsType, IdentitiesOK, HasIdentity, UsersOK
<1>5. SessionsOK'
  <2>1. \A t \in sessions' : \E r \in sessions : r.id = t.id /\ r.user = t.user
    BY <1>3
  <2>2. SessionsOK
    BY DEF AccountsInv
  <2>3. identities' = identities /\ op' = op /\ step' = step /\ state' = state /\ late' = late
    OBVIOUS
  <2> HIDE DEF SessionExpires
  <2> QED BY <2>1, <2>2, <2>3 DEF SessionsOK, HasIdentity, Open
<1>6. ASSUME NEW d \in Calls PROVE SignupOK(d)' /\ LoginOK(d)' /\ LogoutOK(d)'
  <2>1. SignupOK(d)' /\ LoginOK(d)'
    BY DEF AccountsInv, SignupOK, LoginOK, HasIdentity, UserRow, Open
  <2>2. LogoutOK(d)'
    BY <1>3, ZenonT(60) DEF AccountsInv, LogoutOK
  <2> QED BY <2>1, <2>2
<1> QED BY <1>1, <1>2, <1>4, <1>5, <1>6 DEF AccountsInv

\* The account of a sign-up is made, at its step or by a statement given up.
LEMMA UserWritten ==
  ASSUME RequestsInv, AccountsInv, NEW c \in Calls, op[c] = "signup", step[c] = "user", Alone(c),
         op' = op, about' = about, cookie' = cookie, state' = state,
         AddressIsFree(c), WriteAccount(c), OwnTurn(c),
         Driver = "memory" => Open(c), state[c] \in {"open", "failed"},
         (step'[c] = "hash" /\ who'[c] = c) \/ (step'[c] = "user" /\ state[c] = "failed")
  PROVE  AccountsInv'
<1>1. users' = users \cup {UserRow(c)} /\ identities' = identities /\ sessions' = sessions
  BY DEF WriteAccount
<1>2. UserRow(c).id = c /\ UserRow(c).address = about[c] /\ UserRow(c) \in [id : Accounts, address : Addresses]
  BY DEF UserRow, Accounts, RequestsInv, CallOK, NamedBy
<1>3. AccountsType' /\ IdentitiesOK'
  BY <1>1, <1>2 DEF AccountsInv, AccountsType, IdentitiesOK, HasIdentity
<1>4. \A u \in users : u.address # about[c]
  BY RequestsAssumption DEF AccountsInv, SignupOK, AddressIsFree
<1>5. UsersOK'
  <2>1. \A u \in users : u.id \in Accounts
    BY DEF AccountsInv, AccountsType
  <2>2. \A u \in users' : u.id = Seed \/ (op'[u.id] = "signup" /\ step'[u.id] # "lookup" /\ u.address = about'[u.id])
    BY <1>1, <1>2, <2>1 DEF AccountsInv, UsersOK, Alone, Accounts
  <2> QED BY <1>1, <1>2, <1>4, <2>2 DEF AccountsInv, UsersOK
<1>6. SessionsOK'
  <2>1. \A s \in sessions : s.id \in Accounts /\ s.id # c
    BY RequestsAssumption DEF AccountsInv, AccountsType, SessionsOK, Accounts
  <2> QED BY <1>1, <2>1 DEF AccountsInv, SessionsOK, HasIdentity, Alone, Open, Accounts
<1>7. SignupOK(c)' /\ LoginOK(c)' /\ LogoutOK(c)'
  BY <1>1 DEF SignupOK, LoginOK, LogoutOK, UserRow, Open
<1>8. \A d \in Calls \ {c} : SignupOK(d)' /\ LoginOK(d)' /\ LogoutOK(d)'
  BY <1>1, OthersKeep
<1> QED BY <1>3, <1>5, <1>6, <1>7, <1>8 DEF AccountsInv

\* The identity of a sign-up is made: it replaces none but its own.
LEMMA IdentityWritten ==
  ASSUME RequestsInv, AccountsInv, NEW c \in Calls, op[c] = "signup", step[c] = "identity", Alone(c),
         op' = op, about' = about, cookie' = cookie, who' = who, state' = state,
         WriteAccount(c), state[c] \in {"open", "failed"},
         step'[c] = "session" \/ step'[c] = "identity"
  PROVE  AccountsInv'
<1>1. /\ users' = users /\ sessions' = sessions
      /\ identities' = {i \in identities : i.address # about[c]} \cup {IdentityRow(c)}
  BY DEF WriteAccount
<1>2. who[c] = c /\ UserRow(c) \in users /\ UserRow(c) = [id |-> c, address |-> about[c]]
  BY DEF AccountsInv, SignupOK, UserRow
<1>3. IdentityRow(c) = [address |-> about[c], user |-> c]
      /\ IdentityRow(c).address = about[c] /\ IdentityRow(c).user = c
  BY <1>2 DEF IdentityRow
<1>4. about[c] \in Addresses /\ identities \subseteq [address : Addresses, user : Accounts]
  BY DEF AccountsInv, AccountsType, RequestsInv, CallOK, NamedBy
<1>5. \A i \in identities : i.address = about[c] => i = IdentityRow(c)
  <2> SUFFICES ASSUME NEW i \in identities, i.address = about[c] PROVE i = IdentityRow(c)
    OBVIOUS
  <2>1. [id |-> i.user, address |-> i.address] \in users
    BY DEF AccountsInv, IdentitiesOK
  <2>2. [id |-> i.user, address |-> i.address] = [id |-> c, address |-> about[c]]
    BY <1>2, <2>1 DEF AccountsInv, UsersOK
  <2>3. i.user = c
    BY <2>2
  <2>4. i = [address |-> i.address, user |-> i.user]
    BY <1>4
  <2> QED BY <1>3, <2>3, <2>4
<1>6. identities' = identities \cup {IdentityRow(c)}
  BY <1>1, <1>3, <1>5
<1>7. AccountsType'
  BY <1>1, <1>3, <1>4, <1>6 DEF AccountsInv, AccountsType, Accounts
<1>8. IdentitiesOK'
  <2>1. HasIdentity(Seed)'
    BY <1>6 DEF AccountsInv, IdentitiesOK, HasIdentity
  <2>2. \A i, j \in identities' : i.address = j.address => i = j
    BY <1>3, <1>5, <1>6 DEF AccountsInv, IdentitiesOK
  <2>3. \A i \in identities' : [id |-> i.user, address |-> i.address] \in users'
    BY <1>1, <1>2, <1>3, <1>6 DEF AccountsInv, IdentitiesOK
  <2> QED BY <2>1, <2>2, <2>3 DEF IdentitiesOK
<1>9. UsersOK'
  <2>1. \A u \in users : u.id \in Accounts
    BY DEF AccountsInv, AccountsType
  <2> QED BY <1>1, <2>1 DEF AccountsInv, UsersOK, Alone, Accounts
<1>10. SessionsOK'
  <2>1. \A s \in sessions : s.id \in Accounts /\ s.id # c
    BY RequestsAssumption DEF AccountsInv, AccountsType, SessionsOK, Accounts
  <2> QED BY <1>1, <1>6, <2>1 DEF AccountsInv, SessionsOK, HasIdentity, Alone, Open, Accounts
<1>11. SignupOK(c)' /\ LoginOK(c)' /\ LogoutOK(c)'
  BY <1>1, <1>2, <1>3, <1>6 DEF SignupOK, LoginOK, LogoutOK, UserRow, HasIdentity, Open
<1>12. \A d \in Calls \ {c} : SignupOK(d)' /\ LoginOK(d)' /\ LogoutOK(d)'
  BY <1>1, <1>6, OthersKeep
<1> QED BY <1>7, <1>8, <1>9, <1>10, <1>11, <1>12 DEF AccountsInv

\* The session of a sign-up or log-in is made.
LEMMA SessionWritten ==
  ASSUME RequestsInv, AccountsInv, NEW c \in Calls, op[c] \in {"signup", "login"}, step[c] = "session", Alone(c),
         op' = op, about' = about, cookie' = cookie, who' = who, step' = step,
         WriteAccount(c), Open(c) \/ c \in late,
         state'[c] \in {"ok", "failed"}, c \notin late'
  PROVE  AccountsInv'
<1>1. users' = users /\ identities' = identities /\ sessions' = sessions \cup {SessionRow(c)}
  BY DEF WriteAccount
<1>2. SessionRow(c).id = c /\ SessionRow(c).user = who[c]
  BY DEF SessionRow
<1>3. HasIdentity(who[c])
  BY DEF AccountsInv, SignupOK, LoginOK
<1>4. \A s \in sessions : s.id \in Accounts /\ s.id # c
  BY RequestsAssumption DEF AccountsInv, AccountsType, SessionsOK, Accounts
<1>5. SessionRow(c) \in [id : Accounts, user : Accounts, is : {"live", "revoked", "expired"}]
  BY DEF SessionRow, Accounts, RequestsInv, CallOK, Early, Front
<1>6. AccountsType' /\ IdentitiesOK'
  BY <1>1, <1>5 DEF AccountsInv, AccountsType, IdentitiesOK, HasIdentity
<1>7. UsersOK'
  <2>1. \A u \in users : u.id \in Accounts
    BY DEF AccountsInv, AccountsType
  <2> QED BY <1>1, <2>1 DEF AccountsInv, UsersOK, Alone, Accounts
<1>8. SessionsOK'
  <2>1. \A u : HasIdentity(u)' <=> HasIdentity(u)
    BY <1>1 DEF HasIdentity
  <2>2. \A s \in sessions :
          /\ HasIdentity(s.user)'
          /\ s.id = Seed \/ (op'[s.id] \in {"signup", "login"} /\ step'[s.id] = "session" /\ ~Open(s.id)' /\ s.id \notin late')
    BY <1>4, <2>1 DEF AccountsInv, SessionsOK, Alone, Open, Accounts
  <2>3. ~Open(c)'
    BY DEF Open
  <2> QED BY <1>1, <1>2, <1>3, <2>1, <2>2, <2>3 DEF SessionsOK
<1>9. SignupOK(c)' /\ LoginOK(c)' /\ LogoutOK(c)'
  BY <1>1 DEF AccountsInv, SignupOK, LoginOK, LogoutOK, UserRow, HasIdentity, Open
<1>10. \A d \in Calls \ {c} : SignupOK(d)' /\ LoginOK(d)' /\ LogoutOK(d)'
  BY <1>1, <1>2, <1>4, OthersKeep
<1> QED BY <1>6, <1>7, <1>8, <1>9, <1>10 DEF AccountsInv

\* The session of a log-out is revoked.
LEMMA SessionsRevoked ==
  ASSUME RequestsInv, AccountsInv, NEW c \in Calls, op[c] = "logout", step[c] = "revoke", Alone(c),
         op' = op, about' = about, cookie' = cookie, who' = who, step' = step,
         WriteAccount(c)
  PROVE  AccountsInv'
<1>1. /\ users' = users /\ identities' = identities
      /\ sessions' = (sessions \ SessionsOf(cookie[c])) \cup {Revoked(s) : s \in SessionsOf(cookie[c])}
  BY DEF WriteAccount
<1>2. \A s \in sessions : Revoked(s) = [id |-> s.id, user |-> s.user, is |-> "revoked"]
  BY DEF AccountsInv, AccountsType, Revoked
<1>3. \A t \in sessions' : \/ t \in sessions /\ t.id # cookie[c]
                           \/ \E s \in sessions : s.id = cookie[c] /\ t = [id |-> s.id, user |-> s.user, is |-> "revoked"]
  BY <1>1, <1>2 DEF SessionsOf
<1>4. \A s \in sessions : \E t \in sessions' : t.id = s.id
  <2> SUFFICES ASSUME NEW s \in sessions PROVE \E t \in sessions' : t.id = s.id
    OBVIOUS
  <2>1. CASE s \in SessionsOf(cookie[c])
    <3>1. Revoked(s) \in sessions' /\ Revoked(s).id = s.id
      BY <1>1, <1>2, <2>1
    <3> QED BY <3>1
  <2>2. CASE s \notin SessionsOf(cookie[c])
    BY <1>1, <2>2
  <2> QED BY <2>1, <2>2
<1>5. AccountsType'
  BY <1>1, <1>3 DEF AccountsInv, AccountsType
<1>6. IdentitiesOK'
  BY <1>1 DEF AccountsInv, IdentitiesOK, HasIdentity
<1>7. UsersOK'
  <2>1. \A u \in users : u.id \in Accounts
    BY DEF AccountsInv, AccountsType
  <2> QED BY <1>1, <2>1 DEF AccountsInv, UsersOK, Alone, Accounts
<1>8. SessionsOK'
  <2>1. \A s \in sessions : s.id \in Accounts /\ s.id # c
    BY RequestsAssumption DEF AccountsInv, AccountsType, SessionsOK, Accounts
  <2>2. \A t \in sessions' : \E s \in sessions : t.id = s.id /\ t.user = s.user
    BY <1>3
  <2> QED BY <1>1, <2>1, <2>2 DEF AccountsInv, SessionsOK, HasIdentity, Alone, Open, Accounts
<1>9. SignupOK(c)' /\ LoginOK(c)' /\ LogoutOK(c)'
  BY <1>3, <1>4 DEF AccountsInv, SignupOK, LoginOK, LogoutOK
<1>10. \A d \in Calls \ {c} : SignupOK(d)' /\ LoginOK(d)' /\ LogoutOK(d)'
  <2>1. \A t \in sessions' : t.is = "live" => t \in sessions
    BY <1>3
  <2> QED BY <1>1, <1>4, <2>1, OthersKeep
<1> QED BY <1>5, <1>6, <1>7, <1>8, <1>9, <1>10 DEF AccountsInv

-----------------------------------------------------------------------------
(* Calls that arrive, and the session check in front of the operations.           *)

\* The step after which a call is at the first step of its operation or before it.
Entering(c) ==
  /\ step[c] \in Front \cup {"none"}
  /\ step'[c] \in Front \cup {"lookup", "identify", "revoke", "duplicate", "existing", "references", "current", "noted"}
  /\ op[c] = "none" \/ (op'[c] = op[c] /\ op[c] \notin {"signup", "login"})
  /\ op'[c] # "none" /\ (state'[c] = "ok" => op'[c] = "logout")
  /\ state'[c] \in {"open", "ok", "refused"} /\ (state'[c] = "refused" => step'[c] \in Front)

LEMMA FirstSteps ==
  ASSUME NEW o \in {"logout", "upload", "intake", "apply", "move", "note"}
  PROVE  FirstStep(o) \in StepsOf(o) \cap {"revoke", "duplicate", "existing", "references", "current", "noted"}
  BY DEF FirstStep, StepsOf

LEMMA ProtectedEnters ==
  ASSUME RequestsInv, AccountsInv, NEW c \in Calls, RequestProtected(c)
  PROVE  /\ RequestsInv' /\ Alone(c) /\ Entering(c) /\ late' = late
         /\ op[c] = "none" /\ op'[c] \notin {"signup", "login", "logout"}
<1>1. PICK s \in sessions : \/ RequestUpload(c, s.id) \/ RequestIntake(c, s.id) \/ RequestApply(c, s.id)
                            \/ RequestMove(c, s.id) \/ RequestNote(c, s.id)
  BY DEF RequestProtected
<1>2. s.id \in Accounts
  BY DEF AccountsInv, AccountsType
<1>3. PICK o \in {"upload", "intake", "apply", "move", "note"} :
        \E a \in NamedBy(o) : Arrive(c, o, a, s.id, "authenticate")
  <2>1. CASE RequestUpload(c, s.id)
    <3>1. PICK f \in Files : Arrive(c, "upload", f, s.id, "authenticate")
      BY <2>1 DEF RequestUpload
    <3>2. f \in NamedBy("upload")
      BY DEF NamedBy
    <3> QED BY <3>1, <3>2
  <2>2. CASE RequestIntake(c, s.id)
    <3>1. PICK t \in Texts : Arrive(c, "intake", t, s.id, "authenticate")
      BY <2>2 DEF RequestIntake
    <3>2. t \in NamedBy("intake")
      BY DEF NamedBy
    <3> QED BY <3>1, <3>2
  <2>3. CASE RequestApply(c, s.id)
    <3>1. Arrive(c, "apply", "draft", s.id, "authenticate")
      BY <2>3 DEF RequestApply
    <3>2. "draft" \in NamedBy("apply")
      BY DEF NamedBy
    <3> QED BY <3>1, <3>2
  <2>4. CASE RequestMove(c, s.id)
    <3>1. PICK t \in Statuses : Arrive(c, "move", t, s.id, "authenticate")
      BY <2>4 DEF RequestMove
    <3>2. t \in NamedBy("move")
      BY DEF NamedBy
    <3> QED BY <3>1, <3>2
  <2>5. CASE RequestNote(c, s.id)
    <3>1. Arrive(c, "note", "none", s.id, "authenticate")
      BY <2>5 DEF RequestNote
    <3>2. "none" \in NamedBy("note")
      BY DEF NamedBy
    <3> QED BY <3>1, <3>2
  <2> QED BY <1>1, <2>1, <2>2, <2>3, <2>4, <2>5
<1>4. o \in Operations \ {"none"} /\ "authenticate" \in StepsOf(o) \cap Early /\ s.id \in Accounts \cup {Nobody}
  BY <1>2 DEF Operations, StepsOf, Early, Front
<1>5. /\ RequestsInv' /\ Alone(c) /\ late' = late
      /\ op[c] = "none" /\ op'[c] = o
      /\ step[c] = "none" /\ step'[c] = "authenticate" /\ state'[c] = "open"
  BY <1>3, <1>4, ArriveActs
<1> QED BY <1>5 DEF Entering, Front

\* A request for an account, and the session check.
Enters(c) == RequestSignup(c) \/ RequestLogin(c) \/ RequestLogout(c) \/ FindSession(c) \/ FindOwner(c)

LEMMA AccountsEnter ==
  ASSUME RequestsInv, AccountsInv, NEW c \in Calls, Enters(c)
  PROVE  /\ RequestsInv' /\ AccountsInv' /\ Alone(c) /\ Entering(c) /\ late' = late
         /\ op[c] # "none" => op'[c] = op[c]
         /\ step[c] = "authenticate" /\ step'[c] # "authenticate" => \E s \in SessionsOf(cookie[c]) : s.is = "live"
<1>1. CASE RequestSignup(c)
  <2>1. PICK a \in Addresses : Arrive(c, "signup", a, Nobody, "lookup") /\ UNCHANGED accountVars
    BY <1>1 DEF RequestSignup
  <2>2. "signup" \in Operations \ {"none"} /\ a \in NamedBy("signup") /\ "lookup" \in StepsOf("signup") \cap Early
    BY DEF Operations, NamedBy, StepsOf, Early, Front
  <2>3. /\ RequestsInv' /\ Alone(c) /\ late' = late
        /\ op[c] = "none" /\ op'[c] = "signup"
        /\ step[c] = "none" /\ step'[c] = "lookup" /\ state'[c] = "open"
    BY <2>1, <2>2, ArriveActs
  <2>4. SignupOK(c)' /\ LoginOK(c)' /\ LogoutOK(c)'
    BY <2>3 DEF SignupOK, LoginOK, LogoutOK
  <2>5. AccountsInv'
    BY <2>1, <2>3, <2>4, AccountsIdle
  <2> QED BY <2>3, <2>5 DEF Entering, Front
<1>2. CASE RequestLogin(c)
  <2>1. PICK a \in Addresses : Arrive(c, "login", a, Nobody, "identify") /\ UNCHANGED accountVars
    BY <1>2 DEF RequestLogin
  <2>2. "login" \in Operations \ {"none"} /\ a \in NamedBy("login") /\ "identify" \in StepsOf("login") \cap Early
    BY DEF Operations, NamedBy, StepsOf, Early, Front
  <2>3. /\ RequestsInv' /\ Alone(c) /\ late' = late
        /\ op[c] = "none" /\ op'[c] = "login"
        /\ step[c] = "none" /\ step'[c] = "identify" /\ state'[c] = "open"
    BY <2>1, <2>2, ArriveActs
  <2>4. SignupOK(c)' /\ LoginOK(c)' /\ LogoutOK(c)'
    BY <2>3 DEF SignupOK, LoginOK, LogoutOK
  <2>5. AccountsInv'
    BY <2>1, <2>3, <2>4, AccountsIdle
  <2> QED BY <2>3, <2>5 DEF Entering, Front
<1>3. CASE RequestLogout(c)
  <2>1. PICK s \in sessions : Arrive(c, "logout", "none", s.id, "authenticate") /\ UNCHANGED accountVars
    BY <1>3 DEF RequestLogout
  <2>2. "logout" \in Operations \ {"none"} /\ "none" \in NamedBy("logout") /\ "authenticate" \in StepsOf("logout") \cap Early
    BY DEF Operations, NamedBy, StepsOf, Early, Front
  <2>3. s.id \in Accounts
    BY DEF AccountsInv, AccountsType
  <2>4. /\ RequestsInv' /\ Alone(c) /\ late' = late
        /\ op[c] = "none" /\ op'[c] = "logout" /\ cookie'[c] = s.id
        /\ step[c] = "none" /\ step'[c] = "authenticate" /\ state'[c] = "open"
    BY <2>1, <2>2, <2>3, ArriveActs
  <2>5. SignupOK(c)' /\ LoginOK(c)' /\ LogoutOK(c)'
    BY <2>1, <2>4 DEF SignupOK, LoginOK, LogoutOK, accountVars
  <2>6. AccountsInv'
    BY <2>1, <2>4, <2>5, AccountsIdle
  <2> QED BY <2>4, <2>6 DEF Entering, Front
<1>4. CASE FindSession(c)
  <2>1. Open(c) /\ step[c] = "authenticate" /\ op[c] \notin {"none", "signup", "login"} /\ UNCHANGED accountVars
    BY <1>4 DEF FindSession, At, RequestsInv, CallOK, StepsOf
  <2>2. LogoutOK(c)
    BY DEF AccountsInv
  <2>3. CASE \E s \in SessionsOf(cookie[c]) : Opens(s)
    <3>1. Proceed(c, "owner") /\ "owner" \in StepsOf(op[c]) /\ "owner" \in Early
      BY <1>4, <2>1, <2>3 DEF FindSession, RequestsInv, RequestTypes, Operations, StepsOf, Early, Front
    <3>2. /\ RequestsInv' /\ Alone(c) /\ late' = late
          /\ op' = op /\ about' = about /\ cookie' = cookie /\ state' = state
          /\ step'[c] = "owner"
      BY <2>1, <3>1, ProceedActs
    <3>3. SignupOK(c)' /\ LoginOK(c)' /\ LogoutOK(c)'
      BY <2>1, <2>2, <3>2 DEF SignupOK, LoginOK, LogoutOK, accountVars
    <3>4. AccountsInv'
      BY <2>1, <3>2, <3>3, AccountsIdle
    <3> QED BY <2>1, <2>3, <3>2, <3>4 DEF Entering, Front, Opens, Open
  <2>4. CASE ~(\E s \in SessionsOf(cookie[c]) : Opens(s))
    <3>1. PICK outcome \in {"ok", "refused"} : Answer(c, outcome) /\ (outcome = "ok" => op[c] = "logout")
      BY <1>4, <2>1, <2>4 DEF FindSession
    <3>2. /\ RequestsInv' /\ Alone(c) /\ late' = late
          /\ op' = op /\ about' = about /\ cookie' = cookie /\ step' = step /\ state'[c] = outcome
      BY <2>1, <3>1, AnswerActs
    <3>3. SignupOK(c)' /\ LoginOK(c)' /\ LogoutOK(c)'
      BY <2>1, <2>2, <2>4, <3>2 DEF SignupOK, LoginOK, LogoutOK, accountVars, SessionsOf, Opens
    <3>4. AccountsInv'
      BY <2>1, <3>2, <3>3, AccountsIdle
    <3> QED BY <2>1, <3>1, <3>2, <3>4 DEF Entering, Front
  <2> QED BY <2>3, <2>4
<1>5. CASE FindOwner(c)
  <2>1. /\ Open(c) /\ step[c] = "owner" /\ UNCHANGED accountVars
        /\ op[c] \in {"logout", "upload", "intake", "apply", "move", "note"}
    BY <1>5 DEF FindOwner, At, RequestsInv, RequestTypes, Operations, CallOK, StepsOf
  <2>2. PICK s \in SessionsOf(cookie[c]) : ProceedAs(c, s.user, FirstStep(op[c]))
    BY <1>5 DEF FindOwner
  <2>3. s.user \in Accounts
    BY DEF SessionsOf, AccountsInv, AccountsType
  <2>4. FirstStep(op[c]) \in StepsOf(op[c]) \cap {"revoke", "duplicate", "existing", "references", "current", "noted"}
    BY <2>1, FirstSteps
  <2>5. /\ RequestsInv' /\ Alone(c) /\ late' = late
        /\ op' = op /\ about' = about /\ cookie' = cookie /\ state' = state
        /\ step'[c] = FirstStep(op[c])
    BY <2>1, <2>2, <2>3, <2>4, ProceedAsActs
  <2>6. SignupOK(c)' /\ LoginOK(c)' /\ LogoutOK(c)'
    BY <2>1, <2>5 DEF AccountsInv, SignupOK, LoginOK, LogoutOK, accountVars
  <2>7. AccountsInv'
    BY <2>1, <2>5, <2>6, AccountsIdle
  <2> QED BY <2>1, <2>4, <2>5, <2>7 DEF Entering, Front, Open
<1> QED BY <1>1, <1>2, <1>3, <1>4, <1>5 DEF Enters

-----------------------------------------------------------------------------
(* The steps of sign-up, log-in and log-out proper.                              *)

\* A call that goes on, or is answered, without a write to the tables of accounts.
LEMMA AccountsProceed ==
  ASSUME RequestsInv, AccountsInv, NEW c \in Calls, op[c] \in {"signup", "login"}, Open(c),
         NEW s \in StepsOf(op[c]), Proceed(c, s), UNCHANGED accountVars, s # "lookup",
         who[c] \in Accounts \/ s = "user",
         step[c] # "session",
         s \in {"hash", "identity", "session"} /\ op[c] = "signup" => who[c] = c /\ UserRow(c) \in users,
         s = "session" => HasIdentity(who[c]),
         s = "user" => \A u \in users : u.address # about[c],
         op[c] = "login" => HasIdentity(who[c])
  PROVE  RequestsInv' /\ AccountsInv' /\ Alone(c) /\ op' = op /\ cookie' = cookie
<1>1. s \notin Early => who[c] \in Accounts
  BY DEF Early
<1>2. /\ RequestsInv' /\ Alone(c) /\ late' = late
      /\ op' = op /\ about' = about /\ cookie' = cookie /\ who' = who /\ state' = state /\ step'[c] = s
  BY <1>1, ProceedActs
<1>3. SignupOK(c)' /\ LoginOK(c)' /\ LogoutOK(c)'
  BY <1>2 DEF SignupOK, LoginOK, LogoutOK, accountVars, UserRow, HasIdentity, Open
<1> QED BY <1>2, <1>3, AccountsIdle

LEMMA AccountsAnswer ==
  ASSUME RequestsInv, AccountsInv, NEW c \in Calls, op[c] \in {"signup", "login"}, Open(c),
         NEW outcome \in {"refused", "failed"}, Answer(c, outcome), UNCHANGED accountVars,
         op[c] = "signup" /\ outcome = "refused" => step[c] = "lookup", step[c] # "session"
  PROVE  RequestsInv' /\ AccountsInv' /\ Alone(c) /\ op' = op /\ cookie' = cookie
<1>1. /\ RequestsInv' /\ Alone(c) /\ late' = late
      /\ op' = op /\ about' = about /\ cookie' = cookie /\ who' = who /\ step' = step /\ state'[c] = outcome
  BY AnswerActs
<1>2. SignupOK(c)' /\ LoginOK(c)' /\ LogoutOK(c)'
  BY <1>1 DEF AccountsInv, SignupOK, LoginOK, LogoutOK, accountVars, UserRow, HasIdentity, Open
<1>3. step[c] = "lookup" => op[c] = "signup"
  BY StepTells
<1> QED BY <1>1, <1>2, <1>3, AccountsIdle

LEMMA AccountsKeep ==
  ASSUME RequestsInv, AccountsInv, NEW c \in Calls, AccountsStep(c), ~Enters(c)
  PROVE  /\ RequestsInv' /\ AccountsInv' /\ Alone(c) /\ op' = op
         /\ op[c] \in {"signup", "login", "logout"} /\ step[c] \notin Front
<1> USE DEF Front
<1>1. CASE FindUserByEmail(c)
  <2>1. Open(c) /\ step[c] = "lookup" /\ op[c] = "signup" /\ UNCHANGED accountVars
    BY <1>1, StepTells DEF FindUserByEmail, At
  <2>2. CASE \E u \in users : u.address = about[c]
    <3>1. Answer(c, "refused")
      BY <1>1, <2>2 DEF FindUserByEmail
    <3> QED BY <2>1, <3>1, AccountsAnswer
  <2>3. CASE ~(\E u \in users : u.address = about[c])
    <3>1. Proceed(c, "user") /\ "user" \in StepsOf(op[c])
      BY <1>1, <2>1, <2>3, AfterSignup DEF FindUserByEmail, StepsOf
    <3> QED BY <2>1, <2>3, <3>1, AccountsProceed
  <2> QED BY <2>2, <2>3
<1>2. CASE CreateUser(c)
  <2>1. Open(c) /\ step[c] = "user" /\ op[c] = "signup" /\ OwnTurn(c)
    BY <1>2, StepTells DEF CreateUser, At
  <2>2. CASE AddressIsFree(c)
    <3>1. WriteAccount(c) /\ ProceedAs(c, c, "hash") /\ "hash" \in StepsOf(op[c]) /\ c \in Accounts
      BY <1>2, <2>1, <2>2, AfterSignup DEF CreateUser, StepsOf, Accounts
    <3>2. /\ RequestsInv' /\ Alone(c) /\ late' = late
          /\ op' = op /\ about' = about /\ cookie' = cookie /\ state' = state
          /\ step'[c] = "hash" /\ who'[c] = c
      BY <2>1, <3>1, ProceedAsActs
    <3> QED BY <2>1, <2>2, <3>1, <3>2, UserWritten DEF Open
  <2>3. CASE ~AddressIsFree(c)
    <3>1. Answer(c, "failed") /\ UNCHANGED accountVars
      BY <1>2, <2>3 DEF CreateUser
    <3> QED BY <2>1, <3>1, AccountsAnswer
  <2> QED BY <2>2, <2>3
<1>3. CASE HashPassword(c)
  <2>1. Open(c) /\ step[c] = "hash" /\ op[c] = "signup" /\ UNCHANGED accountVars
    BY <1>3, StepTells DEF HashPassword, At
  <2>2. Proceed(c, "identity") /\ "identity" \in StepsOf(op[c])
    BY <1>3, <2>1, AfterSignup DEF HashPassword, StepsOf
  <2>3. who[c] = c /\ UserRow(c) \in users /\ c \in Accounts
    BY <2>1 DEF AccountsInv, SignupOK, Accounts
  <2> QED BY <2>1, <2>2, <2>3, AccountsProceed
<1>4. CASE CreateAuthIdentity(c)
  <2>1. Open(c) /\ step[c] = "identity" /\ op[c] = "signup"
    BY <1>4, StepTells DEF CreateAuthIdentity, At
  <2>2. CASE AddressIsFree(c)
    <3>1. WriteAccount(c) /\ Proceed(c, "session") /\ "session" \in StepsOf(op[c]) /\ who[c] \in Accounts
      BY <1>4, <2>1, <2>2, AfterSignup DEF CreateAuthIdentity, Advance, StepsOf, RequestsInv, CallOK, Early, Front
    <3>2. /\ RequestsInv' /\ Alone(c) /\ late' = late
          /\ op' = op /\ about' = about /\ cookie' = cookie /\ who' = who /\ state' = state
          /\ step'[c] = "session"
      BY <2>1, <3>1, ProceedActs
    <3> QED BY <2>1, <3>1, <3>2, IdentityWritten DEF Open
  <2>3. CASE ~AddressIsFree(c)
    <3>1. Answer(c, "failed") /\ UNCHANGED accountVars
      BY <1>4, <2>3 DEF CreateAuthIdentity
    <3> QED BY <2>1, <3>1, AccountsAnswer
  <2> QED BY <2>2, <2>3
<1>5. CASE FindAuthIdentity(c)
  <2>1. Open(c) /\ step[c] = "identify" /\ op[c] = "login" /\ UNCHANGED accountVars
    BY <1>5, StepTells DEF FindAuthIdentity, At
  <2>2. CASE Answer(c, "refused")
    BY <2>1, <2>2, AccountsAnswer
  <2>3. ASSUME NEW i \in identities, ProceedAs(c, i.user, After(c, LoginSteps))
        PROVE  /\ RequestsInv' /\ AccountsInv' /\ Alone(c) /\ op' = op
               /\ op[c] \in {"signup", "login", "logout"} /\ step[c] \notin Front
    <3>1. ProceedAs(c, i.user, "verify") /\ "verify" \in StepsOf(op[c])
      BY <2>1, <2>3, AfterLogin DEF StepsOf
    <3>2. i.user \in Accounts /\ HasIdentity(i.user)
      BY DEF HasIdentity, AccountsInv, AccountsType
    <3>3. /\ RequestsInv' /\ Alone(c) /\ late' = late
          /\ op' = op /\ about' = about /\ cookie' = cookie /\ state' = state
          /\ step'[c] = "verify" /\ who'[c] = i.user
      BY <2>1, <3>1, <3>2, ProceedAsActs
    <3>4. SignupOK(c)' /\ LoginOK(c)' /\ LogoutOK(c)'
      BY <2>1, <3>2, <3>3 DEF SignupOK, LoginOK, LogoutOK, HasIdentity, accountVars
    <3>5. AccountsInv'
      BY <2>1, <3>3, <3>4, AccountsIdle
    <3> QED BY <2>1, <3>3, <3>5
  <2> QED BY <1>5, <2>2, <2>3 DEF FindAuthIdentity
<1>6. CASE VerifyPassword(c)
  <2>1. Open(c) /\ step[c] = "verify" /\ op[c] = "login" /\ UNCHANGED accountVars
    BY <1>6, StepTells DEF VerifyPassword, At
  <2>2. HasIdentity(who[c]) /\ who[c] \in Accounts /\ "account" \in StepsOf(op[c])
    BY <2>1 DEF AccountsInv, LoginOK, RequestsInv, CallOK, Early, Front, StepsOf
  <2>3. Proceed(c, "account") \/ Answer(c, "refused")
    BY <1>6, <2>1, AfterLogin DEF VerifyPassword
  <2>4. CASE Proceed(c, "account")
    BY <2>1, <2>2, <2>4, AccountsProceed
  <2>5. CASE Answer(c, "refused")
    BY <2>1, <2>5, AccountsAnswer
  <2> QED BY <2>3, <2>4, <2>5
<1>7. CASE FindUserById(c)
  <2>1. Open(c) /\ step[c] = "account" /\ op[c] = "login" /\ UNCHANGED accountVars
    BY <1>7, StepTells DEF FindUserById, At
  <2>2. HasIdentity(who[c]) /\ who[c] \in Accounts /\ "session" \in StepsOf(op[c])
    BY <2>1 DEF AccountsInv, LoginOK, RequestsInv, CallOK, Early, Front, StepsOf
  <2>3. Proceed(c, "session") \/ Answer(c, "refused")
    BY <1>7, <2>1, AfterLogin DEF FindUserById
  <2>4. CASE Proceed(c, "session")
    BY <2>1, <2>2, <2>4, AccountsProceed
  <2>5. CASE Answer(c, "refused")
    BY <2>1, <2>5, AccountsAnswer
  <2> QED BY <2>3, <2>4, <2>5
<1>8. CASE CreateSession(c)
  <2>1. Open(c) /\ step[c] = "session" /\ op[c] \in {"signup", "login"} /\ WriteAccount(c)
    BY <1>8, StepTells DEF CreateSession, At
  <2>2. Answer(c, "ok")
    BY <1>8, <2>1, AfterSignup, AfterLogin DEF CreateSession, Advance
  <2>3. /\ RequestsInv' /\ Alone(c) /\ late' = late
        /\ op' = op /\ about' = about /\ cookie' = cookie /\ who' = who /\ step' = step /\ state'[c] = "ok"
    BY <2>1, <2>2, AnswerActs
  <2>4. c \notin late
    BY <2>1 DEF RequestsInv, CallOK, Open
  <2> QED BY <2>1, <2>3, <2>4, SessionWritten
<1>9. CASE RevokeSession(c)
  <2>1. Open(c) /\ step[c] = "revoke" /\ op[c] = "logout" /\ WriteAccount(c) /\ Answer(c, "ok")
    BY <1>9, StepTells DEF RevokeSession, At
  <2>2. /\ RequestsInv' /\ Alone(c) /\ late' = late
        /\ op' = op /\ about' = about /\ cookie' = cookie /\ who' = who /\ step' = step /\ state'[c] = "ok"
    BY <2>1, AnswerActs
  <2> QED BY <2>1, <2>2, SessionsRevoked
<1>10. CASE LateAccountWrite(c)
  <2>1. /\ RequestsInv' /\ Alone(c) /\ c \in late /\ c \notin late'
        /\ op' = op /\ about' = about /\ cookie' = cookie /\ who' = who /\ step' = step /\ state' = state
        /\ state[c] = "failed" /\ Driver = "postgres"
    BY <1>10, ArrivesActs DEF LateAccountWrite
  <2>2. /\ step[c] \in {"user", "identity"} => op[c] = "signup"
        /\ step[c] = "session" => op[c] \in {"signup", "login"}
        /\ step[c] = "revoke" => op[c] = "logout"
        /\ step[c] \in {"user", "identity", "session", "revoke"}
    BY <1>10, StepTells DEF LateAccountWrite, WritesAccounts
  <2>3. CASE AddressIsFree(c)
    <3>1. WriteAccount(c)
      BY <1>10, <2>3 DEF LateAccountWrite
    <3>2. CASE step[c] = "user"
      BY <2>1, <2>2, <2>3, <3>1, <3>2, UserWritten DEF OwnTurn
    <3>3. CASE step[c] = "identity"
      BY <2>1, <2>2, <3>1, <3>3, IdentityWritten
    <3>4. CASE step[c] = "session"
      BY <2>1, <2>2, <3>1, <3>4, SessionWritten
    <3>5. CASE step[c] = "revoke"
      BY <2>1, <2>2, <3>1, <3>5, SessionsRevoked
    <3> QED BY <2>1, <2>2, <3>2, <3>3, <3>4, <3>5
  <2>4. CASE ~AddressIsFree(c)
    <3>1. UNCHANGED accountVars
      BY <1>10, <2>4 DEF LateAccountWrite
    <3>2. SignupOK(c)' /\ LoginOK(c)' /\ LogoutOK(c)'
      BY <2>1, <3>1 DEF AccountsInv, SignupOK, LoginOK, LogoutOK, accountVars, UserRow, HasIdentity, Open
    <3>3. step[c] # "lookup"
      BY <2>2
    <3>4. AccountsInv'
      BY <2>1, <3>1, <3>2, <3>3, AccountsIdle DEF Open
    <3> QED BY <2>1, <2>2, <3>4
  <2> QED BY <2>3, <2>4
<1> QED BY <1>1, <1>2, <1>3, <1>4, <1>5, <1>6, <1>7, <1>8, <1>9, <1>10 DEF AccountsStep, Enters

-----------------------------------------------------------------------------
(* The intake of job descriptions.                                              *)

\* What the step of a call says of its description and of its answer.
IntakeCallOK(c) ==
  /\ parts[c] # 0 => op[c] = "intake" /\ step[c] = "part"
  /\ op[c] = "intake" =>
       /\ step[c] = "part" => DescriptionRow(c) \in descriptions
       /\ step[c] = "part" /\ (Open(c) \/ c \in late) => parts[c] < Parts
       /\ step[c] = "part" /\ state[c] = "ok" => parts[c] = Parts
       /\ state[c] = "ok" => step[c] \in {"part", "keywords"}
       /\ state[c] = "refused" => step[c] \in Front
       /\ step[c] \in {"requirements", "keywords"} => found[c] \in Calls
       /\ Open(c) /\ step[c] = "keywords" => listed[c] <= Requirements
       /\ Driver = "memory" =>
            /\ state[c] # "failed"
            /\ Open(c) /\ step[c] = "describe" => Taken(c) = {}
            /\ Open(c) /\ step[c] \in {"requirements", "keywords"} => parts[found[c]] = Parts
            /\ Open(c) /\ step[c] = "keywords" => listed[c] = Requirements
            /\ state[c] = "ok" => listed[c] = Parts

\* What a description says of the call that made it and of the others.
DescriptionsOK ==
  /\ \A d \in descriptions : /\ op[d.id] = "intake" /\ step[d.id] \in {"describe", "part"} /\ d = DescriptionRow(d.id)
                             /\ step[d.id] = "describe" => state[d.id] = "failed"
  /\ \A d, e \in descriptions : d.user = e.user /\ d.text = e.text => d = e

IntakeInv == IntakeType /\ DescriptionsOK /\ \A c \in Calls : IntakeCallOK(c)

LEMMA PartsAreNatural == Parts \in Nat /\ Requirements \in Nat /\ Keywords \in Nat /\ Parts > 0
                         /\ Parts = Requirements + Keywords
  BY IntakeAssumption DEF Parts

\* What a step of an intake must show for the invariant to be kept.
LEMMA IntakeMoves ==
  ASSUME RequestsInv, IntakeInv, NEW c \in Calls, op[c] = "intake", Alone(c),
         op' = op, about' = about, who' = who,
         IntakeType', IntakeCallOK(c)',
         descriptions' \in {descriptions, descriptions \cup {DescriptionRow(c)}},
         descriptions' # descriptions => Taken(c) = {} /\ OwnTurn(c),
         DescriptionRow(c) \in descriptions' =>
           step'[c] \in {"describe", "part"} /\ (step'[c] = "describe" => state'[c] = "failed"),
         \A d \in Calls \ {c} : parts'[d] = parts[d] /\ found'[d] = found[d] /\ listed'[d] = listed[d],
         parts'[c] >= parts[c]
  PROVE  IntakeInv'
<1>1. \A d \in Calls : DescriptionRow(d)' = DescriptionRow(d)
  BY DEF DescriptionRow
<1>2. DescriptionRow(c).id = c /\ DescriptionRow(c).user = who[c] /\ DescriptionRow(c).text = about[c]
  BY DEF DescriptionRow
<1>3. \A d \in descriptions : d.id \in Calls
  BY DEF IntakeInv, IntakeType
<1>4. DescriptionsOK'
  <2>1. \A d \in descriptions' :
          /\ op'[d.id] = "intake" /\ step'[d.id] \in {"describe", "part"} /\ d = DescriptionRow(d.id)'
          /\ step'[d.id] = "describe" => state'[d.id] = "failed"
    <3> SUFFICES ASSUME NEW d \in descriptions'
                 PROVE  /\ op'[d.id] = "intake" /\ step'[d.id] \in {"describe", "part"} /\ d = DescriptionRow(d.id)'
                        /\ step'[d.id] = "describe" => state'[d.id] = "failed"
      OBVIOUS
    <3>1. CASE d = DescriptionRow(c)
      BY <1>1, <1>2, <3>1
    <3>2. CASE d # DescriptionRow(c)
      <4>1. d \in descriptions /\ d.id \in Calls /\ d = DescriptionRow(d.id) /\ d.id # c
        BY <1>3, <3>2 DEF IntakeInv, DescriptionsOK
      <4>2. step'[d.id] = step[d.id] /\ state'[d.id] = state[d.id]
        BY <4>1 DEF Alone
      <4> QED BY <1>1, <4>1, <4>2 DEF IntakeInv, DescriptionsOK
    <3> QED BY <3>1, <3>2
  <2>2. \A d, e \in descriptions' : d.user = e.user /\ d.text = e.text => d = e
    BY <1>2 DEF IntakeInv, DescriptionsOK, Taken
  <2> QED BY <2>1, <2>2 DEF DescriptionsOK
<1>5. ASSUME NEW d \in Calls \ {c} PROVE IntakeCallOK(d)'
  <2>1. /\ IntakeCallOK(d) /\ parts'[d] = parts[d] /\ found'[d] = found[d] /\ listed'[d] = listed[d]
        /\ op'[d] = op[d] /\ step'[d] = step[d] /\ state'[d] = state[d] /\ (d \in late' <=> d \in late)
    BY DEF IntakeInv, Alone
  <2>2. Open(d)' = Open(d) /\ descriptions \subseteq descriptions'
    BY <2>1 DEF Open
  <2>3. Driver = "memory" /\ Open(d) /\ step[d] = "describe" => Taken(d)' = Taken(d)
    BY DEF OwnTurn, RealWaits, Taken
  <2>4. \A x \in Calls : parts[x] = Parts => parts'[x] = Parts
    <3>1. parts[c] \in 0 .. Parts /\ parts'[c] \in 0 .. Parts
      BY DEF IntakeInv, IntakeType, Parts
    <3> QED BY <3>1, PartsAreNatural
  <2>5. Parts' = Parts
    BY DEF Parts
  <2> QED BY <1>1, <2>1, <2>2, <2>3, <2>4, <2>5 DEF IntakeCallOK
<1> QED BY <1>4, <1>5 DEF IntakeInv

\* A step of another component, or in front of the intake, leaves it alone.
LEMMA IntakeFrame ==
  ASSUME RequestsInv, IntakeInv, NEW c \in Calls, Alone(c), UNCHANGED intakeVars,
         op[c] # "intake" \/ step[c] \in Front \cup {"none"},
         op'[c] = "intake" => step'[c] \in Front \cup {"existing"} /\ state'[c] \notin {"ok", "failed"}
                              /\ (state'[c] = "refused" => step'[c] \in Front)
  PROVE  IntakeInv'
<1> USE DEF intakeVars
<1>1. \A d \in descriptions : d.id \in Calls \ {c}
  BY DEF IntakeInv, IntakeType, DescriptionsOK, Front
<1>2. IntakeType'
  BY DEF IntakeInv, IntakeType, Parts
<1>3. DescriptionsOK'
  <2>1. \A d \in descriptions :
          /\ op'[d.id] = "intake" /\ step'[d.id] \in {"describe", "part"} /\ d = DescriptionRow(d.id)'
          /\ step'[d.id] = "describe" => state'[d.id] = "failed"
    <3> SUFFICES ASSUME NEW d \in descriptions
                 PROVE  /\ op'[d.id] = "intake" /\ step'[d.id] \in {"describe", "part"} /\ d = DescriptionRow(d.id)'
                        /\ step'[d.id] = "describe" => state'[d.id] = "failed"
      OBVIOUS
    <3>1. DescriptionRow(d.id)' = DescriptionRow(d.id)
      BY <1>1 DEF DescriptionRow, Alone
    <3> QED BY <1>1, <3>1 DEF IntakeInv, DescriptionsOK, Alone
  <2> QED BY <2>1 DEF IntakeInv, DescriptionsOK
<1>4. IntakeCallOK(c)'
  <2>1. parts[c] = 0
    BY DEF IntakeInv, IntakeCallOK, Front
  <2> QED BY <2>1 DEF IntakeCallOK, Front
<1>5. ASSUME NEW d \in Calls \ {c} PROVE IntakeCallOK(d)'
  <2>1. /\ IntakeCallOK(d)
        /\ op'[d] = op[d] /\ step'[d] = step[d] /\ state'[d] = state[d] /\ (d \in late' <=> d \in late)
        /\ who'[d] = who[d] /\ about'[d] = about[d]
    BY DEF IntakeInv, Alone
  <2>2. Open(d)' = Open(d) /\ Taken(d)' = Taken(d) /\ DescriptionRow(d)' = DescriptionRow(d) /\ Parts' = Parts
    BY <2>1 DEF Open, Taken, DescriptionRow, Parts
  <2> QED BY <2>1, <2>2 DEF IntakeCallOK
<1> QED BY <1>2, <1>3, <1>4, <1>5 DEF IntakeInv

LEMMA IntakeFailure ==
  ASSUME RequestsInv, IntakeInv, Failed, UNCHANGED intakeVars
  PROVE  IntakeInv'
<1> USE DEF intakeVars, Failed
<1>1. IntakeType'
  BY DEF IntakeInv, IntakeType, Parts
<1>2. \A d \in descriptions : d.id \in Calls
  BY DEF IntakeInv, IntakeType
<1>3. DescriptionsOK'
  BY <1>2 DEF IntakeInv, DescriptionsOK, DescriptionRow, Open
<1>4. ASSUME NEW d \in Calls PROVE IntakeCallOK(d)'
  <2>1. IntakeCallOK(d) /\ DescriptionRow(d)' = DescriptionRow(d) /\ Taken(d)' = Taken(d) /\ Parts' = Parts
    BY DEF IntakeInv, Taken, DescriptionRow, Parts
  <2> QED BY <2>1 DEF IntakeCallOK, Open
<1> QED BY <1>1, <1>3, <1>4 DEF IntakeInv

\* A description whose intake has no turn under way has all its parts, over the memory driver.
LEMMA DescriptionsInTurn ==
  ASSUME RequestsInv, IntakeInv, NEW c \in Calls, OwnTurn(c), Driver = "memory",
         step[c] \notin {"describe", "part"}, NEW d \in descriptions
  PROVE  parts[d.id] = Parts
<1>1. /\ d.id \in Calls /\ op[d.id] = "intake" /\ step[d.id] \in {"describe", "part"} /\ d.id # c
      /\ step[d.id] = "describe" => state[d.id] = "failed"
  BY DEF IntakeInv, IntakeType, DescriptionsOK
<1>2. ~Open(d.id)
  BY <1>1 DEF OwnTurn, RealWaits
<1>3. IntakeCallOK(d.id) /\ CallOK(d.id) /\ state[d.id] \in States
  BY <1>1 DEF IntakeInv, RequestsInv, RequestTypes
<1>4. state[d.id] = "ok" /\ step[d.id] = "part"
  BY <1>1, <1>2, <1>3 DEF IntakeCallOK, CallOK, States, Open, Front
<1> QED BY <1>1, <1>3, <1>4 DEF IntakeCallOK

\* A part is written, by its step or given up.
LEMMA PartWritten ==
  ASSUME IntakeInv, NEW c \in Calls, parts[c] < Parts, step[c] = "part", WriteIntake(c)
  PROVE  /\ parts' \in [Calls -> 0 .. Parts] /\ parts'[c] = parts[c] + 1 /\ descriptions' = descriptions
         /\ \A d \in Calls \ {c} : parts'[d] = parts[d]
<1>1. parts \in [Calls -> 0 .. Parts] /\ parts' = [parts EXCEPT ![c] = @ + 1] /\ descriptions' = descriptions
  BY DEF IntakeInv, IntakeType, WriteIntake
<1>2. parts[c] + 1 \in 0 .. Parts
  BY <1>1, PartsAreNatural
<1> QED BY <1>1, <1>2

\* The row of a description is written, by its step or given up.
LEMMA DescriptionWritten ==
  ASSUME RequestsInv, IntakeInv, NEW c \in Calls, op[c] = "intake", step[c] = "describe", WriteIntake(c)
  PROVE  /\ parts' = parts /\ descriptions' = descriptions \cup {DescriptionRow(c)}
         /\ descriptions' \subseteq [id : Calls, user : Accounts, text : Texts]
<1>1. DescriptionRow(c) \in [id : Calls, user : Accounts, text : Texts]
  BY DEF DescriptionRow, RequestsInv, CallOK, NamedBy, Early, Front
<1> QED BY <1>1 DEF WriteIntake, IntakeInv, IntakeType

LEMMA IntakeKeeps ==
  ASSUME RequestsInv, IntakeInv, NEW c \in Calls, IntakeStep(c)
  PROVE  /\ RequestsInv' /\ IntakeInv' /\ Alone(c) /\ op' = op
         /\ op[c] = "intake" /\ step[c] \notin Front
<1> USE DEF Front
<1>1. IntakeCallOK(c) /\ IntakeType /\ DescriptionsOK
  BY DEF IntakeInv
<1>2. DescriptionRow(c) \in descriptions => step[c] \in {"describe", "part"} /\ (step[c] = "describe" => state[c] = "failed")
  BY <1>1 DEF DescriptionsOK, DescriptionRow
<1>3. parts[c] \in 0 .. Parts /\ listed[c] \in 0 .. Parts
  BY <1>1 DEF IntakeType
<1>4. op' = op /\ about' = about /\ who' = who => DescriptionRow(c)' = DescriptionRow(c) /\ Parts' = Parts
  BY DEF DescriptionRow, Parts
<1>5. CASE FindByHash(c)
  <2>1. Open(c) /\ step[c] = "existing" /\ op[c] = "intake" /\ OwnTurn(c) /\ who[c] \in Accounts
    BY <1>5, StepTells DEF FindByHash, At, RequestsInv, CallOK, Early
  <2>2. PICK f \in Calls, s \in {"describe", "requirements"} :
          /\ found' = [found EXCEPT ![c] = f] /\ Proceed(c, s) /\ UNCHANGED <<descriptions, parts, listed>>
          /\ s = "describe" => Taken(c) = {}
          /\ Driver = "memory" /\ s = "requirements" => parts[f] = Parts
    <3>1. CASE Taken(c) = {} /\ found' = [found EXCEPT ![c] = c] /\ Proceed(c, "describe")
      BY <1>5, <3>1 DEF FindByHash
    <3>2. ASSUME NEW d \in Taken(c), found' = [found EXCEPT ![c] = d.id], Proceed(c, "requirements")
          PROVE  /\ d.id \in Calls
                 /\ Driver = "memory" => parts[d.id] = Parts
      BY <1>1, <2>1, DescriptionsInTurn DEF Taken, IntakeType
    <3> QED BY <1>5, <3>1, <3>2 DEF FindByHash
  <2>3. /\ RequestsInv' /\ Alone(c) /\ late' = late /\ op' = op /\ about' = about /\ cookie' = cookie
        /\ who' = who /\ state' = state /\ step'[c] = s
    BY <2>1, <2>2, ProceedActs DEF StepsOf
  <2>4. found'[c] = f /\ \A d \in Calls \ {c} : found'[d] = found[d]
    BY <1>1, <2>2 DEF IntakeType
  <2>5. IntakeType'
    BY <1>1, <2>2 DEF IntakeType, Parts
  <2>6. IntakeCallOK(c)'
    BY <1>1, <1>4, <2>1, <2>2, <2>3, <2>4 DEF IntakeCallOK, Open, Taken
  <2> QED BY <1>2, <1>3, <2>1, <2>2, <2>3, <2>4, <2>5, <2>6, IntakeMoves
<1>6. CASE ListRequirements(c)
  <2>1. Open(c) /\ step[c] = "requirements" /\ op[c] = "intake" /\ who[c] \in Accounts
    BY <1>6, StepTells DEF ListRequirements, At, RequestsInv, CallOK, Early
  <2>2. /\ listed' = [listed EXCEPT ![c] = RequirementsOf(found[c])] /\ Proceed(c, "keywords")
        /\ UNCHANGED <<descriptions, parts, found>>
    BY <1>6 DEF ListRequirements
  <2>3. /\ RequestsInv' /\ Alone(c) /\ late' = late /\ op' = op /\ about' = about /\ cookie' = cookie
        /\ who' = who /\ state' = state /\ step'[c] = "keywords"
    BY <2>1, <2>2, ProceedActs DEF StepsOf
  <2>4. found[c] \in Calls /\ parts[found[c]] \in 0 .. Parts
    BY <1>1, <2>1 DEF IntakeCallOK, IntakeType
  <2>5. /\ RequirementsOf(found[c]) \in 0 .. Parts /\ RequirementsOf(found[c]) <= Requirements
        /\ parts[found[c]] = Parts => RequirementsOf(found[c]) = Requirements
    BY <2>4, PartsAreNatural DEF RequirementsOf, Least
  <2>6. listed'[c] = RequirementsOf(found[c]) /\ \A d \in Calls \ {c} : listed'[d] = listed[d]
    BY <1>1, <2>2 DEF IntakeType
  <2>7. IntakeType'
    BY <1>1, <2>2, <2>5 DEF IntakeType, Parts
  <2>8. IntakeCallOK(c)'
    BY <1>1, <1>4, <2>1, <2>2, <2>3, <2>4, <2>5, <2>6 DEF IntakeCallOK, Open, Taken
  <2> QED BY <1>2, <1>3, <2>1, <2>2, <2>3, <2>6, <2>7, <2>8, IntakeMoves
<1>7. CASE ListKeywords(c)
  <2>1. Open(c) /\ step[c] = "keywords" /\ op[c] = "intake"
    BY <1>7, StepTells DEF ListKeywords, At
  <2>2. /\ listed' = [listed EXCEPT ![c] = @ + KeywordsOf(found[c])] /\ Answer(c, "ok")
        /\ UNCHANGED <<descriptions, parts, found>>
    BY <1>7 DEF ListKeywords
  <2>3. /\ RequestsInv' /\ Alone(c) /\ late' = late /\ op' = op /\ about' = about /\ cookie' = cookie
        /\ who' = who /\ step' = step /\ state'[c] = "ok"
    BY <2>1, <2>2, AnswerActs
  <2>4. found[c] \in Calls /\ parts[found[c]] \in 0 .. Parts /\ listed[c] <= Requirements
    BY <1>1, <2>1 DEF IntakeCallOK, IntakeType
  <2>5. /\ listed[c] + KeywordsOf(found[c]) \in 0 .. Parts
        /\ parts[found[c]] = Parts => KeywordsOf(found[c]) = Keywords
    BY <1>3, <2>4, PartsAreNatural DEF KeywordsOf, RequirementsOf, Least
  <2>6. listed'[c] = listed[c] + KeywordsOf(found[c]) /\ \A d \in Calls \ {c} : listed'[d] = listed[d]
    BY <1>1, <2>2 DEF IntakeType
  <2>7. IntakeType'
    BY <1>1, <2>2, <2>5 DEF IntakeType, Parts
  <2>8. Driver = "memory" => listed'[c] = Parts
    BY <1>1, <2>1, <2>5, <2>6, PartsAreNatural DEF IntakeCallOK
  <2>9. IntakeCallOK(c)'
    BY <1>1, <1>4, <2>1, <2>2, <2>3, <2>4, <2>8 DEF IntakeCallOK, Open
  <2> QED BY <1>2, <1>3, <2>1, <2>2, <2>3, <2>6, <2>7, <2>9, IntakeMoves
<1>8. CASE CreateDescription(c)
  <2>1. Open(c) /\ step[c] = "describe" /\ op[c] = "intake" /\ OwnTurn(c) /\ who[c] \in Accounts
        /\ UNCHANGED <<found, listed>>
    BY <1>8, StepTells DEF CreateDescription, At, RequestsInv, CallOK, Early
  <2>2. parts[c] = 0 /\ DescriptionRow(c) \notin descriptions
    BY <1>1, <1>2, <2>1 DEF IntakeCallOK, Open
  <2>3. CASE TextIsFree(c)
    <3>1. WriteIntake(c) /\ Proceed(c, "part")
      BY <1>8, <2>3 DEF CreateDescription
    <3>2. Taken(c) = {}
      BY <1>1, <2>1, <2>3, RequestsAssumption DEF TextIsFree, IntakeCallOK
    <3>3. /\ parts' = parts /\ descriptions' = descriptions \cup {DescriptionRow(c)}
          /\ descriptions' \subseteq [id : Calls, user : Accounts, text : Texts]
      BY <2>1, <3>1, DescriptionWritten
    <3>4. /\ RequestsInv' /\ Alone(c) /\ late' = late /\ op' = op /\ about' = about /\ cookie' = cookie
          /\ who' = who /\ state' = state /\ step'[c] = "part"
      BY <2>1, <3>1, ProceedActs DEF StepsOf
    <3>5. IntakeType'
      BY <1>1, <2>1, <3>3 DEF IntakeType, Parts
    <3>6. IntakeCallOK(c)'
      BY <1>1, <1>4, <2>1, <2>2, <3>3, <3>4, PartsAreNatural DEF IntakeCallOK, Open
    <3> QED BY <1>3, <2>1, <3>2, <3>3, <3>4, <3>5, <3>6, IntakeMoves
  <2>4. CASE ~TextIsFree(c)
    <3>1. Answer(c, "failed") /\ UNCHANGED intakeVars /\ Driver = "postgres"
      BY <1>8, <2>1, <2>4 DEF CreateDescription, TextIsFree, intakeVars
    <3>2. /\ RequestsInv' /\ Alone(c) /\ late' = late /\ op' = op /\ about' = about /\ cookie' = cookie
          /\ who' = who /\ step' = step /\ state'[c] = "failed"
      BY <2>1, <3>1, AnswerActs
    <3>3. IntakeType'
      BY <1>1, <3>1 DEF IntakeType, Parts, intakeVars
    <3>4. IntakeCallOK(c)'
      BY <1>1, <2>1, <2>2, <3>1, <3>2 DEF IntakeCallOK, intakeVars, Open
    <3> QED BY <1>3, <2>1, <2>2, <3>1, <3>2, <3>3, <3>4, IntakeMoves DEF intakeVars
  <2> QED BY <2>3, <2>4
<1>9. CASE CreatePart(c)
  <2>1. Open(c) /\ step[c] = "part" /\ op[c] = "intake" /\ who[c] \in Accounts /\ WriteIntake(c) /\ found' = found
    BY <1>9, StepTells DEF CreatePart, At, RequestsInv, CallOK, Early
  <2>2. parts[c] < Parts /\ DescriptionRow(c) \in descriptions
    BY <1>1, <2>1 DEF IntakeCallOK
  <2>3. /\ parts' \in [Calls -> 0 .. Parts] /\ parts'[c] = parts[c] + 1 /\ descriptions' = descriptions
        /\ \A d \in Calls \ {c} : parts'[d] = parts[d]
    BY <2>1, <2>2, PartWritten
  <2>4. parts'[c] >= parts[c]
    BY <1>3, <2>3
  <2>5. CASE parts[c] + 1 = Parts
    <3>1. Answer(c, "ok") /\ listed' = [listed EXCEPT ![c] = Parts]
      BY <1>9, <2>5 DEF CreatePart
    <3>2. /\ RequestsInv' /\ Alone(c) /\ late' = late /\ op' = op /\ about' = about /\ cookie' = cookie
          /\ who' = who /\ step' = step /\ state'[c] = "ok"
      BY <2>1, <3>1, AnswerActs
    <3>3. listed'[c] = Parts /\ (\A d \in Calls \ {c} : listed'[d] = listed[d]) /\ listed' \in [Calls -> 0 .. Parts]
      BY <1>1, <3>1, PartsAreNatural DEF IntakeType
    <3>4. IntakeType'
      BY <1>1, <2>1, <2>3, <3>3 DEF IntakeType, Parts
    <3>5. c \notin late
      BY <2>1 DEF RequestsInv, CallOK, Open
    <3>6. IntakeCallOK(c)'
      BY <1>1, <1>4, <2>1, <2>2, <2>3, <2>5, <3>2, <3>3, <3>5 DEF IntakeCallOK, Open
    <3> QED BY <2>1, <2>3, <2>4, <3>2, <3>3, <3>4, <3>6, IntakeMoves
  <2>6. CASE parts[c] + 1 # Parts
    <3>1. Proceed(c, "part") /\ listed' = listed
      BY <1>9, <2>6 DEF CreatePart
    <3>2. /\ RequestsInv' /\ Alone(c) /\ late' = late /\ op' = op /\ about' = about /\ cookie' = cookie
          /\ who' = who /\ state' = state /\ step'[c] = "part"
      BY <2>1, <3>1, ProceedActs DEF StepsOf
    <3>3. IntakeType'
      BY <1>1, <2>1, <2>3, <3>1 DEF IntakeType, Parts
    <3>4. parts'[c] < Parts
      BY <1>3, <2>2, <2>3, <2>6, PartsAreNatural
    <3>5. IntakeCallOK(c)'
      BY <1>1, <1>4, <2>1, <2>2, <2>3, <3>2, <3>4 DEF IntakeCallOK, Open
    <3> QED BY <2>1, <2>3, <2>4, <3>1, <3>2, <3>3, <3>5, IntakeMoves
  <2> QED BY <2>5, <2>6
<1>10. CASE LateIntakeWrite(c)
  <2>1. /\ RequestsInv' /\ Alone(c) /\ c \in late /\ c \notin late'
        /\ op' = op /\ about' = about /\ cookie' = cookie /\ who' = who /\ step' = step /\ state' = state
        /\ state[c] = "failed" /\ Driver = "postgres"
    BY <1>10, ArrivesActs DEF LateIntakeWrite
  <2>2. step[c] \in {"describe", "part"} /\ op[c] = "intake" /\ UNCHANGED <<found, listed>>
    BY <1>10, StepTells DEF LateIntakeWrite, WritesIntake
  <2>3. OwnTurn(c)
    BY <2>1 DEF OwnTurn
  <2>4. CASE TextIsFree(c) /\ step[c] = "describe"
    <3>1. /\ parts' = parts /\ descriptions' = descriptions \cup {DescriptionRow(c)}
          /\ descriptions' \subseteq [id : Calls, user : Accounts, text : Texts]
      BY <1>10, <2>2, <2>4, DescriptionWritten DEF LateIntakeWrite
    <3>2. IntakeType'
      BY <1>1, <2>2, <3>1 DEF IntakeType, Parts
    <3>3. IntakeCallOK(c)'
      BY <1>1, <1>4, <2>1, <2>2, <2>4, <3>1 DEF IntakeCallOK, Open
    <3> QED BY <1>3, <2>1, <2>2, <2>3, <2>4, <3>1, <3>2, <3>3, IntakeMoves DEF TextIsFree
  <2>5. CASE step[c] = "part"
    <3>1. parts[c] < Parts /\ TextIsFree(c) /\ DescriptionRow(c) \in descriptions
      BY <1>1, <2>1, <2>2, <2>5 DEF IntakeCallOK, TextIsFree
    <3>2. /\ parts' \in [Calls -> 0 .. Parts] /\ parts'[c] = parts[c] + 1 /\ descriptions' = descriptions
          /\ \A d \in Calls \ {c} : parts'[d] = parts[d]
      BY <1>10, <2>5, <3>1, PartWritten DEF LateIntakeWrite
    <3>3. parts'[c] >= parts[c]
      BY <1>3, <3>2
    <3>4. IntakeType'
      BY <1>1, <2>2, <3>2 DEF IntakeType, Parts
    <3>5. IntakeCallOK(c)'
      BY <1>1, <1>4, <2>1, <2>2, <2>5, <3>1, <3>2 DEF IntakeCallOK, Open
    <3> QED BY <2>1, <2>2, <2>5, <3>2, <3>3, <3>4, <3>5, IntakeMoves
  <2>6. CASE ~TextIsFree(c)
    <3>1. UNCHANGED intakeVars
      BY <1>10, <2>6 DEF LateIntakeWrite, intakeVars
    <3>2. IntakeType'
      BY <1>1, <3>1 DEF IntakeType, Parts, intakeVars
    <3>3. IntakeCallOK(c)'
      BY <1>1, <1>4, <2>1, <2>2, <3>1 DEF IntakeCallOK, intakeVars, Open
    <3> QED BY <1>2, <1>3, <2>1, <2>2, <3>1, <3>2, <3>3, IntakeMoves DEF intakeVars
  <2> QED BY <2>2, <2>4, <2>5, <2>6
<1> QED BY <1>5, <1>6, <1>7, <1>8, <1>9, <1>10 DEF IntakeStep

-----------------------------------------------------------------------------
(* Applications: their types, and what calls of theirs name.                     *)

Artifact == {"version"} \cup Artifacts

AnEvent ==
  [type : {"created", "status", "note"} \cup Artifact, by : Accounts,
   from : Statuses \cup {"none"}, to : Statuses \cup {"none"}]

ApplicationTypes ==
  /\ applications \subseteq [id : Accounts, user : Accounts, status : Statuses]
  /\ timeline \in [Accounts -> Seq(AnEvent)]
  /\ notes \subseteq [id : Calls, user : Accounts, application : Accounts]
  /\ target \in [Calls -> Accounts \cup {Nobody}]
  /\ links \in [Calls -> Seq(Artifact)] /\ \A c \in Calls : Len(links[c]) <= 2
  /\ seen \in [Calls -> Statuses \cup {"none"}]
  /\ overlapped \subseteq Accounts

ApplicationCallOK(c) ==
  /\ op[c] \in {"apply", "move", "note"} => target[c] \in Accounts
  /\ op[c] = "apply" /\ step[c] # "get" => links[c] # <<>>

ApplicationsInv == ApplicationTypes /\ \A c \in Calls : ApplicationCallOK(c)

LEMMA ApplicationsTyped == ApplicationsInv => ApplicationsType
<1> SUFFICES ASSUME ApplicationsInv PROVE ApplicationsType
  OBVIOUS
<1>1. ASSUME NEW a \in Accounts, NEW i \in 1 .. Len(timeline[a]) PROVE timeline[a][i].by \in Accounts
  <2>1. timeline[a][i] \in AnEvent
    BY DEF ApplicationsInv, ApplicationTypes
  <2> QED BY <2>1 DEF AnEvent
<1> QED BY <1>1 DEF ApplicationsInv, ApplicationTypes, ApplicationsType

\* A step of another component, a failure or the session check leaves them alone.
LEMMA ApplicationsFrame ==
  ASSUME ApplicationsInv, UNCHANGED applicationVars,
         \A c \in Calls :
           /\ op'[c] = op[c] \/ op'[c] \notin {"apply", "move", "note"}
           /\ step'[c] = step[c] \/ op'[c] # "apply" \/ step[c] # "get"
  PROVE  ApplicationsInv'
  BY DEF ApplicationsInv, ApplicationTypes, ApplicationCallOK, applicationVars, AnEvent, Artifact, Accounts

\* The writes of the application workspace.
LEMMA ApplicationWritten ==
  ASSUME RequestsInv, ApplicationsInv, NEW c \in Calls, WriteApplication(c), WritesApplications(c),
         op[c] \in {"apply", "move", "note"}, op[c] = "apply" \/ step[c] # "attach"
  PROVE  /\ applications' \subseteq [id : Accounts, user : Accounts, status : Statuses]
         /\ timeline' \in [Accounts -> Seq(AnEvent)]
         /\ notes' \subseteq [id : Calls, user : Accounts, application : Accounts]
<1>1. /\ who[c] \in Accounts /\ target[c] \in Accounts /\ c \in Accounts
      /\ step[c] \in {"application", "update", "event"} => about[c] \in Statuses
      /\ seen[c] \in Statuses \cup {"none"} /\ ApplicationTypes
  <2>1. who[c] \in Accounts
    BY DEF WritesApplications, RequestsInv, CallOK, Early, Front
  <2>2. step[c] \in {"application", "update", "event"} => about[c] \in Statuses
    BY ApplicationsAssumption, StepTells DEF RequestsInv, CallOK, NamedBy
  <2> QED BY <2>1, <2>2 DEF Accounts, ApplicationsInv, ApplicationTypes, ApplicationCallOK
<1>2. ASSUME NEW e \in AnEvent PROVE Happened(target[c], e) \in [Accounts -> Seq(AnEvent)]
  BY <1>1 DEF ApplicationTypes, Happened
<1>3. CASE step[c] = "application"
  BY <1>1, <1>3 DEF WriteApplication, ApplicationTypes
<1>4. CASE step[c] \in {"created", "tell"}
  <2>1. Event(c, "created", "none", "none") \in AnEvent /\ Event(c, "note", "none", "none") \in AnEvent
    BY <1>1 DEF Event, AnEvent
  <2> QED BY <1>1, <1>2, <1>4, <2>1 DEF WriteApplication, ApplicationTypes
<1>5. CASE step[c] = "attach"
  <2>1. links[c] # <<>> /\ links[c] \in Seq(Artifact)
    BY <1>1, <1>5 DEF ApplicationsInv, ApplicationTypes, ApplicationCallOK
  <2>2. Head(links[c]) \in Artifact
    BY <2>1
  <2>3. AttachedEvent(c, Head(links[c])) \in AnEvent
    BY <1>1, <2>2 DEF AttachedEvent, Event, AnEvent
  <2> QED BY <1>1, <1>2, <1>5, <2>3 DEF WriteApplication, ApplicationTypes
<1>6. CASE step[c] = "update"
  <2>1. \A a \in applications : [a EXCEPT !.status = about[c]] \in [id : Accounts, user : Accounts, status : Statuses]
    BY <1>1, <1>6 DEF ApplicationTypes
  <2> QED BY <1>1, <1>6, <2>1 DEF WriteApplication, ApplicationTypes
<1>7. CASE step[c] = "event"
  <2>1. MoveEvent(c) \in AnEvent
    BY <1>1, <1>7 DEF MoveEvent, Event, AnEvent
  <2> QED BY <1>1, <1>2, <1>7, <2>1 DEF WriteApplication, ApplicationTypes
<1>8. CASE step[c] = "keep"
  BY <1>1, <1>8 DEF WriteApplication, ApplicationTypes
<1> QED BY <1>3, <1>4, <1>5, <1>6, <1>7, <1>8 DEF WritesApplications

\* What a step of the application workspace must show for the invariant to be kept.
LEMMA ApplicationsMove ==
  ASSUME ApplicationsInv, NEW c \in Calls, Alone(c), op' = op, target' = target,
         /\ applications' \subseteq [id : Accounts, user : Accounts, status : Statuses]
         /\ timeline' \in [Accounts -> Seq(AnEvent)]
         /\ notes' \subseteq [id : Calls, user : Accounts, application : Accounts],
         seen' \in [Calls -> Statuses \cup {"none"}], overlapped' \subseteq Accounts,
         \/ links' = links /\ (op[c] = "apply" => step[c] # "get" \/ step'[c] = "get")
         \/ /\ links[c] # <<>> /\ links' = [links EXCEPT ![c] = Tail(@)]
            /\ step'[c] = IF Len(links[c]) = 1 THEN "get" ELSE "attach"
  PROVE  ApplicationsInv'
<1>1. links \in [Calls -> Seq(Artifact)] /\ \A d \in Calls : Len(links[d]) <= 2
  BY DEF ApplicationsInv, ApplicationTypes
<1>2. /\ links' \in [Calls -> Seq(Artifact)] /\ \A d \in Calls : Len(links'[d]) <= 2
      /\ op[c] = "apply" /\ step'[c] # "get" => links'[c] # <<>>
      /\ \A d \in Calls \ {c} : links'[d] = links[d]
  <2>1. CASE links' = links /\ (op[c] = "apply" => step[c] # "get" \/ step'[c] = "get")
    BY <1>1, <2>1 DEF ApplicationsInv, ApplicationCallOK
  <2>2. CASE /\ links[c] # <<>> /\ links' = [links EXCEPT ![c] = Tail(@)]
             /\ step'[c] = IF Len(links[c]) = 1 THEN "get" ELSE "attach"
    <3>1. Tail(links[c]) \in Seq(Artifact) /\ Len(Tail(links[c])) = Len(links[c]) - 1 /\ Len(links[c]) \in Nat
      BY <1>1, <2>2
    <3>2. Len(Tail(links[c])) <= 2
      BY <1>1, <3>1
    <3>3. links'[c] = Tail(links[c]) /\ \A d \in Calls \ {c} : links'[d] = links[d]
      BY <1>1, <2>2
    <3>4. step'[c] # "get" => Tail(links[c]) # <<>>
      <4> SUFFICES ASSUME Len(links[c]) # 1, Tail(links[c]) = <<>> PROVE FALSE
        BY <2>2
      <4>1. Len(Tail(links[c])) = 0
        BY <3>1, EmptySeq
      <4> QED BY <3>1, <4>1
    <3>5. links' \in [Calls -> Seq(Artifact)]
      BY <1>1, <2>2, <3>1
    <3> QED BY <1>1, <3>2, <3>3, <3>4, <3>5
  <2> QED BY <2>1, <2>2
<1>3. ApplicationTypes'
  BY <1>2 DEF ApplicationsInv, ApplicationTypes, AnEvent, Artifact, Accounts
<1>4. \A d \in Calls : ApplicationCallOK(d)'
  BY <1>2, ZenonT(60) DEF ApplicationsInv, ApplicationCallOK, Alone, Accounts
<1> QED BY <1>3, <1>4 DEF ApplicationsInv

LEMMA ApplicationsKeep ==
  ASSUME RequestsInv, ApplicationsInv, NEW c \in Calls, ApplicationsStep(c)
  PROVE  /\ RequestsInv' /\ ApplicationsInv' /\ Alone(c) /\ op' = op
         /\ op[c] \in {"apply", "move", "note"} /\ step[c] \notin Front
<1> USE DEF Front
<1>1. /\ applications \subseteq [id : Accounts, user : Accounts, status : Statuses]
      /\ timeline \in [Accounts -> Seq(AnEvent)]
      /\ notes \subseteq [id : Calls, user : Accounts, application : Accounts]
      /\ seen \in [Calls -> Statuses \cup {"none"}] /\ overlapped \subseteq Accounts
      /\ ApplicationCallOK(c)
  BY DEF ApplicationsInv, ApplicationTypes
<1>2. CASE ValidateArtifactRefs(c)
  <2>1. Open(c) /\ step[c] = "references" /\ op[c] = "apply" /\ who[c] \in Accounts /\ UNCHANGED applicationVars
    BY <1>2, StepTells DEF ValidateArtifactRefs, At, RequestsInv, CallOK, Early
  <2>2. Proceed(c, "application") \/ Answer(c, "refused")
    BY <1>2 DEF ValidateArtifactRefs
  <2>3. CASE Proceed(c, "application")
    <3>1. RequestsInv' /\ Alone(c) /\ op' = op
      BY <2>1, <2>3, ProceedActs DEF StepsOf
    <3> QED BY <1>1, <2>1, <3>1, ApplicationsMove DEF applicationVars
  <2>4. CASE Answer(c, "refused")
    <3>1. RequestsInv' /\ Alone(c) /\ op' = op
      BY <2>1, <2>4, AnswerActs
    <3> QED BY <1>1, <2>1, <3>1, ApplicationsMove DEF applicationVars
  <2> QED BY <2>2, <2>3, <2>4
<1>3. CASE CreateApplication(c)
  <2>1. /\ Open(c) /\ step[c] \in {"application", "created", "attach"} /\ op[c] = "apply" /\ who[c] \in Accounts
        /\ WriteApplication(c) /\ UNCHANGED <<target, seen, overlapped>> /\ WritesApplications(c)
    BY <1>3, StepTells DEF CreateApplication, At, RequestsInv, CallOK, Early, WritesApplications
  <2>2. PICK s \in {"created", "attach", "get"} :
          /\ Proceed(c, s)
          /\ \/ links' = links
             \/ links' = [links EXCEPT ![c] = Tail(@)] /\ s = IF Len(links[c]) = 1 THEN "get" ELSE "attach"
    BY <1>3 DEF CreateApplication
  <2>3. RequestsInv' /\ Alone(c) /\ op' = op /\ step'[c] = s
    BY <2>1, <2>2, ProceedActs DEF StepsOf
  <2>4. links[c] # <<>>
    BY <1>1, <2>1 DEF ApplicationCallOK
  <2>5. ApplicationsInv'
    BY <1>1, <2>1, <2>2, <2>3, <2>4, ApplicationWritten, ApplicationsMove
  <2> QED BY <2>1, <2>3, <2>5
<1>4. CASE ReadStatus(c)
  <2>1. /\ Open(c) /\ step[c] = "current" /\ op[c] = "move" /\ who[c] \in Accounts
        /\ UNCHANGED <<applications, timeline, notes, target, links>>
    BY <1>4, StepTells DEF ReadStatus, At, RequestsInv, CallOK, Early
  <2>2. CASE Answer(c, "refused") /\ UNCHANGED <<seen, overlapped>>
    <3>1. RequestsInv' /\ Alone(c) /\ op' = op
      BY <2>1, <2>2, AnswerActs
    <3> QED BY <1>1, <2>1, <2>2, <3>1, ApplicationsMove
  <2>3. ASSUME NEW a \in OwnApplication(c), NEW s \in {"get", "update"}, Proceed(c, s),
               seen' = [seen EXCEPT ![c] = a.status], overlapped' \in {overlapped, overlapped \cup {a.id}}
        PROVE  /\ RequestsInv' /\ ApplicationsInv' /\ Alone(c) /\ op' = op
               /\ op[c] \in {"apply", "move", "note"} /\ step[c] \notin Front
    <3>1. RequestsInv' /\ Alone(c) /\ op' = op
      BY <2>1, <2>3, ProceedActs DEF StepsOf
    <3>2. a.status \in Statuses /\ a.id \in Accounts
      BY <1>1 DEF OwnApplication
    <3>3. seen' \in [Calls -> Statuses \cup {"none"}] /\ overlapped' \subseteq Accounts
      BY <1>1, <2>3, <3>2
    <3> QED BY <1>1, <2>1, <3>1, <3>3, ApplicationsMove
  <2>4. ASSUME NEW a \in OwnApplication(c), seen' = [seen EXCEPT ![c] = a.status],
               IF a.status = about[c]
               THEN Proceed(c, "get") /\ UNCHANGED overlapped
               ELSE /\ Proceed(c, "update")
                    /\ overlapped' = IF Moving(a.id) = {} THEN overlapped ELSE overlapped \cup {a.id}
        PROVE  /\ RequestsInv' /\ ApplicationsInv' /\ Alone(c) /\ op' = op
               /\ op[c] \in {"apply", "move", "note"} /\ step[c] \notin Front
    BY <2>3, <2>4
  <2> QED BY <1>4, <2>2, <2>4 DEF ReadStatus
<1>5. CASE UpdateStatus(c)
  <2>1. /\ Open(c) /\ step[c] = "update" /\ op[c] = "move" /\ who[c] \in Accounts /\ Proceed(c, "event")
        /\ WriteApplication(c) /\ UNCHANGED <<target, links, seen, overlapped>> /\ WritesApplications(c)
    BY <1>5, StepTells DEF UpdateStatus, At, RequestsInv, CallOK, Early, WritesApplications
  <2>2. RequestsInv' /\ Alone(c) /\ op' = op
    BY <2>1, ProceedActs DEF StepsOf
  <2> QED BY <1>1, <2>1, <2>2, ApplicationWritten, ApplicationsMove
<1>6. CASE RecordStatusChange(c)
  <2>1. /\ Open(c) /\ step[c] = "event" /\ op[c] = "move" /\ who[c] \in Accounts /\ Proceed(c, "get")
        /\ WriteApplication(c) /\ UNCHANGED <<target, links, seen, overlapped>> /\ WritesApplications(c)
    BY <1>6, StepTells DEF RecordStatusChange, At, RequestsInv, CallOK, Early, WritesApplications
  <2>2. RequestsInv' /\ Alone(c) /\ op' = op
    BY <2>1, ProceedActs DEF StepsOf
  <2> QED BY <1>1, <2>1, <2>2, ApplicationWritten, ApplicationsMove
<1>7. CASE FindNoted(c)
  <2>1. Open(c) /\ step[c] = "noted" /\ op[c] = "note" /\ who[c] \in Accounts /\ UNCHANGED applicationVars
    BY <1>7, StepTells DEF FindNoted, At, RequestsInv, CallOK, Early
  <2>2. Proceed(c, "keep") \/ Answer(c, "refused")
    BY <1>7 DEF FindNoted
  <2>3. RequestsInv' /\ Alone(c) /\ op' = op
    BY <2>1, <2>2, ProceedActs, AnswerActs DEF StepsOf
  <2> QED BY <1>1, <2>1, <2>3, ApplicationsMove DEF applicationVars
<1>8. CASE CreateNote(c)
  <2>1. /\ Open(c) /\ step[c] = "keep" /\ op[c] = "note" /\ who[c] \in Accounts /\ Proceed(c, "tell")
        /\ WriteApplication(c) /\ UNCHANGED <<target, links, seen, overlapped>> /\ WritesApplications(c)
    BY <1>8, StepTells DEF CreateNote, At, RequestsInv, CallOK, Early, WritesApplications
  <2>2. RequestsInv' /\ Alone(c) /\ op' = op
    BY <2>1, ProceedActs DEF StepsOf
  <2> QED BY <1>1, <2>1, <2>2, ApplicationWritten, ApplicationsMove
<1>9. CASE RecordNote(c)
  <2>1. /\ Open(c) /\ step[c] = "tell" /\ op[c] = "note" /\ Answer(c, "ok")
        /\ WriteApplication(c) /\ UNCHANGED <<target, links, seen, overlapped>> /\ WritesApplications(c)
    BY <1>9, StepTells DEF RecordNote, At, WritesApplications
  <2>2. RequestsInv' /\ Alone(c) /\ op' = op
    BY <2>1, AnswerActs
  <2> QED BY <1>1, <2>1, <2>2, ApplicationWritten, ApplicationsMove
<1>10. CASE GetApplication(c)
  <2>1. Open(c) /\ step[c] = "get" /\ op[c] \in {"apply", "move"} /\ UNCHANGED applicationVars
    BY <1>10, StepTells DEF GetApplication, At
  <2>2. PICK outcome \in {"ok", "refused"} : Answer(c, outcome)
    BY <1>10 DEF GetApplication
  <2>3. RequestsInv' /\ Alone(c) /\ op' = op /\ step' = step
    BY <2>1, <2>2, AnswerActs
  <2> QED BY <1>1, <2>1, <2>3, ApplicationsMove DEF applicationVars
<1>11. CASE LateApplicationWrite(c)
  <2>1. RequestsInv' /\ Alone(c) /\ op' = op /\ step' = step
    BY <1>11, ArrivesActs DEF LateApplicationWrite
  <2>2. /\ WritesApplications(c) /\ WriteApplication(c) /\ UNCHANGED <<target, links, seen, overlapped>>
        /\ op[c] \in {"apply", "move", "note"} /\ (op[c] = "apply" \/ step[c] # "attach")
        /\ step[c] \notin {"authenticate", "owner", "get"}
    BY <1>11, StepTells DEF LateApplicationWrite, WritesApplications
  <2> QED BY <1>1, <2>1, <2>2, ApplicationWritten, ApplicationsMove
<1> QED BY <1>2, <1>3, <1>4, <1>5, <1>6, <1>7, <1>8, <1>9, <1>10, <1>11 DEF ApplicationsStep

-----------------------------------------------------------------------------
(* The inductive invariant.                                                      *)

IInv == RequestsInv /\ AccountsInv /\ UploadInv /\ IntakeInv /\ ApplicationsInv

LEMMA InitOK == Init => IInv
<1> SUFFICES ASSUME Init PROVE IInv
  OBVIOUS
<1> USE DEF Init
<1>1. Seed \in Accounts /\ \A c \in Calls : c \in Accounts
  BY DEF Accounts
<1>2. RequestsInv
  <2>1. RequestTypes
    BY RequestsAssumption DEF RequestsInit, RequestTypes, Operations, States
  <2>2. \A c \in Calls : CallOK(c)
    BY DEF RequestsInit, CallOK, StepsOf, NamedBy, Early
  <2> QED BY <2>1, <2>2 DEF RequestsInv
<1>3. AccountsInv
  <2>1. AccountsType
    BY <1>1, AddressAssumption DEF AccountsInit, AccountsType
  <2>2. UsersOK /\ IdentitiesOK /\ SessionsOK
    BY DEF AccountsInit, UsersOK, IdentitiesOK, SessionsOK, HasIdentity
  <2>3. \A c \in Calls : SignupOK(c) /\ LoginOK(c) /\ LogoutOK(c)
    BY DEF RequestsInit, SignupOK, LoginOK, LogoutOK
  <2> QED BY <2>1, <2>2, <2>3 DEF AccountsInv
<1>4. UploadInv
  BY DEF RequestsInit, UploadInit, UploadInv, UploadType, UploadCallOK, UploadRowsOK, PartialIsWritten, FilesAreUnique
<1>5. IntakeInv
  <2>1. IntakeType
    BY PartsAreNatural DEF IntakeInit, IntakeType
  <2>2. DescriptionsOK /\ \A c \in Calls : IntakeCallOK(c)
    BY DEF RequestsInit, IntakeInit, DescriptionsOK, IntakeCallOK
  <2> QED BY <2>1, <2>2 DEF IntakeInv
<1>6. ApplicationsInv
  <2>1. applications \subseteq [id : Accounts, user : Accounts, status : Statuses]
    BY <1>1, ApplicationsAssumption DEF ApplicationsInit
  <2>2. timeline \in [Accounts -> Seq(AnEvent)]
    <3>1. /\ [type |-> "created", by |-> Seed, from |-> "none", to |-> "none"] \in AnEvent
          /\ [type |-> "version", by |-> Seed, from |-> "none", to |-> "none"] \in AnEvent
      BY <1>1 DEF AnEvent, Artifact
    <3> QED BY <3>1 DEF ApplicationsInit
  <2>3. links \in [Calls -> Seq(Artifact)] /\ \A c \in Calls : Len(links[c]) <= 2
    BY DEF ApplicationsInit
  <2>4. \A c \in Calls : ApplicationCallOK(c)
    BY DEF RequestsInit, ApplicationCallOK
  <2> QED BY <2>1, <2>2, <2>3, <2>4 DEF ApplicationsInit, ApplicationsInv, ApplicationTypes
<1> QED BY <1>2, <1>3, <1>4, <1>5, <1>6 DEF IInv

\* A call that enters leaves uploads and intakes alone.
LEMMA EnteringKeeps ==
  ASSUME IInv, NEW c \in Calls, RequestsInv', Alone(c), Entering(c)
  PROVE  /\ UNCHANGED uploadVars => UploadInv'
         /\ UNCHANGED intakeVars => IntakeInv'
         /\ UNCHANGED applicationVars /\ (op[c] = "none" => op'[c] \notin {"apply", "move", "note"}) => ApplicationsInv'
<1>1. /\ step[c] \in Front \cup {"none"} /\ step'[c] \in StepsOf(op'[c])
      /\ op'[c] = "upload" => step'[c] \in Front \cup {"duplicate"} /\ state'[c] # "ok"
      /\ op'[c] = "intake" => step'[c] \in Front \cup {"existing"} /\ state'[c] \notin {"ok", "failed"}
                              /\ (state'[c] = "refused" => step'[c] \in Front)
  BY DEF Entering, RequestsInv, CallOK, StepsOf, Front
<1>2. UNCHANGED uploadVars => UploadInv'
  BY <1>1, UploadFrame DEF IInv
<1>3. UNCHANGED intakeVars => IntakeInv'
  BY <1>1, IntakeFrame DEF IInv
<1>4. UNCHANGED applicationVars /\ (op[c] = "none" => op'[c] \notin {"apply", "move", "note"}) => ApplicationsInv'
  BY ApplicationsFrame DEF IInv, Entering, Alone, Front
<1> QED BY <1>2, <1>3, <1>4

LEMMA ProtectedKeeps ==
  ASSUME IInv, NEW c \in Calls, RequestProtected(c)
  PROVE  IInv'
<1>1. /\ RequestsInv' /\ Alone(c) /\ Entering(c)
      /\ op[c] = "none" /\ op'[c] \notin {"signup", "login", "logout"} /\ UNCHANGED accountVars
  BY ProtectedEnters DEF IInv, RequestProtected
<1>2. AccountsInv'
  BY <1>1, AccountsFrame DEF IInv
<1>3. UNCHANGED uploadVars /\ UNCHANGED intakeVars
  BY DEF RequestProtected, RequestUpload, RequestIntake
<1>4. ApplicationsInv'
  <2>1. PICK s \in sessions :
          \/ RequestUpload(c, s.id) /\ UNCHANGED applicationVars
          \/ RequestIntake(c, s.id) /\ UNCHANGED applicationVars
          \/ RequestApply(c, s.id) \/ RequestMove(c, s.id) \/ RequestNote(c, s.id)
    BY DEF RequestProtected
  <2>2. CASE RequestUpload(c, s.id) /\ UNCHANGED applicationVars
    <3>1. op'[c] = "upload"
      BY <2>2 DEF RequestUpload, Arrive, IInv, RequestsInv, RequestTypes
    <3> QED BY <1>1, <2>2, <3>1, EnteringKeeps
  <2>3. CASE RequestIntake(c, s.id) /\ UNCHANGED applicationVars
    <3>1. op'[c] = "intake"
      BY <2>3 DEF RequestIntake, Arrive, IInv, RequestsInv, RequestTypes
    <3> QED BY <1>1, <2>3, <3>1, EnteringKeeps
  <2>4. CASE RequestApply(c, s.id) \/ RequestMove(c, s.id) \/ RequestNote(c, s.id)
    <3> DEFINE L == {<<"version">>} \cup {<<"version", a>> : a \in Artifacts}
    <3>1. L \subseteq Seq(Artifact) /\ \A x \in L : Len(x) <= 2 /\ x # <<>>
      <4>1. <<"version">> \in Seq(Artifact) /\ Len(<<"version">>) <= 2 /\ <<"version">> # <<>>
        BY DEF Artifact
      <4>2. ASSUME NEW a \in Artifacts
            PROVE  <<"version", a>> \in Seq(Artifact) /\ Len(<<"version", a>>) <= 2 /\ <<"version", a>> # <<>>
        BY DEF Artifact
      <4>3. \A x \in L : x \in Seq(Artifact) /\ Len(x) <= 2 /\ x # <<>>
        BY <4>1, <4>2
      <4> HIDE DEF L
      <4> QED BY <4>3
    <3>2. /\ UNCHANGED <<applications, timeline, notes, seen, overlapped>>
          /\ \E a \in Accounts : target' = [target EXCEPT ![c] = a]
          /\ \/ op'[c] \in {"move", "note"} /\ links' = links
             \/ op'[c] = "apply" /\ \E x \in L : links' = [links EXCEPT ![c] = x]
      <4>1. \A a \in applications : a.id \in Accounts
        BY DEF IInv, ApplicationsInv, ApplicationTypes
      <4>2. CASE RequestApply(c, s.id)
        <5>1. op'[c] = "apply"
          BY <4>2 DEF RequestApply, Arrive, IInv, RequestsInv, RequestTypes
        <5> QED BY <4>2, <5>1 DEF RequestApply, Accounts
      <4>3. CASE RequestMove(c, s.id)
        <5>1. op'[c] = "move"
          BY <4>3 DEF RequestMove, Arrive, IInv, RequestsInv, RequestTypes
        <5> QED BY <4>1, <4>3, <5>1 DEF RequestMove
      <4>4. CASE RequestNote(c, s.id)
        <5>1. op'[c] = "note"
          BY <4>4 DEF RequestNote, Arrive, IInv, RequestsInv, RequestTypes
        <5> QED BY <4>1, <4>4, <5>1 DEF RequestNote
      <4> QED BY <2>4, <4>2, <4>3, <4>4
    <3>3. target' \in [Calls -> Accounts \cup {Nobody}] /\ target'[c] \in Accounts
          /\ \A d \in Calls \ {c} : target'[d] = target[d]
      BY <3>2 DEF IInv, ApplicationsInv, ApplicationTypes
    <3>4. links' \in [Calls -> Seq(Artifact)] /\ (op'[c] = "apply" => links'[c] # <<>>)
          /\ (\A d \in Calls : Len(links'[d]) <= 2) /\ \A d \in Calls \ {c} : links'[d] = links[d]
      <4>1. links \in [Calls -> Seq(Artifact)] /\ \A d \in Calls : Len(links[d]) <= 2
        BY DEF IInv, ApplicationsInv, ApplicationTypes
      <4>2. CASE op'[c] \in {"move", "note"} /\ links' = links
        BY <4>1, <4>2
      <4>3. ASSUME NEW x \in L, links' = [links EXCEPT ![c] = x]
            PROVE  links' \in [Calls -> Seq(Artifact)] /\ links'[c] # <<>>
                   /\ (\A d \in Calls : Len(links'[d]) <= 2) /\ \A d \in Calls \ {c} : links'[d] = links[d]
        <5> HIDE DEF L
        <5>1. x \in Seq(Artifact) /\ Len(x) <= 2 /\ x # <<>>
          BY <3>1
        <5>2. links'[c] = x /\ \A d \in Calls \ {c} : links'[d] = links[d]
          BY <4>1, <4>3
        <5>3. links' \in [Calls -> Seq(Artifact)]
          BY <4>1, <4>3, <5>1
        <5> QED BY <4>1, <5>1, <5>2, <5>3
      <4> HIDE DEF L
      <4> QED BY <3>2, <4>2, <4>3
    <3> HIDE DEF L
    <3>5. ApplicationTypes'
      BY <3>2, <3>3, <3>4 DEF IInv, ApplicationsInv, ApplicationTypes, AnEvent, Artifact, Accounts
    <3>6. \A d \in Calls : ApplicationCallOK(d)'
      BY <1>1, <3>3, <3>4, SMTT(30) DEF IInv, ApplicationsInv, ApplicationCallOK, Alone, Accounts
    <3> QED BY <3>5, <3>6 DEF ApplicationsInv
  <2> QED BY <2>1, <2>2, <2>3, <2>4
<1> QED BY <1>1, <1>2, <1>3, <1>4, EnteringKeeps DEF IInv

LEMMA StepOK == IInv /\ [Next]_vars => IInv'
<1> SUFFICES ASSUME IInv, [Next]_vars PROVE IInv'
  OBVIOUS
<1> USE DEF IInv
<1>1. ASSUME NEW c \in Calls, RequestProtected(c) PROVE IInv'
  BY <1>1, ProtectedKeeps
<1>2. ASSUME NEW c \in Calls, AccountsStep(c), UNCHANGED <<uploadVars, intakeVars, applicationVars>> PROVE IInv'
  <2>1. CASE Enters(c)
    <3>1. RequestsInv' /\ AccountsInv' /\ Alone(c) /\ Entering(c)
      BY <2>1, AccountsEnter
    <3>2. op[c] = "none" => op'[c] \notin {"apply", "move", "note"}
      BY <2>1 DEF Enters, RequestSignup, RequestLogin, RequestLogout, Arrive, FindSession, FindOwner, At,
                  RequestsInv, RequestTypes, CallOK, StepsOf
    <3> QED BY <1>2, <3>1, <3>2, EnteringKeeps
  <2>2. CASE ~Enters(c)
    <3>1. /\ RequestsInv' /\ AccountsInv' /\ Alone(c) /\ op' = op
          /\ op[c] \in {"signup", "login", "logout"}
      BY <1>2, <2>2, AccountsKeep
    <3>2. UploadInv' /\ IntakeInv'
      BY <1>2, <3>1, UploadFrame, IntakeFrame
    <3>3. ApplicationsInv'
      BY <1>2, <3>1, ApplicationsFrame DEF Alone
    <3> QED BY <3>1, <3>2, <3>3
  <2> QED BY <2>1, <2>2
<1>3. ASSUME NEW c \in Calls, UploadStep(c), UNCHANGED <<accountVars, intakeVars, applicationVars>> PROVE IInv'
  <2>1. RequestsInv' /\ UploadInv' /\ Alone(c) /\ op' = op /\ op[c] = "upload"
    BY <1>3, UploadKeeps
  <2>2. AccountsInv' /\ IntakeInv'
    BY <1>3, <2>1, AccountsFrame, IntakeFrame
  <2>3. ApplicationsInv'
    BY <1>3, <2>1, ApplicationsFrame DEF Alone
  <2> QED BY <2>1, <2>2, <2>3
<1>4. ASSUME NEW c \in Calls, IntakeStep(c), UNCHANGED <<accountVars, uploadVars, applicationVars>> PROVE IInv'
  <2>1. RequestsInv' /\ IntakeInv' /\ Alone(c) /\ op' = op /\ op[c] = "intake"
    BY <1>4, IntakeKeeps
  <2>2. AccountsInv' /\ UploadInv'
    BY <1>4, <2>1, AccountsFrame, UploadFrame
  <2>3. ApplicationsInv'
    BY <1>4, <2>1, ApplicationsFrame DEF Alone
  <2> QED BY <2>1, <2>2, <2>3
<1>5. ASSUME NEW c \in Calls, ApplicationsStep(c), UNCHANGED <<accountVars, uploadVars, intakeVars>> PROVE IInv'
  <2>1. RequestsInv' /\ ApplicationsInv' /\ Alone(c) /\ op' = op /\ op[c] \in {"apply", "move", "note"}
    BY <1>5, ApplicationsKeep
  <2>2. AccountsInv' /\ UploadInv' /\ IntakeInv'
    BY <1>5, <2>1, AccountsFrame, UploadFrame, IntakeFrame
  <2> QED BY <2>1, <2>2
<1>6. ASSUME Failed, RequestsInv', AccountsInv', UNCHANGED <<uploadVars, intakeVars, applicationVars>> PROVE IInv'
  <2>1. UploadInv' /\ IntakeInv'
    BY <1>6, UploadFailure, IntakeFailure
  <2>2. ApplicationsInv'
    BY <1>6, ApplicationsFrame DEF Failed
  <2> QED BY <1>6, <2>1, <2>2
<1>7. ASSUME NEW s \in sessions, SessionExpires(s), UNCHANGED <<uploadVars, intakeVars, applicationVars>> PROVE IInv'
  BY <1>6, <1>7, AccountsExpiry
<1>8. CASE Failure
  <2>1. RequestsInv' /\ Failed
    BY <1>8, FailureActs
  <2>2. AccountsInv'
    BY <1>8, <2>1, AccountsFailure DEF Failure
  <2> QED BY <1>6, <1>8, <2>1, <2>2 DEF Failure
<1>9. CASE UNCHANGED vars
  <2>1. RequestsInv' /\ Failed
    BY <1>9 DEF vars, requestVars, RequestsInv, RequestTypes, CallOK, Failed
  <2>2. UNCHANGED <<accountVars, uploadVars, intakeVars, applicationVars>>
    BY <1>9 DEF vars
  <2>3. AccountsInv'
    BY <2>1, <2>2, AccountsFailure
  <2> QED BY <1>6, <2>1, <2>2, <2>3
<1> QED BY <1>1, <1>2, <1>3, <1>4, <1>5, <1>7, <1>8, <1>9 DEF Next

-----------------------------------------------------------------------------
(* The theorems.                                                                *)

\* In every behaviour every variable has its type, the parts of every table among them.
THEOREM TypeCorrect == Spec => []TypeOK
<1>1. Init => IInv
  BY InitOK
<1>2. IInv /\ [Next]_vars => IInv'
  BY StepOK
<1>3. IInv => TypeOK
  <2> SUFFICES ASSUME IInv PROVE TypeOK
    OBVIOUS
  <2>1. /\ \A c \in Calls : state[c] \in States
        /\ who \in [Calls -> Accounts \cup {Nobody}] /\ cookie \in [Calls -> Accounts \cup {Nobody}]
        /\ late \subseteq {c \in Calls : state[c] = "failed"} /\ failures \in 0 .. MaxFailures
    BY DEF IInv, RequestsInv, RequestTypes, CallOK
  <2>2. AccountsType /\ UploadType /\ IntakeType /\ ApplicationsType
    BY ApplicationsTyped DEF IInv, AccountsInv, UploadInv, IntakeInv
  <2> QED BY <2>1, <2>2 DEF TypeOK, States
<1> QED BY <1>1, <1>2, <1>3, PTL DEF Spec

\* AuthService.signup: whatever overlaps or fails, an address has one account and one
\* identity, which opens it, over both drivers.
THEOREM AccountsAreUnique == Spec => []OneAccountPerAddress
<1>1. IInv => OneAccountPerAddress
  BY DEF IInv, AccountsInv, UsersOK, IdentitiesOK, OneAccountPerAddress
<1> QED BY <1>1, InitOK, StepOK, PTL DEF Spec

\* AuthService.signup, login: who has a session can log in again.
THEOREM SessionsHaveIdentities == Spec => []SessionsCanLogInAgain
<1>1. IInv => SessionsCanLogInAgain
  BY DEF IInv, AccountsInv, SessionsOK, HasIdentity, SessionsCanLogInAgain
<1> QED BY <1>1, InitOK, StepOK, PTL DEF Spec

\* AuthService.signup: an account without an identity is that of a sign-up under way
\* or broken off.
THEOREM AccountsAreExplained == Spec => []AccountsAreWhole
<1>1. IInv => AccountsAreWhole
  <2> SUFFICES ASSUME IInv, NEW u \in users, ~HasIdentity(u.id) PROVE u.id \in Calls /\ Unfinished(u.id)
    BY DEF AccountsAreWhole, HasIdentity
  <2>1. u.id \in Calls /\ op[u.id] = "signup" /\ step[u.id] # "lookup"
    BY DEF IInv, AccountsInv, AccountsType, UsersOK, IdentitiesOK, Accounts
  <2>2. SignupOK(u.id) /\ CallOK(u.id) /\ state[u.id] \in States
    BY <2>1 DEF IInv, AccountsInv, RequestsInv, RequestTypes
  <2> QED BY <2>1, <2>2 DEF SignupOK, CallOK, Unfinished, States
<1> QED BY <1>1, InitOK, StepOK, PTL DEF Spec

\* AuthService.logout, AuthRepository.findActiveSessionByTokenHash: an answered log-out
\* has closed its session for good.
THEOREM LogoutsClose == Spec => LoggedOutSessionOpensNothing
<1> DEFINE Closed ==
      \A c, d \in Calls :
        (op[c] = "logout" /\ state[c] = "ok" /\ cookie[d] = cookie[c] /\ Open(d) /\ step[d] = "authenticate")
          => step'[d] = "authenticate"
<1>1. IInv /\ [Next]_vars => [Closed]_vars
  <2> SUFFICES ASSUME IInv, Next, NEW c \in Calls, NEW d \in Calls,
                      op[c] = "logout", state[c] = "ok", cookie[d] = cookie[c], Open(d), step[d] = "authenticate"
               PROVE  step'[d] = "authenticate"
    OBVIOUS
  <2>1. ~\E s \in SessionsOf(cookie[d]) : s.is = "live"
    BY DEF IInv, AccountsInv, LogoutOK, SessionsOf
  <2>2. op[d] # "none"
    BY DEF IInv, RequestsInv, CallOK, Open
  <2>3. ASSUME NEW e \in Calls, Alone(e), e = d => step[e] \notin Front PROVE step'[d] = "authenticate"
    BY <2>3 DEF Alone, Front
  <2>4. ASSUME NEW e \in Calls, RequestProtected(e) PROVE step'[d] = "authenticate"
    <3>1. Alone(e) /\ op[e] = "none"
      BY <2>4, ProtectedEnters DEF IInv
    <3> QED BY <2>2, <3>1 DEF Alone
  <2>5. ASSUME NEW e \in Calls, AccountsStep(e) PROVE step'[d] = "authenticate"
    <3>1. CASE Enters(e)
      BY <2>1, <3>1, AccountsEnter DEF IInv, Alone
    <3>2. CASE ~Enters(e)
      BY <2>3, <2>5, <3>2, AccountsKeep DEF IInv
    <3> QED BY <3>1, <3>2
  <2>6. ASSUME NEW e \in Calls, UploadStep(e) \/ IntakeStep(e) \/ ApplicationsStep(e) PROVE step'[d] = "authenticate"
    BY <2>3, <2>6, UploadKeeps, IntakeKeeps, ApplicationsKeep DEF IInv
  <2>7. ASSUME NEW s \in sessions, SessionExpires(s) PROVE step'[d] = "authenticate"
    BY <2>7 DEF SessionExpires
  <2>8. CASE Failure
    BY <2>8, FailureActs DEF IInv, Failed
  <2> QED BY <2>4, <2>5, <2>6, <2>7, <2>8 DEF Next
<1> QED BY <1>1, InitOK, StepOK, PTL DEF Spec, LoggedOutSessionOpensNothing

\* ResumeUploadService: the object of every uploaded file is whole or is being written.
THEOREM StoredFilesAreWhole == Spec => []StoredFileIsWhole
<1>1. IInv => StoredFileIsWhole
  <2> SUFFICES ASSUME IInv, NEW f \in files, objects[<<f.user, f.file>>] # "whole"
               PROVE  Writers(f.id) \ {f.id} # {}
    BY DEF StoredFileIsWhole
  <2>1. /\ f.id \in Calls /\ f.user \in Accounts /\ f.file \in Files
        /\ objects[<<f.user, f.file>>] \in {"absent", "partial", "whole"}
    BY DEF IInv, UploadInv, UploadType
  <2>2. /\ step[f.id] \in {"file", "resume", "job"} /\ f.user = who[f.id] /\ f.file = about[f.id]
        /\ objects[<<f.user, f.file>>] = "partial"
    BY <2>1 DEF IInv, UploadInv, UploadRowsOK, FileRow
  <2>3. PICK d \in Calls :
          op[d] = "upload" /\ step[d] = "opened" /\ Unfinished(d) /\ who[d] = f.user /\ about[d] = f.file
    BY <2>1, <2>2 DEF IInv, UploadInv, PartialIsWritten
  <2>4. d \in Writers(f.id) /\ d # f.id
    BY <2>2, <2>3 DEF Writers, Uploads
  <2> QED BY <2>4
<1> QED BY <1>1, InitOK, StepOK, PTL DEF Spec

\* ResumeUploadService over postgres: jobs, resumes and files belong together, and no
\* file of an account has two rows.  (The maps of the memory driver know no unique index.)
THEOREM UploadsAreConnected ==
  ASSUME Driver = "postgres"
  PROVE  Spec => []UploadsBelongTogether
<1>1. IInv => UploadsBelongTogether
  <2> SUFFICES ASSUME IInv PROVE UploadsBelongTogether
    OBVIOUS
  <2>1. \A r \in resumes : FileRow(r.id) \in files /\ r = ResumeRow(r.id)
    BY DEF IInv, UploadInv, UploadRowsOK
  <2>2. \A j \in jobs : ResumeRow(j.id) \in resumes /\ j = JobRow(j.id)
    BY DEF IInv, UploadInv, UploadRowsOK
  <2>3. \A c : /\ FileRow(c).id = c /\ FileRow(c).user = who[c]
               /\ ResumeRow(c).id = c /\ ResumeRow(c).user = who[c] /\ ResumeRow(c).source = c
               /\ JobRow(c).user = who[c] /\ JobRow(c).resume = c
    BY DEF FileRow, ResumeRow, JobRow
  <2>4. \A j \in jobs : \E r \in resumes : r.id = j.resume /\ r.user = j.user
    BY <2>2, <2>3
  <2>5. \A r \in resumes : \E f \in files : f.id = r.source /\ f.user = r.user
    BY <2>1, <2>3
  <2> QED BY <2>4, <2>5 DEF IInv, UploadInv, FilesAreUnique, UploadsBelongTogether
<1> QED BY <1>1, InitOK, StepOK, PTL DEF Spec

\* ResumeUploadService: a file without its resume or job is that of an upload under way
\* or broken off.
THEOREM UploadsAreExplained == Spec => []UploadsAreWhole
<1>1. IInv => UploadsAreWhole
  <2> SUFFICES ASSUME IInv, NEW f \in files, ~Unfinished(f.id)
               PROVE  \E r \in resumes, j \in jobs : r.source = f.id /\ j.resume = r.id
    BY DEF UploadsAreWhole
  <2>1. f.id \in Calls /\ op[f.id] = "upload" /\ step[f.id] \in {"file", "resume", "job"}
    BY DEF IInv, UploadInv, UploadType, UploadRowsOK
  <2>2. UploadCallOK(f.id) /\ CallOK(f.id) /\ state[f.id] \in States
    BY <2>1 DEF IInv, UploadInv, RequestsInv, RequestTypes
  <2>3. JobRow(f.id) \in jobs
    BY <2>1, <2>2 DEF UploadCallOK, CallOK, Unfinished, States, Front
  <2>4. ResumeRow(f.id) \in resumes
    <3>1. JobRow(f.id).id = f.id
      BY DEF JobRow
    <3> QED BY <2>3, <3>1 DEF IInv, UploadInv, UploadRowsOK
  <2>5. /\ ResumeRow(f.id).source = f.id /\ ResumeRow(f.id).id = f.id /\ JobRow(f.id).resume = f.id
    BY DEF ResumeRow, JobRow
  <2> QED BY <2>3, <2>4, <2>5
<1> QED BY <1>1, InitOK, StepOK, PTL DEF Spec

\* JobDescriptionService.parseAndPersist: no account has two descriptions of one text,
\* and one that lacks a part is that of an intake under way or broken off.
THEOREM DescriptionsAreExplained == Spec => []DescriptionsAreWhole
<1>1. IInv => DescriptionsAreWhole
  <2> SUFFICES ASSUME IInv, NEW d \in descriptions, ~Unfinished(d.id) PROVE parts[d.id] = Parts
    BY DEF DescriptionsAreWhole, IInv, IntakeInv, DescriptionsOK
  <2>1. /\ d.id \in Calls /\ op[d.id] = "intake" /\ step[d.id] \in {"describe", "part"}
        /\ step[d.id] = "describe" => state[d.id] = "failed"
    BY DEF IInv, IntakeInv, IntakeType, DescriptionsOK
  <2>2. IntakeCallOK(d.id) /\ CallOK(d.id) /\ state[d.id] \in States
    BY <2>1 DEF IInv, IntakeInv, RequestsInv, RequestTypes
  <2> QED BY <2>1, <2>2 DEF IntakeCallOK, CallOK, Unfinished, States, Front
<1> QED BY <1>1, InitOK, StepOK, PTL DEF Spec

\* JobDescriptionService over the memory driver: who is told of a description gets all
\* of it.
THEOREM MemoryAnswersAreWhole ==
  ASSUME Driver = "memory"
  PROVE  Spec => []AnswersAreWhole
<1>1. IInv => AnswersAreWhole
  BY DEF IInv, IntakeInv, IntakeCallOK, AnswersAreWhole
<1> QED BY <1>1, InitOK, StepOK, PTL DEF Spec

-----------------------------------------------------------------------------
(* Timelines and notes.                                                          *)

HasRow(a, u) == \E r \in applications : r.id = a /\ r.user = u

\* A row is that of its call, which has gone on from there or stopped as it was written.
RowsOK ==
  /\ \A a, b \in applications : a.id = b.id => a = b
  /\ \A a \in applications :
       a.id \in Calls => /\ op[a.id] = "apply" /\ a.user = who[a.id]
                         /\ step[a.id] \in {"application", "created", "attach", "get"}
                         /\ step[a.id] = "application" => state[a.id] = "failed" /\ a.id \notin late

\* Events are on the timelines of applications, by their owners.
EventsOK ==
  /\ Len(timeline[Seed]) >= 2
  /\ \A a \in Accounts : Len(timeline[a]) > 0 => \E r \in applications : r.id = a
  /\ \A r \in applications : \A i \in 1 .. Len(timeline[r.id]) : timeline[r.id][i].by = r.user

\* What a call at a write has found or made; an application is made step by step.
ApplyOK(c) ==
  op[c] = "apply" =>
    /\ target[c] = c
    /\ step[c] \in {"application", "created", "attach"} => Unfinished(c)
    /\ step[c] = "attach" => Len(timeline[c]) >= 1
    /\ step[c] = "get" => Len(timeline[c]) >= 2

OwnerOK(c) ==
  step[c] \in {"created", "attach", "update", "event", "keep", "tell"} => HasRow(target[c], who[c])

NoteRow(c) == [id |-> c, user |-> who[c], application |-> target[c]]

\* A note is that of its call; only the step that tells of it is still to come.
NotesOK ==
  /\ \A n \in notes : /\ op[n.id] = "note" /\ n = NoteRow(n.id) /\ HasRow(n.application, n.user)
                      /\ step[n.id] \in {"keep", "tell"}
                      /\ step[n.id] = "keep" => state[n.id] = "failed" /\ n.id \notin late
  /\ \A c \in Calls : step[c] = "tell" => NoteRow(c) \in notes

Owing(a) == {n \in NotesOn(a) : step[n.id] = "tell" /\ (Open(n.id) \/ n.id \in late)}
Told(a) == {n \in NotesOn(a) : state[n.id] = "ok"}

\* Every event that tells of a note has one, and every note answered for has an event.
CountOK(a) ==
  /\ Cardinality(Tellings(a)) + Cardinality(Owing(a)) <= Cardinality(NotesOn(a))
  /\ Cardinality(Told(a)) <= Cardinality(Tellings(a))

\* Where no two moves have overlapped there is one at a time: between its two writes the
\* timeline is one move behind the status.  Of one broken off there nothing is known.
MoveOK(a) ==
  a.id \notin overlapped =>
    /\ \A c, d \in Moving(a.id) : c = d
    /\ Moving(a.id) = {} => LeadsTo(a.id, a.status)
    /\ \A c \in Moving(a.id) :
         Open(c) => /\ step[c] = "update" => seen[c] = a.status /\ LeadsTo(a.id, a.status)
                    /\ step[c] = "event" => about[c] = a.status /\ LeadsTo(a.id, seen[c])

\* Over the memory driver nothing overlaps within a turn and nothing fails.
TurnsOK ==
  Driver = "memory" => overlapped = {} /\ \A c \in Calls : op[c] = "move" => state[c] # "failed"

TimelineInv ==
  /\ RowsOK /\ EventsOK /\ NotesOK /\ TurnsOK
  /\ \A c \in Calls : ApplyOK(c) /\ OwnerOK(c)
  /\ \A a \in Accounts : CountOK(a)
  /\ \A a \in applications : MoveOK(a)

\* A call is at work on an application.
Deep(c) ==
  \/ step[c] \in {"application", "created", "attach", "update", "event", "keep", "tell"}
  \/ op[c] = "apply" /\ step[c] = "get"

-----------------------------------------------------------------------------
(* What an event adds to a timeline.                                             *)

LEMMA Appended ==
  ASSUME timeline \in [Accounts -> Seq(AnEvent)], NEW a \in Accounts, NEW e \in AnEvent, timeline' = Happened(a, e)
  PROVE  /\ \A x \in Accounts : x # a => timeline'[x] = timeline[x]
         /\ Len(timeline[a]) \in Nat /\ Len(timeline'[a]) = Len(timeline[a]) + 1
         /\ \A i \in 1 .. Len(timeline[a]) : timeline'[a][i] = timeline[a][i]
         /\ timeline'[a][Len(timeline[a]) + 1] = e
<1>1. timeline[a] \in Seq(AnEvent) /\ timeline'[a] = Append(timeline[a], e)
  BY DEF Happened
<1> QED BY <1>1, AppendProperties, LenProperties DEF Happened

LEMMA FiniteTellings ==
  ASSUME timeline \in [Accounts -> Seq(AnEvent)], NEW x \in Accounts
  PROVE  IsFiniteSet(Tellings(x)) /\ Cardinality(Tellings(x)) \in Nat
<1>1. Len(timeline[x]) \in Nat
  BY LenProperties
<1>2. IsFiniteSet(1 .. Len(timeline[x]))
  BY <1>1, FS_Interval
<1>3. Tellings(x) \subseteq 1 .. Len(timeline[x])
  BY DEF Tellings
<1>4. IsFiniteSet(Tellings(x))
  BY <1>2, <1>3, FS_Subset
<1> QED BY <1>4, FS_CardinalityType

LEMMA TellingsAppended ==
  ASSUME timeline \in [Accounts -> Seq(AnEvent)], NEW a \in Accounts, NEW e \in AnEvent, timeline' = Happened(a, e)
  PROVE  /\ \A x \in Accounts : x # a \/ e.type # "note" => Tellings(x)' = Tellings(x)
         /\ e.type = "note" => Cardinality(Tellings(a)') = Cardinality(Tellings(a)) + 1
<1>1. /\ \A x \in Accounts : x # a => timeline'[x] = timeline[x]
      /\ Len(timeline[a]) \in Nat /\ Len(timeline'[a]) = Len(timeline[a]) + 1
      /\ \A i \in 1 .. Len(timeline[a]) : timeline'[a][i] = timeline[a][i]
      /\ timeline'[a][Len(timeline[a]) + 1] = e
  BY Appended
<1>2. \A x \in Accounts : x # a => Tellings(x)' = Tellings(x)
  BY <1>1 DEF Tellings
<1>3. e.type # "note" => Tellings(a)' = Tellings(a)
  BY <1>1 DEF Tellings
<1>4. CASE e.type = "note"
  <2>1. Tellings(a)' = Tellings(a) \cup {Len(timeline[a]) + 1}
    BY <1>1, <1>4 DEF Tellings
  <2>2. Len(timeline[a]) + 1 \notin Tellings(a)
    BY <1>1 DEF Tellings
  <2>3. IsFiniteSet(Tellings(a)) /\ Cardinality(Tellings(a)) \in Nat
    BY FiniteTellings
  <2>4. Cardinality(Tellings(a) \cup {Len(timeline[a]) + 1}) = Cardinality(Tellings(a)) + 1
    BY <2>2, <2>3, FS_AddElement
  <2> QED BY <1>2, <1>4, <2>1, <2>4
<1> QED BY <1>2, <1>3, <1>4

\* A move lengthens the chain; other events leave it.
LEMMA MovesAppended ==
  ASSUME timeline \in [Accounts -> Seq(AnEvent)], NEW a \in Accounts, NEW e \in AnEvent, timeline' = Happened(a, e)
  PROVE  /\ \A x \in Accounts : \A s : (x # a \/ e.type # "status") /\ LeadsTo(x, s) => LeadsTo(x, s)'
         /\ e.type = "status" /\ LeadsTo(a, e.from) => \A s : s = e.to => LeadsTo(a, s)'
<1>1. /\ \A x \in Accounts : x # a => timeline'[x] = timeline[x]
      /\ Len(timeline[a]) \in Nat /\ Len(timeline'[a]) = Len(timeline[a]) + 1
      /\ \A i \in 1 .. Len(timeline[a]) : timeline'[a][i] = timeline[a][i]
      /\ timeline'[a][Len(timeline[a]) + 1] = e
  BY Appended
<1>2. ASSUME NEW x \in Accounts, NEW s, x # a, LeadsTo(x, s) PROVE LeadsTo(x, s)'
  <2>1. timeline'[x] = timeline[x]
    BY <1>1, <1>2
  <2> QED BY <1>2, <2>1 DEF LeadsTo, Moves
<1>3. ASSUME NEW s, e.type # "status", LeadsTo(a, s) PROVE LeadsTo(a, s)'
  <2>1. Moves(a)' = Moves(a)
    BY <1>1, <1>3 DEF Moves
  <2>2. \A i \in Moves(a) : timeline'[a][i] = timeline[a][i]
    BY <1>1 DEF Moves
  <2> QED BY <1>3, <2>1, <2>2 DEF LeadsTo
<1>4. ASSUME e.type = "status", LeadsTo(a, e.from), NEW s, s = e.to PROVE LeadsTo(a, s)'
  <2> DEFINE n == Len(timeline[a]) + 1
  <2>1. Moves(a)' = Moves(a) \cup {n}
    BY <1>1, <1>4 DEF Moves
  <2>2. /\ \A i \in Moves(a) : i \in Nat /\ i < n /\ timeline'[a][i] = timeline[a][i]
        /\ timeline'[a][n] = e /\ n \in Nat
    BY <1>1 DEF Moves
  <2> HIDE DEF n
  <2>3. ASSUME NEW i \in Moves(a)', \A k \in Moves(a)' : k <= i PROVE timeline'[a][i].to = s
    <3>1. i = n
      BY <2>1, <2>2, <2>3
    <3> QED BY <1>4, <2>2, <3>1
  <2>4. ASSUME NEW i \in Moves(a)', NEW j \in Moves(a)', i < j, \A k \in Moves(a)' : k <= i \/ j <= k
        PROVE  timeline'[a][i].to = timeline'[a][j].from
    <3>1. i \in Moves(a)
      BY <2>1, <2>2, <2>4
    <3>2. CASE j = n
      <4>1. \A k \in Moves(a) : k <= i
        BY <2>1, <2>2, <2>4, <3>2
      <4> QED BY <1>4, <2>2, <3>1, <3>2, <4>1 DEF LeadsTo
    <3>3. CASE j # n
      <4>1. j \in Moves(a)
        BY <2>1, <3>3
      <4>2. \A k \in Moves(a) : k <= i \/ j <= k
        BY <2>1, <2>4
      <4> QED BY <1>4, <2>2, <2>4, <3>1, <4>1, <4>2 DEF LeadsTo
    <3> QED BY <3>2, <3>3
  <2> QED BY <2>3, <2>4 DEF LeadsTo
<1> QED BY <1>2, <1>3, <1>4

\* An application has no moves on its timeline as long as it has no event.
LEMMA NoMoves == ASSUME NEW x, NEW s, Len(timeline[x]) = 0 PROVE LeadsTo(x, s)
<1>1. Moves(x) = {}
  BY DEF Moves
<1> QED BY <1>1 DEF LeadsTo

\* Notes are finitely many: each is that of a call.
LEMMA FiniteNotes ==
  ASSUME NotesOK, ApplicationTypes, NEW x
  PROVE  /\ IsFiniteSet(notes) /\ IsFiniteSet(NotesOn(x)) /\ IsFiniteSet(Owing(x)) /\ IsFiniteSet(Told(x))
         /\ Cardinality(NotesOn(x)) \in Nat /\ Cardinality(Owing(x)) \in Nat /\ Cardinality(Told(x)) \in Nat
<1> DEFINE f == [n \in notes |-> n.id]
<1>1. f \in Injection(notes, Calls)
  <2>1. \A n \in notes : n.id \in Calls
    BY DEF ApplicationTypes
  <2>2. \A m, n \in notes : m.id = n.id => m = n
    BY DEF NotesOK
  <2> QED BY <2>1, <2>2 DEF Injection, IsInjective
<1>2. IsFiniteSet(notes)
  BY <1>1, FS_Injection, RequestsAssumption
<1>3. NotesOn(x) \subseteq notes /\ Owing(x) \subseteq notes /\ Told(x) \subseteq notes
  BY DEF NotesOn, Owing, Told
<1>4. IsFiniteSet(NotesOn(x)) /\ IsFiniteSet(Owing(x)) /\ IsFiniteSet(Told(x))
  BY <1>2, <1>3, FS_Subset
<1> QED BY <1>2, <1>4, FS_CardinalityType

-----------------------------------------------------------------------------
(* Steps that leave timelines and notes alone.                                   *)

\* Call c rests at its write, is given up there, is answered after its last one, or goes
\* on to its first.
Same(c) == op'[c] = op[c] /\ about'[c] = about[c] /\ who'[c] = who[c] /\ target'[c] = target[c]

Rests(c) ==
  /\ Deep(c) \/ Deep(c)' =>
       /\ Same(c)
       /\ \/ /\ step'[c] = step[c] /\ seen'[c] = seen[c]
             /\ c \in late' => c \in late \/ Open(c)
             /\ state'[c] = state[c] \/ (Open(c) /\ state'[c] = "failed") \/ step[c] = "get"
          \/ /\ ~Deep(c) /\ state'[c] = "open"
             /\ \/ op[c] = "apply" /\ step'[c] = "application"
                \/ op[c] = "note" /\ step'[c] = "keep" /\ HasRow(target[c], who[c])
  /\ op'[c] = "apply" => target'[c] = c
  /\ Driver = "memory" /\ op'[c] = "move" /\ state'[c] = "failed" => op[c] = "move" /\ state[c] = "failed"

LEMMA TimelineFrame ==
  ASSUME RequestsInv, ApplicationTypes, TimelineInv, UNCHANGED <<applications, timeline, notes, overlapped>>,
         \A c \in Calls : Rests(c)
  PROVE  TimelineInv'
<1>1. \A a, u : HasRow(a, u)' <=> HasRow(a, u)
  BY DEF HasRow
<1>2. RowsOK'
  <2> SUFFICES ASSUME NEW a \in applications, a.id \in Calls
               PROVE  /\ op'[a.id] = "apply" /\ a.user = who'[a.id]
                      /\ step'[a.id] \in {"application", "created", "attach", "get"}
                      /\ step'[a.id] = "application" => state'[a.id] = "failed" /\ a.id \notin late'
    BY DEF RowsOK, TimelineInv
  <2>1. /\ op[a.id] = "apply" /\ a.user = who[a.id] /\ step[a.id] \in {"application", "created", "attach", "get"}
        /\ step[a.id] = "application" => state[a.id] = "failed" /\ a.id \notin late
    BY DEF TimelineInv, RowsOK
  <2>2. Deep(a.id)
    BY <2>1 DEF Deep
  <2> QED BY <2>1, <2>2 DEF Rests, Same, Open
<1>3. EventsOK'
  BY DEF TimelineInv, EventsOK
<1>4. ASSUME NEW c \in Calls PROVE ApplyOK(c)' /\ OwnerOK(c)'
  <2>1. ApplyOK(c) /\ OwnerOK(c) /\ Rests(c)
    BY DEF TimelineInv
  <2>2. CASE ~Deep(c)'
    BY <2>1, <2>2 DEF Rests, ApplyOK, OwnerOK, Deep
  <2>3. CASE Deep(c)'
    BY <1>1, <2>1, <2>3 DEF Rests, Same, ApplyOK, OwnerOK, Deep, Unfinished, Open
  <2> QED BY <2>2, <2>3
<1>5. NotesOK /\ \A n \in notes : n.id \in Calls
  BY DEF TimelineInv, ApplicationTypes
<1>6. ASSUME NEW n \in notes
      PROVE  /\ Same(n.id) /\ step'[n.id] = step[n.id]
             /\ n.id \in late' => n.id \in late \/ Open(n.id)
             /\ state'[n.id] = state[n.id] \/ (Open(n.id) /\ state'[n.id] = "failed")
  <2>1. Deep(n.id) /\ Rests(n.id) /\ step[n.id] \in {"keep", "tell"}
    BY <1>5 DEF NotesOK, Deep
  <2> QED BY <2>1 DEF Rests
<1>7. NotesOK'
  <2>1. ASSUME NEW c \in Calls, step'[c] = "tell" PROVE NoteRow(c)' \in notes
    <3>1. Deep(c)' /\ Rests(c)
      BY <2>1 DEF Deep
    <3>2. step[c] = "tell" /\ Same(c)
      BY <2>1, <3>1 DEF Rests
    <3> QED BY <1>5, <3>2 DEF NotesOK, NoteRow, Same
  <2>2. ASSUME NEW n \in notes
        PROVE  /\ op'[n.id] = "note" /\ n = NoteRow(n.id)' /\ HasRow(n.application, n.user)'
               /\ step'[n.id] \in {"keep", "tell"}
               /\ step'[n.id] = "keep" => state'[n.id] = "failed" /\ n.id \notin late'
    BY <1>1, <1>5, <1>6 DEF NotesOK, NoteRow, Same, Open
  <2> QED BY <2>1, <2>2 DEF NotesOK
<1>8. ASSUME NEW x \in Accounts PROVE CountOK(x)'
  <2>1. CountOK(x) /\ Tellings(x)' = Tellings(x) /\ NotesOn(x)' = NotesOn(x)
    BY DEF TimelineInv, Tellings, NotesOn
  <2>2. Told(x)' = Told(x)
    BY <1>6 DEF Told, NotesOn, Open
  <2>3. Owing(x)' \subseteq Owing(x)
    BY <1>6 DEF Owing, NotesOn, Open
  <2>4. /\ IsFiniteSet(Owing(x)) /\ Cardinality(Owing(x)) \in Nat /\ Cardinality(NotesOn(x)) \in Nat
        /\ Cardinality(Tellings(x)) \in Nat
    BY <1>5, FiniteNotes, FiniteTellings DEF ApplicationTypes
  <2>5. Cardinality(Owing(x)') <= Cardinality(Owing(x)) /\ Cardinality(Owing(x)') \in Nat
    BY <2>3, <2>4, FS_Subset, FS_CardinalityType
  <2> QED BY <2>1, <2>2, <2>4, <2>5 DEF CountOK
<1>9. ASSUME NEW a \in applications PROVE MoveOK(a)'
  <2>1. ASSUME NEW c \in Calls, step[c] \in {"update", "event"} \/ step'[c] \in {"update", "event"}
        PROVE  /\ Same(c) /\ step'[c] = step[c] /\ seen'[c] = seen[c]
               /\ state'[c] = state[c] \/ (Open(c) /\ state'[c] = "failed")
    <3>1. Deep(c) \/ Deep(c)'
      BY <2>1 DEF Deep
    <3> QED BY <2>1, <3>1 DEF Rests, Deep
  <2>2. Moving(a.id)' = Moving(a.id)
    <3>1. ASSUME NEW c \in Calls
          PROVE  (op'[c] = "move" /\ target'[c] = a.id /\ Unfinished(c)' /\ step'[c] \in {"update", "event"})
                 <=> (op[c] = "move" /\ target[c] = a.id /\ Unfinished(c) /\ step[c] \in {"update", "event"})
      BY <2>1 DEF Same, Unfinished, Open
    <3> QED BY <3>1 DEF Moving
  <2>3. \A s : LeadsTo(a.id, s)' <=> LeadsTo(a.id, s)
    BY DEF LeadsTo, Moves
  <2>4. MoveOK(a)
    BY DEF TimelineInv
  <2>5. \A c \in Moving(a.id) : /\ Open(c)' => Open(c)
                                /\ seen'[c] = seen[c] /\ about'[c] = about[c] /\ step'[c] = step[c]
    BY <2>1 DEF Moving, Open, Same
  <2>6. ASSUME NEW c \in Moving(a.id), seen'[c] = seen[c] PROVE LeadsTo(a.id, seen[c])' <=> LeadsTo(a.id, seen[c])
    BY <2>6 DEF LeadsTo, Moves
  <2> QED BY <2>2, <2>3, <2>4, <2>5, <2>6 DEF MoveOK
<1>10. TurnsOK'
  BY DEF TimelineInv, TurnsOK, Rests
<1> QED BY <1>2, <1>3, <1>4, <1>7, <1>8, <1>9, <1>10 DEF TimelineInv

-----------------------------------------------------------------------------
(* Writes, by the call that waits for them or when it has been given up.             *)

\* Call c goes on to step s in state st, or its late write has arrived.
Goes(c, s, st) ==
  /\ Alone(c) /\ op' = op /\ about' = about /\ who' = who /\ target' = target
  /\ \/ Open(c) /\ step'[c] = s /\ state'[c] = st /\ late' = late
     \/ c \in late /\ c \notin late' /\ state[c] = "failed" /\ state'[c] = "failed" /\ step'[c] = step[c]

LEMMA CallsKeep ==
  ASSUME TimelineInv, NEW c \in Calls, NEW s, NEW st, Goes(c, s, st), ApplyOK(c)', OwnerOK(c)',
         timeline \in [Accounts -> Seq(AnEvent)], timeline' \in [Accounts -> Seq(AnEvent)],
         \A x \in Accounts : Len(timeline'[x]) >= Len(timeline[x]),
         \A x, u : HasRow(x, u) => HasRow(x, u)'
  PROVE  \A d \in Calls : ApplyOK(d)' /\ OwnerOK(d)'
<1> SUFFICES ASSUME NEW d \in Calls \ {c} PROVE ApplyOK(d)' /\ OwnerOK(d)'
  OBVIOUS
<1>1. ApplyOK(d) /\ OwnerOK(d) /\ d \in Accounts
  BY DEF TimelineInv, Accounts
<1>2. Len(timeline[d]) \in Nat /\ Len(timeline'[d]) \in Nat /\ Len(timeline'[d]) >= Len(timeline[d])
  BY <1>1, LenProperties
<1>3. op'[d] = op[d] /\ who'[d] = who[d] /\ target'[d] = target[d] /\ step'[d] = step[d] /\ state'[d] = state[d]
  BY DEF Goes, Alone
<1>4. ApplyOK(d)'
  BY <1>1, <1>2, <1>3 DEF ApplyOK, Unfinished
<1>5. OwnerOK(d)'
  BY <1>1, <1>3 DEF OwnerOK
<1> QED BY <1>4, <1>5

LEMMA RowsKeep ==
  ASSUME TimelineInv, NEW c \in Calls, NEW s, NEW st, Goes(c, s, st), applications' = applications,
         step[c] # "application", op[c] = "apply" => step'[c] \in {"created", "attach", "get"}
  PROVE  RowsOK'
<1> SUFFICES ASSUME NEW a \in applications, a.id \in Calls
             PROVE  /\ op'[a.id] = "apply" /\ a.user = who'[a.id]
                    /\ step'[a.id] \in {"application", "created", "attach", "get"}
                    /\ step'[a.id] = "application" => state'[a.id] = "failed" /\ a.id \notin late'
  BY DEF RowsOK, TimelineInv
<1>1. /\ op[a.id] = "apply" /\ a.user = who[a.id] /\ step[a.id] \in {"application", "created", "attach", "get"}
      /\ step[a.id] = "application" => state[a.id] = "failed" /\ a.id \notin late
  BY DEF TimelineInv, RowsOK
<1>2. CASE a.id = c
  BY <1>1, <1>2 DEF Goes
<1>3. CASE a.id # c
  BY <1>1, <1>3 DEF Goes, Alone
<1> QED BY <1>2, <1>3

\* An event of an owner is put on the timeline of an application.
LEMMA EventsKeep ==
  ASSUME TimelineInv, ApplicationTypes, NEW a \in Accounts, NEW u, HasRow(a, u), NEW e \in AnEvent, e.by = u,
         timeline' = Happened(a, e), applications' = applications
  PROVE  /\ EventsOK' /\ timeline' \in [Accounts -> Seq(AnEvent)]
         /\ \A x \in Accounts : Len(timeline'[x]) >= Len(timeline[x])
         /\ Len(timeline[a]) \in Nat /\ Len(timeline'[a]) = Len(timeline[a]) + 1
<1>1. timeline \in [Accounts -> Seq(AnEvent)]
  BY DEF ApplicationTypes
<1>2. /\ \A x \in Accounts : x # a => timeline'[x] = timeline[x]
      /\ Len(timeline[a]) \in Nat /\ Len(timeline'[a]) = Len(timeline[a]) + 1
      /\ \A i \in 1 .. Len(timeline[a]) : timeline'[a][i] = timeline[a][i]
      /\ timeline'[a][Len(timeline[a]) + 1] = e
  BY <1>1, Appended
<1>3. timeline' \in [Accounts -> Seq(AnEvent)]
  BY <1>1, AppendProperties DEF Happened
<1>4. \A x \in Accounts : Len(timeline[x]) \in Nat
  BY <1>1, LenProperties
<1>5. \A x \in Accounts : Len(timeline'[x]) >= Len(timeline[x])
  BY <1>2, <1>4
<1>6. EventsOK
  BY DEF TimelineInv
<1>7. Len(timeline'[Seed]) >= 2
  BY <1>2, <1>4, <1>6 DEF EventsOK, Accounts
<1>8. ASSUME NEW x \in Accounts, Len(timeline'[x]) > 0 PROVE \E r \in applications : r.id = x
  BY <1>2, <1>6, <1>8 DEF EventsOK, HasRow
<1>9. ASSUME NEW r \in applications, NEW i \in 1 .. Len(timeline'[r.id]) PROVE timeline'[r.id][i].by = r.user
  <2>1. r.id \in Accounts
    BY DEF ApplicationTypes
  <2>2. CASE r.id # a
    <3>1. timeline'[r.id] = timeline[r.id]
      BY <1>2, <2>1, <2>2
    <3> QED BY <1>6, <1>9, <3>1 DEF EventsOK
  <2>3. CASE r.id = a
    <3>1. r.user = u
      BY <2>3 DEF HasRow, TimelineInv, RowsOK
    <3>2. CASE i = Len(timeline[a]) + 1
      BY <1>2, <2>3, <3>1, <3>2
    <3>3. CASE i # Len(timeline[a]) + 1
      <4>1. i \in 1 .. Len(timeline[a])
        BY <1>2, <1>9, <2>3, <3>3
      <4> QED BY <1>2, <1>6, <2>3, <4>1 DEF EventsOK
    <3> QED BY <3>2, <3>3
  <2> QED BY <2>2, <2>3
<1> QED BY <1>2, <1>3, <1>5, <1>7, <1>8, <1>9 DEF EventsOK

\* A call that makes no note leaves them as they are.
LEMMA NotesKeep ==
  ASSUME TimelineInv, ApplicationTypes, NEW c \in Calls, NEW s, NEW st, Goes(c, s, st), op[c] # "note",
         step[c] # "tell", step'[c] # "tell", notes' = notes, \A x, u : HasRow(x, u) => HasRow(x, u)'
  PROVE  /\ NotesOK'
         /\ (\A x \in Accounts : Tellings(x)' = Tellings(x)) => \A x \in Accounts : CountOK(x)'
<1>1. NotesOK /\ \A n \in notes : n.id \in Calls
  BY DEF TimelineInv, ApplicationTypes
<1>2. ASSUME NEW n \in notes
      PROVE  /\ n.id # c /\ Same(n.id) /\ step'[n.id] = step[n.id] /\ state'[n.id] = state[n.id]
             /\ n.id \in late' <=> n.id \in late
  BY <1>1 DEF NotesOK, Goes, Alone, Same
<1>3. NotesOK'
  <2>1. ASSUME NEW d \in Calls, step'[d] = "tell" PROVE NoteRow(d)' \in notes
    <3>1. d # c /\ step[d] = "tell" /\ Same(d)
      BY <2>1 DEF Goes, Alone, Same
    <3> QED BY <1>1, <3>1 DEF NotesOK, NoteRow, Same
  <2>2. ASSUME NEW n \in notes
        PROVE  /\ op'[n.id] = "note" /\ n = NoteRow(n.id)' /\ HasRow(n.application, n.user)'
               /\ step'[n.id] \in {"keep", "tell"}
               /\ step'[n.id] = "keep" => state'[n.id] = "failed" /\ n.id \notin late'
    BY <1>1, <1>2 DEF NotesOK, NoteRow, Same
  <2> QED BY <2>1, <2>2 DEF NotesOK
<1>4. ASSUME NEW x \in Accounts, Tellings(x)' = Tellings(x) PROVE CountOK(x)'
  <2>1. NotesOn(x)' = NotesOn(x)
    BY DEF NotesOn
  <2>2. Told(x)' = Told(x) /\ Owing(x)' = Owing(x)
    BY <1>2 DEF Told, Owing, NotesOn, Open
  <2> QED BY <1>4, <2>1, <2>2 DEF CountOK, TimelineInv
<1> QED BY <1>3, <1>4

\* A call leaves alone the chains of moves of all but the application that it moves.
LEMMA MovesKeep ==
  ASSUME TimelineInv, NEW c \in Calls, NEW s, NEW st, Goes(c, s, st),
         NEW a, a.id \in Accounts, MoveOK(a), op[c] # "move" \/ target[c] # a.id,
         \A d \in Calls \ {c} : seen'[d] = seen[d], a.id \in overlapped => a.id \in overlapped',
         \A t : LeadsTo(a.id, t) => LeadsTo(a.id, t)'
  PROVE  MoveOK(a)'
<1>1. Moving(a.id)' = Moving(a.id) /\ \A d \in Moving(a.id) : d # c
  BY DEF Moving, Goes, Alone, Unfinished
<1>2. \A d \in Moving(a.id) : step'[d] = step[d] /\ (Open(d)' <=> Open(d))
  BY <1>1 DEF Moving, Goes, Alone, Open
<1>3. about' = about /\ \A d \in Moving(a.id) : d \in Calls /\ seen'[d] = seen[d]
  BY <1>1 DEF Goes, Moving
<1>4. ASSUME NEW d \in Moving(a.id), LeadsTo(a.id, seen[d]) PROVE LeadsTo(a.id, seen[d])'
  <2>1. \A t : t = seen[d] => LeadsTo(a.id, t)'
    BY <1>4
  <2> QED BY <1>3, <2>1 DEF LeadsTo, Moves
<1> QED BY <1>1, <1>2, <1>3, <1>4 DEF MoveOK

LEMMA TurnsKeep ==
  ASSUME TimelineInv, NEW c \in Calls, NEW s, NEW st, Goes(c, s, st), st # "failed", UNCHANGED overlapped
  PROVE  TurnsOK'
BY DEF TimelineInv, TurnsOK, Goes, Alone

\* What the writes have in common.
WriteAt(c, here, s, st) ==
  RequestsInv /\ ApplicationsInv /\ ApplicationTypes' /\ TimelineInv
  /\ step[c] = here /\ WriteApplication(c) /\ Goes(c, s, st) /\ UNCHANGED <<seen, overlapped>>
  /\ links[c] \in Seq(Artifact)

LEMMA Writer ==
  ASSUME NEW c \in Calls, NEW here, NEW s, NEW st, WriteAt(c, here, s, st),
         here \in {"application", "created", "attach", "update", "event", "keep", "tell"}
  PROVE  /\ who[c] \in Accounts /\ target[c] \in Accounts /\ c \in Accounts
         /\ ApplicationTypes /\ ApplyOK(c) /\ OwnerOK(c) /\ NotesOK /\ CallOK(c)
         /\ timeline \in [Accounts -> Seq(AnEvent)] /\ timeline' \in [Accounts -> Seq(AnEvent)]
<1>1. op[c] \in {"apply", "move", "note"} /\ CallOK(c)
  BY StepTells DEF WriteAt, RequestsInv
<1>2. who[c] \in Accounts
  BY <1>1 DEF WriteAt, CallOK, Early, Front
<1>3. target[c] \in Accounts
  BY <1>1 DEF WriteAt, ApplicationsInv, ApplicationCallOK
<1> QED BY <1>1, <1>2, <1>3 DEF WriteAt, ApplicationsInv, ApplicationTypes, TimelineInv, Accounts

\* An application is made: nothing is on its timeline, nobody moves it.
LEMMA ApplicationMade ==
  ASSUME NEW c \in Calls, WriteAt(c, "application", "created", "open")
  PROVE  TimelineInv'
<1>1. /\ who[c] \in Accounts /\ c \in Accounts /\ ApplicationTypes /\ ApplyOK(c)
      /\ timeline \in [Accounts -> Seq(AnEvent)] /\ timeline' \in [Accounts -> Seq(AnEvent)]
  BY Writer
<1>2. /\ TimelineInv /\ Goes(c, "created", "open") /\ op[c] = "apply" /\ step[c] = "application"
      /\ applications' = applications \cup {[id |-> c, user |-> who[c], status |-> about[c]]}
      /\ UNCHANGED <<seen, overlapped, timeline, notes>>
  BY StepTells DEF WriteAt, WriteApplication
<1>3. target[c] = c /\ (Open(c) \/ c \in late)
  BY <1>1, <1>2 DEF ApplyOK, Goes
<1>4. \A a \in applications : a.id # c
  BY <1>2, <1>3 DEF TimelineInv, RowsOK, Open
<1>5. Len(timeline[c]) = 0
  <2>1. Len(timeline[c]) \in Nat
    BY <1>1, LenProperties
  <2>2. ~(Len(timeline[c]) > 0)
    BY <1>1, <1>2, <1>4 DEF TimelineInv, EventsOK
  <2> QED BY <2>1, <2>2
<1>6. \A x, u : HasRow(x, u) => HasRow(x, u)'
  BY <1>2 DEF HasRow
<1>7. HasRow(c, who[c])'
  <2> DEFINE r == [id |-> c, user |-> who[c], status |-> about[c]]
  <2>1. r \in applications' /\ r.id = c /\ r.user = who[c] /\ who' = who
    BY <1>2 DEF Goes
  <2> HIDE DEF r
  <2> QED BY <2>1 DEF HasRow
<1>8. RowsOK'
  <2>1. ASSUME NEW a \in applications', NEW b \in applications', a.id = b.id PROVE a = b
    BY <1>2, <1>4, <2>1 DEF TimelineInv, RowsOK
  <2>2. ASSUME NEW a \in applications', a.id \in Calls
        PROVE  /\ op'[a.id] = "apply" /\ a.user = who'[a.id]
               /\ step'[a.id] \in {"application", "created", "attach", "get"}
               /\ step'[a.id] = "application" => state'[a.id] = "failed" /\ a.id \notin late'
    <3>1. CASE a \in applications
      <4>1. /\ op[a.id] = "apply" /\ a.user = who[a.id] /\ step[a.id] \in {"application", "created", "attach", "get"}
            /\ step[a.id] = "application" => state[a.id] = "failed" /\ a.id \notin late
        BY <1>2, <2>2, <3>1 DEF TimelineInv, RowsOK
      <4> QED BY <1>2, <1>4, <2>2, <3>1, <4>1 DEF Goes, Alone
    <3>2. CASE a = [id |-> c, user |-> who[c], status |-> about[c]]
      BY <1>2, <3>2 DEF Goes
    <3> QED BY <1>2, <3>1, <3>2
  <2> QED BY <2>1, <2>2 DEF RowsOK
<1>9. EventsOK'
  <2>1. EventsOK /\ timeline' = timeline
    BY <1>2 DEF TimelineInv
  <2>2. ASSUME NEW r \in applications', NEW i \in 1 .. Len(timeline[r.id]) PROVE timeline[r.id][i].by = r.user
    BY <1>2, <1>5, <2>1, <2>2 DEF EventsOK
  <2> QED BY <1>2, <2>1, <2>2 DEF EventsOK
<1>10. ApplyOK(c)' /\ OwnerOK(c)'
  BY <1>2, <1>3, <1>7 DEF ApplyOK, OwnerOK, Goes, Unfinished
<1>11. \A x \in Accounts : Len(timeline'[x]) >= Len(timeline[x])
  BY <1>1, <1>2, LenProperties
<1>12. \A d \in Calls : ApplyOK(d)' /\ OwnerOK(d)'
  BY <1>1, <1>2, <1>6, <1>10, <1>11, CallsKeep
<1>13. NotesOK' /\ \A x \in Accounts : CountOK(x)'
  <2>1. step'[c] # "tell"
    BY <1>2 DEF Goes
  <2>2. \A x \in Accounts : Tellings(x)' = Tellings(x)
    BY <1>2 DEF Tellings
  <2> QED BY <1>1, <1>2, <1>6, <2>1, <2>2, NotesKeep
<1>14. ASSUME NEW a \in applications' PROVE MoveOK(a)'
  <2>1. \A x \in Accounts : \A t : LeadsTo(x, t) => LeadsTo(x, t)'
    BY <1>2 DEF LeadsTo, Moves
  <2>2. a.id \in Accounts /\ MoveOK(a)
    <3>1. CASE a \in applications
      BY <1>1, <1>2, <3>1 DEF TimelineInv, ApplicationTypes
    <3>2. CASE a = [id |-> c, user |-> who[c], status |-> about[c]]
      <4>1. a.id = c
        BY <3>2
      <4>2. \A d \in Calls : OwnerOK(d)
        BY <1>2 DEF TimelineInv
      <4>3. Moving(c) = {}
        BY <1>4, <4>2 DEF Moving, OwnerOK, HasRow
      <4>4. \A t : LeadsTo(c, t)
        BY <1>5, NoMoves
      <4> QED BY <1>1, <4>1, <4>3, <4>4 DEF MoveOK
    <3> QED BY <1>2, <3>1, <3>2
  <2> QED BY <1>2, <2>1, <2>2, MovesKeep
<1>15. TurnsOK'
  BY <1>2, TurnsKeep
<1> QED BY <1>8, <1>9, <1>12, <1>13, <1>14, <1>15 DEF TimelineInv

\* An event of its making is put on its timeline.
LEMMA EventAdded ==
  ASSUME NEW c \in Calls, NEW here \in {"created", "attach"}, NEW s, WriteAt(c, here, s, "open"),
         here = "created" => s = "attach", here = "attach" => s \in {"attach", "get"} /\ links[c] # <<>>
  PROVE  TimelineInv'
<1>1. /\ who[c] \in Accounts /\ c \in Accounts /\ ApplicationTypes /\ ApplyOK(c) /\ OwnerOK(c)
      /\ timeline \in [Accounts -> Seq(AnEvent)] /\ timeline' \in [Accounts -> Seq(AnEvent)]
  BY Writer
<1>2. /\ TimelineInv /\ Goes(c, s, "open") /\ op[c] = "apply" /\ step[c] = here
      /\ UNCHANGED <<seen, overlapped, applications, notes>>
  BY StepTells DEF WriteAt, WriteApplication
<1>3. target[c] = c /\ HasRow(c, who[c])
  BY <1>1, <1>2 DEF ApplyOK, OwnerOK
<1>4. PICK e \in AnEvent : e.by = who[c] /\ e.type \notin {"status", "note"} /\ timeline' = Happened(c, e)
  <2>1. CASE here = "created"
    <3>1. /\ Event(c, "created", "none", "none") \in AnEvent /\ Event(c, "created", "none", "none").by = who[c]
          /\ Event(c, "created", "none", "none").type = "created"
      BY <1>1 DEF Event, AnEvent
    <3> QED BY <1>2, <1>3, <2>1, <3>1 DEF WriteAt, WriteApplication
  <2>2. CASE here = "attach"
    <3>1. links[c] # <<>> /\ links[c] \in Seq(Artifact)
      BY <2>2 DEF WriteAt
    <3>2. Head(links[c]) \in Artifact
      BY <3>1
    <3>3. Head(links[c]) \notin {"status", "note"}
      BY <3>2, ApplicationsAssumption DEF Artifact
    <3>4. /\ AttachedEvent(c, Head(links[c])) \in AnEvent /\ AttachedEvent(c, Head(links[c])).by = who[c]
          /\ AttachedEvent(c, Head(links[c])).type = Head(links[c])
      BY <1>1, <3>2 DEF AttachedEvent, Event, AnEvent
    <3> QED BY <1>2, <1>3, <2>2, <3>3, <3>4 DEF WriteAt, WriteApplication
  <2> QED BY <2>1, <2>2
<1>5. \A x, u : HasRow(x, u) => HasRow(x, u)'
  BY <1>2 DEF HasRow
<1>6. /\ EventsOK' /\ \A x \in Accounts : Len(timeline'[x]) >= Len(timeline[x])
      /\ Len(timeline[c]) \in Nat /\ Len(timeline'[c]) = Len(timeline[c]) + 1
  BY <1>1, <1>2, <1>3, <1>4, EventsKeep
<1>7. ApplyOK(c)' /\ OwnerOK(c)'
  <2>1. ApplyOK(c)'
    BY <1>1, <1>2, <1>3, <1>6 DEF ApplyOK, Goes, Unfinished
  <2>2. OwnerOK(c)'
    BY <1>2, <1>3, <1>5 DEF OwnerOK, Goes
  <2> QED BY <2>1, <2>2
<1>8. \A d \in Calls : ApplyOK(d)' /\ OwnerOK(d)'
  BY <1>1, <1>2, <1>5, <1>6, <1>7, CallsKeep
<1>9. RowsOK'
  <2>1. step'[c] \in {"created", "attach", "get"}
    BY <1>2 DEF Goes
  <2> QED BY <1>2, <2>1, RowsKeep
<1>10. NotesOK' /\ \A x \in Accounts : CountOK(x)'
  <2>1. step'[c] # "tell"
    BY <1>2 DEF Goes
  <2>2. \A x \in Accounts : Tellings(x)' = Tellings(x)
    BY <1>1, <1>4, TellingsAppended
  <2> QED BY <1>1, <1>2, <1>5, <2>1, <2>2, NotesKeep
<1>11. ASSUME NEW a \in applications PROVE MoveOK(a)'
  <2>1. \A x \in Accounts : \A t : LeadsTo(x, t) => LeadsTo(x, t)'
    BY <1>1, <1>4, MovesAppended
  <2>2. a.id \in Accounts /\ MoveOK(a)
    BY <1>1, <1>2 DEF TimelineInv, ApplicationTypes
  <2> QED BY <1>2, <2>1, <2>2, MovesKeep
<1>12. TurnsOK'
  BY <1>2, TurnsKeep
<1> QED BY <1>2, <1>6, <1>8, <1>9, <1>10, <1>11, <1>12 DEF TimelineInv

\* The status of the application that c moves is written: the timeline is now a move behind.
LEMMA StatusUpdated ==
  ASSUME NEW c \in Calls, WriteAt(c, "update", "event", "open")
  PROVE  TimelineInv'
<1>1. /\ who[c] \in Accounts /\ ApplicationTypes /\ OwnerOK(c)
      /\ timeline \in [Accounts -> Seq(AnEvent)] /\ timeline' \in [Accounts -> Seq(AnEvent)]
  BY Writer
<1>2. /\ TimelineInv /\ Goes(c, "event", "open") /\ op[c] = "move" /\ step[c] = "update"
      /\ UNCHANGED <<seen, overlapped, timeline, notes>>
  BY StepTells DEF WriteAt, WriteApplication
<1>3. PICK b \in applications : b.id = target[c] /\ b.user = who[c]
  BY <1>1, <1>2 DEF OwnerOK, HasRow
<1>4. \A r, q \in applications : r.id = q.id => r = q
  BY <1>2 DEF TimelineInv, RowsOK
<1>5. OwnApplication(c) = {b}
  BY <1>3, <1>4 DEF OwnApplication
<1> DEFINE w == [b EXCEPT !.status = about[c]]
<1>6. applications' = {IF a \in {b} THEN [a EXCEPT !.status = about[c]] ELSE a : a \in applications}
  BY <1>2, <1>5 DEF WriteAt, WriteApplication
<1>7. w.id = b.id /\ w.user = b.user /\ w.status = about[c]
  BY <1>3 DEF WriteAt, ApplicationsInv, ApplicationTypes
<1>8. applications' = (applications \ {b}) \cup {w}
  BY <1>3, <1>6
<1> HIDE DEF w
<1>9. \A x, u : HasRow(x, u) => HasRow(x, u)'
  BY <1>3, <1>7, <1>8 DEF HasRow
<1>10. ASSUME NEW a \in applications' PROVE \E r \in applications : r.id = a.id /\ r.user = a.user
  BY <1>3, <1>7, <1>8
<1>11. RowsOK'
  <2>1. ASSUME NEW a \in applications', NEW r \in applications', a.id = r.id PROVE a = r
    BY <1>3, <1>4, <1>7, <1>8, <2>1
  <2>2. ASSUME NEW a \in applications', a.id \in Calls
        PROVE  /\ op'[a.id] = "apply" /\ a.user = who'[a.id]
               /\ step'[a.id] \in {"application", "created", "attach", "get"}
               /\ step'[a.id] = "application" => state'[a.id] = "failed" /\ a.id \notin late'
    <3>1. /\ op[a.id] = "apply" /\ a.user = who[a.id] /\ step[a.id] \in {"application", "created", "attach", "get"}
          /\ step[a.id] = "application" => state[a.id] = "failed" /\ a.id \notin late
      BY <1>2, <1>10, <2>2 DEF TimelineInv, RowsOK
    <3> QED BY <1>2, <2>2, <3>1 DEF Goes, Alone
  <2> QED BY <2>1, <2>2 DEF RowsOK
<1>12. EventsOK'
  <2>1. EventsOK /\ timeline' = timeline
    BY <1>2 DEF TimelineInv
  <2>2. ASSUME NEW a \in applications', NEW i \in 1 .. Len(timeline[a.id]) PROVE timeline[a.id][i].by = a.user
    BY <1>10, <2>1, <2>2 DEF EventsOK
  <2>3. ASSUME NEW x \in Accounts, Len(timeline[x]) > 0 PROVE \E r \in applications' : r.id = x
    <3>1. PICK r \in applications : r.id = x
      BY <2>1, <2>3 DEF EventsOK
    <3> QED BY <1>7, <1>8, <3>1
  <2> QED BY <2>1, <2>2, <2>3 DEF EventsOK
<1>13. ApplyOK(c)' /\ OwnerOK(c)'
  BY <1>1, <1>2, <1>9 DEF ApplyOK, OwnerOK, Goes
<1>14. \A x \in Accounts : Len(timeline'[x]) >= Len(timeline[x])
  BY <1>1, <1>2, LenProperties
<1>15. \A d \in Calls : ApplyOK(d)' /\ OwnerOK(d)'
  BY <1>1, <1>2, <1>9, <1>13, <1>14, CallsKeep
<1>16. NotesOK' /\ \A x \in Accounts : CountOK(x)'
  <2>1. step'[c] # "tell"
    BY <1>2 DEF Goes
  <2>2. \A x \in Accounts : Tellings(x)' = Tellings(x)
    BY <1>2 DEF Tellings
  <2> QED BY <1>1, <1>2, <1>9, <2>1, <2>2, NotesKeep
<1>17. ASSUME NEW a \in applications' PROVE MoveOK(a)'
  <2>1. CASE a \in applications /\ a.id # target[c]
    <3>1. a.id \in Accounts /\ MoveOK(a)
      BY <1>1, <1>2, <2>1 DEF TimelineInv, ApplicationTypes
    <3>2. \A t : LeadsTo(a.id, t) => LeadsTo(a.id, t)'
      BY <1>2 DEF LeadsTo, Moves
    <3> QED BY <1>2, <2>1, <3>1, <3>2, MovesKeep
  <2>2. CASE a = w
    <3>1. /\ a.id = b.id /\ a.status = about[c] /\ b.id = target[c]
          /\ MoveOK(b) /\ overlapped' = overlapped /\ seen' = seen /\ about' = about /\ timeline' = timeline
      BY <1>2, <1>3, <1>7, <2>2 DEF TimelineInv, Goes
    <3> SUFFICES ASSUME b.id \notin overlapped PROVE MoveOK(a)'
      BY <3>1 DEF MoveOK
    <3>2. c \in Moving(b.id) /\ Moving(b.id)' \subseteq Moving(b.id)
      BY <1>2, <1>3 DEF Moving, Goes, Alone, Unfinished, Open, WriteAt, RequestsInv, CallOK
    <3>3. Moving(b.id)' = {c}
      <4>1. \A d \in Moving(b.id) : d = c
        BY <3>1, <3>2 DEF MoveOK
      <4>2. c \in Moving(b.id)'
        BY <1>2, <3>2 DEF Moving, Goes, Unfinished
      <4> QED BY <3>2, <4>1, <4>2
    <3>4. ASSUME Open(c)' PROVE step'[c] = "event" /\ LeadsTo(b.id, seen[c])
      <4>1. Open(c) /\ step'[c] = "event"
        BY <1>2, <3>4 DEF Goes, Open
      <4> QED BY <1>2, <3>1, <3>2, <4>1 DEF MoveOK
    <3>5. LeadsTo(b.id, seen[c]) => LeadsTo(b.id, seen[c])'
      BY <3>1 DEF LeadsTo, Moves
    <3> QED BY <3>1, <3>3, <3>4, <3>5 DEF MoveOK
  <2>3. a.id = target[c] => a = w
    BY <1>3, <1>4, <1>8
  <2> QED BY <1>8, <2>1, <2>2, <2>3
<1>18. TurnsOK'
  BY <1>2, TurnsKeep
<1> QED BY <1>11, <1>12, <1>15, <1>16, <1>17, <1>18 DEF TimelineInv

\* The event of a move is put on the timeline: it has caught up.
LEMMA MoveRecorded ==
  ASSUME NEW c \in Calls, WriteAt(c, "event", "get", "open")
  PROVE  TimelineInv'
<1>1. /\ who[c] \in Accounts /\ target[c] \in Accounts /\ ApplicationTypes /\ OwnerOK(c)
      /\ timeline \in [Accounts -> Seq(AnEvent)] /\ timeline' \in [Accounts -> Seq(AnEvent)] /\ CallOK(c)
  BY Writer
<1>2. /\ TimelineInv /\ Goes(c, "get", "open") /\ op[c] = "move" /\ step[c] = "event"
      /\ UNCHANGED <<seen, overlapped, applications, notes>>
  BY StepTells DEF WriteAt, WriteApplication
<1>3. HasRow(target[c], who[c])
  BY <1>1, <1>2 DEF OwnerOK
<1> DEFINE e == MoveEvent(c)
<1>4. /\ e \in AnEvent /\ e.by = who[c] /\ e.type = "status" /\ e.from = seen[c] /\ e.to = about[c]
      /\ timeline' = Happened(target[c], e)
  <2>1. seen[c] \in Statuses \cup {"none"} /\ about[c] \in Statuses
    BY <1>1, <1>2 DEF ApplicationTypes, CallOK, NamedBy
  <2> QED BY <1>1, <1>2, <2>1 DEF MoveEvent, Event, AnEvent, WriteAt, WriteApplication
<1> HIDE DEF e
<1>5. \A x, u : HasRow(x, u) => HasRow(x, u)'
  BY <1>2 DEF HasRow
<1>6. EventsOK' /\ \A x \in Accounts : Len(timeline'[x]) >= Len(timeline[x])
  BY <1>1, <1>2, <1>3, <1>4, EventsKeep
<1>7. ApplyOK(c)' /\ OwnerOK(c)'
  BY <1>1, <1>2, <1>5 DEF ApplyOK, OwnerOK, Goes
<1>8. \A d \in Calls : ApplyOK(d)' /\ OwnerOK(d)'
  BY <1>1, <1>2, <1>5, <1>6, <1>7, CallsKeep
<1>9. RowsOK'
  BY <1>2, RowsKeep
<1>10. NotesOK' /\ \A x \in Accounts : CountOK(x)'
  <2>1. step'[c] # "tell"
    BY <1>2 DEF Goes
  <2>2. \A x \in Accounts : Tellings(x)' = Tellings(x)
    BY <1>1, <1>4, TellingsAppended
  <2> QED BY <1>1, <1>2, <1>5, <2>1, <2>2, NotesKeep
<1>11. ASSUME NEW a \in applications PROVE MoveOK(a)'
  <2>1. a.id \in Accounts /\ MoveOK(a)
    BY <1>1, <1>2 DEF TimelineInv, ApplicationTypes
  <2>2. CASE a.id # target[c]
    <3>1. \A t : LeadsTo(a.id, t) => LeadsTo(a.id, t)'
      BY <1>1, <1>4, <2>1, <2>2, MovesAppended
    <3> QED BY <1>2, <2>1, <2>2, <3>1, MovesKeep
  <2>3. CASE a.id = target[c]
    <3>1. overlapped' = overlapped /\ seen' = seen /\ about' = about
      BY <1>2 DEF Goes
    <3> SUFFICES ASSUME a.id \notin overlapped PROVE MoveOK(a)'
      BY <3>1 DEF MoveOK
    <3>2. c \in Moving(a.id) /\ Moving(a.id)' \subseteq Moving(a.id)
      BY <1>2, <2>3 DEF Moving, Goes, Alone, Unfinished, Open, WriteAt, RequestsInv, CallOK
    <3>3. \A d \in Moving(a.id) : d = c
      BY <2>1, <3>2 DEF MoveOK
    <3>4. CASE Open(c)
      <4>1. Moving(a.id)' = {}
        <5>1. step'[c] = "get"
          BY <1>2, <3>4 DEF Goes, Open
        <5>2. c \notin Moving(a.id)'
          BY <5>1 DEF Moving
        <5> QED BY <3>2, <3>3, <5>2
      <4>2. LeadsTo(a.id, seen[c]) /\ about[c] = a.status
        BY <1>2, <2>1, <3>2, <3>4 DEF MoveOK
      <4>3. LeadsTo(a.id, a.status)'
        BY <1>1, <1>4, <2>3, <4>2, MovesAppended
      <4> QED BY <4>1, <4>3 DEF MoveOK
    <3>5. CASE ~Open(c)
      <4>1. ~Open(c)' /\ c \in Moving(a.id)'
        BY <1>2, <2>3, <3>5 DEF Goes, Open, Moving, Unfinished
      <4>2. Moving(a.id)' = {c}
        BY <3>2, <3>3, <4>1
      <4> QED BY <4>1, <4>2 DEF MoveOK
    <3> QED BY <3>4, <3>5
  <2> QED BY <2>2, <2>3
<1>12. TurnsOK'
  BY <1>2, TurnsKeep
<1> QED BY <1>2, <1>6, <1>8, <1>9, <1>10, <1>11, <1>12 DEF TimelineInv

\* A note is made: what there is to tell of grows by it.
LEMMA NoteKept ==
  ASSUME NEW c \in Calls, WriteAt(c, "keep", "tell", "open")
  PROVE  TimelineInv'
<1>1. /\ who[c] \in Accounts /\ target[c] \in Accounts /\ ApplicationTypes /\ OwnerOK(c) /\ NotesOK
      /\ timeline \in [Accounts -> Seq(AnEvent)] /\ timeline' \in [Accounts -> Seq(AnEvent)]
  BY Writer
<1> DEFINE n0 == NoteRow(c)
<1>2. /\ TimelineInv /\ Goes(c, "tell", "open") /\ op[c] = "note" /\ step[c] = "keep"
      /\ UNCHANGED <<seen, overlapped, applications, timeline>> /\ notes' = notes \cup {n0}
  BY StepTells DEF WriteAt, WriteApplication, NoteRow
<1>3. n0.id = c /\ n0.user = who[c] /\ n0.application = target[c] /\ NoteRow(c)' = n0
  BY <1>2 DEF NoteRow, Goes
<1> HIDE DEF n0
<1>4. HasRow(n0.application, n0.user)
  BY <1>1, <1>2, <1>3 DEF OwnerOK
<1>5. \A n \in notes : n.id \in Calls /\ n.id # c
  BY <1>1, <1>2 DEF NotesOK, Goes, Open, ApplicationTypes
<1>6. \A x, u : HasRow(x, u) => HasRow(x, u)'
  BY <1>2 DEF HasRow
<1>7. RowsOK'
  BY <1>2, RowsKeep
<1>8. EventsOK'
  BY <1>2 DEF TimelineInv, EventsOK
<1>9. ApplyOK(c)' /\ OwnerOK(c)'
  BY <1>1, <1>2, <1>6 DEF ApplyOK, OwnerOK, Goes
<1>10. \A x \in Accounts : Len(timeline'[x]) >= Len(timeline[x])
  BY <1>1, <1>2, LenProperties
<1>11. \A d \in Calls : ApplyOK(d)' /\ OwnerOK(d)'
  BY <1>1, <1>2, <1>6, <1>9, <1>10, CallsKeep
<1>12. ASSUME NEW n \in notes
       PROVE  /\ Same(n.id) /\ step'[n.id] = step[n.id] /\ state'[n.id] = state[n.id]
              /\ n.id \in late' <=> n.id \in late
  BY <1>2, <1>5 DEF Goes, Alone, Same
<1>13. NotesOK'
  <2>1. ASSUME NEW d \in Calls, step'[d] = "tell" PROVE NoteRow(d)' \in notes'
    <3>1. CASE d = c
      BY <1>2, <1>3, <3>1
    <3>2. CASE d # c
      <4>1. step[d] = "tell" /\ Same(d)
        BY <1>2, <2>1, <3>2 DEF Goes, Alone, Same
      <4> QED BY <1>1, <1>2, <4>1 DEF NotesOK, NoteRow, Same
    <3> QED BY <3>1, <3>2
  <2>2. ASSUME NEW n \in notes'
        PROVE  /\ op'[n.id] = "note" /\ n = NoteRow(n.id)' /\ HasRow(n.application, n.user)'
               /\ step'[n.id] \in {"keep", "tell"}
               /\ step'[n.id] = "keep" => state'[n.id] = "failed" /\ n.id \notin late'
    <3>1. CASE n \in notes
      <4>1. /\ op[n.id] = "note" /\ n = NoteRow(n.id) /\ HasRow(n.application, n.user)
            /\ step[n.id] \in {"keep", "tell"}
            /\ step[n.id] = "keep" => state[n.id] = "failed" /\ n.id \notin late
        BY <1>1, <3>1 DEF NotesOK
      <4>2. NoteRow(n.id)' = NoteRow(n.id)
        BY <1>12, <3>1 DEF NoteRow, Same
      <4> QED BY <1>6, <1>12, <3>1, <4>1, <4>2 DEF Same
    <3>2. CASE n = n0
      BY <1>2, <1>3, <1>4, <1>6, <3>2 DEF Goes
    <3> QED BY <1>2, <2>2, <3>1, <3>2
  <2> QED BY <2>1, <2>2 DEF NotesOK
<1>14. ASSUME NEW x \in Accounts PROVE CountOK(x)'
  <2>1. CountOK(x) /\ Tellings(x)' = Tellings(x)
    BY <1>2 DEF TimelineInv, Tellings
  <2>2. Told(x)' = Told(x)
    <3>1. state'[c] # "ok"
      BY <1>2 DEF Goes
    <3> QED BY <1>2, <1>3, <1>12, <3>1 DEF Told, NotesOn
  <2>3. CASE x # target[c]
    <3>1. NotesOn(x)' = NotesOn(x)
      BY <1>2, <1>3, <2>3 DEF NotesOn
    <3>2. Owing(x)' = Owing(x)
      BY <1>12, <3>1 DEF Owing, Open, NotesOn
    <3> QED BY <2>1, <2>2, <3>1, <3>2 DEF CountOK
  <2>4. CASE x = target[c]
    <3>1. /\ NotesOn(x)' = NotesOn(x) \cup {n0} /\ n0 \notin NotesOn(x)
          /\ Owing(x)' \in {Owing(x), Owing(x) \cup {n0}} /\ n0 \notin Owing(x)
      <4>1. NotesOn(x)' = NotesOn(x) \cup {n0} /\ n0 \notin NotesOn(x)
        BY <1>2, <1>3, <1>5, <2>4 DEF NotesOn
      <4>2. \A n \in NotesOn(x) : n \in Owing(x)' <=> n \in Owing(x)
        BY <1>12, <4>1 DEF Owing, Open, NotesOn
      <4>3. Owing(x)' \subseteq NotesOn(x) \cup {n0} /\ Owing(x) \subseteq NotesOn(x)
        BY <4>1 DEF Owing
      <4> QED BY <4>1, <4>2, <4>3
    <3>2. /\ IsFiniteSet(NotesOn(x)) /\ IsFiniteSet(Owing(x))
          /\ Cardinality(NotesOn(x)) \in Nat /\ Cardinality(Owing(x)) \in Nat
      BY <1>1, FiniteNotes
    <3>3. Cardinality(NotesOn(x)') = Cardinality(NotesOn(x)) + 1
      BY <3>1, <3>2, FS_AddElement
    <3>4. Cardinality(Owing(x)') \in {Cardinality(Owing(x)), Cardinality(Owing(x)) + 1}
      BY <3>1, <3>2, FS_AddElement
    <3>5. Cardinality(Tellings(x)) \in Nat
      BY <1>1, FiniteTellings
    <3> QED BY <2>1, <2>2, <3>2, <3>3, <3>4, <3>5 DEF CountOK
  <2> QED BY <2>3, <2>4
<1>15. ASSUME NEW a \in applications PROVE MoveOK(a)'
  <2>1. a.id \in Accounts /\ MoveOK(a)
    BY <1>1, <1>2 DEF TimelineInv, ApplicationTypes
  <2>2. \A t : LeadsTo(a.id, t) => LeadsTo(a.id, t)'
    BY <1>2 DEF LeadsTo, Moves
  <2> QED BY <1>2, <2>1, <2>2, MovesKeep
<1>16. TurnsOK'
  BY <1>2, TurnsKeep
<1> QED BY <1>2, <1>7, <1>8, <1>11, <1>13, <1>14, <1>15, <1>16 DEF TimelineInv

\* The timeline is told of a note: that is one less to tell of.
LEMMA NoteTold ==
  ASSUME NEW c \in Calls, WriteAt(c, "tell", "tell", "ok")
  PROVE  TimelineInv'
<1>1. /\ who[c] \in Accounts /\ target[c] \in Accounts /\ ApplicationTypes /\ OwnerOK(c) /\ NotesOK /\ CallOK(c)
      /\ timeline \in [Accounts -> Seq(AnEvent)] /\ timeline' \in [Accounts -> Seq(AnEvent)]
  BY Writer
<1> DEFINE n0 == NoteRow(c)
           e == Event(c, "note", "none", "none")
<1>2. /\ TimelineInv /\ Goes(c, "tell", "ok") /\ op[c] = "note" /\ step[c] = "tell"
      /\ UNCHANGED <<seen, overlapped, applications, notes>> /\ timeline' = Happened(target[c], e)
  BY StepTells DEF WriteAt, WriteApplication
<1>3. /\ n0.id = c /\ n0.application = target[c] /\ NoteRow(c)' = n0 /\ n0 \in notes
      /\ \A n \in notes : n.id \in Calls /\ (n.id = c => n = n0)
  BY <1>1, <1>2 DEF NoteRow, Goes, NotesOK, ApplicationTypes
<1>4. e \in AnEvent /\ e.by = who[c] /\ e.type = "note"
  BY <1>1 DEF Event, AnEvent
<1> HIDE DEF n0, e
<1>5. HasRow(target[c], who[c])
  BY <1>1, <1>2 DEF OwnerOK
<1>6. \A x, u : HasRow(x, u) => HasRow(x, u)'
  BY <1>2 DEF HasRow
<1>7. RowsOK'
  BY <1>2, RowsKeep
<1>8. EventsOK' /\ \A x \in Accounts : Len(timeline'[x]) >= Len(timeline[x])
  BY <1>1, <1>2, <1>4, <1>5, EventsKeep
<1>9. ApplyOK(c)' /\ OwnerOK(c)'
  BY <1>1, <1>2, <1>6 DEF ApplyOK, OwnerOK, Goes
<1>10. \A d \in Calls : ApplyOK(d)' /\ OwnerOK(d)'
  BY <1>1, <1>2, <1>6, <1>8, <1>9, CallsKeep
<1>11. step'[c] = "tell" /\ \A d \in Calls : Same(d) /\ step'[d] = step[d]
  BY <1>2 DEF Goes, Alone, Same
<1>12. NotesOK'
  <2>1. ASSUME NEW d \in Calls, step'[d] = "tell" PROVE NoteRow(d)' \in notes
    BY <1>1, <1>11, <2>1 DEF NotesOK, NoteRow, Same
  <2>2. ASSUME NEW n \in notes
        PROVE  /\ op'[n.id] = "note" /\ n = NoteRow(n.id)' /\ HasRow(n.application, n.user)'
               /\ step'[n.id] \in {"keep", "tell"}
               /\ step'[n.id] = "keep" => state'[n.id] = "failed" /\ n.id \notin late'
    <3>1. CASE n.id = c
      BY <1>1, <1>2, <1>3, <1>6, <1>11, <3>1 DEF NotesOK, Same
    <3>2. CASE n.id # c
      BY <1>1, <1>2, <1>3, <1>6, <1>11, <3>2 DEF NotesOK, NoteRow, Same, Goes, Alone
    <3> QED BY <3>1, <3>2
  <2> QED BY <1>2, <2>1, <2>2 DEF NotesOK
<1>13. ASSUME NEW n \in notes, n # n0
       PROVE  /\ step'[n.id] = step[n.id] /\ state'[n.id] = state[n.id]
              /\ n.id \in late' <=> n.id \in late
  BY <1>2, <1>3, <1>13 DEF Goes, Alone
<1>14. ASSUME NEW x \in Accounts PROVE CountOK(x)'
  <2>1. CountOK(x) /\ NotesOn(x)' = NotesOn(x)
    BY <1>2 DEF TimelineInv, NotesOn
  <2>2. CASE x # target[c]
    <3>1. n0 \notin NotesOn(x) /\ NotesOn(x) \subseteq notes
      BY <1>3, <2>2 DEF NotesOn
    <3>2. \A n \in NotesOn(x) : /\ step'[n.id] = step[n.id] /\ state'[n.id] = state[n.id]
                                /\ n.id \in late' <=> n.id \in late
      BY <1>13, <3>1
    <3>3. Owing(x)' = Owing(x) /\ Told(x)' = Told(x)
      BY <2>1, <3>2 DEF Owing, Told, Open
    <3>4. Tellings(x)' = Tellings(x)
      BY <1>1, <1>2, <1>4, <2>2, TellingsAppended
    <3> QED BY <2>1, <3>3, <3>4 DEF CountOK
  <2>3. CASE x = target[c]
    <3>1. /\ n0 \in Owing(x) /\ n0 \notin Told(x)
      BY <1>1, <1>2, <1>3, <2>3 DEF Owing, Told, NotesOn, Goes, Open, CallOK
    <3>2. \A n \in NotesOn(x) \ {n0} : /\ step'[n.id] = step[n.id] /\ state'[n.id] = state[n.id]
                                       /\ n.id \in late' <=> n.id \in late
      BY <1>13 DEF NotesOn
    <3>3. Owing(x)' = Owing(x) \ {n0}
      <4>1. ~Open(c)' /\ c \notin late'
        BY <1>1, <1>2 DEF Goes, Open, CallOK
      <4>2. n0 \notin Owing(x)'
        BY <1>3, <4>1 DEF Owing
      <4>3. \A n \in NotesOn(x) \ {n0} : n \in Owing(x)' <=> n \in Owing(x)
        BY <2>1, <3>2 DEF Owing, Open
      <4>4. Owing(x)' \subseteq NotesOn(x) /\ Owing(x) \subseteq NotesOn(x)
        BY <2>1 DEF Owing
      <4> QED BY <4>2, <4>3, <4>4
    <3>4. Told(x)' \in {Told(x), Told(x) \cup {n0}}
      <4>1. \A n \in NotesOn(x) \ {n0} : n \in Told(x)' <=> n \in Told(x)
        BY <2>1, <3>2 DEF Told
      <4>2. Told(x)' \subseteq NotesOn(x) /\ Told(x) \subseteq NotesOn(x)
        BY <2>1 DEF Told
      <4> QED BY <3>1, <4>1, <4>2
    <3>5. /\ IsFiniteSet(Owing(x)) /\ IsFiniteSet(Told(x)) /\ Cardinality(NotesOn(x)) \in Nat
          /\ Cardinality(Owing(x)) \in Nat /\ Cardinality(Told(x)) \in Nat
      BY <1>1, FiniteNotes
    <3>6. Cardinality(Owing(x)') = Cardinality(Owing(x)) - 1
      BY <3>1, <3>3, <3>5, FS_RemoveElement
    <3>7. Cardinality(Told(x)') \in {Cardinality(Told(x)), Cardinality(Told(x)) + 1}
      BY <3>1, <3>4, <3>5, FS_AddElement
    <3>8. Cardinality(Tellings(x)) \in Nat /\ Cardinality(Tellings(x)') = Cardinality(Tellings(x)) + 1
      BY <1>1, <1>2, <1>4, <2>3, FiniteTellings, TellingsAppended
    <3> QED BY <2>1, <3>5, <3>6, <3>7, <3>8 DEF CountOK
  <2> QED BY <2>2, <2>3
<1>15. ASSUME NEW a \in applications PROVE MoveOK(a)'
  <2>1. a.id \in Accounts /\ MoveOK(a)
    BY <1>1, <1>2 DEF TimelineInv, ApplicationTypes
  <2>2. \A t : LeadsTo(a.id, t) => LeadsTo(a.id, t)'
    BY <1>1, <1>2, <1>4, <2>1, MovesAppended
  <2> QED BY <1>2, <2>1, <2>2, MovesKeep
<1>16. TurnsOK'
  BY <1>2, TurnsKeep
<1> QED BY <1>2, <1>7, <1>8, <1>10, <1>12, <1>14, <1>15, <1>16 DEF TimelineInv

-----------------------------------------------------------------------------
(* Every step.                                                                   *)

\* Calls at rest, whoever acts.
LEMMA OthersRest ==
  ASSUME TimelineInv, NEW c \in Calls, Alone(c),
         NEW d \in Calls \ {c}, target'[d] = target[d], seen'[d] = seen[d]
  PROVE  Rests(d)
<1>1. ApplyOK(d)
  BY DEF TimelineInv
<1>2. Same(d) /\ step'[d] = step[d] /\ state'[d] = state[d] /\ (d \in late' <=> d \in late)
  BY DEF Alone, Same
<1> QED BY <1>1, <1>2 DEF Rests, ApplyOK, Same

\* A call of another component, and one that arrives or has its session looked up.
LEMMA ForeignRests ==
  ASSUME RequestsInv, RequestsInv', NEW c \in Calls, op' = op, op[c] \notin {"apply", "move", "note"}
  PROVE  Rests(c)
<1>1. step[c] \in StepsOf(op[c]) /\ step'[c] \in StepsOf(op[c]) /\ op[c] \in Operations
  BY DEF RequestsInv, RequestTypes, CallOK
<1>2. ~Deep(c) /\ ~Deep(c)'
  BY <1>1 DEF Deep, StepsOf, Operations, Front
<1> QED BY <1>2 DEF Rests

LEMMA EnteringRests ==
  ASSUME NEW c \in Calls, Entering(c), op'[c] = "apply" => target'[c] = c
  PROVE  Rests(c)
<1>1. ~Deep(c) /\ ~Deep(c)'
  BY DEF Entering, Deep, Front
<1> QED BY <1>1 DEF Rests, Entering

\* A failure leaves every call where it is.
LEMMA FailureRests ==
  ASSUME TimelineInv, Failed, UNCHANGED <<target, seen>>, NEW c \in Calls
  PROVE  Rests(c)
<1>1. ApplyOK(c)
  BY DEF TimelineInv
<1> QED BY <1>1 DEF Failed, Rests, ApplyOK, Same

\* updateStatus reads the status: it is the only move, or two of them overlap.
LEMMA StatusRead ==
  ASSUME IInv, TimelineInv, NEW c \in Calls, ReadStatus(c), Proceed(c, "update"), NEW a \in OwnApplication(c),
         seen' = [seen EXCEPT ![c] = a.status],
         overlapped' = IF Moving(a.id) = {} THEN overlapped ELSE overlapped \cup {a.id}
  PROVE  TimelineInv'
<1> USE DEF IInv
<1>1. /\ Open(c) /\ OwnTurn(c) /\ step[c] = "current" /\ op[c] = "move" /\ ApplicationTypes
      /\ UNCHANGED <<applications, timeline, notes, target, links>>
  BY StepTells DEF ReadStatus, At, ApplicationsInv
<1>2. Goes(c, "update", "open")
  <2>1. who[c] \in Accounts /\ "update" \in StepsOf(op[c])
    BY <1>1 DEF RequestsInv, CallOK, Early, Front, StepsOf
  <2>2. /\ Alone(c) /\ op' = op /\ about' = about /\ who' = who /\ state' = state /\ step'[c] = "update" /\ late' = late
    BY <1>1, <2>1, ProceedActs
  <2> QED BY <1>1, <2>2 DEF Goes, Open
<1>3. a \in applications /\ a.id = target[c] /\ a.user = who[c]
  BY DEF OwnApplication
<1>4. \A x, u : HasRow(x, u) => HasRow(x, u)'
  BY <1>1 DEF HasRow
<1>5. RowsOK'
  BY <1>1, <1>2, RowsKeep
<1>6. EventsOK'
  BY <1>1 DEF TimelineInv, EventsOK
<1>7. ApplyOK(c)' /\ OwnerOK(c)'
  BY <1>1, <1>2, <1>3 DEF ApplyOK, OwnerOK, HasRow, Goes
<1>8. timeline \in [Accounts -> Seq(AnEvent)] /\ \A x \in Accounts : Len(timeline'[x]) >= Len(timeline[x])
  BY <1>1, LenProperties DEF ApplicationTypes
<1>9. \A d \in Calls : ApplyOK(d)' /\ OwnerOK(d)'
  BY <1>1, <1>2, <1>4, <1>7, <1>8, CallsKeep
<1>10. NotesOK' /\ \A x \in Accounts : CountOK(x)'
  <2>1. step'[c] # "tell"
    BY <1>1, <1>2 DEF Goes
  <2>2. \A x \in Accounts : Tellings(x)' = Tellings(x)
    BY <1>1 DEF Tellings
  <2> QED BY <1>1, <1>2, <1>4, <2>1, <2>2, NotesKeep
<1>11. seen'[c] = a.status /\ \A d \in Calls \ {c} : seen'[d] = seen[d]
  BY <1>1 DEF ApplicationTypes
<1>12. ASSUME NEW b \in applications PROVE MoveOK(b)'
  <2>1. b.id \in Accounts /\ MoveOK(b) /\ (b.id \in overlapped => b.id \in overlapped')
    BY <1>1 DEF TimelineInv, ApplicationTypes
  <2>2. \A t : LeadsTo(b.id, t) => LeadsTo(b.id, t)'
    BY <1>1 DEF LeadsTo, Moves
  <2>3. CASE b.id # a.id
    BY <1>2, <1>3, <1>11, <2>1, <2>2, <2>3, MovesKeep
  <2>4. CASE b.id = a.id
    <3> SUFFICES ASSUME b.id \notin overlapped' PROVE MoveOK(b)'
      BY DEF MoveOK
    <3>1. Moving(b.id) = {} /\ b.id \notin overlapped /\ b = a
      BY <1>3, <2>1, <2>4 DEF TimelineInv, RowsOK
    <3>2. LeadsTo(b.id, b.status)'
      BY <2>1, <2>2, <3>1 DEF MoveOK
    <3>3. Moving(b.id)' \subseteq {c}
      <4>1. ASSUME NEW d \in Moving(b.id)', d # c PROVE d \in Moving(b.id)
        BY <1>1, <1>2, <4>1 DEF Moving, Goes, Alone, Unfinished
      <4> QED BY <3>1, <4>1
    <3>4. c \in Moving(b.id)' /\ step'[c] = "update"
      BY <1>1, <1>2, <1>3, <2>4 DEF Moving, Goes, Unfinished, Open
    <3>5. LeadsTo(b.id, seen[c])'
      <4>1. seen'[c] = b.status /\ applications' = applications
        BY <1>1, <1>11, <3>1
      <4> QED BY <3>2, <4>1 DEF LeadsTo, Moves
    <3> QED BY <1>11, <3>1, <3>3, <3>4, <3>5 DEF MoveOK
  <2> QED BY <2>3, <2>4
<1>13. TurnsOK'
  <2> SUFFICES ASSUME Driver = "memory" PROVE overlapped' = {} /\ \A d \in Calls : op'[d] = "move" => state'[d] # "failed"
    BY DEF TurnsOK
  <2>1. overlapped = {} /\ \A d \in Calls : op[d] = "move" => state[d] # "failed"
    BY DEF TimelineInv, TurnsOK
  <2>2. \A d \in Calls \ {c} : Open(d) => step[d] \in RealWaits
    BY <1>1 DEF OwnTurn
  <2>3. Moving(a.id) = {}
    BY <1>1, <2>1, <2>2 DEF Moving, Unfinished, Open, RealWaits
  <2> QED BY <1>2, <2>1, <2>3 DEF Goes, Alone
<1> QED BY <1>1, <1>5, <1>6, <1>9, <1>10, <1>12, <1>13 DEF TimelineInv

\* A write of c, waited for or late, is one of the above.
LEMMA ApplicationWrites ==
  ASSUME IInv, ApplicationTypes', TimelineInv, NEW c \in Calls, NEW s, NEW st,
         WriteApplication(c), Goes(c, s, st), UNCHANGED <<seen, overlapped>>,
         step[c] = "application" => s = "created" /\ st = "open",
         step[c] = "created" => s = "attach" /\ st = "open",
         step[c] = "attach" => s \in {"attach", "get"} /\ st = "open",
         step[c] = "update" => s = "event" /\ st = "open",
         step[c] = "event" => s = "get" /\ st = "open",
         step[c] = "keep" => s = "tell" /\ st = "open",
         step[c] = "tell" => s = "tell" /\ st = "ok"
  PROVE  TimelineInv'
<1>1. WriteAt(c, step[c], s, st)
  BY DEF WriteAt, IInv, ApplicationsInv, ApplicationTypes
<1>2. step[c] \in {"application", "created", "attach", "update", "event", "keep", "tell"}
  BY DEF WriteApplication
<1>3. step[c] = "attach" => links[c] # <<>>
  BY StepTells DEF IInv, ApplicationsInv, ApplicationCallOK
<1>4. CASE step[c] = "application"
  BY <1>1, <1>4, ApplicationMade
<1>5. CASE step[c] \in {"created", "attach"}
  BY <1>1, <1>3, <1>5, EventAdded
<1>6. CASE step[c] = "update"
  BY <1>1, <1>6, StatusUpdated
<1>7. CASE step[c] = "event"
  BY <1>1, <1>7, MoveRecorded
<1>8. CASE step[c] = "keep"
  BY <1>1, <1>8, NoteKept
<1>9. CASE step[c] = "tell"
  BY <1>1, <1>9, NoteTold
<1> QED BY <1>2, <1>4, <1>5, <1>6, <1>7, <1>8, <1>9

LEMMA ApplicationsTimeline ==
  ASSUME IInv, ApplicationTypes', TimelineInv, NEW c \in Calls, ApplicationsStep(c)
  PROVE  TimelineInv'
<1>1. /\ RequestsInv /\ ApplicationTypes /\ CallOK(c) /\ ApplyOK(c)
      /\ step[c] \notin Early => who[c] \in Accounts
  BY DEF IInv, RequestsInv, ApplicationsInv, TimelineInv, CallOK
<1>2. ASSUME Alone(c), Rests(c), target' = target, \A d \in Calls \ {c} : seen'[d] = seen[d],
             UNCHANGED <<applications, timeline, notes, overlapped>>
      PROVE  TimelineInv'
  <2>1. \A d \in Calls : Rests(d)
    BY <1>2, OthersRest
  <2> QED BY <1>1, <1>2, <2>1, TimelineFrame
<1>3. ASSUME NEW s \in StepsOf(op[c]), Open(c), step[c] \notin Early, Proceed(c, s), UNCHANGED target
      PROVE  Goes(c, s, "open")
  BY <1>1, <1>3, ProceedActs DEF Goes, Open
<1>4. CASE ValidateArtifactRefs(c)
  <2>1. Open(c) /\ step[c] = "references" /\ op[c] = "apply" /\ UNCHANGED applicationVars
    BY <1>1, <1>4, StepTells DEF ValidateArtifactRefs, At
  <2>2. CASE Proceed(c, "application")
    <3>1. Goes(c, "application", "open")
      BY <1>3, <2>1, <2>2 DEF Early, Front, StepsOf, applicationVars
    <3>2. Rests(c)
      BY <1>1, <2>1, <3>1 DEF Rests, Deep, Same, Goes, ApplyOK, applicationVars, Open
    <3> QED BY <1>2, <2>1, <3>1, <3>2 DEF Goes, applicationVars
  <2>3. CASE Answer(c, "refused")
    <3>1. Alone(c) /\ op' = op /\ step' = step /\ state'[c] = "refused"
      BY <1>1, <2>1, <2>3, AnswerActs
    <3>2. Rests(c)
      BY <1>1, <2>1, <3>1 DEF Rests, Deep, ApplyOK, applicationVars
    <3> QED BY <1>2, <2>1, <3>1, <3>2 DEF applicationVars
  <2> QED BY <1>4, <2>2, <2>3 DEF ValidateArtifactRefs
<1>5. CASE CreateApplication(c)
  <2>1. /\ Open(c) /\ step[c] \in {"application", "created", "attach"} /\ op[c] = "apply"
        /\ WriteApplication(c) /\ UNCHANGED <<target, seen, overlapped>>
    BY <1>1, <1>5, StepTells DEF CreateApplication, At
  <2>2. PICK s \in {"created", "attach", "get"} :
          /\ Proceed(c, s)
          /\ step[c] = "application" => s = "created"
          /\ step[c] = "created" => s = "attach"
          /\ step[c] = "attach" => s \in {"attach", "get"}
    BY <1>5 DEF CreateApplication, At
  <2>3. Goes(c, s, "open")
    BY <1>3, <2>1, <2>2 DEF Early, Front, StepsOf
  <2> QED BY <2>1, <2>2, <2>3, ApplicationWrites
<1>6. CASE ReadStatus(c)
  <2>1. /\ Open(c) /\ step[c] = "current" /\ op[c] = "move"
        /\ UNCHANGED <<applications, timeline, notes, target, links>>
    BY <1>1, <1>6, StepTells DEF ReadStatus, At
  <2>2. CASE Answer(c, "refused") /\ UNCHANGED <<seen, overlapped>>
    <3>1. Alone(c) /\ op' = op /\ step' = step /\ state'[c] = "refused"
      BY <1>1, <2>1, <2>2, AnswerActs
    <3>2. Rests(c)
      BY <2>1, <3>1 DEF Rests, Deep
    <3> QED BY <1>2, <2>1, <2>2, <3>1, <3>2
  <2>3. ASSUME NEW a \in OwnApplication(c), seen' = [seen EXCEPT ![c] = a.status], Proceed(c, "get"), UNCHANGED overlapped
        PROVE  TimelineInv'
    <3>1. Goes(c, "get", "open")
      BY <1>3, <2>1, <2>3 DEF Early, Front, StepsOf
    <3>2. Rests(c)
      BY <2>1, <3>1 DEF Rests, Deep, Goes, Open
    <3>3. \A d \in Calls \ {c} : seen'[d] = seen[d]
      BY <1>1, <2>3 DEF ApplicationTypes
    <3> QED BY <1>2, <2>1, <2>3, <3>1, <3>2, <3>3 DEF Goes
  <2>4. ASSUME NEW a \in OwnApplication(c), seen' = [seen EXCEPT ![c] = a.status], Proceed(c, "update"),
               overlapped' = IF Moving(a.id) = {} THEN overlapped ELSE overlapped \cup {a.id}
        PROVE  TimelineInv'
    BY <1>6, <2>4, StatusRead
  <2> QED BY <1>6, <2>2, <2>3, <2>4 DEF ReadStatus
<1>7. CASE UpdateStatus(c)
  <2>1. /\ Open(c) /\ step[c] = "update" /\ op[c] = "move" /\ Proceed(c, "event")
        /\ WriteApplication(c) /\ UNCHANGED <<seen, overlapped, target>>
    BY <1>1, <1>7, StepTells DEF UpdateStatus, At
  <2>2. Goes(c, "event", "open")
    BY <1>3, <2>1 DEF Early, Front, StepsOf
  <2> QED BY <2>1, <2>2, ApplicationWrites
<1>8. CASE RecordStatusChange(c)
  <2>1. /\ Open(c) /\ step[c] = "event" /\ op[c] = "move" /\ Proceed(c, "get")
        /\ WriteApplication(c) /\ UNCHANGED <<seen, overlapped, target>>
    BY <1>1, <1>8, StepTells DEF RecordStatusChange, At
  <2>2. Goes(c, "get", "open")
    BY <1>3, <2>1 DEF Early, Front, StepsOf
  <2> QED BY <2>1, <2>2, ApplicationWrites
<1>9. CASE FindNoted(c)
  <2>1. Open(c) /\ step[c] = "noted" /\ op[c] = "note" /\ UNCHANGED applicationVars
    BY <1>1, <1>9, StepTells DEF FindNoted, At
  <2>2. CASE OwnApplication(c) # {} /\ Proceed(c, "keep")
    <3>1. Goes(c, "keep", "open")
      BY <1>3, <2>1, <2>2 DEF Early, Front, StepsOf, applicationVars
    <3>2. HasRow(target[c], who[c])
      BY <2>2 DEF HasRow, OwnApplication
    <3>3. Rests(c)
      BY <2>1, <3>1, <3>2 DEF Rests, Deep, Same, Goes, applicationVars, Open
    <3> QED BY <1>2, <2>1, <3>1, <3>3 DEF Goes, applicationVars
  <2>3. CASE Answer(c, "refused")
    <3>1. Alone(c) /\ op' = op /\ step' = step /\ state'[c] = "refused"
      BY <1>1, <2>1, <2>3, AnswerActs
    <3>2. Rests(c)
      BY <2>1, <3>1 DEF Rests, Deep, applicationVars
    <3> QED BY <1>2, <2>1, <3>1, <3>2 DEF applicationVars
  <2> QED BY <1>9, <2>2, <2>3 DEF FindNoted
<1>10. CASE CreateNote(c)
  <2>1. /\ Open(c) /\ step[c] = "keep" /\ op[c] = "note" /\ Proceed(c, "tell")
        /\ WriteApplication(c) /\ UNCHANGED <<seen, overlapped, target>>
    BY <1>1, <1>10, StepTells DEF CreateNote, At
  <2>2. Goes(c, "tell", "open")
    BY <1>3, <2>1 DEF Early, Front, StepsOf
  <2> QED BY <2>1, <2>2, ApplicationWrites
<1>11. CASE RecordNote(c)
  <2>1. /\ Open(c) /\ step[c] = "tell" /\ op[c] = "note" /\ Answer(c, "ok")
        /\ WriteApplication(c) /\ UNCHANGED <<seen, overlapped, target>>
    BY <1>1, <1>11, StepTells DEF RecordNote, At
  <2>2. Goes(c, "tell", "ok")
    BY <1>1, <2>1, AnswerActs DEF Goes
  <2> QED BY <2>1, <2>2, ApplicationWrites
<1>12. CASE GetApplication(c)
  <2>1. Open(c) /\ step[c] = "get" /\ UNCHANGED applicationVars
    BY <1>12 DEF GetApplication, At
  <2>2. PICK outcome \in {"ok", "refused"} : Answer(c, outcome)
    BY <1>12 DEF GetApplication
  <2>3. /\ Alone(c) /\ op' = op /\ about' = about /\ who' = who /\ step' = step /\ late' = late
        /\ state'[c] \in {"ok", "refused"}
    BY <1>1, <2>1, <2>2, AnswerActs
  <2>4. Rests(c)
    BY <1>1, <2>1, <2>3 DEF Rests, Same, ApplyOK, applicationVars
  <2> QED BY <1>2, <2>1, <2>3, <2>4 DEF applicationVars
<1>13. CASE LateApplicationWrite(c)
  <2>1. Arrives(c) /\ WriteApplication(c) /\ UNCHANGED <<seen, overlapped, target>>
    BY <1>13 DEF LateApplicationWrite
  <2>2. \A s, st : Goes(c, s, st)
    BY <1>1, <2>1, ArrivesActs DEF Goes
  <2>3. CASE step[c] = "tell"
    BY <2>1, <2>2, <2>3, ApplicationWrites
  <2>4. CASE step[c] # "tell"
    <3> DEFINE s == CASE step[c] = "application" -> "created" [] step[c] = "update" -> "event"
                      [] step[c] = "event" -> "get" [] step[c] = "keep" -> "tell" [] OTHER -> "attach"
    <3>1. /\ step[c] = "application" => s = "created"
          /\ step[c] = "created" => s = "attach"
          /\ step[c] = "attach" => s \in {"attach", "get"}
          /\ step[c] = "update" => s = "event"
          /\ step[c] = "event" => s = "get"
          /\ step[c] = "keep" => s = "tell"
      OBVIOUS
    <3> HIDE DEF s
    <3>2. Goes(c, s, "open")
      BY <2>2
    <3> QED BY <2>1, <2>4, <3>1, <3>2, ApplicationWrites
  <2> QED BY <2>3, <2>4
<1> QED BY <1>4, <1>5, <1>6, <1>7, <1>8, <1>9, <1>10, <1>11, <1>12, <1>13 DEF ApplicationsStep

LEMMA TimelineInit == Init => TimelineInv
<1> SUFFICES ASSUME Init PROVE TimelineInv
  OBVIOUS
<1> USE DEF Init, RequestsInit, ApplicationsInit
<1>1. /\ \A c \in Calls : op[c] = "none" /\ step[c] = "none" /\ state[c] = "idle"
      /\ \A a \in applications : a.id = Seed /\ a.user = Seed
      /\ notes = {} /\ overlapped = {} /\ Seed \notin Calls
  BY RequestsAssumption
<1>2. RowsOK
  BY <1>1 DEF RowsOK
<1>3. /\ Len(timeline[Seed]) = 2 /\ \A i \in 1 .. 2 : timeline[Seed][i].by = Seed /\ timeline[Seed][i].type \in {"created", "version"}
      /\ \A a \in Calls : Len(timeline[a]) = 0
  <2>1. timeline[Seed] = <<[type |-> "created", by |-> Seed, from |-> "none", to |-> "none"],
                           [type |-> "version", by |-> Seed, from |-> "none", to |-> "none"]>>
    BY DEF Accounts
  <2>2. \A a \in Calls : timeline[a] = <<>>
    BY <1>1 DEF Accounts
  <2> QED BY <2>1, <2>2
<1>4. EventsOK
  BY <1>1, <1>3 DEF EventsOK, Accounts
<1>5. NotesOK /\ TurnsOK /\ \A c \in Calls : ApplyOK(c) /\ OwnerOK(c)
  BY <1>1 DEF NotesOK, TurnsOK, ApplyOK, OwnerOK
<1>6. ASSUME NEW a \in Accounts PROVE CountOK(a)
  <2>1. Tellings(a) = {}
    BY <1>3 DEF Tellings, Accounts
  <2>2. NotesOn(a) = {} /\ Owing(a) = {} /\ Told(a) = {}
    BY <1>1 DEF NotesOn, Owing, Told
  <2> QED BY <2>1, <2>2, FS_EmptySet DEF CountOK
<1>7. ASSUME NEW a \in applications PROVE MoveOK(a)
  <2>1. Moves(a.id) = {} /\ Moving(a.id) = {}
    BY <1>1, <1>3 DEF Moves, Moving
  <2> QED BY <2>1 DEF MoveOK, LeadsTo
<1> QED BY <1>2, <1>4, <1>5, <1>6, <1>7 DEF TimelineInv

LEMMA TimelineStep ==
  ASSUME IInv, IInv', TimelineInv, [Next]_vars
  PROVE  TimelineInv'
<1>0. /\ op \in [Calls -> Operations] /\ step = [c \in Calls |-> step[c]] /\ state \in [Calls -> States]
      /\ \A c \in Calls : step[c] \in StepsOf(op[c])
  BY DEF IInv, RequestsInv, RequestTypes, CallOK
<1>1. RequestsInv /\ RequestsInv' /\ ApplicationTypes /\ ApplicationTypes' /\ AccountsInv
  BY DEF IInv, ApplicationsInv
<1>2. ASSUME NEW c \in Calls, Alone(c), Rests(c), \A d \in Calls \ {c} : target'[d] = target[d],
             UNCHANGED <<applications, timeline, notes, seen, overlapped>>
      PROVE  TimelineInv'
  <2>1. \A d \in Calls : Rests(d)
    BY <1>2, OthersRest
  <2> QED BY <1>1, <1>2, <2>1, TimelineFrame
<1>3. ASSUME NEW c \in Calls, Alone(c), op' = op, op[c] \notin {"apply", "move", "note"}, UNCHANGED applicationVars
      PROVE  TimelineInv'
  <2>1. Rests(c)
    BY <1>1, <1>3, ForeignRests
  <2> QED BY <1>2, <1>3, <2>1 DEF applicationVars
<1>4. ASSUME NEW c \in Calls, RequestProtected(c) PROVE TimelineInv'
  <2>1. Alone(c) /\ Entering(c) /\ op[c] = "none"
    BY <1>1, <1>4, ProtectedEnters
  <2>2. PICK s \in sessions :
          \/ \E f : Arrive(c, "upload", f, s.id, "authenticate") /\ UNCHANGED applicationVars
          \/ \E t : Arrive(c, "intake", t, s.id, "authenticate") /\ UNCHANGED applicationVars
          \/ RequestApply(c, s.id) \/ RequestMove(c, s.id) \/ RequestNote(c, s.id)
    BY <1>4 DEF RequestProtected, RequestUpload, RequestIntake
  <2>3. \A o, a, k, s2 : Arrive(c, o, a, k, s2) => op'[c] = o
    BY <1>1 DEF Arrive, RequestsInv, RequestTypes
  <2>4. UNCHANGED <<applications, timeline, notes, seen, overlapped>>
    BY <2>2 DEF RequestApply, RequestMove, RequestNote, applicationVars
  <2>5. (op'[c] = "apply" => target'[c] = c) /\ \A d \in Calls \ {c} : target'[d] = target[d]
    <3>1. target \in [Calls -> Accounts \cup {Nobody}]
      BY <1>1 DEF ApplicationTypes
    <3>2. CASE UNCHANGED applicationVars /\ op'[c] \in {"upload", "intake"}
      BY <3>2 DEF applicationVars
    <3>3. CASE RequestApply(c, s.id)
      BY <3>1, <3>3 DEF RequestApply
    <3>4. CASE RequestMove(c, s.id)
      <4>1. op'[c] = "move"
        BY <2>3, <3>4 DEF RequestMove
      <4> QED BY <3>1, <3>4, <4>1 DEF RequestMove
    <3>5. CASE RequestNote(c, s.id)
      <4>1. op'[c] = "note"
        BY <2>3, <3>5 DEF RequestNote
      <4> QED BY <3>1, <3>5, <4>1 DEF RequestNote
    <3> QED BY <2>2, <2>3, <3>2, <3>3, <3>4, <3>5
  <2>6. Rests(c)
    BY <2>1, <2>5, EnteringRests
  <2> QED BY <1>2, <2>1, <2>4, <2>5, <2>6
<1>5. ASSUME NEW c \in Calls, AccountsStep(c), UNCHANGED applicationVars PROVE TimelineInv'
  <2>1. CASE Enters(c)
    <3>1. Alone(c) /\ Entering(c)
      BY <1>1, <2>1, AccountsEnter
    <3>2. op[c] = "none" => op'[c] \notin {"apply", "move", "note"}
      <4>1. CASE RequestSignup(c) \/ RequestLogin(c) \/ RequestLogout(c)
        BY <1>0, <4>1 DEF RequestSignup, RequestLogin, RequestLogout, Arrive
      <4>2. CASE FindSession(c) \/ FindOwner(c)
        <5>1. step[c] \in {"authenticate", "owner"}
          BY <4>2 DEF FindSession, FindOwner, At
        <5>2. op[c] # "none"
          BY <1>0, <5>1 DEF StepsOf
        <5> QED BY <5>2
      <4> QED BY <2>1, <4>1, <4>2 DEF Enters
    <3>3. op'[c] = "apply" => target'[c] = c
      BY <1>5, <3>1, <3>2 DEF Entering, TimelineInv, ApplyOK, applicationVars
    <3>4. Rests(c)
      BY <3>1, <3>3, EnteringRests
    <3> QED BY <1>2, <1>5, <3>1, <3>4 DEF applicationVars
  <2>2. CASE ~Enters(c)
    <3>1. Alone(c) /\ op' = op /\ op[c] \in {"signup", "login", "logout"}
      BY <1>1, <1>5, <2>2, AccountsKeep
    <3> QED BY <1>3, <1>5, <3>1
  <2> QED BY <2>1, <2>2
<1>6. ASSUME NEW c \in Calls, UploadStep(c) \/ IntakeStep(c), UNCHANGED applicationVars PROVE TimelineInv'
  <2>1. Alone(c) /\ op' = op /\ op[c] \in {"upload", "intake"}
    BY <1>6, UploadKeeps, IntakeKeeps DEF IInv
  <2> QED BY <1>3, <1>6, <2>1
<1>7. ASSUME NEW c \in Calls, ApplicationsStep(c) PROVE TimelineInv'
  BY <1>1, <1>7, ApplicationsTimeline
<1>8. ASSUME Failed, UNCHANGED applicationVars PROVE TimelineInv'
  <2>1. \A c \in Calls : Rests(c)
    BY <1>8, FailureRests DEF applicationVars
  <2> QED BY <1>1, <1>8, <2>1, TimelineFrame DEF applicationVars
<1>9. ASSUME NEW s \in sessions, SessionExpires(s), UNCHANGED applicationVars PROVE TimelineInv'
  BY <1>1, <1>8, <1>9, AccountsExpiry
<1>10. CASE Failure
  BY <1>1, <1>8, <1>10, FailureActs DEF Failure
<1>11. CASE UNCHANGED vars
  <2>1. Failed /\ UNCHANGED applicationVars
    BY <1>11 DEF vars, requestVars, Failed
  <2> QED BY <1>8, <2>1
<1> QED BY <1>4, <1>5, <1>6, <1>7, <1>9, <1>10, <1>11 DEF Next

LEMMA TimelinesOK == Spec => [](IInv /\ TimelineInv)
<1>1. Init => IInv /\ TimelineInv
  BY InitOK, TimelineInit
<1>2. (IInv /\ TimelineInv) /\ [Next]_vars => (IInv /\ TimelineInv)'
  BY StepOK, TimelineStep
<1> QED BY <1>1, <1>2, PTL DEF Spec

\* ApplicationService, NotesService: an application or note without its events is that
\* of a request under way or broken off, and nobody but its owner is on a timeline.
THEOREM TimelinesAreExplained == Spec => []TimelinesAreWhole
<1>1. IInv /\ TimelineInv => TimelinesAreWhole
  <2> SUFFICES ASSUME IInv, TimelineInv PROVE TimelinesAreWhole
    OBVIOUS
  <2>1. ApplicationTypes /\ NotesOK
    BY DEF IInv, ApplicationsInv, TimelineInv
  <2>2. ASSUME NEW a \in applications
        PROVE  /\ Len(timeline[a.id]) >= 2 \/ Unfinished(a.id)
               /\ \A i \in 1 .. Len(timeline[a.id]) : timeline[a.id][i].by = a.user
    <3>1. a.id \in Calls \cup {Seed} /\ EventsOK
      BY <2>1 DEF ApplicationTypes, Accounts, TimelineInv
    <3>2. CASE a.id \in Calls
      <4>1. op[a.id] = "apply" /\ step[a.id] \in {"application", "created", "attach", "get"} /\ ApplyOK(a.id)
        BY <3>2 DEF TimelineInv, RowsOK
      <4> QED BY <3>1, <4>1 DEF ApplyOK, EventsOK
    <3>3. CASE a.id = Seed
      BY <3>1, <3>3 DEF EventsOK
    <3> QED BY <3>1, <3>2, <3>3
  <2>3. ASSUME NEW n \in notes, NEW a \in applications, a.id = n.application PROVE a.user = n.user
    BY <2>1, <2>3 DEF NotesOK, HasRow, TimelineInv, RowsOK
  <2>4. ASSUME NEW a \in applications
        PROVE  /\ Cardinality(Tellings(a.id)) <= Cardinality(NotesOn(a.id))
               /\ Cardinality(Tellings(a.id)) >= Cardinality({n \in NotesOn(a.id) : state[n.id] = "ok"})
    <3>1. a.id \in Accounts /\ CountOK(a.id)
      BY <2>1 DEF ApplicationTypes, TimelineInv
    <3>2. Cardinality(NotesOn(a.id)) \in Nat /\ Cardinality(Owing(a.id)) \in Nat /\ Cardinality(Told(a.id)) \in Nat
      BY <2>1, FiniteNotes
    <3>3. Cardinality(Tellings(a.id)) \in Nat
      BY <2>1, <3>1, FiniteTellings DEF ApplicationTypes
    <3>4. Told(a.id) = {n \in NotesOn(a.id) : state[n.id] = "ok"}
      BY DEF Told
    <3> QED BY <3>1, <3>2, <3>3, <3>4 DEF CountOK
  <2> QED BY <2>2, <2>3, <2>4 DEF TimelinesAreWhole
<1> QED BY <1>1, TimelinesOK, PTL

\* Over both drivers and both stores, whatever overlaps or fails: what is half made is
\* of a request that is under way or was broken off, in every component.
THEOREM HalfMadeIsAccountedFor == Spec => []HalfMadeIsExplained
<1>1. AccountsAreWhole /\ UploadsAreWhole /\ DescriptionsAreWhole /\ TimelinesAreWhole => HalfMadeIsExplained
  BY DEF HalfMadeIsExplained
<1> QED BY <1>1, AccountsAreExplained, UploadsAreExplained, DescriptionsAreExplained, TimelinesAreExplained, PTL

\* ApplicationService.updateStatus, TimelineService: status and timeline are written
\* apart, and still the timeline leads to the status where no two moves have overlapped
\* and none is under way or broken off.
THEOREM UndisturbedMovesAreTold == Spec => []UndisturbedHistoryTellsStatus
<1>1. TimelineInv => UndisturbedHistoryTellsStatus
  BY DEF TimelineInv, MoveOK, UndisturbedHistoryTellsStatus, HistoryTellsStatus
<1> QED BY <1>1, TimelinesOK, PTL

\* ApplicationService.updateStatus over the memory driver: between turns every timeline
\* leads to the status of its application, however many users move it.
THEOREM MemoryMovesAreTold ==
  ASSUME Driver = "memory"
  PROVE  Spec => []EveryHistoryTellsStatus
<1>1. TimelineInv => EveryHistoryTellsStatus
  <2> SUFFICES ASSUME TimelineInv, \A c \in Calls : Open(c) => step[c] \in RealWaits, NEW a \in applications
               PROVE  HistoryTellsStatus(a)
    BY DEF EveryHistoryTellsStatus
  <2>1. overlapped = {} /\ \A c \in Calls : op[c] = "move" => state[c] # "failed"
    BY DEF TimelineInv, TurnsOK
  <2>2. Moving(a.id) = {}
    BY <2>1 DEF Moving, Unfinished, Open, RealWaits
  <2> QED BY <2>1, <2>2 DEF TimelineInv, MoveOK, HistoryTellsStatus
<1> QED BY <1>1, TimelinesOK, PTL
=============================================================================
