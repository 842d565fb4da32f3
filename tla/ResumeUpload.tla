---------------------------- MODULE ResumeUpload ----------------------------
(* The upload of a resume (ResumeUploadService): the bytes go to the object       *)
(* storage, then a row each to uploaded_files, resumes and async_jobs, with no     *)
(* transaction around them.  What the worker does with the job is ResumePipeline.  *)
EXTENDS Requests

CONSTANTS
  Files, \* the PDF files, by checksum
  Store  \* "filesystem" or "minio"

ASSUME StoreAssumption == Store \in {"filesystem", "minio"}

VARIABLES
  objects, \* per account and file: what is at users/<account>/uploads/<checksum>.pdf
  files,   \* rows [id, user, file]
  resumes, \* rows [id, user, source], of status parsing
  jobs     \* rows [id, user, resume], queued

uploadVars == <<objects, files, resumes, jobs>>

Uploads == {c \in Calls : op[c] = "upload"}

\* Mutants of UploadSteps: the row is made before the object; the job is submitted
\* before there is a resume.
UploadRowFirst == <<"duplicate", "file", "object", "opened", "resume", "job">>
UploadJobEarly == <<"duplicate", "object", "opened", "file", "job", "resume">>

UploadSteps == <<"duplicate", "object", "opened", "file", "resume", "job">>

\* The uploads of the same file for the same account whose object is being written.
Writers(c) ==
  {d \in Uploads : step[d] = "opened" /\ Unfinished(d) /\ who[d] = who[c] /\ about[d] = about[c]}

-----------------------------------------------------------------------------
(* Statements.                                                                  *)

FileRow(c) == [id |-> c, user |-> who[c], file |-> about[c]]
ResumeRow(c) == [id |-> c, user |-> who[c], source |-> c]
JobRow(c) == [id |-> c, user |-> who[c], resume |-> c]

\* findByChecksumForUser.
Uploaded(c) == \E f \in files : f.user = who[c] /\ f.file = about[c]

\* The unique index of uploaded_files, which the memory driver has not.
FileIsFree(c) == Driver = "postgres" /\ step[c] = "file" => ~Uploaded(c)

\* fs.writeFile truncates the object and writes it; two that overlap write the same
\* bytes, but the first to end may leave what the other has truncated.  A PUT to
\* MinIO replaces the object at once.
WriteObject(c) ==
  \E is \in IF step[c] = "object" /\ Store = "filesystem" THEN {"partial"}
            ELSE IF Writers(c) \ {c} = {} \/ Store = "minio" THEN {"whole"} ELSE {"partial", "whole"} :
    objects' = [objects EXCEPT ![<<who[c], about[c]>>] = is]

\* The write of the step at which c is, or has stopped.
WriteUpload(c) ==
  \/ step[c] \in {"object", "opened"} /\ WriteObject(c) /\ UNCHANGED <<files, resumes, jobs>>
  \/ step[c] = "file" /\ files' = files \cup {FileRow(c)} /\ UNCHANGED <<objects, resumes, jobs>>
  \/ step[c] = "resume" /\ resumes' = resumes \cup {ResumeRow(c)} /\ UNCHANGED <<objects, files, jobs>>
  \/ step[c] = "job" /\ jobs' = jobs \cup {JobRow(c)} /\ UNCHANGED <<objects, files, resumes>>

\* A write to a file does not outlive its process.
WritesUploads(c) ==
  step[c] \in {"file", "resume", "job"} \cup (IF Store = "minio" THEN {"object"} ELSE {})

-----------------------------------------------------------------------------
(* Actions.                                                                     *)

\* A valid PDF arrives; validateResumeUpload refuses the others before any statement.
RequestUpload(c, k) ==
  /\ \E f \in Files : Arrive(c, "upload", f, k, "authenticate")
  /\ UNCHANGED uploadVars

FindByChecksum(c) ==
  /\ At(c, "duplicate")
  /\ IF Uploaded(c) THEN Answer(c, "refused") ELSE Proceed(c, After(c, UploadSteps))
  /\ UNCHANGED uploadVars

\* With MinIO there is one step, with the file system opening and writing.
PutObject(c) ==
  /\ At(c, "object") \/ At(c, "opened")
  /\ IF step[c] = "opened" /\ Store = "minio" THEN UNCHANGED uploadVars ELSE WriteUpload(c)
  /\ Advance(c, UploadSteps)

CreateUploadedFile(c) ==
  /\ At(c, "file")
  /\ IF FileIsFree(c)
     THEN WriteUpload(c) /\ Proceed(c, After(c, UploadSteps))
     ELSE Answer(c, "failed") /\ UNCHANGED uploadVars

CreateResume(c) ==
  /\ At(c, "resume")
  /\ WriteUpload(c)
  /\ Advance(c, UploadSteps)

SubmitJob(c) ==
  /\ At(c, "job")
  /\ WriteUpload(c)
  /\ Advance(c, UploadSteps)

\* A given-up write of a call arrives.
LateUploadWrite(c) ==
  /\ Arrives(c) /\ WritesUploads(c)
  /\ IF FileIsFree(c) THEN WriteUpload(c) ELSE UNCHANGED uploadVars

UploadStep(c) ==
  \/ FindByChecksum(c) \/ PutObject(c) \/ CreateUploadedFile(c)
  \/ CreateResume(c) \/ SubmitJob(c) \/ LateUploadWrite(c)

UploadInit ==
  /\ objects = [k \in Accounts \X Files |-> "absent"]
  /\ files = {} /\ resumes = {} /\ jobs = {}

-----------------------------------------------------------------------------
(* Properties.                                                                  *)

UploadType ==
  /\ objects \in [Accounts \X Files -> {"absent", "partial", "whole"}]
  /\ files \subseteq [id : Calls, user : Accounts, file : Files]
  /\ resumes \subseteq [id : Calls, user : Accounts, source : Calls]
  /\ jobs \subseteq [id : Calls, user : Accounts, resume : Calls]

\* The object of an uploaded file is there and whole, whatever fails, unless another
\* upload of the same file, admitted before the row was there, is writing the
\* object again or was broken off while it did.
StoredFileIsWhole ==
  \A f \in files : objects[<<f.user, f.file>>] = "whole" \/ Writers(f.id) \ {f.id} # {}

\* A job is for a resume that comes from a file, all of one account, and no file of
\* an account has two rows: the worker never meets a job it cannot resolve.
UploadsBelongTogether ==
  /\ \A j \in jobs : \E r \in resumes : r.id = j.resume /\ r.user = j.user
  /\ \A r \in resumes : \E f \in files : f.id = r.source /\ f.user = r.user
  /\ \A f, g \in files : f.user = g.user /\ f.file = g.file => f = g

\* A file without a resume or a resume without a job, which findByChecksumForUser
\* keeps from being uploaded again, is that of an upload under way or broken off.
UploadsAreWhole ==
  \A f \in files : (\E r \in resumes, j \in jobs : r.source = f.id /\ j.resume = r.id) \/ Unfinished(f.id)
=============================================================================
