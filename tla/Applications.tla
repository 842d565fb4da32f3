---------------------------- MODULE Applications ----------------------------
(* The application workspace (ApplicationService, TimelineService, NotesService):  *)
(* applications, their status, and the timeline of events written beside it, each  *)
(* a statement of its own.  The version an application refers to is the seed       *)
(* account's; company, position, bodies and titles are left out.                   *)
EXTENDS Requests

CONSTANTS
  Statuses,  \* some of applicationStatuses, "draft" among them
  Artifacts  \* those of readiness report, patch set and rendered resume that an application may link

ASSUME ApplicationsAssumption ==
  /\ "draft" \in Statuses
  /\ {"created", "status", "note"} \cap Artifacts = {}  \* an attached artifact has an event type of its own

VARIABLES
  applications, \* rows [id, user, status]
  timeline,     \* per application: its events, in the order in which they were inserted
  notes,        \* rows [id, user, application]
  target,       \* per call: the application it names
  links,        \* per call: the artifacts whose event is still to be written
  seen,         \* per call: the status it read
  overlapped    \* history: the applications that two moves have worked on at once

applicationVars == <<applications, timeline, notes, target, links, seen, overlapped>>

\* findApplicationForUser.
OwnApplication(c) == {a \in applications : a.id = target[c] /\ a.user = who[c]}

\* The moves of application a that have read its status and not yet written its event.
Moving(a) == {c \in Calls : op[c] = "move" /\ target[c] = a /\ Unfinished(c) /\ step[c] \in {"update", "event"}}

-----------------------------------------------------------------------------
(* Statements.                                                                  *)

Event(c, type, from, to) == [type |-> type, by |-> who[c], from |-> from, to |-> to]

Happened(a, e) == [timeline EXCEPT ![a] = Append(@, e)]

\* Mutant of MoveEvent: the event forgets where the application came from.
MoveEventFromDraft(c) == Event(c, "status", "draft", about[c])

MoveEvent(c) == Event(c, "status", seen[c], about[c])

\* initialArtifactEvents: the version is always attached, the rest in order.
AttachedEvent(c, artifact) == Event(c, artifact, "none", "none")

\* The write of the step at which c is, or has stopped.
WriteApplication(c) ==
  \/ /\ step[c] = "application"
     /\ applications' = applications \cup {[id |-> c, user |-> who[c], status |-> about[c]]}
     /\ UNCHANGED <<timeline, notes>>
  \/ /\ step[c] = "created"
     /\ timeline' = Happened(target[c], Event(c, "created", "none", "none"))
     /\ UNCHANGED <<applications, notes>>
  \/ /\ step[c] = "attach"
     /\ timeline' = Happened(target[c], AttachedEvent(c, Head(links[c])))
     /\ UNCHANGED <<applications, notes>>
  \/ /\ step[c] = "update"
     /\ applications' = {IF a \in OwnApplication(c) THEN [a EXCEPT !.status = about[c]] ELSE a : a \in applications}
     /\ UNCHANGED <<timeline, notes>>
  \/ /\ step[c] = "event"
     /\ timeline' = Happened(target[c], MoveEvent(c))
     /\ UNCHANGED <<applications, notes>>
  \/ /\ step[c] = "keep"
     /\ notes' = notes \cup {[id |-> c, user |-> who[c], application |-> target[c]]}
     /\ UNCHANGED <<applications, timeline>>
  \/ /\ step[c] = "tell"
     /\ timeline' = Happened(target[c], Event(c, "note", "none", "none"))
     /\ UNCHANGED <<applications, notes>>

WritesApplications(c) == step[c] \in {"application", "created", "attach", "update", "event", "keep", "tell"}

-----------------------------------------------------------------------------
(* Actions.                                                                     *)

RequestApply(c, k) ==
  /\ \E L \in {<<"version">>} \cup {<<"version", a>> : a \in Artifacts} :
       /\ Arrive(c, "apply", "draft", k, "authenticate")
       /\ links' = [links EXCEPT ![c] = L]
  /\ target' = [target EXCEPT ![c] = c]
  /\ UNCHANGED <<applications, timeline, notes, seen, overlapped>>

RequestMove(c, k) ==
  /\ \E s \in Statuses, a \in applications :
       /\ Arrive(c, "move", s, k, "authenticate")
       /\ target' = [target EXCEPT ![c] = a.id]
  /\ UNCHANGED <<applications, timeline, notes, links, seen, overlapped>>

RequestNote(c, k) ==
  /\ \E a \in applications :
       /\ Arrive(c, "note", "none", k, "authenticate")
       /\ target' = [target EXCEPT ![c] = a.id]
  /\ UNCHANGED <<applications, timeline, notes, links, seen, overlapped>>

\* validateArtifactRefs: what is linked must be there and of the same account.
ValidateArtifactRefs(c) ==
  /\ At(c, "references")
  /\ IF who[c] = Seed THEN Proceed(c, "application") ELSE Answer(c, "refused")
  /\ UNCHANGED applicationVars

\* createApplication: the row, the first event, an event for each artifact; then the
\* workspace is read back.
CreateApplication(c) ==
  /\ \/ At(c, "application") /\ Proceed(c, "created") /\ UNCHANGED links
     \/ At(c, "created") /\ Proceed(c, "attach") /\ UNCHANGED links
     \/ /\ At(c, "attach")
        /\ links' = [links EXCEPT ![c] = Tail(@)]
        /\ Proceed(c, IF Len(links[c]) = 1 THEN "get" ELSE "attach")
  /\ WriteApplication(c)
  /\ UNCHANGED <<target, seen, overlapped>>

\* updateStatus reads the application; a move to where it is changes nothing.
ReadStatus(c) ==
  /\ At(c, "current")
  /\ \/ OwnApplication(c) = {} /\ Answer(c, "refused") /\ UNCHANGED <<seen, overlapped>>
     \/ \E a \in OwnApplication(c) :
          /\ seen' = [seen EXCEPT ![c] = a.status]
          /\ IF a.status = about[c]
             THEN Proceed(c, "get") /\ UNCHANGED overlapped
             ELSE /\ Proceed(c, "update")
                  /\ overlapped' = IF Moving(a.id) = {} THEN overlapped ELSE overlapped \cup {a.id}
  /\ UNCHANGED <<applications, timeline, notes, target, links>>

UpdateStatus(c) ==
  /\ At(c, "update")
  /\ WriteApplication(c)
  /\ Proceed(c, "event")
  /\ UNCHANGED <<target, links, seen, overlapped>>

RecordStatusChange(c) ==
  /\ At(c, "event")
  /\ WriteApplication(c)
  /\ Proceed(c, "get")
  /\ UNCHANGED <<target, links, seen, overlapped>>

FindNoted(c) ==
  /\ At(c, "noted")
  /\ IF OwnApplication(c) = {} THEN Answer(c, "refused") ELSE Proceed(c, "keep")
  /\ UNCHANGED applicationVars

\* Mutant of CreateNote: the request is answered without its event.
CreateNoteOnly(c) ==
  /\ At(c, "keep")
  /\ WriteApplication(c)
  /\ Answer(c, "ok")
  /\ UNCHANGED <<target, links, seen, overlapped>>

CreateNote(c) ==
  /\ At(c, "keep")
  /\ WriteApplication(c)
  /\ Proceed(c, "tell")
  /\ UNCHANGED <<target, links, seen, overlapped>>

RecordNote(c) ==
  /\ At(c, "tell")
  /\ WriteApplication(c)
  /\ Answer(c, "ok")
  /\ UNCHANGED <<target, links, seen, overlapped>>

\* get: the application, its events and its notes are read for the answer.
GetApplication(c) ==
  /\ At(c, "get")
  /\ Answer(c, IF OwnApplication(c) = {} THEN "refused" ELSE "ok")
  /\ UNCHANGED applicationVars

\* A given-up write of a call arrives.
LateApplicationWrite(c) ==
  /\ Arrives(c) /\ WritesApplications(c)
  /\ WriteApplication(c)
  /\ UNCHANGED <<target, links, seen, overlapped>>

ApplicationsStep(c) ==
  \/ ValidateArtifactRefs(c) \/ CreateApplication(c)
  \/ ReadStatus(c) \/ UpdateStatus(c) \/ RecordStatusChange(c)
  \/ FindNoted(c) \/ CreateNote(c) \/ RecordNote(c)
  \/ GetApplication(c) \/ LateApplicationWrite(c)

ApplicationsInit ==
  /\ applications = {[id |-> Seed, user |-> Seed, status |-> "draft"]}
  /\ timeline = [a \in Accounts |->
                   IF a = Seed THEN <<[type |-> "created", by |-> Seed, from |-> "none", to |-> "none"],
                                      [type |-> "version", by |-> Seed, from |-> "none", to |-> "none"]>>
                   ELSE <<>>]
  /\ notes = {}
  /\ target = [c \in Calls |-> Nobody]
  /\ links = [c \in Calls |-> <<>>]
  /\ seen = [c \in Calls |-> "none"]
  /\ overlapped = {}

-----------------------------------------------------------------------------
(* Properties.                                                                  *)

\* The places of the moves on the timeline of application a.
Moves(a) == {i \in 1 .. Len(timeline[a]) : timeline[a][i].type = "status"}

\* They form a chain that ends in status s.
LeadsTo(a, s) ==
  /\ \A i, j \in Moves(a) :
       i < j /\ (\A k \in Moves(a) : k <= i \/ j <= k) => timeline[a][i].to = timeline[a][j].from
  /\ \A i \in Moves(a) : (\A k \in Moves(a) : k <= i) => timeline[a][i].to = s

ApplicationsType ==
  /\ applications \subseteq [id : Accounts, user : Accounts, status : Statuses]
  /\ \A a \in Accounts : \A i \in 1 .. Len(timeline[a]) : timeline[a][i].by \in Accounts
  /\ notes \subseteq [id : Calls, user : Accounts, application : Accounts]
  /\ target \in [Calls -> Accounts \cup {Nobody}]
  /\ \A c \in Calls : Len(links[c]) <= 2
  /\ seen \in [Calls -> Statuses \cup {"none"}]
  /\ overlapped \subseteq Accounts

HistoryTellsStatus(a) == LeadsTo(a.id, a.status)

\* Status and timeline are written apart (application.service.js:61-73), yet the
\* timeline tells how an application came to its status as long as no two moves
\* have overlapped and none is under way or broken off.
UndisturbedHistoryTellsStatus ==
  \A a \in applications : a.id \in overlapped \/ Moving(a.id) # {} \/ HistoryTellsStatus(a)

\* Over the memory driver a move is one turn: between turns every timeline ends in
\* the status of its application, however many users move it.
EveryHistoryTellsStatus ==
  (\A c \in Calls : Open(c) => step[c] \in RealWaits) => \A a \in applications : HistoryTellsStatus(a)

\* The notes on application a, and the places on its timeline that tell of one.
NotesOn(a) == {n \in notes : n.application = a}
Tellings(a) == {i \in 1 .. Len(timeline[a]) : timeline[a][i].type = "note"}

\* An application or note whose event is missing is of a request under way or
\* broken off, and everything on a timeline was done by the application's owner.
TimelinesAreWhole ==
  /\ \A a \in applications :
       /\ Len(timeline[a.id]) >= 2 \/ Unfinished(a.id)
       /\ \A i \in 1 .. Len(timeline[a.id]) : timeline[a.id][i].by = a.user
  /\ \A n \in notes : \A a \in applications : a.id = n.application => a.user = n.user
  /\ \A a \in applications :
       LET told == Cardinality(Tellings(a.id))
       IN  told <= Cardinality(NotesOn(a.id)) /\ told >= Cardinality({n \in NotesOn(a.id) : state[n.id] = "ok"})
=============================================================================
