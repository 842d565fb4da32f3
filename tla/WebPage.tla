------------------------------- MODULE WebPage -------------------------------
(* The page of the web application (apps/web/public/app.js): one document, one     *)
(* variable for the user and one for the timer of the poll.  Every handler waits for *)
(* the API and then goes on with the page it finds, which may be another by then.   *)
(*                                                                              *)
(* A handler that keeps its container writes into a detached element when the page   *)
(* has gone ("gone"), but binds its listeners to whatever elements of those names the *)
(* document has; one that looks its container up may find another ("here") or none   *)
(* ("null").  What the server does with a job is the matter of ResumePipeline.  Links    *)
(* that are not bound, and addresses that are typed, load the document anew: Init.      *)
EXTENDS Naturals, Sequences, FiniteSets

CONSTANTS
  Things,   \* the resumes; a report or an application has the name of its resume
  Places,   \* the pages the user opens
  MaxCalls, \* bound: how many handlers wait at a time
  MaxActs   \* bound: how often the user does something

Public == {"login", "signup"}
KeepsContainer == {"upload", "preview", "review", "editor", "optimization", "application"}
LooksUpAgain == {"resumes", "jobs", "job", "match", "readiness", "versions", "version", "applications"}

Place(view, of) == [view |-> view, of |-> of]
Nothing == "nothing"

\* The pages whose address names what they show.
AboutThings == {"preview", "review", "editor", "job", "match", "readiness", "optimization", "versions", "version", "application"}

ASSUME PlacesAssumption ==
  /\ Places \subseteq [view : Public \cup KeepsContainer \cup LooksUpAgain \cup {"dashboard"}, of : Things \cup {Nothing}]
  /\ \A p \in Places : p.view \in AboutThings => p.of \in Things
  /\ Nothing \notin Things
  /\ MaxCalls \in Nat \ {0} /\ MaxActs \in Nat

VARIABLES
  user,    \* state.user is set
  history, \* the pages of this document, and at which of them it is
  content, \* what its container holds, and of which thing
  buttons, \* the listeners on the elements of the document: what they do, for which thing, in which container
  slots,   \* the handlers that wait, for an answer or for the timer
  handle,  \* state.parsePollTimer: the slot whose timer it names, or 0
  runs,    \* the resumes whose parser the server is asked to run
  job,     \* per resume: the status of its parse job
  acts     \* how often the user has done something

vars == <<user, history, content, buttons, slots, handle, runs, job, acts>>

page == history.pages[history.at]

Slots == 1 .. MaxCalls
Call(kind, place, at) == [kind |-> kind, view |-> place.view, of |-> place.of, at |-> at, stage |-> "sent"]
Idle == [kind |-> "none", view |-> "none", of |-> Nothing, at |-> "none", stage |-> "none"]
Free == {k \in Slots : slots[k] = Idle}

Listener(act, of, at) == [act |-> act, of |-> of, at |-> at]
Present == {b.act : b \in buttons}

\* Mutant of Offers: the lists offer to go on from a report too.
OffersOnLists(view, reply) ==
  CASE view = "upload" -> {"run"}
    [] view = "review" -> {"reject", "rerun"} \cup (IF reply = "succeeded" THEN {"approve"} ELSE {})
    [] view = "preview" -> IF reply = "queued" THEN {"run"} ELSE IF reply = "failed" THEN {"retry", "again"} ELSE {}
    [] view \in {"editor", "application"} -> {"change"}
    [] view = "optimization" -> {"change", "create"}
    [] OTHER -> {"create"}

\* What a page offers when its data is there; a draft that was parsed is taken for valid.
Offers(view, reply) ==
  CASE view = "upload" -> {"run"}
    [] view = "review" -> {"reject", "rerun"} \cup (IF reply = "succeeded" THEN {"approve"} ELSE {})
    [] view = "preview" -> IF reply = "queued" THEN {"run"} ELSE IF reply = "failed" THEN {"retry", "again"} ELSE {}
    [] view \in {"editor", "application"} -> {"change"}
    [] view = "optimization" -> {"change", "create"}
    [] view \in {"match", "readiness", "version"} -> {"create"}
    [] OTHER -> {}

\* The elements the handler of a page looks for in the document.  Only the button that
\* tries a parser again has one name on several pages.
Binds(view) ==
  LET own == CASE view = "upload" -> {"run"}
               [] view = "review" -> {"approve", "reject", "rerun"}
               [] view = "preview" -> {"run", "retry"}
               [] OTHER -> {"change", "create"}
  IN  (IF page.view = view THEN own ELSE {}) \cup (IF view = "preview" THEN {"again"} ELSE {})

\* Where a "create" leads: from match to readiness, patches, version and application.
Created(view) ==
  CASE view = "match" -> "readiness" [] view = "readiness" -> "optimization"
    [] view = "optimization" -> "version" [] OTHER -> "application"

\* Where the links of the page lead.
Links ==
  IF page.view \in Public THEN {Place("login", Nothing), Place("signup", Nothing)}
  ELSE {Place("resumes", Nothing), Place("dashboard", Nothing)}
         \cup (IF page.view \in {"dashboard", "resumes"} THEN {Place("upload", Nothing)} ELSE {})
         \cup (IF page.view = "upload" /\ content.what = "data" THEN {Place("preview", content.of)} ELSE {})
         \cup (IF content.what = "approved" THEN {Place("editor", content.of)} ELSE {})

-----------------------------------------------------------------------------
(* Rendering.                                                                   *)

\* clearParsePolling: only the timer that was armed last can be cleared.
Cleared(S) == IF handle # 0 /\ S[handle].stage = "timer" THEN [S EXCEPT ![handle] = Idle] ELSE S

\* The elements of the former page are no longer in the document.
Detached(S) == [k \in Slots |-> IF S[k].at = "here" THEN [S[k] EXCEPT !.at = "gone"] ELSE S[k]]

Pushed(p) == [pages |-> Append(SubSeq(history.pages, 1, history.at), p), at |-> history.at + 1]
Replaced(p) == [history EXCEPT !.pages[history.at] = p]

\* render, with the history as it is by then: the page is built and its data asked for,
\* in slot k; a private page without a user leads to the login page through navigate.
Render(h, u, S, timer, k) ==
  LET p == h.pages[h.at]
      shown == IF u \/ p.view \in Public THEN p ELSE Place("login", Nothing)
      kept == Detached(IF shown = p THEN S ELSE Cleared(S))
      loads == shown.view \in (KeepsContainer \cup LooksUpAgain) \ {"upload"}
  IN  /\ user' = u
      /\ history' = [h EXCEPT !.pages[h.at] = shown]
      /\ content' = [what |-> IF loads THEN "loading" ELSE "form", of |-> shown.of]
      /\ buttons' = {}
      /\ slots' = IF loads THEN [kept EXCEPT ![k] = Call("load", shown, "here")] ELSE kept
      /\ handle' = IF shown = p THEN timer ELSE 0

Navigate(h, u, S, k) == Render(h, u, Cleared(S), 0, k)

\* A handler writes into its container, and the buttons in it are new.
Write(at, what, of, new) ==
  IF at = "here"
  THEN content' = [what |-> what, of |-> of] /\ buttons' = {Listener(a, of, "here") : a \in new}
  ELSE UNCHANGED <<content, buttons>>

\* Where a handler finds the container of a view now.
LookedUp(view) == IF page.view = view THEN "here" ELSE "null"

-----------------------------------------------------------------------------
(* What the user does.                                                          *)

NextFree == CHOOSE k \in Free : TRUE

Act == acts < MaxActs /\ acts' = acts + 1

\* A link of the page.
Follow(p) ==
  /\ Act
  /\ Free # {}
  /\ Navigate(Pushed(p), user, slots, NextFree)
  /\ UNCHANGED <<runs, job>>

\* The browser's history (popstate), which leaves the timer alone.
GoTo(n) ==
  /\ Act
  /\ n # history.at /\ Free # {}
  /\ Render([history EXCEPT !.at = n], user, slots, handle, NextFree)
  /\ UNCHANGED <<runs, job>>

\* The form of the upload page, whose button is disabled meanwhile.
Upload(r) ==
  /\ Act
  /\ page.view = "upload" /\ Free # {}
  /\ \A k \in Slots : slots[k].view = "upload" /\ slots[k].kind \in {"upload", "load"} => slots[k].at # "here"
  /\ slots' = [slots EXCEPT ![NextFree] = Call("upload", Place("upload", r), "here")]
  /\ Write("here", "loading", r, {})
  /\ UNCHANGED <<user, history, handle, runs, job>>

\* The handlers of "create" look their container up, in the page that is there.
Starts(act, b) ==
  Call(IF act = "run" THEN "tick" ELSE act, Place(page.view, b.of), IF act = "create" THEN "here" ELSE b.at)

\* The form of an application is left as it is while the application is created.
Clears(act) == act \in {"approve", "run"} \/ (act = "create" /\ page.view # "version")

\* Every listener of a button does its part.
Press(act) ==
  LET pressed == {b \in buttons : b.act = act}
      slot == CHOOSE f \in [pressed -> Free] : \A b, c \in pressed : f[b] = f[c] => b = c
      S == IF act = "run" THEN Cleared(slots) ELSE slots
  IN  /\ Act
      /\ act \in Present /\ Cardinality(pressed) <= Cardinality(Free)
      /\ slots' = [k \in Slots |-> IF \E b \in pressed : slot[b] = k
                                   THEN Starts(act, CHOOSE b \in pressed : slot[b] = k) ELSE S[k]]
      /\ IF Clears(act) THEN Write("here", "loading", content.of, {})
                     ELSE UNCHANGED <<content, buttons>>
      /\ runs' = IF act = "run" THEN runs \cup {b.of : b \in pressed} ELSE runs
      /\ handle' = IF act = "run" THEN 0 ELSE handle
      /\ UNCHANGED <<user, history, job>>

\* The form of a public page, whose button is disabled meanwhile, or the log-out button
\* of a private one.
Sign ==
  LET kind == IF page.view \in Public THEN "login" ELSE "logout"
  IN  /\ Act
      /\ Free # {}
      /\ kind = "login" => \A k \in Slots : slots[k].kind = "login" => slots[k].at = "gone"
      /\ slots' = [slots EXCEPT ![NextFree] = Call(kind, page, "here")]
      /\ UNCHANGED <<user, history, content, buttons, handle, runs, job>>

-----------------------------------------------------------------------------
(* What the server does.                                                        *)

\* It answers with the status of the job, or refuses; a call to retry requeues the job.
Answer(k) ==
  LET c == slots[k]
      retries == c.kind \in {"rerun", "again", "retry"}
      reply == IF retries \/ c.of = Nothing THEN "queued" ELSE job[c.of]
  IN  /\ c.stage = "sent"
      /\ \/ /\ slots' = [slots EXCEPT ![k].stage = reply]
            /\ job' = IF retries THEN [job EXCEPT ![c.of] = "queued"] ELSE job
         \/ slots' = [slots EXCEPT ![k].stage = "error"] /\ UNCHANGED job
      /\ UNCHANGED <<user, history, content, buttons, handle, runs, acts>>

\* A request to run the parser arrives, or a run ends.
JobMoves(r) ==
  /\ \/ r \in runs /\ runs' = runs \ {r} /\ job' = [job EXCEPT ![r] = "running"]
     \/ /\ job[r] = "running" /\ UNCHANGED runs
        /\ \E s \in {"succeeded", "failed"} : job' = [job EXCEPT ![r] = s]
  /\ UNCHANGED <<user, history, content, buttons, slots, handle, acts>>

-----------------------------------------------------------------------------
(* What the handlers do with the answer.                                         *)

Answered(k, kinds) == slots[k].kind \in kinds /\ slots[k].stage \notin {"sent", "timer"}
Done(k) == [slots EXCEPT ![k] = Idle]

\* Mutant of ContainerOf: the review looks its container up after the answer.
ContainerLookedUp(c) == IF c.view \in LooksUpAgain \cup {"review"} THEN LookedUp(c.view) ELSE c.at

ContainerOf(c) == IF c.view \in LooksUpAgain THEN LookedUp(c.view) ELSE c.at

\* The data of a page is there; the preview of a running job begins to poll.
Load(k) ==
  LET c == slots[k]
      at == ContainerOf(c)
      polls == c.view = "preview" /\ c.stage = "running" /\ at # "null"
  IN  /\ Answered(k, {"load"})
      /\ IF c.stage # "error" /\ at = "gone"
         THEN /\ buttons' = buttons \cup {Listener(a, c.of, "gone") : a \in Binds(c.view) \cap Present}
              /\ UNCHANGED content
         ELSE IF c.stage = "error" THEN Write(at, "error", c.of, {})
                                   ELSE Write(at, "data", c.of, Offers(c.view, c.stage))
      /\ slots' = IF polls THEN [slots EXCEPT ![k] = Call("tick", c, at)] ELSE Done(k)
      /\ UNCHANGED <<user, history, handle, runs, job, acts>>

\* Mutant of Tick: a failed job is polled on.
TickAfterFailure(k) ==
  LET c == slots[k]
  IN  /\ Answered(k, {"tick"})
      /\ \/ /\ c.stage = "succeeded" /\ Navigate(Replaced(Place("review", c.of)), user, Done(k), k)
         \/ /\ c.stage = "error" /\ Write(c.at, "error", c.of, {})
            /\ slots' = Cleared(Done(k)) /\ handle' = 0
            /\ UNCHANGED <<user, history>>
         \/ /\ c.stage \in {"queued", "running", "failed"}
            /\ Write(c.at, "progress", c.of, {})
            /\ slots' = [slots EXCEPT ![k].stage = "timer"] /\ handle' = k
            /\ UNCHANGED <<user, history>>
      /\ UNCHANGED <<runs, job, acts>>

\* The tick of a poll: success leads to the review, from whatever page; a failure or
\* an error ends the poll, and clears the timer of whichever poll armed it last.
Tick(k) ==
  LET c == slots[k]
  IN  /\ Answered(k, {"tick"})
      /\ \/ /\ c.stage = "succeeded" /\ Navigate(Replaced(Place("review", c.of)), user, Done(k), k)
         \/ /\ c.stage = "failed"
            /\ IF c.at = "gone"
               THEN /\ buttons' = buttons \cup {Listener(a, c.of, "gone") : a \in {"again"} \cap Present}
                    /\ UNCHANGED content
               ELSE Write(c.at, "failed", c.of, {"again"})
            /\ slots' = Cleared(Done(k)) /\ handle' = 0
            /\ UNCHANGED <<user, history>>
         \/ /\ c.stage = "error" /\ Write(c.at, "error", c.of, {})
            /\ slots' = Cleared(Done(k)) /\ handle' = 0
            /\ UNCHANGED <<user, history>>
         \/ /\ c.stage \in {"queued", "running"}
            /\ Write(c.at, "progress", c.of, {})
            /\ slots' = [slots EXCEPT ![k].stage = "timer"] /\ handle' = k
            /\ UNCHANGED <<user, history>>
      /\ UNCHANGED <<runs, job, acts>>

TimerFires(k) ==
  /\ slots[k].stage = "timer"
  /\ slots' = [slots EXCEPT ![k].stage = "sent"]
  /\ UNCHANGED <<user, history, content, buttons, handle, runs, job, acts>>

\* runParser, after a retry: the parser is asked to run and polled at once.
RunAgain(k) ==
  LET c == slots[k]
  IN  /\ Answered(k, {"rerun", "again"})
      /\ IF c.stage = "error"
         THEN slots' = Done(k) /\ UNCHANGED <<content, buttons, handle, runs>>
         ELSE /\ slots' = [Cleared(slots) EXCEPT ![k] = Call("tick", c, c.at)]
              /\ handle' = 0
              /\ runs' = runs \cup {c.of}
              /\ Write(c.at, "loading", c.of, {})
      /\ UNCHANGED <<user, history, job, acts>>

\* A retry from the preview, a change or an upload is followed by a load into the
\* container the document has by then; the upload page says so when it failed.
Reload(k) ==
  LET c == slots[k]
      view == IF c.kind = "retry" THEN "preview" ELSE c.view
  IN  /\ Answered(k, {"retry", "change", "upload"})
      /\ slots' = IF c.stage = "error" THEN Done(k)
                  ELSE [slots EXCEPT ![k] = Call("load", Place(view, c.of), LookedUp(view))]
      /\ IF c.kind = "upload" THEN Write(c.at, IF c.stage = "error" THEN "error" ELSE "loading", c.of, {})
                              ELSE UNCHANGED <<content, buttons>>
      /\ UNCHANGED <<user, history, handle, runs, job, acts>>

\* approveDraft; what is made of a report, or a rejection, leads to another page.
Finish(k) ==
  LET c == slots[k]
  IN  /\ Answered(k, {"approve", "create", "reject"})
      /\ \/ /\ c.kind = "approve" \/ (c.kind = "create" /\ c.view # "version" /\ c.stage = "error")
            /\ Write(c.at, IF c.stage = "error" THEN "error" ELSE "approved", c.of, {})
            /\ slots' = Done(k) /\ UNCHANGED <<user, history, handle>>
         \/ /\ c.kind = "reject" \/ (c.kind = "create" /\ c.view = "version")
            /\ c.stage = "error"
            /\ slots' = Done(k) /\ UNCHANGED <<user, history, content, buttons, handle>>
         \/ /\ c.kind # "approve" /\ c.stage # "error"
            /\ Navigate(Replaced(IF c.kind = "reject" THEN Place("resumes", Nothing)
                                                       ELSE Place(Created(c.view), c.of)), user, Done(k), k)
      /\ UNCHANGED <<runs, job, acts>>

\* submitAuthForm and the logout button.  A refused log-in renders the page anew.
Signed(k) ==
  LET c == slots[k]
  IN  /\ Answered(k, {"login", "logout"})
      /\ CASE c.stage # "error" /\ c.kind = "login" -> Navigate(Replaced(Place("dashboard", Nothing)), TRUE, Done(k), k)
           [] c.stage # "error" /\ c.kind = "logout" -> Navigate(Replaced(Place("login", Nothing)), FALSE, Done(k), k)
           [] c.kind = "login" -> Render(history, user, Done(k), handle, k)
           [] OTHER -> slots' = Done(k) /\ UNCHANGED <<user, history, content, buttons, handle>>
      /\ UNCHANGED <<runs, job, acts>>

-----------------------------------------------------------------------------
\* A document is loaded at some page, by a user who is logged in or is not.
Init ==
  /\ user \in BOOLEAN
  /\ \E p \in Places :
       /\ ~user => p.view = "login"
       /\ history = [pages |-> <<p>>, at |-> 1]
       /\ LET loads == p.view \in (KeepsContainer \cup LooksUpAgain) \ {"upload"}
          IN  /\ content = [what |-> IF loads THEN "loading" ELSE "form", of |-> p.of]
              /\ slots = [k \in Slots |-> IF loads /\ k = 1 THEN Call("load", p, "here") ELSE Idle]
  /\ buttons = {} /\ handle = 0 /\ runs = {}
  /\ job \in [Things -> {"queued", "succeeded"}]
  /\ acts = 0

Handler(k) == Load(k) \/ Tick(k) \/ TimerFires(k) \/ RunAgain(k) \/ Reload(k) \/ Finish(k) \/ Signed(k)

Next ==
  \/ \E p \in Links : Follow(p)
  \/ \E n \in 1 .. Len(history.pages) : GoTo(n)
  \/ \E r \in Things : Upload(r)
  \/ \E act \in Present : Press(act)
  \/ Sign
  \/ \E k \in Slots : Answer(k) \/ Handler(k)
  \/ \E r \in Things : JobMoves(r)

Spec == Init /\ [][Next]_vars

\* Calls are answered or fail, and the browser runs its handlers and timers; nothing is
\* assumed of the user or of the parser.
FairSpec == Spec /\ \A k \in Slots : WF_vars(Answer(k)) /\ WF_vars(Handler(k))

-----------------------------------------------------------------------------
(* Properties.                                                                  *)

\* The type of every variable.
TypeOK ==
  /\ user \in BOOLEAN
  /\ history.at \in 1 .. Len(history.pages)
  /\ content.of \in Things \cup {Nothing}
  /\ buttons \subseteq [act : {"approve", "reject", "rerun", "run", "retry", "again", "change", "create"},
                        of : Things, at : {"here", "gone"}]
  /\ \A k \in Slots : slots[k].stage = "none" <=> slots[k].kind = "none"
  /\ \A k \in Slots : slots[k].stage = "timer" => slots[k].kind = "tick"
  /\ handle \in 0 .. MaxCalls
  /\ runs \subseteq Things
  /\ job \in [Things -> {"queued", "running", "succeeded", "failed"}]

\* What the review page shows is of the resume in its address, whatever answers come
\* late; and without a user no private page is shown, whatever polls go on.
ReviewShowsItsDraft ==
  /\ page.view = "review" => content.of = page.of
  /\ ~user => page.view \in Public

Polled(r) == \E k \in Slots : slots[k].kind = "tick" /\ slots[k].of = r

\* Polling a job that has come to its end ends, in whatever pages it was begun.
PollingEnds ==
  \A r \in Things :
    <>[](job[r] \in {"succeeded", "failed"} /\ r \notin runs) => <>[](~Polled(r))

\* "explicit user approval": a resume is approved only on a page that shows its draft.
ApprovedWasShown ==
  [][\A k \in Slots : (slots'[k].kind = "approve" /\ slots[k].kind # "approve") => slots'[k].of = content.of]_vars
=============================================================================
