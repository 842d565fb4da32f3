----------------------------- MODULE WebPageProofs -----------------------------
(* What the page shows, for any resumes, any pages opened and any number of        *)
(* handlers that wait.                                                           *)
EXTENDS WebPage, SequenceTheorems, TLAPS

Views == Public \cup KeepsContainer \cup LooksUpAgain \cup {"dashboard"}
Owners == Things \cup {Nothing}
Pages == [view : Views, of : Owners]
Acts == {"approve", "reject", "rerun", "run", "retry", "again", "change", "create"}
ReviewActs == {"approve", "reject", "rerun", "again"}
JobStatuses == {"queued", "running", "succeeded", "failed"}

SlotType ==
  [kind : Acts \cup {"load", "tick", "upload", "login", "logout", "none"},
   view : Views \cup {"none"}, of : Owners, at : {"here", "gone", "null", "none"},
   stage : {"none", "sent", "timer", "error"} \cup JobStatuses]

PageType ==
  /\ user \in BOOLEAN
  /\ history \in [pages : Seq(Pages), at : Nat] /\ history.at \in 1 .. Len(history.pages)
  /\ slots \in [Slots -> SlotType]
  /\ job \in [Things -> JobStatuses]

\* A button in the document is of what its container holds; the review holds the draft
\* of its own resume, and none of its buttons creates or changes anything.
ContentInv ==
  /\ content.of \in Owners
  /\ buttons \subseteq [act : Acts, of : Owners, at : {"here", "gone"}]
  /\ \A b \in buttons : b.at = "here" => b.of = content.of
  /\ page.view = "review" => content.of = page.of /\ Present \subseteq ReviewActs

\* A handler that may still write into the review was started there, for its resume.
SlotOK(c) ==
  /\ c.kind \in {"change", "upload"} => c.view # "review"
  /\ c.kind = "load" /\ c.at = "here" /\ c.view \notin LooksUpAgain => c.view = page.view
  /\ page.view = "review" /\ c.at = "here" => c.of = page.of

IInv == PageType /\ ContentInv /\ (\A k \in Slots : SlotOK(slots[k])) /\ (~user => page.view \in Public)

-----------------------------------------------------------------------------
(* Helpers.                                                                     *)

LEMMA SlotTypes == Idle \in SlotType /\ Idle.kind = "none" /\ Idle.at = "none"
BY DEF Idle, SlotType, Owners

LEMMA CallTypes ==
  ASSUME NEW kind \in Acts \cup {"load", "tick", "upload", "login", "logout"}, NEW p, p.view \in Views, p.of \in Owners,
         NEW at \in {"here", "gone", "null", "none"}
  PROVE  /\ Call(kind, p, at) \in SlotType
         /\ Call(kind, p, at).kind = kind /\ Call(kind, p, at).view = p.view
         /\ Call(kind, p, at).of = p.of /\ Call(kind, p, at).at = at
BY DEF SlotType, Call

LEMMA PlaceTypes ==
  /\ \A v \in Views, o \in Owners : Place(v, o) \in Pages /\ Place(v, o).view = v /\ Place(v, o).of = o
  /\ \A c \in SlotType : c.view # "none" => c.view \in Views
  /\ Nothing \in Owners /\ Things \subseteq Owners
BY DEF Place, Pages, SlotType, Owners

\* Clearing the timer idles one slot at most.
LEMMA ClearedFacts ==
  ASSUME NEW S \in [Slots -> SlotType]
  PROVE  /\ Cleared(S) \in [Slots -> SlotType]
         /\ \A k \in Slots : Cleared(S)[k] \in {S[k], Idle}
BY SlotTypes DEF Cleared

\* After a rendering no handler but the one that loads the page has its container.
LEMMA DetachedFacts ==
  ASSUME NEW S \in [Slots -> SlotType]
  PROVE  /\ Detached(S) \in [Slots -> SlotType]
         /\ \A k \in Slots : /\ Detached(S)[k].at # "here"
                             /\ Detached(S)[k].kind = S[k].kind /\ Detached(S)[k].view = S[k].view
<1> SUFFICES ASSUME NEW k \in Slots
             PROVE  LET c == IF S[k].at = "here" THEN [S[k] EXCEPT !.at = "gone"] ELSE S[k]
                    IN  c \in SlotType /\ c.at # "here" /\ c.kind = S[k].kind /\ c.view = S[k].view
  BY DEF Detached
<1> QED BY DEF SlotType

-----------------------------------------------------------------------------
(* A step that renders a page.                                                   *)

HistoryType(h) == h \in [pages : Seq(Pages), at : Nat] /\ h.at \in 1 .. Len(h.pages)

Unreviewed(S) == \A k \in Slots : S[k].kind \in {"change", "upload"} => S[k].view # "review"

LEMMA RenderKeeps ==
  ASSUME PlacesAssumption, NEW h, HistoryType(h), NEW u \in BOOLEAN, NEW S \in [Slots -> SlotType], Unreviewed(S),
         NEW timer, NEW k \in Slots, Render(h, u, S, timer, k), job' \in [Things -> JobStatuses]
  PROVE  IInv'
<1> DEFINE p == h.pages[h.at]
           shown == IF u \/ p.view \in Public THEN p ELSE Place("login", Nothing)
           kept == Detached(IF shown = p THEN S ELSE Cleared(S))
           loads == shown.view \in (KeepsContainer \cup LooksUpAgain) \ {"upload"}
<1>1. p \in Pages
  BY ElementOfSeq DEF HistoryType
<1>2. shown \in Pages /\ shown.of \in Owners /\ shown.view \in Views
  <2>1. Place("login", Nothing) \in Pages
    BY PlaceTypes DEF Views, Public
  <2> QED BY <1>1, <2>1 DEF Pages
<1>3. ~u => shown.view \in Public
  BY PlaceTypes DEF Views, Public
<1>4. /\ user' = u /\ history' = [h EXCEPT !.pages[h.at] = shown]
      /\ content' = [what |-> IF loads THEN "loading" ELSE "form", of |-> shown.of]
      /\ buttons' = {}
      /\ slots' = IF loads THEN [kept EXCEPT ![k] = Call("load", shown, "here")] ELSE kept
  BY DEF Render
<1> HIDE DEF loads, shown
<1>5. page' = shown /\ history' \in [pages : Seq(Pages), at : Nat] /\ history'.at \in 1 .. Len(history'.pages)
  <2>2. [h.pages EXCEPT ![h.at] = shown] \in Seq(Pages) /\ Len([h.pages EXCEPT ![h.at] = shown]) = Len(h.pages)
    BY <1>2, ExceptSeq DEF HistoryType
  <2>3. [h.pages EXCEPT ![h.at] = shown][h.at] = shown
    BY LenProperties DEF HistoryType
  <2>4. history' = [pages |-> [h.pages EXCEPT ![h.at] = shown], at |-> h.at]
    BY <1>4 DEF HistoryType
  <2> QED BY <2>2, <2>3, <2>4 DEF page, HistoryType
<1>6. /\ kept \in [Slots -> SlotType]
      /\ \A j \in Slots : kept[j].at # "here" /\ (kept[j].kind \in {"change", "upload"} => kept[j].view # "review")
  <2>1. Cleared(S) \in [Slots -> SlotType] /\ Unreviewed(Cleared(S))
    BY ClearedFacts, SlotTypes DEF Unreviewed
  <2> QED BY <2>1, DetachedFacts DEF Unreviewed
<1> HIDE DEF kept
<1>7. /\ Call("load", shown, "here") \in SlotType
      /\ Call("load", shown, "here").kind = "load" /\ Call("load", shown, "here").view = shown.view
      /\ Call("load", shown, "here").of = shown.of
  BY <1>2 DEF Call, SlotType
<1>8. slots' \in [Slots -> SlotType] /\ \A j \in Slots : slots'[j] \in {kept[j], Call("load", shown, "here")}
  BY <1>4, <1>6, <1>7
<1>9. \A j \in Slots : SlotOK(slots[j])'
  <2> SUFFICES ASSUME NEW j \in Slots PROVE SlotOK(slots[j])'
    OBVIOUS
  <2>1. CASE slots'[j] = kept[j]
    BY <1>6, <2>1 DEF SlotOK
  <2>2. CASE slots'[j] = Call("load", shown, "here")
    BY <1>5, <1>7, <2>2 DEF SlotOK
  <2> QED BY <1>8, <2>1, <2>2
<1>10. ContentInv'
  BY <1>2, <1>4, <1>5 DEF ContentInv, Present
<1>11. PageType'
  BY <1>4, <1>5, <1>8 DEF PageType
<1> QED BY <1>3, <1>4, <1>5, <1>9, <1>10, <1>11 DEF IInv

LEMMA NavigateKeeps ==
  ASSUME PlacesAssumption, NEW h, HistoryType(h), NEW u \in BOOLEAN, NEW S \in [Slots -> SlotType], Unreviewed(S),
         NEW k \in Slots, Navigate(h, u, S, k), job' \in [Things -> JobStatuses]
  PROVE  IInv'
<1>1. Cleared(S) \in [Slots -> SlotType] /\ Unreviewed(Cleared(S))
  BY ClearedFacts, SlotTypes DEF Unreviewed
<1>2. Render(h, u, Cleared(S), 0, k)
  BY DEF Navigate
<1> QED BY <1>1, <1>2, RenderKeeps

LEMMA HistoryFacts ==
  ASSUME PageType
  PROVE  /\ HistoryType(history)
         /\ \A p \in Pages : HistoryType(Pushed(p)) /\ HistoryType(Replaced(p))
         /\ \A n \in 1 .. Len(history.pages) : HistoryType([history EXCEPT !.at = n])
<1>1. /\ history \in [pages : Seq(Pages), at : Nat] /\ history.at \in 1 .. Len(history.pages)
      /\ Len(history.pages) \in Nat
  BY LenProperties DEF PageType
<1>2. HistoryType(history) /\ \A n \in 1 .. Len(history.pages) : HistoryType([history EXCEPT !.at = n])
  BY <1>1 DEF HistoryType
<1>3. ASSUME NEW p \in Pages PROVE HistoryType(Replaced(p))
  <2>1. [history.pages EXCEPT ![history.at] = p] \in Seq(Pages)
        /\ Len([history.pages EXCEPT ![history.at] = p]) = Len(history.pages)
    BY <1>1, ExceptSeq
  <2> QED BY <1>1, <2>1 DEF HistoryType, Replaced
<1>4. ASSUME NEW p \in Pages PROVE HistoryType(Pushed(p))
  <2> DEFINE s == SubSeq(history.pages, 1, history.at)
  <2>1. \A i \in 1 .. history.at : history.pages[i] \in Pages
    BY <1>1, ElementOfSeq
  <2>2. s \in Seq(Pages) /\ Len(s) = history.at
    BY <1>1, <2>1, SubSeqProperties
  <2> HIDE DEF s
  <2>3. Append(s, p) \in Seq(Pages) /\ Len(Append(s, p)) = history.at + 1
    BY <1>1, <2>2, AppendProperties
  <2>4. Pushed(p) = [pages |-> Append(s, p), at |-> history.at + 1]
    BY DEF Pushed, s
  <2> QED BY <1>1, <2>3, <2>4 DEF HistoryType
<1> QED BY <1>2, <1>3, <1>4

-----------------------------------------------------------------------------
(* A step that stays on the page.                                                *)

LEMMA StayKeeps ==
  ASSUME IInv, UNCHANGED <<user, history>>, ContentInv',
         slots' \in [Slots -> SlotType], job' \in [Things -> JobStatuses],
         \A k \in Slots : slots'[k] \in {slots[k], Idle} \/ SlotOK(slots'[k])
  PROVE  IInv'
<1>1. page' = page
  BY DEF page
<1>2. PageType'
  BY DEF IInv, PageType
<1>3. \A k \in Slots : SlotOK(slots'[k])
  BY SlotTypes DEF IInv, SlotOK
<1>4. \A k \in Slots : SlotOK(slots[k])'
  BY <1>1, <1>3 DEF SlotOK
<1> QED BY <1>1, <1>2, <1>4 DEF IInv

LEMMA SameContent ==
  ASSUME ContentInv, UNCHANGED <<history, content, buttons>>
  PROVE  ContentInv'
BY DEF ContentInv, page, Present

LEMMA WriteKeeps ==
  ASSUME ContentInv, UNCHANGED history, NEW at, NEW what, NEW of \in Owners, NEW new \in SUBSET Acts,
         Write(at, what, of, new),
         at = "here" /\ page.view = "review" => of = page.of /\ new \subseteq ReviewActs
  PROVE  ContentInv'
<1>1. CASE at = "here"
  <2>1. content' = [what |-> what, of |-> of] /\ buttons' = {Listener(a, of, "here") : a \in new}
    BY <1>1 DEF Write
  <2>2. \A a \in new : /\ Listener(a, of, "here") \in [act : Acts, of : Owners, at : {"here", "gone"}]
                       /\ Listener(a, of, "here").act = a /\ Listener(a, of, "here").of = of
    BY DEF Listener
  <2>3. Present' = new
    BY <2>1, <2>2 DEF Present
  <2>4. page' = page
    BY DEF page
  <2> QED BY <1>1, <2>1, <2>2, <2>3, <2>4 DEF ContentInv
<1>2. CASE at # "here"
  BY <1>2, SameContent DEF Write
<1> QED BY <1>1, <1>2

-----------------------------------------------------------------------------
(* What the user does.                                                          *)

LEMMA CurrentPage == ASSUME PageType PROVE page \in Pages /\ page.view \in Views /\ page.of \in Owners
<1>1. page \in Pages
  BY ElementOfSeq DEF PageType, page
<1> QED BY <1>1 DEF Pages

LEMMA NoReviewChanges == ASSUME IInv PROVE Unreviewed(slots)
BY DEF IInv, SlotOK, Unreviewed

LEMMA FreeSlot == ASSUME Free # {} PROVE NextFree \in Slots
BY DEF NextFree, Free

LEMMA FollowKeeps == ASSUME PlacesAssumption, IInv, NEW p \in Links, Follow(p) PROVE IInv'
<1>1. p \in Pages
  <2>1. content.of \in Owners
    BY DEF IInv, ContentInv
  <2> QED BY <2>1, PlaceTypes DEF Links, Views, Public, KeepsContainer, LooksUpAgain
<1>2. HistoryType(Pushed(p))
  BY <1>1, HistoryFacts DEF IInv
<1>3. Navigate(Pushed(p), user, slots, NextFree) /\ NextFree \in Slots /\ job' = job
  BY FreeSlot DEF Follow
<1> QED BY <1>2, <1>3, NavigateKeeps, NoReviewChanges DEF IInv, PageType

LEMMA GoToKeeps == ASSUME PlacesAssumption, IInv, NEW n \in 1 .. Len(history.pages), GoTo(n) PROVE IInv'
<1>1. HistoryType([history EXCEPT !.at = n])
  BY HistoryFacts DEF IInv
<1>2. Render([history EXCEPT !.at = n], user, slots, handle, NextFree) /\ NextFree \in Slots /\ job' = job
  BY FreeSlot DEF GoTo
<1> QED BY <1>1, <1>2, RenderKeeps, NoReviewChanges DEF IInv, PageType

LEMMA UploadKeeps == ASSUME IInv, NEW r \in Things, Upload(r) PROVE IInv'
<1> DEFINE c == Call("upload", Place("upload", r), "here")
<1>1. /\ slots' = [slots EXCEPT ![NextFree] = c] /\ NextFree \in Slots
      /\ UNCHANGED <<user, history, job>> /\ page.view = "upload"
      /\ Write("here", "loading", r, {})
  BY FreeSlot DEF Upload
<1>2. c \in SlotType /\ c.kind = "upload" /\ c.view = "upload"
  <2>1. "upload" \in Views /\ r \in Owners
    BY DEF Views, KeepsContainer, Owners
  <2>2. Place("upload", r).view = "upload" /\ Place("upload", r).of = r
    BY DEF Place
  <2> QED BY <2>1, <2>2 DEF Call, SlotType
<1> HIDE DEF c
<1>3. ContentInv'
  BY <1>1, WriteKeeps DEF IInv, Owners
<1>4. slots' \in [Slots -> SlotType] /\ \A k \in Slots : slots'[k] \in {slots[k], c}
  BY <1>1, <1>2 DEF IInv, PageType
<1>5. SlotOK(c)
  BY <1>1, <1>2 DEF SlotOK
<1>6. \A k \in Slots : slots'[k] \in {slots[k], Idle} \/ SlotOK(slots'[k])
  BY <1>4, <1>5
<1> QED BY <1>1, <1>3, <1>4, <1>6, StayKeeps DEF IInv, PageType

LEMMA PressKeeps == ASSUME IInv, NEW act \in Present, Press(act) PROVE IInv'
<1> DEFINE pressed == {b \in buttons : b.act = act}
           slot == CHOOSE f \in [pressed -> Free] : \A b, c \in pressed : f[b] = f[c] => b = c
           S == IF act = "run" THEN Cleared(slots) ELSE slots
           Started(k) == \E b \in pressed : slot[b] = k
           The(k) == CHOOSE b \in pressed : slot[b] = k
<1>1. /\ slots' = [k \in Slots |-> IF Started(k) THEN Starts(act, The(k)) ELSE S[k]]
      /\ IF Clears(act) THEN Write("here", "loading", content.of, {}) ELSE UNCHANGED <<content, buttons>>
      /\ UNCHANGED <<user, history, job>>
  BY DEF Press
<1> HIDE DEF slot
<1>2. \A k \in Slots : Started(k) => The(k) \in pressed
  OBVIOUS
<1> HIDE DEF Started, The
<1>3. S \in [Slots -> SlotType] /\ \A k \in Slots : S[k] \in {slots[k], Idle}
  BY ClearedFacts DEF IInv, PageType
<1> HIDE DEF S
<1>4. act \in Acts /\ (page.view = "review" => act \in ReviewActs)
  BY DEF Present, IInv, ContentInv
<1>5. ASSUME NEW b \in pressed
      PROVE  Starts(act, b) \in SlotType /\ SlotOK(Starts(act, b))
  <2> DEFINE kind == IF act = "run" THEN "tick" ELSE act
             at == IF act = "create" THEN "here" ELSE b.at
  <2>1. /\ b.of \in Owners /\ b.at \in {"here", "gone"}
        /\ b.at = "here" => b.of = content.of
        /\ page.view = "review" => content.of = page.of
    BY <1>5 DEF IInv, ContentInv
  <2>2. page.view \in Views
    BY CurrentPage DEF IInv
  <2>3. Starts(act, b) = Call(kind, Place(page.view, b.of), at)
    BY DEF Starts
  <2>4. /\ Starts(act, b) \in SlotType /\ Starts(act, b).kind = kind /\ Starts(act, b).view = page.view
        /\ Starts(act, b).of = b.of /\ Starts(act, b).at = at
    <3>1. kind \in Acts \cup {"load", "tick", "upload", "login", "logout"} /\ at \in {"here", "gone", "null", "none"}
      BY <1>4, <2>1
    <3>2. Place(page.view, b.of).view = page.view /\ Place(page.view, b.of).of = b.of
      BY <2>1, <2>2, PlaceTypes
    <3> HIDE DEF kind, at
    <3> QED BY <2>1, <2>2, <2>3, <3>1, <3>2 DEF Call, SlotType
  <2> QED BY <1>4, <2>1, <2>4 DEF SlotOK, Acts, ReviewActs
<1>6. slots' \in [Slots -> SlotType]
  BY <1>1, <1>2, <1>3, <1>5
<1>7. \A k \in Slots : slots'[k] \in {slots[k], Idle} \/ SlotOK(slots'[k])
  BY <1>1, <1>2, <1>3, <1>5
<1>8. ContentInv'
  <2>1. CASE Clears(act)
    <3>1. ContentInv /\ content.of \in Owners /\ (page.view = "review" => content.of = page.of)
      BY DEF IInv, ContentInv
    <3>2. Write("here", "loading", content.of, {})
      BY <1>1, <2>1
    <3> QED BY <1>1, <3>1, <3>2, WriteKeeps
  <2>2. CASE ~Clears(act)
    BY <1>1, <2>2, SameContent DEF IInv
  <2> QED BY <2>1, <2>2
<1> QED BY <1>1, <1>6, <1>7, <1>8, StayKeeps DEF IInv, PageType

LEMMA SignKeeps == ASSUME IInv, Sign PROVE IInv'
<1> DEFINE kind == IF page.view \in Public THEN "login" ELSE "logout"
           c == Call(kind, page, "here")
<1>1. /\ slots' = [slots EXCEPT ![NextFree] = c] /\ NextFree \in Slots
      /\ UNCHANGED <<user, history, content, buttons, job>>
  BY FreeSlot DEF Sign
<1>2. c \in SlotType /\ c.kind \in {"login", "logout"} /\ c.of = page.of
  <2>1. page.view \in Views /\ page.of \in Owners
    BY CurrentPage DEF IInv
  <2>2. kind \in {"login", "logout"}
    OBVIOUS
  <2> HIDE DEF kind
  <2> QED BY <2>1, <2>2 DEF Call, SlotType
<1> HIDE DEF c
<1>3. slots' \in [Slots -> SlotType] /\ \A k \in Slots : slots'[k] \in {slots[k], c}
  BY <1>1, <1>2 DEF IInv, PageType
<1>4. SlotOK(c)
  BY <1>2 DEF SlotOK
<1>5. \A k \in Slots : slots'[k] \in {slots[k], Idle} \/ SlotOK(slots'[k])
  BY <1>3, <1>4
<1> QED BY <1>1, <1>3, <1>5, StayKeeps, SameContent DEF IInv, PageType

-----------------------------------------------------------------------------
(* What the server does, and the timer.                                          *)

\* Only the stage of a slot changes.
LEMMA StageKeeps ==
  ASSUME IInv, NEW k \in Slots,
         NEW stage \in {"none", "sent", "timer", "error"} \cup JobStatuses,
         slots' = [slots EXCEPT ![k].stage = stage],
         UNCHANGED <<user, history>>, ContentInv', job' \in [Things -> JobStatuses]
  PROVE  IInv'
<1> DEFINE c == [slots[k] EXCEPT !.stage = stage]
<1>1. slots[k] \in SlotType /\ SlotOK(slots[k])
  BY DEF IInv, PageType
<1>2. /\ c \in SlotType /\ c.kind = slots[k].kind /\ c.view = slots[k].view
      /\ c.of = slots[k].of /\ c.at = slots[k].at
  BY <1>1 DEF SlotType
<1>3. slots' = [slots EXCEPT ![k] = c]
  OBVIOUS
<1> HIDE DEF c
<1>4. SlotOK(c)
  BY <1>1, <1>2 DEF SlotOK
<1>5. slots' \in [Slots -> SlotType] /\ \A j \in Slots : slots'[j] \in {slots[j], c}
  BY <1>2, <1>3 DEF IInv, PageType
<1>6. \A j \in Slots : slots'[j] \in {slots[j], Idle} \/ SlotOK(slots'[j])
  BY <1>4, <1>5
<1> QED BY <1>5, <1>6, StayKeeps

LEMMA AnswerKeeps == ASSUME IInv, NEW k \in Slots, Answer(k) PROVE IInv'
<1> DEFINE c == slots[k]
           retries == c.kind \in {"rerun", "again", "retry"}
           reply == IF retries \/ c.of = Nothing THEN "queued" ELSE job[c.of]
<1>1. /\ slots' = [slots EXCEPT ![k].stage = reply] \/ slots' = [slots EXCEPT ![k].stage = "error"]
      /\ job' = job \/ job' = [job EXCEPT ![c.of] = "queued"]
      /\ UNCHANGED <<user, history, content, buttons>>
  BY DEF Answer
<1>2. c \in SlotType /\ job \in [Things -> JobStatuses]
  BY DEF IInv, PageType
<1>3. reply \in JobStatuses
  BY <1>2 DEF SlotType, Owners, JobStatuses
<1>4. job' \in [Things -> JobStatuses]
  BY <1>1, <1>2 DEF JobStatuses
<1>5. ContentInv'
  BY <1>1, SameContent DEF IInv
<1> HIDE DEF reply
<1> QED BY <1>1, <1>3, <1>4, <1>5, StageKeeps

LEMMA TimerKeeps == ASSUME IInv, NEW k \in Slots, TimerFires(k) PROVE IInv'
<1>1. ContentInv'
  BY SameContent DEF IInv, TimerFires
<1> QED BY <1>1, StageKeeps DEF TimerFires, IInv, PageType

LEMMA JobKeeps == ASSUME IInv, NEW r \in Things, JobMoves(r) PROVE IInv'
<1>1. UNCHANGED <<user, history, content, buttons, slots>>
  BY DEF JobMoves
<1>2. job' \in [Things -> JobStatuses]
  BY DEF JobMoves, IInv, PageType, JobStatuses
<1>3. ContentInv'
  BY <1>1, SameContent DEF IInv
<1> QED BY <1>1, <1>2, <1>3, StayKeeps DEF IInv, PageType

-----------------------------------------------------------------------------
(* The handlers.                                                                *)

\* What a handler knows of its slot, and that it may write into its container.
LEMMA SlotFacts ==
  ASSUME IInv, NEW k \in Slots
  PROVE  /\ slots[k] \in SlotType /\ SlotOK(slots[k]) /\ slots[k].of \in Owners
         /\ slots[k].at = "here" /\ page.view = "review" => slots[k].of = page.of
         /\ Done(k) \in [Slots -> SlotType] /\ Unreviewed(Done(k))
         /\ \A j \in Slots : Done(k)[j] \in {slots[j], Idle}
         /\ Cleared(Done(k)) \in [Slots -> SlotType]
         /\ \A j \in Slots : Cleared(Done(k))[j] \in {slots[j], Idle}
<1>1. slots \in [Slots -> SlotType]
  BY DEF IInv, PageType
<1>2. Done(k) \in [Slots -> SlotType] /\ \A j \in Slots : Done(k)[j] \in {slots[j], Idle}
  BY <1>1, SlotTypes DEF Done
<1>3. Unreviewed(Done(k))
  BY <1>2, NoReviewChanges, SlotTypes DEF Unreviewed
<1>4. /\ Cleared(Done(k)) \in [Slots -> SlotType]
      /\ \A j \in Slots : Cleared(Done(k))[j] \in {slots[j], Idle}
  BY <1>2, ClearedFacts
<1>5. slots[k].of \in Owners
  BY <1>1 DEF SlotType
<1> QED BY <1>1, <1>2, <1>3, <1>4, <1>5 DEF IInv, SlotOK

\* A handler that is over, or that hands its slot to another call.
LEMMA SlotKeeps ==
  ASSUME IInv, NEW k \in Slots, NEW c \in SlotType, SlotOK(c),
         \/ slots' = [slots EXCEPT ![k] = c]
         \/ slots' = [Cleared(slots) EXCEPT ![k] = c]
         \/ slots' = Done(k) \/ slots' = Cleared(Done(k)),
         UNCHANGED <<user, history, job>>, ContentInv'
  PROVE  IInv'
<1>1. slots \in [Slots -> SlotType]
  BY DEF IInv, PageType
<1>2. Cleared(slots) \in [Slots -> SlotType] /\ \A j \in Slots : Cleared(slots)[j] \in {slots[j], Idle}
  BY <1>1, ClearedFacts
<1>3. slots' \in [Slots -> SlotType] /\ \A j \in Slots : slots'[j] \in {slots[j], Idle, c}
  <2>1. CASE slots' = [slots EXCEPT ![k] = c]
    BY <1>1, <2>1
  <2>2. CASE slots' = [Cleared(slots) EXCEPT ![k] = c]
    BY <1>2, <2>2
  <2>3. CASE slots' = Done(k) \/ slots' = Cleared(Done(k))
    BY <2>3, SlotFacts
  <2> QED BY <2>1, <2>2, <2>3
<1>4. \A j \in Slots : slots'[j] \in {slots[j], Idle} \/ SlotOK(slots'[j])
  BY <1>3
<1> QED BY <1>3, <1>4, StayKeeps DEF IInv, PageType

\* Listeners that a handler without a container binds to the buttons of the document.
LEMMA BindKeeps ==
  ASSUME ContentInv, UNCHANGED <<history, content>>, NEW of \in Owners, NEW new \in SUBSET Present,
         buttons' = buttons \cup {Listener(a, of, "gone") : a \in new}
  PROVE  ContentInv'
<1>1. \A a \in new : /\ Listener(a, of, "gone") \in [act : Acts, of : Owners, at : {"here", "gone"}]
                     /\ Listener(a, of, "gone").at = "gone" /\ Listener(a, of, "gone").act = a
  BY DEF Listener, ContentInv, Present
<1>2. Present' = Present
  BY <1>1 DEF Present
<1>3. \A b \in buttons' : b \in buttons \/ b.at = "gone"
  BY <1>1
<1>4. buttons' \subseteq [act : Acts, of : Owners, at : {"here", "gone"}]
  BY <1>1 DEF ContentInv
<1> QED BY <1>2, <1>3, <1>4 DEF ContentInv, page

LEMMA IdleOK == Idle \in SlotType /\ SlotOK(Idle)
BY SlotTypes DEF SlotOK

LEMMA LoadKeeps == ASSUME IInv, NEW k \in Slots, Load(k) PROVE IInv'
<1> DEFINE c == slots[k]
           at == ContainerOf(c)
           polls == c.view = "preview" /\ c.stage = "running" /\ at # "null"
<1>1. /\ c.kind = "load"
      /\ IF c.stage # "error" /\ at = "gone"
         THEN /\ buttons' = buttons \cup {Listener(a, c.of, "gone") : a \in Binds(c.view) \cap Present}
              /\ UNCHANGED content
         ELSE IF c.stage = "error" THEN Write(at, "error", c.of, {})
                                   ELSE Write(at, "data", c.of, Offers(c.view, c.stage))
      /\ slots' = IF polls THEN [slots EXCEPT ![k] = Call("tick", c, at)] ELSE Done(k)
      /\ UNCHANGED <<user, history, job>>
  BY DEF Load, Answered
<1>2. c \in SlotType /\ SlotOK(c) /\ c.of \in Owners
  BY SlotFacts
<1>3. at \in {"here", "gone", "null", "none"}
  BY <1>2 DEF ContainerOf, LookedUp, SlotType
<1>4. at = "here" /\ page.view = "review" => c.view = "review" /\ c.of = page.of
  <2>1. CASE c.view \in LooksUpAgain
    BY <2>1 DEF ContainerOf, LookedUp, LooksUpAgain
  <2>2. CASE c.view \notin LooksUpAgain
    BY <1>1, <1>2, <2>2 DEF ContainerOf, SlotOK
  <2> QED BY <2>1, <2>2
<1>5. Offers(c.view, c.stage) \subseteq Acts /\ (c.view = "review" => Offers(c.view, c.stage) \subseteq ReviewActs)
  BY DEF Offers, Acts, ReviewActs
<1> HIDE DEF c, at
<1>6. ContentInv'
  <2>1. ContentInv /\ UNCHANGED history
    BY <1>1 DEF IInv
  <2>2. CASE c.stage # "error" /\ at = "gone"
    BY <1>1, <1>2, <2>1, <2>2, BindKeeps
  <2>3. CASE c.stage = "error"
    BY <1>1, <1>2, <1>4, <2>1, <2>3, WriteKeeps
  <2>4. CASE c.stage # "error" /\ at # "gone"
    BY <1>1, <1>2, <1>4, <1>5, <2>1, <2>4, WriteKeeps
  <2> QED BY <2>2, <2>3, <2>4
<1>7. CASE polls
  <2>1. c.view \in Views
    BY <1>7 DEF Views, KeepsContainer
  <2>2. /\ Call("tick", c, at) \in SlotType /\ Call("tick", c, at).kind = "tick"
        /\ Call("tick", c, at).of = c.of /\ Call("tick", c, at).at = at
    BY <1>2, <1>3, <2>1 DEF Call, SlotType
  <2>3. SlotOK(Call("tick", c, at))
    BY <1>4, <2>2 DEF SlotOK
  <2> QED BY <1>1, <1>6, <1>7, <2>2, <2>3, SlotKeeps
<1>8. CASE ~polls
  BY <1>1, <1>6, <1>8, SlotKeeps, IdleOK
<1> QED BY <1>7, <1>8

LEMMA TickKeeps == ASSUME PlacesAssumption, IInv, NEW k \in Slots, Tick(k) PROVE IInv'
<1> DEFINE c == slots[k]
<1>1. c \in SlotType /\ SlotOK(c) /\ c.of \in Owners /\ (c.at = "here" /\ page.view = "review" => c.of = page.of)
  BY SlotFacts
<1>2. CASE c.stage = "succeeded" /\ Navigate(Replaced(Place("review", c.of)), user, Done(k), k) /\ UNCHANGED job
  <2>1. Place("review", c.of) \in Pages
    BY <1>1, PlaceTypes DEF Views, KeepsContainer
  <2> QED BY <1>2, <2>1, HistoryFacts, NavigateKeeps, SlotFacts DEF IInv, PageType
<1>3. CASE /\ c.stage = "failed"
           /\ IF c.at = "gone"
              THEN /\ buttons' = buttons \cup {Listener(a, c.of, "gone") : a \in {"again"} \cap Present}
                   /\ UNCHANGED content
              ELSE Write(c.at, "failed", c.of, {"again"})
           /\ slots' = Cleared(Done(k)) /\ UNCHANGED <<user, history, job>>
  <2>1. {"again"} \subseteq ReviewActs /\ {"again"} \subseteq Acts
    BY DEF ReviewActs, Acts
  <2> HIDE DEF c
  <2>2. ContentInv'
    <3>1. ContentInv /\ UNCHANGED history
      BY <1>3 DEF IInv
    <3>2. CASE c.at = "gone"
      BY <1>1, <1>3, <3>1, <3>2, BindKeeps, ZenonT(60)
    <3>3. CASE c.at # "gone"
      BY <1>1, <1>3, <2>1, <3>1, <3>3, WriteKeeps
    <3> QED BY <3>2, <3>3
  <2> QED BY <1>3, <2>2, SlotKeeps, IdleOK
<1>4. CASE /\ c.stage = "error" /\ Write(c.at, "error", c.of, {})
           /\ slots' = Cleared(Done(k)) /\ UNCHANGED <<user, history, job>>
  <2> HIDE DEF c
  <2>1. ContentInv'
    BY <1>1, <1>4, WriteKeeps DEF IInv
  <2> QED BY <1>4, <2>1, SlotKeeps, IdleOK
<1>5. CASE /\ Write(c.at, "progress", c.of, {})
           /\ slots' = [slots EXCEPT ![k].stage = "timer"] /\ UNCHANGED <<user, history, job>>
  <2>1. ContentInv'
    BY <1>1, <1>5, WriteKeeps DEF IInv
  <2> QED BY <1>5, <2>1, StageKeeps DEF IInv, PageType
<1> QED BY <1>2, <1>3, <1>4, <1>5 DEF Tick

LEMMA RunAgainKeeps == ASSUME IInv, NEW k \in Slots, RunAgain(k) PROVE IInv'
<1> DEFINE c == slots[k]
<1>1. c \in SlotType /\ SlotOK(c) /\ c.of \in Owners /\ (c.at = "here" /\ page.view = "review" => c.of = page.of)
  BY SlotFacts
<1>2. c.kind \in {"rerun", "again"} /\ UNCHANGED <<user, history, job>>
  BY DEF RunAgain, Answered
<1>3. CASE c.stage = "error"
  <2>1. slots' = Done(k) /\ UNCHANGED <<content, buttons>>
    BY <1>3 DEF RunAgain
  <2> QED BY <1>2, <2>1, SlotKeeps, IdleOK, SameContent DEF IInv
<1>4. CASE c.stage # "error"
  <2>1. slots' = [Cleared(slots) EXCEPT ![k] = Call("tick", c, c.at)] /\ Write(c.at, "loading", c.of, {})
    BY <1>4 DEF RunAgain
  <2>2. ContentInv'
    BY <1>1, <1>2, <2>1, WriteKeeps DEF IInv
  <2>3. /\ Call("tick", c, c.at) \in SlotType /\ Call("tick", c, c.at).kind = "tick"
        /\ Call("tick", c, c.at).of = c.of /\ Call("tick", c, c.at).at = c.at
    BY <1>1 DEF Call, SlotType
  <2>4. SlotOK(Call("tick", c, c.at))
    BY <1>1, <2>3 DEF SlotOK
  <2> QED BY <1>2, <2>1, <2>2, <2>3, <2>4, SlotKeeps
<1> QED BY <1>3, <1>4

LEMMA ReloadKeeps == ASSUME IInv, NEW k \in Slots, Reload(k) PROVE IInv'
<1> DEFINE c == slots[k]
           view == IF c.kind = "retry" THEN "preview" ELSE c.view
           d == Call("load", Place(view, c.of), LookedUp(view))
<1>1. c \in SlotType /\ SlotOK(c) /\ c.of \in Owners /\ (c.at = "here" /\ page.view = "review" => c.of = page.of)
  BY SlotFacts
<1>2. /\ c.kind \in {"retry", "change", "upload"} /\ UNCHANGED <<user, history, job>>
      /\ slots' = IF c.stage = "error" THEN Done(k) ELSE [slots EXCEPT ![k] = d]
      /\ IF c.kind = "upload" THEN Write(c.at, IF c.stage = "error" THEN "error" ELSE "loading", c.of, {})
                              ELSE UNCHANGED <<content, buttons>>
  BY DEF Reload, Answered
<1>3. view # "review"
  BY <1>1, <1>2 DEF SlotOK
<1>4. d \in SlotType /\ d.kind = "load" /\ d.view = view /\ d.of = c.of /\ d.at = LookedUp(view)
  BY <1>1 DEF Call, Place, SlotType, LookedUp, Views, KeepsContainer
<1>5. SlotOK(d)
  BY <1>3, <1>4 DEF SlotOK, LookedUp
<1> HIDE DEF c, d
<1>6. ContentInv'
  BY <1>1, <1>2, WriteKeeps, SameContent DEF IInv
<1> QED BY <1>2, <1>4, <1>5, <1>6, SlotKeeps

LEMMA FinishKeeps == ASSUME PlacesAssumption, IInv, NEW k \in Slots, Finish(k) PROVE IInv'
<1> DEFINE c == slots[k]
<1>1. c \in SlotType /\ SlotOK(c) /\ c.of \in Owners /\ (c.at = "here" /\ page.view = "review" => c.of = page.of)
  BY SlotFacts
<1>2. CASE /\ Write(c.at, IF c.stage = "error" THEN "error" ELSE "approved", c.of, {})
           /\ slots' = Done(k) /\ UNCHANGED <<user, history, job>>
  <2> HIDE DEF c
  <2>1. ContentInv'
    BY <1>1, <1>2, WriteKeeps DEF IInv
  <2> QED BY <1>2, <2>1, SlotKeeps, IdleOK
<1>3. CASE slots' = Done(k) /\ UNCHANGED <<user, history, content, buttons, job>>
  BY <1>3, SlotKeeps, IdleOK, SameContent DEF IInv
<1>4. CASE /\ Navigate(Replaced(IF c.kind = "reject" THEN Place("resumes", Nothing)
                                                    ELSE Place(Created(c.view), c.of)), user, Done(k), k)
           /\ UNCHANGED job
  <2>1. Created(c.view) \in {"readiness", "optimization", "version", "application"}
    BY DEF Created
  <2>2. Created(c.view) \in Views /\ "resumes" \in Views
    BY <2>1 DEF Views, KeepsContainer, LooksUpAgain
  <2>3. Place("resumes", Nothing) \in Pages /\ Place(Created(c.view), c.of) \in Pages
    BY <1>1, <2>2, PlaceTypes
  <2> QED BY <1>4, <2>3, HistoryFacts, NavigateKeeps, SlotFacts DEF IInv, PageType
<1> QED BY <1>2, <1>3, <1>4 DEF Finish

LEMMA SignedKeeps == ASSUME PlacesAssumption, IInv, NEW k \in Slots, Signed(k) PROVE IInv'
<1>1. Place("dashboard", Nothing) \in Pages /\ Place("login", Nothing) \in Pages
  BY PlaceTypes DEF Views, Public
<1>2. UNCHANGED job /\ slots[k].kind \in {"login", "logout"}
  BY DEF Signed, Answered
<1>3. CASE Navigate(Replaced(Place("dashboard", Nothing)), TRUE, Done(k), k)
  BY <1>1, <1>2, <1>3, HistoryFacts, NavigateKeeps, SlotFacts DEF IInv, PageType
<1>4. CASE Navigate(Replaced(Place("login", Nothing)), FALSE, Done(k), k)
  BY <1>1, <1>2, <1>4, HistoryFacts, NavigateKeeps, SlotFacts DEF IInv, PageType
<1>5. CASE Render(history, user, Done(k), handle, k)
  BY <1>2, <1>5, HistoryFacts, RenderKeeps, SlotFacts DEF IInv, PageType
<1>6. CASE slots' = Done(k) /\ UNCHANGED <<user, history, content, buttons>>
  BY <1>2, <1>6, SlotKeeps, IdleOK, SameContent DEF IInv
<1> QED BY <1>2, <1>3, <1>4, <1>5, <1>6 DEF Signed

-----------------------------------------------------------------------------
LEMMA InitOK == ASSUME PlacesAssumption, Init PROVE IInv
<1> DEFINE loads(p) == p.view \in (KeepsContainer \cup LooksUpAgain) \ {"upload"}
<1>0. PICK p \in Places :
        /\ ~user => p.view = "login"
        /\ history = [pages |-> <<p>>, at |-> 1]
        /\ content = [what |-> IF loads(p) THEN "loading" ELSE "form", of |-> p.of]
        /\ slots = [k \in Slots |-> IF loads(p) /\ k = 1 THEN Call("load", p, "here") ELSE Idle]
  BY DEF Init
<1> HIDE DEF loads
<1>1. /\ content.of = p.of
      /\ slots \in [Slots -> {Idle, Call("load", p, "here")}]
  BY <1>0
<1>2. p \in Pages /\ p.view \in Views /\ p.of \in Owners
  BY PlacesAssumption DEF Pages, Views, Owners
<1>3. page = p /\ history \in [pages : Seq(Pages), at : Nat] /\ history.at \in 1 .. Len(history.pages)
  BY <1>0, <1>2 DEF page
<1>4. /\ Call("load", p, "here") \in SlotType
      /\ Call("load", p, "here").kind = "load" /\ Call("load", p, "here").view = p.view
      /\ Call("load", p, "here").of = p.of
  BY <1>2 DEF Call, SlotType
<1>5. slots \in [Slots -> SlotType] /\ \A k \in Slots : slots[k] \in {Idle, Call("load", p, "here")}
  BY <1>1, <1>4, SlotTypes
<1>6. \A k \in Slots : SlotOK(slots[k])
  BY <1>3, <1>4, <1>5, IdleOK DEF SlotOK
<1>7. ContentInv
  BY <1>1, <1>2, <1>3 DEF Init, ContentInv, Present
<1>8. PageType
  BY <1>3, <1>5 DEF Init, PageType, JobStatuses
<1> QED BY <1>0, <1>3, <1>6, <1>7, <1>8 DEF IInv, Public

LEMMA StutterKeeps == ASSUME IInv, UNCHANGED vars PROVE IInv'
<1>1. UNCHANGED <<user, history, content, buttons, slots, job>>
  BY DEF vars
<1> QED BY <1>1, StayKeeps, SameContent DEF IInv, PageType

LEMMA StepOK == ASSUME PlacesAssumption, IInv, [Next]_vars PROVE IInv'
BY FollowKeeps, GoToKeeps, UploadKeeps, PressKeeps, SignKeeps, AnswerKeeps, TimerKeeps, JobKeeps,
   LoadKeeps, TickKeeps, RunAgainKeeps, ReloadKeeps, FinishKeeps, SignedKeeps, StutterKeeps DEF Next, Handler

\* The review page shows the draft of the resume in its address, and no private page is
\* shown without a user, whatever answers, polls and buttons of former pages come late,
\* for any number of resumes, handlers and things the user does (render, loadReview).
THEOREM ReviewsAreTheirOwn == Spec => []ReviewShowsItsDraft
<1>1. IInv => ReviewShowsItsDraft
  BY DEF IInv, ContentInv, ReviewShowsItsDraft
<1> QED BY <1>1, InitOK, StepOK, PlacesAssumption, PTL DEF Spec

-----------------------------------------------------------------------------
(* Types: what a button, a poll or a change is about is a thing.                   *)

Lists == {"resumes", "jobs", "applications"}

Named(p) == p.view \in AboutThings => p.of \in Things

\* A page that is about something was given its name by a page or a button that had it,
\* or by the address; only a call whose place has one offers something to press.
SlotNamed(c) ==
  /\ c.kind \in Acts \cup {"tick", "upload"} => c.of \in Things
  /\ c.kind = "load" /\ c.view \notin Lists => c.of \in Things
  /\ c.stage = "none" <=> c.kind = "none"
  /\ c.stage = "timer" => c.kind = "tick"

ContentNamed ==
  /\ \A b \in buttons : b.of \in Things
  /\ content.what = "approved" => content.of \in Things
  /\ content.what = "data" /\ page.view = "upload" => content.of \in Things

HistoryNamed(h) == HistoryType(h) /\ \A n \in 1 .. Len(h.pages) : Named(h.pages[n])

NameInv ==
  /\ HistoryNamed(history)
  /\ ContentNamed
  /\ \A k \in Slots : SlotNamed(slots[k])
  /\ handle \in 0 .. MaxCalls
  /\ runs \subseteq Things

Calling == Acts \cup {"load", "tick", "upload", "login", "logout"}

LEMMA CallNamed ==
  ASSUME NEW kind \in Calling, NEW p, NEW at,
         kind \in Acts \cup {"tick", "upload"} => p.of \in Things,
         kind = "load" /\ p.view \notin Lists => p.of \in Things
  PROVE  SlotNamed(Call(kind, p, at))
BY DEF SlotNamed, Call, Calling, Acts

LEMMA IdleNamed == SlotNamed(Idle)
BY DEF SlotNamed, Idle, Acts

LEMMA ClearedNamed ==
  ASSUME NEW S \in [Slots -> SlotType], \A k \in Slots : SlotNamed(S[k])
  PROVE  \A k \in Slots : SlotNamed(Cleared(S)[k])
<1> QED BY ClearedFacts, IdleNamed

LEMMA DetachedNamed ==
  ASSUME NEW S \in [Slots -> SlotType], \A k \in Slots : SlotNamed(S[k])
  PROVE  \A k \in Slots : SlotNamed(Detached(S)[k])
<1> SUFFICES ASSUME NEW k \in Slots PROVE SlotNamed(Detached(S)[k])
  OBVIOUS
<1>1. /\ Detached(S)[k].kind = S[k].kind /\ Detached(S)[k].view = S[k].view
      /\ Detached(S)[k].of = S[k].of /\ Detached(S)[k].stage = S[k].stage
  BY DEF Detached, SlotType
<1> QED BY <1>1 DEF SlotNamed

LEMMA HistoryNames ==
  ASSUME IInv, NameInv
  PROVE  /\ Named(page)
         /\ \A n \in 1 .. Len(history.pages) : HistoryNamed([history EXCEPT !.at = n])
         /\ \A p \in Pages : Named(p) => HistoryNamed(Pushed(p)) /\ HistoryNamed(Replaced(p))
<1>1. /\ history \in [pages : Seq(Pages), at : Nat] /\ history.at \in 1 .. Len(history.pages)
      /\ Len(history.pages) \in Nat
      /\ \A n \in 1 .. Len(history.pages) : Named(history.pages[n])
  BY LenProperties DEF NameInv, HistoryNamed, HistoryType
<1>2. Named(page) /\ \A n \in 1 .. Len(history.pages) : HistoryNamed([history EXCEPT !.at = n])
  <2>1. \A n \in 1 .. Len(history.pages) : [history EXCEPT !.at = n].pages = history.pages
    BY <1>1
  <2> QED BY <1>1, <2>1, HistoryFacts DEF page, HistoryNamed, IInv
<1>3. ASSUME NEW p \in Pages, Named(p) PROVE HistoryNamed(Replaced(p))
  <2>1. Replaced(p).pages = [history.pages EXCEPT ![history.at] = p]
    BY <1>1 DEF Replaced
  <2>2. /\ Len(Replaced(p).pages) = Len(history.pages)
        /\ \A n \in 1 .. Len(history.pages) : Replaced(p).pages[n] = IF n = history.at THEN p ELSE history.pages[n]
    BY <1>1, <2>1, ExceptSeq
  <2> QED BY <1>1, <1>3, <2>2, HistoryFacts DEF HistoryNamed, IInv
<1>4. ASSUME NEW p \in Pages, Named(p) PROVE HistoryNamed(Pushed(p))
  <2> DEFINE s == SubSeq(history.pages, 1, history.at)
  <2>1. \A i \in 1 .. history.at : history.pages[i] \in Pages
    BY <1>1, ElementOfSeq
  <2>2. s \in Seq(Pages) /\ Len(s) = history.at /\ \A i \in 1 .. history.at : s[i] = history.pages[i]
    BY <1>1, <2>1, SubSeqProperties
  <2>3. Pushed(p).pages = Append(s, p)
    BY DEF Pushed
  <2> HIDE DEF s
  <2>4. Len(Append(s, p)) = history.at + 1 /\ \A i \in 1 .. history.at + 1 : Named(Append(s, p)[i])
    BY <1>1, <1>4, <2>2, AppendProperties
  <2> QED BY <1>4, <2>3, <2>4, HistoryFacts DEF HistoryNamed, IInv
<1> QED BY <1>2, <1>3, <1>4

LEMMA RenderNames ==
  ASSUME PlacesAssumption, NEW h, HistoryNamed(h), NEW u \in BOOLEAN, NEW S \in [Slots -> SlotType],
         \A j \in Slots : SlotNamed(S[j]),
         NEW timer \in 0 .. MaxCalls, NEW k \in Slots, Render(h, u, S, timer, k), runs' \subseteq Things
  PROVE  NameInv'
<1> DEFINE p == h.pages[h.at]
           shown == IF u \/ p.view \in Public THEN p ELSE Place("login", Nothing)
           kept == Detached(IF shown = p THEN S ELSE Cleared(S))
           loads == shown.view \in (KeepsContainer \cup LooksUpAgain) \ {"upload"}
<1>1. /\ h \in [pages : Seq(Pages), at : Nat] /\ h.at \in 1 .. Len(h.pages) /\ Len(h.pages) \in Nat
      /\ p \in Pages /\ Named(p)
  BY ElementOfSeq, LenProperties DEF HistoryNamed, HistoryType
<1>2. Named(Place("login", Nothing)) /\ Place("login", Nothing) \in Pages
  BY PlaceTypes DEF Named, Place, AboutThings, Views, Public
<1>3. /\ history' = [h EXCEPT !.pages[h.at] = shown]
      /\ content' = [what |-> IF loads THEN "loading" ELSE "form", of |-> shown.of]
      /\ buttons' = {}
      /\ slots' = IF loads THEN [kept EXCEPT ![k] = Call("load", shown, "here")] ELSE kept
      /\ handle' = IF shown = p THEN timer ELSE 0
  BY DEF Render
<1>4. shown \in Pages /\ Named(shown)
  BY <1>1, <1>2
<1>5. \A j \in Slots : SlotNamed(kept[j])
  <2>1. /\ Cleared(S) \in [Slots -> SlotType]
        /\ \A j \in Slots : SlotNamed(Cleared(S)[j])
    BY ClearedFacts, ClearedNamed
  <2>2. /\ \A j \in Slots : SlotNamed(Detached(S)[j])
        /\ \A j \in Slots : SlotNamed(Detached(Cleared(S))[j])
    BY <2>1, DetachedNamed
  <2> HIDE DEF shown, p
  <2> QED BY <2>2
<1>6. kept \in [Slots -> SlotType]
  BY ClearedFacts, DetachedFacts
<1>7. loads => SlotNamed(Call("load", shown, "here"))
  <2>1. shown.view \in AboutThings => shown.of \in Things
    BY <1>4 DEF Named
  <2>2. loads => shown.view \in AboutThings \cup Lists
    BY DEF KeepsContainer, LooksUpAgain, AboutThings, Lists
  <2> HIDE DEF shown, loads
  <2> QED BY <2>1, <2>2 DEF SlotNamed, Call, Acts
<1> HIDE DEF kept, shown
<1>8. \A j \in Slots : SlotNamed(slots'[j])
  BY <1>3, <1>5, <1>6, <1>7
<1>9. HistoryNamed(history')
  <2>1. /\ [h.pages EXCEPT ![h.at] = shown] \in Seq(Pages) /\ Len([h.pages EXCEPT ![h.at] = shown]) = Len(h.pages)
        /\ \A n \in 1 .. Len(h.pages) : [h.pages EXCEPT ![h.at] = shown][n] = IF n = h.at THEN shown ELSE h.pages[n]
    BY <1>1, <1>4, ExceptSeq
  <2>2. history' = [pages |-> [h.pages EXCEPT ![h.at] = shown], at |-> h.at]
    BY <1>1, <1>3
  <2>3. \A n \in 1 .. Len(h.pages) : Named(h.pages[n])
    BY DEF HistoryNamed
  <2> QED BY <1>1, <1>4, <2>1, <2>2, <2>3 DEF HistoryNamed, HistoryType
<1>10. ContentNamed'
  BY <1>3 DEF ContentNamed
<1>11. handle' \in 0 .. MaxCalls
  BY <1>3, PlacesAssumption
<1> QED BY <1>8, <1>9, <1>10, <1>11 DEF NameInv

LEMMA NavigateNames ==
  ASSUME PlacesAssumption, NEW h, HistoryNamed(h), NEW u \in BOOLEAN, NEW S \in [Slots -> SlotType],
         \A j \in Slots : SlotNamed(S[j]), NEW k \in Slots, Navigate(h, u, S, k), runs' \subseteq Things
  PROVE  NameInv'
<1>1. Cleared(S) \in [Slots -> SlotType] /\ \A j \in Slots : SlotNamed(Cleared(S)[j])
  BY ClearedFacts, ClearedNamed
<1>2. Render(h, u, Cleared(S), 0, k) /\ 0 \in 0 .. MaxCalls
  BY PlacesAssumption DEF Navigate
<1> QED BY <1>1, <1>2, RenderNames

LEMMA WriteNames ==
  ASSUME ContentNamed, UNCHANGED history, NEW at, NEW what, NEW of, NEW new, Write(at, what, of, new),
         at = "here" => \/ of \in Things
                        \/ new = {} /\ what # "approved" /\ (page.view = "upload" => what # "data")
  PROVE  ContentNamed'
<1>1. CASE at = "here"
  <2>1. content' = [what |-> what, of |-> of] /\ buttons' = {Listener(a, of, "here") : a \in new}
    BY <1>1 DEF Write
  <2>2. \A b \in buttons' : b.of = of /\ new # {}
    BY <2>1 DEF Listener
  <2>3. page' = page
    BY DEF page
  <2> QED BY <1>1, <2>1, <2>2, <2>3 DEF ContentNamed
<1>2. CASE at # "here"
  BY <1>2 DEF Write, ContentNamed, page
<1> QED BY <1>1, <1>2

LEMMA BindNames ==
  ASSUME ContentNamed, UNCHANGED <<history, content>>, NEW of \in Things, NEW new,
         buttons' = buttons \cup {Listener(a, of, "gone") : a \in new}
  PROVE  ContentNamed'
BY DEF ContentNamed, Listener, page

\* A step that stays on the page: the slots it leaves alone, and those it gives a call.
LEMMA StayNames ==
  ASSUME NameInv, UNCHANGED history, ContentNamed', \A j \in Slots : slots'[j] = slots[j] \/ SlotNamed(slots'[j]),
         handle' \in 0 .. MaxCalls, runs' \subseteq Things
  PROVE  NameInv'
BY DEF NameInv, SlotNamed, HistoryNamed, HistoryType

-----------------------------------------------------------------------------
(* Types, for what the user and the server do.                                   *)

\* What a step of the page keeps of its slots and its timer.
LEMMA SlotNames ==
  ASSUME IInv, NameInv, NEW k \in Slots
  PROVE  /\ slots \in [Slots -> SlotType] /\ SlotNamed(slots[k]) /\ k \in 0 .. MaxCalls
         /\ \A j \in Slots : SlotNamed(slots[j]) /\ SlotNamed(Cleared(slots)[j])
         /\ \A j \in Slots : SlotNamed(Done(k)[j]) /\ SlotNamed(Cleared(Done(k))[j])
<1>1. slots \in [Slots -> SlotType] /\ \A j \in Slots : SlotNamed(slots[j])
  BY DEF IInv, PageType, NameInv
<1>2. Done(k) \in [Slots -> SlotType] /\ \A j \in Slots : SlotNamed(Done(k)[j])
  BY <1>1, SlotFacts, IdleNamed
<1>3. k \in 0 .. MaxCalls
  BY PlacesAssumption DEF Slots
<1> QED BY <1>1, <1>2, <1>3, ClearedNamed

LEMMA FollowNames == ASSUME PlacesAssumption, IInv, NameInv, NEW p \in Links, Follow(p) PROVE NameInv'
<1>1. p \in Pages /\ Named(p)
  <2>1. content.of \in Owners
    BY DEF IInv, ContentInv
  <2>2. p \in Pages
    BY <2>1, PlaceTypes DEF Links, Views, Public, KeepsContainer, LooksUpAgain
  <2>3. \/ p.view \in {"login", "signup", "resumes", "dashboard", "upload"}
        \/ p.of \in Things
    BY DEF Links, Place, NameInv, ContentNamed
  <2> QED BY <2>2, <2>3 DEF Named, AboutThings
<1>2. Navigate(Pushed(p), user, slots, NextFree) /\ NextFree \in Slots /\ runs' = runs
  BY FreeSlot DEF Follow
<1>3. HistoryNamed(Pushed(p))
  BY <1>1, HistoryNames
<1> QED BY <1>2, <1>3, NavigateNames DEF IInv, PageType, NameInv

LEMMA GoToNames == ASSUME PlacesAssumption, IInv, NameInv, NEW n \in 1 .. Len(history.pages), GoTo(n) PROVE NameInv'
<1>1. HistoryNamed([history EXCEPT !.at = n])
  BY HistoryNames
<1>2. Render([history EXCEPT !.at = n], user, slots, handle, NextFree) /\ NextFree \in Slots /\ runs' = runs
  BY FreeSlot DEF GoTo
<1> QED BY <1>1, <1>2, RenderNames DEF IInv, PageType, NameInv

LEMMA UploadNames == ASSUME IInv, NameInv, NEW r \in Things, Upload(r) PROVE NameInv'
<1> DEFINE c == Call("upload", Place("upload", r), "here")
<1>1. /\ slots' = [slots EXCEPT ![NextFree] = c] /\ UNCHANGED <<history, handle, runs>>
      /\ Write("here", "loading", r, {})
  BY DEF Upload
<1>2. SlotNamed(c)
  BY DEF SlotNamed, Call, Place, Acts
<1> HIDE DEF c
<1>3. ContentNamed'
  BY <1>1, WriteNames DEF NameInv
<1>4. \A j \in Slots : slots'[j] = slots[j] \/ SlotNamed(slots'[j])
  BY <1>1, <1>2 DEF IInv, PageType
<1> QED BY <1>1, <1>3, <1>4, StayNames DEF NameInv

LEMMA PressNames == ASSUME IInv, NameInv, NEW act \in Present, Press(act) PROVE NameInv'
<1> DEFINE pressed == {b \in buttons : b.act = act}
           slot == CHOOSE f \in [pressed -> Free] : \A b, c \in pressed : f[b] = f[c] => b = c
           S == IF act = "run" THEN Cleared(slots) ELSE slots
           Started(k) == \E b \in pressed : slot[b] = k
           The(k) == CHOOSE b \in pressed : slot[b] = k
<1>1. /\ slots' = [k \in Slots |-> IF Started(k) THEN Starts(act, The(k)) ELSE S[k]]
      /\ IF Clears(act) THEN Write("here", "loading", content.of, {}) ELSE UNCHANGED <<content, buttons>>
      /\ UNCHANGED history
      /\ runs' = IF act = "run" THEN runs \cup {b.of : b \in pressed} ELSE runs
      /\ handle' = IF act = "run" THEN 0 ELSE handle
  BY DEF Press
<1> HIDE DEF slot
<1>2. \A k \in Slots : Started(k) => The(k) \in pressed
  OBVIOUS
<1> HIDE DEF Started, The
<1>3. \A k \in Slots : SlotNamed(S[k])
  BY SlotNames
<1> HIDE DEF S
<1>4. act \in Acts /\ \A b \in pressed : b.of \in Things
  BY DEF Present, IInv, ContentInv, NameInv, ContentNamed
<1>5. ASSUME NEW b \in pressed PROVE SlotNamed(Starts(act, b))
  BY <1>4 DEF Starts, SlotNamed, Call, Place, Acts
<1>6. \A j \in Slots : slots'[j] = slots[j] \/ SlotNamed(slots'[j])
  BY <1>1, <1>2, <1>3, <1>5
<1>7. ContentNamed'
  <2>1. ContentNamed
    BY DEF NameInv
  <2>2. CASE Clears(act)
    BY <1>1, <2>1, <2>2, WriteNames
  <2>3. CASE ~Clears(act)
    BY <1>1, <2>1, <2>3 DEF ContentNamed, page
  <2> QED BY <2>2, <2>3
<1>8. runs' \subseteq Things /\ handle' \in 0 .. MaxCalls
  BY <1>1, <1>4, PlacesAssumption DEF NameInv
<1> QED BY <1>1, <1>6, <1>7, <1>8, StayNames

LEMMA SignNames == ASSUME IInv, NameInv, Sign PROVE NameInv'
<1> DEFINE kind == IF page.view \in Public THEN "login" ELSE "logout"
           c == Call(kind, page, "here")
<1>1. slots' = [slots EXCEPT ![NextFree] = c] /\ UNCHANGED <<history, content, buttons, handle, runs>>
  BY DEF Sign
<1>2. SlotNamed(c)
  BY DEF SlotNamed, Call, Acts
<1> HIDE DEF c
<1>3. \A j \in Slots : slots'[j] = slots[j] \/ SlotNamed(slots'[j])
  BY <1>1, <1>2 DEF IInv, PageType
<1> QED BY <1>1, <1>3, StayNames DEF NameInv, ContentNamed, page

\* Only the stage of a slot changes, to one that its kind may have.
LEMMA StageNames ==
  ASSUME IInv, NameInv, NEW k \in Slots, slots[k].stage # "none",
         NEW stage, stage # "none", stage = "timer" => slots[k].kind = "tick",
         slots' = [slots EXCEPT ![k].stage = stage],
         UNCHANGED <<history, runs>>, ContentNamed', handle' \in 0 .. MaxCalls
  PROVE  NameInv'
<1> DEFINE c == [slots[k] EXCEPT !.stage = stage]
<1>1. slots[k] \in SlotType /\ SlotNamed(slots[k]) /\ slots \in [Slots -> SlotType]
  BY SlotNames DEF IInv, PageType
<1>2. /\ c.kind = slots[k].kind /\ c.view = slots[k].view
      /\ c.of = slots[k].of /\ c.stage = stage
  BY <1>1 DEF SlotType
<1>3. slots' = [slots EXCEPT ![k] = c]
  OBVIOUS
<1> HIDE DEF c
<1>4. SlotNamed(c)
  BY <1>1, <1>2 DEF SlotNamed
<1>5. \A j \in Slots : slots'[j] = slots[j] \/ SlotNamed(slots'[j])
  BY <1>1, <1>3, <1>4
<1> QED BY <1>5, StayNames DEF NameInv

LEMMA AnswerNames == ASSUME IInv, NameInv, NEW k \in Slots, Answer(k) PROVE NameInv'
<1> DEFINE c == slots[k]
           retries == c.kind \in {"rerun", "again", "retry"}
           reply == IF retries \/ c.of = Nothing THEN "queued" ELSE job[c.of]
<1>1. /\ slots' = [slots EXCEPT ![k].stage = reply] \/ slots' = [slots EXCEPT ![k].stage = "error"]
      /\ UNCHANGED <<history, content, buttons, handle, runs>>
      /\ slots[k].stage = "sent"
  BY DEF Answer
<1>2. reply \in JobStatuses
  BY DEF IInv, PageType, SlotType, Owners, JobStatuses
<1>3. reply # "none" /\ reply # "timer"
  BY <1>2 DEF JobStatuses
<1>4. ContentNamed' /\ handle' \in 0 .. MaxCalls
  BY <1>1 DEF NameInv, ContentNamed, page
<1> HIDE DEF reply
<1> QED BY <1>1, <1>3, <1>4, StageNames

LEMMA TimerNames == ASSUME IInv, NameInv, NEW k \in Slots, TimerFires(k) PROVE NameInv'
<1>1. ContentNamed' /\ handle' \in 0 .. MaxCalls
  BY DEF NameInv, ContentNamed, page, TimerFires
<1> QED BY <1>1, StageNames DEF TimerFires

LEMMA JobNames == ASSUME IInv, NameInv, NEW r \in Things, JobMoves(r) PROVE NameInv'
<1>1. UNCHANGED <<history, content, buttons, slots, handle>> /\ runs' \subseteq runs
  BY DEF JobMoves
<1> QED BY <1>1, StayNames DEF NameInv, ContentNamed, page

-----------------------------------------------------------------------------
(* Types, for what the handlers do with an answer.                                *)

\* A handler that is over, or that hands its slot to another call.
LEMMA HandedNames ==
  ASSUME IInv, NameInv, NEW k \in Slots, NEW c, SlotNamed(c),
         \/ slots' = [slots EXCEPT ![k] = c]
         \/ slots' = [Cleared(slots) EXCEPT ![k] = c]
         \/ slots' = Done(k) \/ slots' = Cleared(Done(k)),
         UNCHANGED history, ContentNamed', handle' \in {0, handle}, runs' \subseteq Things
  PROVE  NameInv'
<1>1. slots \in [Slots -> SlotType] /\ Cleared(slots) \in [Slots -> SlotType]
  BY ClearedFacts DEF IInv, PageType
<1>2. \A j \in Slots : SlotNamed(slots'[j])
  BY <1>1, SlotNames
<1>3. handle' \in 0 .. MaxCalls
  BY PlacesAssumption DEF NameInv
<1> QED BY <1>2, <1>3, StayNames

LEMMA LoadNames == ASSUME IInv, NameInv, NEW k \in Slots, Load(k) PROVE NameInv'
<1> DEFINE c == slots[k]
           at == ContainerOf(c)
           polls == c.view = "preview" /\ c.stage = "running" /\ at # "null"
<1>1. /\ c.kind = "load"
      /\ IF c.stage # "error" /\ at = "gone"
         THEN /\ buttons' = buttons \cup {Listener(a, c.of, "gone") : a \in Binds(c.view) \cap Present}
              /\ UNCHANGED content
         ELSE IF c.stage = "error" THEN Write(at, "error", c.of, {})
                                   ELSE Write(at, "data", c.of, Offers(c.view, c.stage))
      /\ slots' = IF polls THEN [slots EXCEPT ![k] = Call("tick", c, at)] ELSE Done(k)
      /\ UNCHANGED <<history, handle, runs>>
  BY DEF Load, Answered
<1>2. c \in SlotType /\ SlotOK(c) /\ SlotNamed(c)
  BY SlotFacts, SlotNames
<1>3. c.view \in KeepsContainer => c.of \in Things
  BY <1>1, <1>2 DEF KeepsContainer, Lists, SlotNamed
<1>4. Offers(c.view, c.stage) = {} \/ c.of \in Things
  BY <1>1, <1>2 DEF Offers, Lists, SlotNamed
<1>5. at = "here" /\ page.view = "upload" => c.of \in Things
  <2>1. CASE c.view \in LooksUpAgain
    BY <2>1 DEF ContainerOf, LookedUp, LooksUpAgain
  <2>2. CASE c.view \notin LooksUpAgain
    BY <1>1, <1>2, <1>3, <2>2 DEF ContainerOf, SlotOK, KeepsContainer
  <2> QED BY <2>1, <2>2
<1>6. at = "gone" => c.of \in Things
  <2>1. c.view \in LooksUpAgain => at # "gone"
    BY DEF ContainerOf, LookedUp
  <2>2. c.view \notin LooksUpAgain => c.view \notin Lists
    BY DEF LooksUpAgain, Lists
  <2> QED BY <1>1, <1>2, <2>1, <2>2 DEF SlotNamed
<1> HIDE DEF c, at
<1>7. ContentNamed'
  <2>1. ContentNamed /\ UNCHANGED history
    BY <1>1 DEF NameInv
  <2>2. CASE c.stage # "error" /\ at = "gone"
    BY <1>1, <1>6, <2>1, <2>2, BindNames
  <2>3. CASE c.stage = "error"
    BY <1>1, <2>1, <2>3, WriteNames
  <2>4. CASE c.stage # "error" /\ at # "gone"
    BY <1>1, <1>4, <1>5, <2>1, <2>4, WriteNames
  <2> QED BY <2>2, <2>3, <2>4
<1>8. CASE polls
  <2>1. c.of \in Things
    BY <1>3, <1>8 DEF KeepsContainer
  <2>2. SlotNamed(Call("tick", c, at))
    BY <2>1 DEF SlotNamed, Call, Acts
  <2> QED BY <1>1, <1>7, <1>8, <2>2, HandedNames DEF NameInv
<1>9. CASE ~polls
  BY <1>1, <1>7, <1>9, HandedNames, IdleNamed DEF NameInv
<1> QED BY <1>8, <1>9

LEMMA TickNames == ASSUME PlacesAssumption, IInv, NameInv, NEW k \in Slots, Tick(k) PROVE NameInv'
<1> DEFINE c == slots[k]
<1>1. c \in SlotType /\ SlotNamed(c) /\ c.kind = "tick" /\ c.of \in Things /\ runs' = runs
      /\ c.stage # "none" /\ k \in 0 .. MaxCalls
  BY SlotFacts, SlotNames DEF Tick, Answered, SlotNamed
<1>2. CASE Navigate(Replaced(Place("review", c.of)), user, Done(k), k)
  <2>1. Place("review", c.of) \in Pages /\ Named(Place("review", c.of))
    BY <1>1, PlaceTypes DEF Views, KeepsContainer, Owners, Named
  <2>2. HistoryNamed(Replaced(Place("review", c.of)))
    BY <2>1, HistoryNames
  <2>3. Done(k) \in [Slots -> SlotType] /\ \A j \in Slots : SlotNamed(Done(k)[j])
    BY SlotFacts, SlotNames
  <2> QED BY <1>1, <1>2, <2>2, <2>3, NavigateNames DEF IInv, PageType, NameInv
<1>3. CASE /\ c.stage = "failed"
           /\ IF c.at = "gone"
              THEN /\ buttons' = buttons \cup {Listener(a, c.of, "gone") : a \in {"again"} \cap Present}
                   /\ UNCHANGED content
              ELSE Write(c.at, "failed", c.of, {"again"})
           /\ slots' = Cleared(Done(k)) /\ handle' = 0 /\ UNCHANGED <<user, history>>
  <2>1. ContentNamed /\ UNCHANGED history
    BY <1>3 DEF NameInv
  <2> HIDE DEF c
  <2>2. CASE c.at = "gone"
    <3>1. ContentNamed'
      BY <1>1, <1>3, <2>1, <2>2, BindNames
    <3> QED BY <1>1, <1>3, <3>1, HandedNames, IdleNamed DEF NameInv
  <2>3. CASE c.at # "gone"
    <3>1. ContentNamed'
      BY <1>1, <1>3, <2>1, <2>3, WriteNames
    <3> QED BY <1>1, <1>3, <3>1, HandedNames, IdleNamed DEF NameInv
  <2> QED BY <2>2, <2>3
<1>4. CASE /\ c.stage = "error" /\ Write(c.at, "error", c.of, {})
           /\ slots' = Cleared(Done(k)) /\ handle' = 0 /\ UNCHANGED <<user, history>>
  <2>1. ContentNamed'
    BY <1>1, <1>4, WriteNames DEF NameInv
  <2> QED BY <1>1, <1>4, <2>1, HandedNames, IdleNamed DEF NameInv
<1>5. CASE /\ Write(c.at, "progress", c.of, {})
           /\ slots' = [slots EXCEPT ![k].stage = "timer"] /\ handle' = k /\ UNCHANGED <<user, history>>
  <2>1. ContentNamed'
    BY <1>1, <1>5, WriteNames DEF NameInv
  <2> QED BY <1>1, <1>5, <2>1, StageNames
<1> QED BY <1>2, <1>3, <1>4, <1>5 DEF Tick

LEMMA RunAgainNames == ASSUME IInv, NameInv, NEW k \in Slots, RunAgain(k) PROVE NameInv'
<1> DEFINE c == slots[k]
<1>1. SlotNamed(c) /\ c.of \in Things /\ UNCHANGED history
  BY SlotNames DEF RunAgain, Answered, SlotNamed, Acts
<1>2. CASE c.stage = "error"
  <2>1. slots' = Done(k) /\ UNCHANGED <<content, buttons, handle, runs>>
    BY <1>2 DEF RunAgain
  <2>2. ContentNamed'
    BY <1>1, <2>1 DEF NameInv, ContentNamed, page
  <2> QED BY <1>1, <2>1, <2>2, HandedNames, IdleNamed DEF NameInv
<1>3. CASE c.stage # "error"
  <2>1. /\ slots' = [Cleared(slots) EXCEPT ![k] = Call("tick", c, c.at)] /\ Write(c.at, "loading", c.of, {})
        /\ handle' = 0 /\ runs' = runs \cup {c.of}
    BY <1>3 DEF RunAgain
  <2>2. ContentNamed'
    BY <1>1, <2>1, WriteNames DEF NameInv
  <2>3. SlotNamed(Call("tick", c, c.at))
    BY <1>1 DEF SlotNamed, Call, Acts
  <2>4. runs' \subseteq Things
    BY <1>1, <2>1 DEF NameInv
  <2> QED BY <1>1, <2>1, <2>2, <2>3, <2>4, HandedNames
<1> QED BY <1>2, <1>3

LEMMA ReloadNames == ASSUME IInv, NameInv, NEW k \in Slots, Reload(k) PROVE NameInv'
<1> DEFINE c == slots[k]
           view == IF c.kind = "retry" THEN "preview" ELSE c.view
           d == Call("load", Place(view, c.of), LookedUp(view))
<1>1. SlotNamed(c) /\ c.of \in Things
  BY SlotNames DEF Reload, Answered, SlotNamed, Acts
<1>2. /\ UNCHANGED <<history, handle, runs>>
      /\ slots' = IF c.stage = "error" THEN Done(k) ELSE [slots EXCEPT ![k] = d]
      /\ IF c.kind = "upload" THEN Write(c.at, IF c.stage = "error" THEN "error" ELSE "loading", c.of, {})
                              ELSE UNCHANGED <<content, buttons>>
  BY DEF Reload
<1>3. SlotNamed(d)
  BY <1>1 DEF SlotNamed, Call, Place, Acts
<1> HIDE DEF c, d
<1>4. ContentNamed'
  <2>1. ContentNamed
    BY DEF NameInv
  <2>2. CASE c.kind = "upload"
    BY <1>1, <1>2, <2>1, <2>2, WriteNames
  <2>3. CASE c.kind # "upload"
    BY <1>2, <2>1, <2>3 DEF ContentNamed, page
  <2> QED BY <2>2, <2>3
<1>5. runs' \subseteq Things /\ handle' = handle /\ UNCHANGED history
  BY <1>2 DEF NameInv
<1>6. CASE c.stage = "error"
  BY <1>2, <1>4, <1>5, <1>6, HandedNames, IdleNamed
<1>7. CASE c.stage # "error"
  BY <1>2, <1>3, <1>4, <1>5, <1>7, HandedNames
<1> QED BY <1>6, <1>7

LEMMA FinishNames == ASSUME PlacesAssumption, IInv, NameInv, NEW k \in Slots, Finish(k) PROVE NameInv'
<1> DEFINE c == slots[k]
<1>1. SlotNamed(c) /\ c.of \in Things /\ runs' = runs /\ runs \subseteq Things
  BY SlotNames DEF Finish, Answered, SlotNamed, Acts, NameInv
<1>2. CASE /\ Write(c.at, IF c.stage = "error" THEN "error" ELSE "approved", c.of, {})
           /\ slots' = Done(k) /\ UNCHANGED <<user, history, handle>>
  <2>1. ContentNamed'
    BY <1>1, <1>2, WriteNames DEF NameInv
  <2> QED BY <1>1, <1>2, <2>1, HandedNames, IdleNamed
<1>3. CASE slots' = Done(k) /\ UNCHANGED <<user, history, content, buttons, handle>>
  <2>1. ContentNamed'
    BY <1>3 DEF NameInv, ContentNamed, page
  <2> QED BY <1>1, <1>3, <2>1, HandedNames, IdleNamed
<1>4. CASE Navigate(Replaced(IF c.kind = "reject" THEN Place("resumes", Nothing)
                                                  ELSE Place(Created(c.view), c.of)), user, Done(k), k)
  <2>1. Created(c.view) \in Views /\ "resumes" \in Views
    BY DEF Created, Views, KeepsContainer, LooksUpAgain
  <2>2. Place("resumes", Nothing) \in Pages /\ Place(Created(c.view), c.of) \in Pages
    BY <1>1, <2>1, PlaceTypes DEF Owners
  <2>3. Named(Place("resumes", Nothing)) /\ Named(Place(Created(c.view), c.of))
    BY <1>1 DEF Named, Place, AboutThings
  <2>4. HistoryNamed(Replaced(IF c.kind = "reject" THEN Place("resumes", Nothing) ELSE Place(Created(c.view), c.of)))
    BY <2>2, <2>3, HistoryNames
  <2>5. Done(k) \in [Slots -> SlotType] /\ \A j \in Slots : SlotNamed(Done(k)[j])
    BY SlotFacts, SlotNames
  <2> QED BY <1>1, <1>4, <2>4, <2>5, NavigateNames DEF IInv, PageType
<1> QED BY <1>2, <1>3, <1>4 DEF Finish

LEMMA SignedNames == ASSUME PlacesAssumption, IInv, NameInv, NEW k \in Slots, Signed(k) PROVE NameInv'
<1>1. /\ HistoryNamed(Replaced(Place("dashboard", Nothing))) /\ HistoryNamed(Replaced(Place("login", Nothing)))
      /\ HistoryNamed(history)
  <2>1. Place("dashboard", Nothing) \in Pages /\ Place("login", Nothing) \in Pages
    BY PlaceTypes DEF Views, Public
  <2>2. Named(Place("dashboard", Nothing)) /\ Named(Place("login", Nothing))
    BY DEF Named, Place, AboutThings
  <2> QED BY <2>1, <2>2, HistoryNames DEF NameInv
<1>2. Done(k) \in [Slots -> SlotType] /\ (\A j \in Slots : SlotNamed(Done(k)[j])) /\ user \in BOOLEAN
  BY SlotFacts, SlotNames DEF IInv, PageType
<1>3. runs' \subseteq Things /\ handle \in 0 .. MaxCalls
  BY DEF Signed, NameInv
<1>4. CASE Navigate(Replaced(Place("dashboard", Nothing)), TRUE, Done(k), k)
  BY <1>1, <1>2, <1>3, <1>4, NavigateNames
<1>5. CASE Navigate(Replaced(Place("login", Nothing)), FALSE, Done(k), k)
  BY <1>1, <1>2, <1>3, <1>5, NavigateNames
<1>6. CASE Render(history, user, Done(k), handle, k)
  BY <1>1, <1>2, <1>3, <1>6, RenderNames
<1>7. CASE slots' = Done(k) /\ UNCHANGED <<user, history, content, buttons, handle>>
  <2>1. ContentNamed'
    BY <1>7 DEF NameInv, ContentNamed, page
  <2> QED BY <1>3, <1>7, <2>1, HandedNames, IdleNamed
<1> QED BY <1>4, <1>5, <1>6, <1>7 DEF Signed

-----------------------------------------------------------------------------
LEMMA InitNames == ASSUME PlacesAssumption, Init PROVE NameInv
<1> DEFINE loads(p) == p.view \in (KeepsContainer \cup LooksUpAgain) \ {"upload"}
<1>0. PICK p \in Places :
        /\ history = [pages |-> <<p>>, at |-> 1]
        /\ content = [what |-> IF loads(p) THEN "loading" ELSE "form", of |-> p.of]
        /\ slots = [k \in Slots |-> IF loads(p) /\ k = 1 THEN Call("load", p, "here") ELSE Idle]
  BY DEF Init
<1>1. Named(p)
  BY PlacesAssumption DEF Named
<1>2. loads(p) => SlotNamed(Call("load", p, "here"))
  <2>1. loads(p) => p.view \in AboutThings \cup Lists
    BY DEF KeepsContainer, LooksUpAgain, AboutThings, Lists
  <2> HIDE DEF loads
  <2> QED BY <1>1, <2>1 DEF SlotNamed, Call, Acts, Named
<1>3. \A k \in Slots : SlotNamed(slots[k])
  <2> HIDE DEF loads
  <2> QED BY <1>0, <1>2, IdleNamed
<1>4. HistoryNamed(history)
  <2>1. HistoryType(history)
    BY InitOK, HistoryFacts DEF IInv
  <2>2. Len(history.pages) = 1 /\ history.pages[1] = p
    BY <1>0
  <2> QED BY <1>1, <2>1, <2>2 DEF HistoryNamed
<1>5. ContentNamed
  BY <1>0 DEF Init, ContentNamed
<1>6. handle \in 0 .. MaxCalls /\ runs \subseteq Things
  BY PlacesAssumption DEF Init
<1> QED BY <1>3, <1>4, <1>5, <1>6 DEF NameInv

LEMMA StutterNames == ASSUME IInv, NameInv, UNCHANGED vars PROVE NameInv'
BY StayNames DEF vars, NameInv, ContentNamed, page

LEMMA StepNames == ASSUME PlacesAssumption, IInv, NameInv, [Next]_vars PROVE NameInv'
BY FollowNames, GoToNames, UploadNames, PressNames, SignNames, AnswerNames, TimerNames, JobNames,
   LoadNames, TickNames, RunAgainNames, ReloadNames, FinishNames, SignedNames, StutterNames DEF Next, Handler

LEMMA NamesAreTypes == ASSUME IInv, NameInv PROVE TypeOK
<1>1. /\ user \in BOOLEAN /\ history.at \in 1 .. Len(history.pages)
      /\ job \in [Things -> {"queued", "running", "succeeded", "failed"}] /\ content.of \in Things \cup {Nothing}
  BY DEF IInv, PageType, ContentInv, Owners, JobStatuses
<1>2. buttons \subseteq [act : {"approve", "reject", "rerun", "run", "retry", "again", "change", "create"},
                         of : Things, at : {"here", "gone"}]
  BY DEF IInv, ContentInv, NameInv, ContentNamed, Acts
<1>3. \A k \in Slots : (slots[k].stage = "none" <=> slots[k].kind = "none") /\ (slots[k].stage = "timer" => slots[k].kind = "tick")
  BY DEF NameInv, SlotNamed
<1> QED BY <1>1, <1>2, <1>3 DEF TypeOK, NameInv

\* Whatever the user opens and presses and whatever comes late: a button is of a thing the
\* page was opened for, so no call is made for a page that names none; only polls wait for
\* the timer; and the handle names a slot or nothing (render, loadReview, pollParseProgress).
THEOREM TypeCorrect == Spec => []TypeOK
<1>1. Init => IInv /\ NameInv
  BY InitOK, InitNames, PlacesAssumption
<1>2. (IInv /\ NameInv) /\ [Next]_vars => (IInv /\ NameInv)'
  BY StepOK, StepNames, PlacesAssumption
<1>3. IInv /\ NameInv => TypeOK
  BY NamesAreTypes
<1> QED BY <1>1, <1>2, <1>3, PTL DEF Spec
=============================================================================
