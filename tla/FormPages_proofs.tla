------------------------- MODULE FormPages_proofs ---------------------------
(***************************************************************************)
(* Proofs about the pages, and the parts of pages, that fill in forms,     *)
(* lists and menus: each page by itself, with an inductive invariant of    *)
(* its own. Module Pages_proofs puts them together.                        *)
(***************************************************************************)
EXTENDS SchedulePage, NotifyMenu, CircuitDialogs, TesterPage, CronWidget, WorkflowList,
        WorkflowForm, EditorCanvas, RolesPage, Integers, TLAPS

(***************************************************************************)
(* The calendar of a reservation. The dialog is of the event it was opened *)
(* for, and what is sent for the circuits ends after it starts, for days   *)
(* of any length and any number of events.                                 *)
(***************************************************************************)

Ordered(v) == v.finish # None => v.start < v.finish

\* An event of the calendar has no end or ends after it starts; that is what the
\* button of the last tab relies on when it sends the events as they are.
ScheduleInv ==
    /\ DialogIsOfTheEvent
    /\ \A e \in DOMAIN calendar : Ordered(calendar[e])

\* Whatever range the picker holds, the calendar makes an ordered event of it.
LEMMA NormalizedIsOrdered ==
    \A start, finish, allDay : Ordered(NormalizedEvent(start, finish, allDay))
BY DEF Ordered, NormalizedEvent

LEMMA OpenDialogKeeps ==
    ASSUME ScheduleInv, NEW event, NEW start, NEW finish,
           event # None => event \in DOMAIN calendar,
           OpenDialog(event, start, finish)
    PROVE  ScheduleInv'
BY DEF ScheduleInv, DialogIsOfTheEvent, OpenDialog, Ordered

LEMMA SaveEventKeeps ==
    ASSUME ScheduleInv, SaveEvent
    PROVE  ScheduleInv'
<1>1. /\ ~eventDialog'.open /\ posted' = posted
  BY DEF SaveEvent, HideDialog, Hidden
<1>2. \A e \in DOMAIN calendar' : Ordered(calendar'[e])
  <2> DEFINE V(allDay) ==
                NormalizedEvent(eventDialog.start, eventDialog.finish, allDay)
  <2>1. \A b : Ordered(V(b))
    BY NormalizedIsOrdered
  <2> HIDE DEF V
  <2>2. CASE currentEvent = None
    <3>1. calendar' = [e \in DOMAIN calendar \union {added'} |->
                          IF e = added' THEN V(FALSE) ELSE calendar[e]]
      BY <2>2 DEF SaveEvent, V
    <3> QED
      BY <3>1, <2>1 DEF ScheduleInv
  <2>3. CASE currentEvent # None
    <3>1. calendar' = [calendar EXCEPT ![currentEvent] =
                          V(calendar[currentEvent].allDay)]
      BY <2>3 DEF SaveEvent, V
    <3> QED
      BY <3>1, <2>1 DEF ScheduleInv
  <2> QED
    BY <2>2, <2>3
<1> QED
  BY <1>1, <1>2 DEF ScheduleInv, DialogIsOfTheEvent, Ordered

LEMMA RemoveEventKeeps ==
    ASSUME ScheduleInv, RemoveEvent
    PROVE  ScheduleInv'
BY DEF ScheduleInv, DialogIsOfTheEvent, RemoveEvent, HideDialog, Hidden, Ordered

LEMMA DragEventKeeps ==
    ASSUME ScheduleInv, NEW e, NEW t, NEW allDay, DragEvent(e, t, allDay)
    PROVE  ScheduleInv'
<1>1. PICK end : calendar' = [calendar EXCEPT ![e] = NormalizedEvent(t, end, allDay)]
  BY DEF DragEvent
<1>2. Ordered(NormalizedEvent(t, end, allDay))
  BY NormalizedIsOrdered
<1>3. \A f \in DOMAIN calendar' : Ordered(calendar'[f])
  BY <1>1, <1>2 DEF ScheduleInv
<1>4. ~eventDialog'.open /\ posted' = posted
  BY DEF DragEvent
<1> QED
  BY <1>3, <1>4 DEF ScheduleInv, DialogIsOfTheEvent, Ordered

\* The ranges are sent only if every event has an end.
LEMMA ConfirmScheduleKeeps ==
    ASSUME ScheduleInv, ConfirmSchedule
    PROVE  ScheduleInv'
<1>1. posted'.sent # None => \A r \in posted'.sent : r[1] < r[2]
  <2> SUFFICES ASSUME posted'.sent # None, NEW r \in posted'.sent
               PROVE  r[1] < r[2]
    OBVIOUS
  <2>1. PICK e \in DOMAIN calendar :
           /\ calendar[e].finish # None
           /\ r = <<calendar[e].start, calendar[e].finish>>
    BY DEF ConfirmSchedule
  <2> QED
    BY <2>1 DEF ScheduleInv, Ordered
<1> QED
  BY <1>1 DEF ScheduleInv, DialogIsOfTheEvent, ConfirmSchedule, Ordered

-----------------------------------------------------------------------------
\* Whatever was added, dragged, changed and removed before, the dialog changes
\* the event it was opened for, and what is sent ends after it starts.
THEOREM DialogOfItsEvent == ScheduleSpec => []DialogIsOfTheEvent
<1>1. ScheduleInit => ScheduleInv
  BY DEF ScheduleInit, ScheduleInv, DialogIsOfTheEvent, Hidden
<1>2. ScheduleInv /\ [ScheduleNext]_scheduleVars => ScheduleInv'
  <2> SUFFICES ASSUME ScheduleInv, [ScheduleNext]_scheduleVars PROVE ScheduleInv'
    OBVIOUS
  <2>1. ASSUME NEW t \in Hours, NEW b \in BOOLEAN, DayClick(t, b) PROVE ScheduleInv'
    BY <2>1, OpenDialogKeeps DEF DayClick
  <2>2. ASSUME NEW e, EventClick(e) PROVE ScheduleInv'
    BY <2>2, OpenDialogKeeps DEF EventClick
  <2>3. ASSUME NEW r \in Ranges, ChooseRange(r) PROVE ScheduleInv'
    BY <2>3 DEF ChooseRange, ScheduleInv, DialogIsOfTheEvent, Ordered
  <2>4. CASE CancelEvent
    BY <2>4 DEF CancelEvent, HideDialog, Hidden, ScheduleInv, DialogIsOfTheEvent, Ordered
  <2>5. CASE UNCHANGED scheduleVars
    BY <2>5 DEF scheduleVars, ScheduleInv, DialogIsOfTheEvent, Ordered
  <2> QED
    BY <2>1, <2>2, <2>3, <2>4, <2>5, SaveEventKeeps, RemoveEventKeeps,
       DragEventKeeps, ConfirmScheduleKeeps DEF ScheduleNext
<1>3. ScheduleInv => DialogIsOfTheEvent
  BY DEF ScheduleInv
<1> QED
  BY <1>1, <1>2, <1>3, PTL DEF ScheduleSpec

-----------------------------------------------------------------------------
(***************************************************************************)
(* The page of the workflows. A domain has one active workflow at most,    *)
(* whatever chains of requests run side by side.                           *)
(***************************************************************************)

\* While actionActive is between its two statements no workflow is active and
\* the server takes no other request of this user: that is what the second
\* statement relies on when it does not look again.
ListInv ==
    /\ AtMostOneActive
    /\ inDatabase \in [there : SUBSET Workflows, active : SUBSET Workflows]
    /\ enabling # None => inDatabase.active = {} /\ enabling \in inDatabase.there

\* A handler that leaves the database and the second statement of actionActive
\* alone keeps the invariant.
LEMMA PageKeeps ==
    ASSUME ListInv, UNCHANGED <<inDatabase, enabling>>
    PROVE  ListInv'
BY DEF ListInv, AtMostOneActive

\* Either all of actionActive or its first statement, which disables the only
\* workflow that is active.
LEMMA ActiveKeeps ==
    ASSUME ListInv, enabling = None, NEW w \in inDatabase.there, ActionActive(w)
    PROVE  ListInv'
<1>1. CASE inDatabase.active \in {{}, {w}}
  BY <1>1 DEF ListInv, AtMostOneActive, ActionActive
<1>2. CASE inDatabase.active \notin {{}, {w}}
  <2>1. PICK old \in inDatabase.active :
           /\ inDatabase' = [inDatabase EXCEPT !.active = @ \ {old}]
           /\ enabling' = w
    BY <1>2 DEF ActionActive
  <2>2. inDatabase.active \ {old} = {}
    BY <2>1 DEF ListInv, AtMostOneActive
  <2> QED
    BY <2>1, <2>2 DEF ListInv, AtMostOneActive
<1> QED
  BY <1>1, <1>2

LEMMA DisableKeeps ==
    ASSUME ListInv, enabling = None, NEW w, ActionDisable(w)
    PROVE  ListInv'
BY DEF ListInv, AtMostOneActive, ActionDisable

LEMMA DeleteKeeps ==
    ASSUME ListInv, enabling = None, NEW w, ActionDelete(w)
    PROVE  ListInv'
BY DEF ListInv, AtMostOneActive, ActionDelete

LEMMA FinishKeeps ==
    ASSUME ListInv, FinishActive
    PROVE  ListInv'
BY DEF ListInv, AtMostOneActive, FinishActive

\* The page of the workflows, for all workflows and any number of clicks: the
\* answers that a chain of requests has read may be old when the next request of
\* it is handled, but the domain never has two active workflows, nor one that was
\* deleted (WorkflowController::actionActive, actionDisable, actionDelete).
THEOREM SingleActive == ListSpec => []AtMostOneActive
<1>1. ListInit => ListInv
  BY DEF ListInit, ListInv, AtMostOneActive
<1>2. ListInv /\ [ListNext]_listVars => ListInv'
  <2> SUFFICES ASSUME ListInv, [ListNext]_listVars PROVE ListInv'
    OBVIOUS
  <2>1. ASSUME NEW w \in Workflows, Toggle(w) \/ DeleteClick(w) PROVE ListInv'
    BY <2>1, PageKeeps DEF Toggle, DeleteClick
  <2>2. ASSUME NEW r \in chain,
               \/ IsActiveOn(r) \/ HasOtherActive(r)
               \/ IsActiveOff(r) \/ IsActiveHidden(r) \/ IsActiveDelete(r)
        PROVE  ListInv'
    BY <2>2, PageKeeps
       DEF IsActiveOn, HasOtherActive, IsActiveOff, IsActiveHidden, IsActiveDelete
  <2>3. ASSUME NEW r \in chain, DisableOther(r) \/ Disable(r) PROVE ListInv'
    BY <2>3, DisableKeeps DEF DisableOther, Disable, Answer
  <2>4. ASSUME NEW r \in chain, Enable(r) PROVE ListInv'
    BY <2>4, ActiveKeeps DEF Enable, Answer
  <2>5. ASSUME NEW r \in chain, Delete(r) PROVE ListInv'
    BY <2>5, DeleteKeeps DEF Delete, Answer
  <2>6. ASSUME NEW confirmed \in BOOLEAN, HideDisable(confirmed) PROVE ListInv'
    BY <2>6, PageKeeps DEF HideDisable
  <2>7. CASE DeleteCancel \/ DeleteConfirm
    BY <2>7, PageKeeps DEF DeleteCancel, DeleteConfirm
  <2>8. CASE FinishActive
    BY <2>8, FinishKeeps
  <2>9. CASE UNCHANGED listVars
    BY <2>9, PageKeeps DEF listVars
  <2> QED
    BY <2>1, <2>2, <2>3, <2>4, <2>5, <2>6, <2>7, <2>8, <2>9 DEF ListNext
<1>3. ListInv => AtMostOneActive
  BY DEF ListInv
<1> QED
  BY <1>1, <1>2, <1>3, PTL DEF ListSpec

-----------------------------------------------------------------------------
(***************************************************************************)
(* The menu of notifications.  Of the requests for a page one is on its    *)
(* way at most, and it is the one that comes next: that is what            *)
(* waitingNext and count see to, unless the menu is opened again meanwhile.*)
(* An answer is of the rows as they were when the server read them; of     *)
(* these the steady ones have not changed since.                           *)
(***************************************************************************)

NoticePage == [told : Seq(Row), date : Nat, more : BOOLEAN]

NoticeRequest == [first : BOOLEAN, date : Nat, answers : SUBSET NoticePage]

\* From the newest to the oldest, and none twice.
WellTold(told) ==
    /\ told \in Seq(Row)
    /\ Newest(told)
    /\ \A i, j \in DOMAIN told : i # j => told[i] # told[j]

\* The answer is in order, starts where the request says, and leaves out of the
\* steady rows only those dated as its own or older than its last.
AnswersWell(r, a) ==
    /\ a \in NoticePage
    /\ WellTold(a.told)
    /\ ~r.first => \A i \in DOMAIN a.told : a.told[i].date < r.date
    /\ a.more => Len(a.told) > 0 /\ a.date = a.told[Len(a.told)].date
    /\ \A s \in steady : r.first \/ s.date < r.date =>
          \/ \E i \in DOMAIN a.told : a.told[i].date = s.date
          \/ a.more /\ s.date < a.date

\* The request r is for the page that the menu shows next.
ComesNext(r) ==
    /\ r \in NoticeRequest
    /\ \A a \in r.answers : AnswersWell(r, a)
    /\ IF r.first THEN Len(menu.content) = 0 /\ menu.count = 0
       ELSE menu.waitingNext /\ menu.count > 0 /\ r.date = menu.lastDate

MenuType ==
    /\ menu \in [open : BOOLEAN, content : Seq(Row), lastDate : Nat, count : Int,
                 waitingNext : BOOLEAN]
    /\ written \in SUBSET Row /\ steady \in SUBSET Row

MenuInOrder ==
    /\ MenuType
    /\ WellTold(menu.content)
    /\ menu.count > 0 =>
          Len(menu.content) > 0 /\ menu.lastDate = menu.content[Len(menu.content)].date
    /\ menu.count # 0 => \A r \in steady :
          Accounted(r) \/ (menu.count > 0 /\ r.date < menu.lastDate)
    /\ notices = << >> \/ \E r : notices = <<r>> /\ ComesNext(r)

MenuInv == overtaken \/ MenuInOrder

LEMMA NoNotices == << >> \in Seq(Row) /\ Len(<< >>) = 0 /\ DOMAIN << >> = {}
OBVIOUS

LEMMA RowDates == \A r \in Row : r.date \in Nat
BY NotifyAssumption DEF Row

\* Fewer steady rows, or none that was not steady: the same answers are good.
LEMMA ComesNextStays ==
    ASSUME NEW r, ComesNext(r), steady' \subseteq steady, UNCHANGED menu
    PROVE  ComesNext(r)'
<1>1. ASSUME NEW a \in r.answers PROVE AnswersWell(r, a)'
  BY <1>1 DEF ComesNext, AnswersWell, WellTold, Newest
<1> QED
  BY <1>1 DEF ComesNext

LEMMA RewriteKeeps ==
    ASSUME MenuInv, NEW rows \in SUBSET Row, Rewrite(rows)
    PROVE  MenuInv'
<1>1. /\ written' = rows /\ steady' = steady \intersect rows
      /\ UNCHANGED <<menu, notices, overtaken>>
  BY DEF Rewrite
<1> SUFFICES ASSUME ~overtaken PROVE MenuInOrder'
  BY <1>1 DEF MenuInv
<1>2. MenuInOrder
  BY DEF MenuInv
<1>3. MenuType' /\ WellTold(menu.content)'
  BY <1>1, <1>2 DEF MenuInOrder, MenuType, WellTold, Newest
<1>4. (notices = << >> \/ \E r : notices = <<r>> /\ ComesNext(r))'
  BY <1>1, <1>2, ComesNextStays DEF MenuInOrder
<1>5. (menu.count # 0 => \A r \in steady :
          Accounted(r) \/ (menu.count > 0 /\ r.date < menu.lastDate))'
  BY <1>1, <1>2 DEF MenuInOrder, Accounted
<1> QED
  BY <1>1, <1>2, <1>3, <1>4, <1>5 DEF MenuInOrder

LEMMA ToggleOpenKeeps ==
    ASSUME MenuInv, ToggleOpen
    PROVE  MenuInv'
<1> DEFINE r == GetAll(TRUE, 0)
<1>1. /\ menu' = [menu EXCEPT !.open = TRUE, !.content = << >>, !.count = 0]
      /\ notices' = Append(notices, r)
      /\ overtaken' = (overtaken \/ notices # << >>)
      /\ UNCHANGED <<written, steady>>
  BY DEF ToggleOpen
<1> SUFFICES ASSUME ~overtaken' PROVE MenuInOrder'
  BY DEF MenuInv
<1>2. MenuInOrder /\ notices = << >>
  BY <1>1 DEF MenuInv
<1>3. PICK empty \in Seq(Row) : empty = << >>
  BY NoNotices
<1>11. PICK zero \in Int : zero = 0
  OBVIOUS
<1>4. menu' = [menu EXCEPT !.open = TRUE, !.content = empty, !.count = zero]
  BY <1>1, <1>3, <1>11, Zenon
<1>5. /\ menu'.content = empty /\ menu'.count = zero
      /\ menu' \in [open : BOOLEAN, content : Seq(Row), lastDate : Nat, count : Int,
                    waitingNext : BOOLEAN]
  BY <1>2, <1>4 DEF MenuType, MenuInOrder
<1>6. Len(empty) = 0 /\ DOMAIN empty = {}
  BY <1>3
<1>7. MenuType' /\ WellTold(menu.content)'
  BY <1>1, <1>2, <1>5, <1>6 DEF MenuInOrder, MenuType, WellTold, Newest
<1>8. notices' = <<r>>
  BY <1>1, <1>2
<1>9. r \in NoticeRequest /\ r.first /\ r.answers = {}
  BY DEF NoticeRequest, GetAll
<1> HIDE DEF r
<1>10. ComesNext(r)'
  BY <1>3, <1>5, <1>6, <1>9, <1>11 DEF ComesNext
<1> QED
  BY <1>3, <1>5, <1>7, <1>8, <1>10, <1>11 DEF MenuInOrder

LEMMA ScrollKeeps ==
    ASSUME MenuInv, Scroll
    PROVE  MenuInv'
<1>9. PICK r : r = GetAll(FALSE, menu.lastDate)
  OBVIOUS
<1>1. /\ menu.count > 0 /\ ~menu.waitingNext
      /\ menu' = [menu EXCEPT !.waitingNext = TRUE]
      /\ notices' = Append(notices, r)
      /\ UNCHANGED <<overtaken, written, steady>>
  BY <1>9 DEF Scroll
<1> SUFFICES ASSUME ~overtaken PROVE MenuInOrder'
  BY <1>1 DEF MenuInv
<1>2. MenuInOrder
  BY DEF MenuInv
<1>3. /\ menu'.content = menu.content /\ menu'.count = menu.count
      /\ menu'.lastDate = menu.lastDate /\ menu'.waitingNext
      /\ MenuType'
  BY <1>1, <1>2 DEF MenuType, MenuInOrder
<1>4. notices = << >>
  BY <1>1, <1>2 DEF MenuInOrder, ComesNext, MenuType
<1>5. notices' = <<r>>
  BY <1>1, <1>4
<1>6. r \in NoticeRequest /\ ~r.first /\ r.answers = {} /\ r.date = menu.lastDate
  BY <1>2, <1>9 DEF NoticeRequest, GetAll, MenuInOrder, MenuType
<1>7. ComesNext(r)'
  BY <1>1, <1>3, <1>6 DEF ComesNext
<1>8. WellTold(menu.content)'
  BY <1>2, <1>3 DEF WellTold, Newest, MenuInOrder
<1> QED
  BY <1>1, <1>2, <1>3, <1>5, <1>7, <1>8 DEF MenuInOrder, Accounted

\* What the server answers is in order, and leaves out no row it need not.
LEMMA TellsWell ==
    ASSUME NEW rows \in SUBSET Row, NEW gone \in SUBSET rows,
           NEW n \in 0..PageSize, NEW told \in [1..n -> rows], Tells(rows, told, gone),
           NEW more, more = ~(rows \subseteq Range(told) \union gone)
    PROVE  LET a == Info(told, more) IN
           /\ a \in NoticePage /\ a.told = told /\ a.more = more
           /\ WellTold(told)
           /\ more => Len(told) > 0 /\ a.date = told[Len(told)].date
           /\ \A s \in rows \ gone :
                 \/ \E i \in DOMAIN told : told[i].date = s.date
                 \/ more /\ s.date < a.date
<1> DEFINE a == Info(told, more)
<1>1. n \in Nat /\ told \in Seq(rows) /\ told \in Seq(Row) /\ Len(told) = n /\ DOMAIN told = 1..n
  <2>1. n \in Nat
    BY NotifyAssumption
  <2> QED
    BY <2>1
<1>2. Range(told) = {told[i] : i \in DOMAIN told}
  BY DEF Range
<1>3. /\ a.told = told /\ a.more = more
      /\ a.date = IF told = << >> THEN 0 ELSE told[Len(told)].date
  BY DEF Info, Last
<1>4. n > 0 => told # << >> /\ told[n] \in Row /\ told[n].date \in Nat
  BY <1>1, RowDates
<1>5. a \in NoticePage
  <2>1. a.date \in Nat
    <3>1. CASE n = 0
      BY <1>1, <1>3, <3>1
    <3>2. CASE n > 0
      BY <1>1, <1>3, <1>4, <3>2
    <3> QED
      BY <1>1, <3>1, <3>2
  <2>2. PICK d \in Nat : d = a.date
    BY <2>1
  <2>3. a = [told |-> told, date |-> d, more |-> more] /\ more \in BOOLEAN
    BY <2>2 DEF Info
  <2> HIDE DEF a
  <2> QED
    BY <1>1, <2>3 DEF NoticePage
<1>6. WellTold(told)
  BY <1>1 DEF WellTold, Tells
<1>7. more => n = PageSize /\ n > 0
  <2>1. more => rows \ (Range(told) \union gone) # {}
    OBVIOUS
  <2>2. more => Len(told) = PageSize
    BY <2>1 DEF Tells
  <2> QED
    BY <1>1, <2>2, NotifyAssumption
<1>8. more => Len(told) > 0 /\ a.date = told[Len(told)].date
  BY <1>1, <1>3, <1>4, <1>7
<1>9. ASSUME NEW s \in rows \ gone, s \notin Range(told)
      PROVE  \/ \E i \in DOMAIN told : told[i].date = s.date
             \/ more /\ s.date < a.date
  <2>1. more /\ \A t \in Range(told) \union gone : t.date >= s.date
    BY <1>9 DEF Tells
  <2>2. a.date = told[n].date /\ told[n] \in Range(told) /\ n \in DOMAIN told
    BY <1>1, <1>2, <1>7, <1>8, <2>1
  <2>3. s.date \in Nat /\ told[n].date \in Nat
    BY <1>4, <1>7, <2>1, RowDates
  <2> HIDE DEF a
  <2> QED
    BY <2>1, <2>2, <2>3
<1> QED
  BY <1>2, <1>3, <1>5, <1>6, <1>8, <1>9

LEMMA GetNotificationsKeeps ==
    ASSUME MenuInv, NEW k \in DOMAIN notices, GetNotifications(k)
    PROVE  MenuInv'
<1>1. UNCHANGED <<menu, overtaken>>
  BY DEF GetNotifications
<1> SUFFICES ASSUME ~overtaken PROVE MenuInOrder'
  BY <1>1 DEF MenuInv
<1>2. MenuInOrder
  BY DEF MenuInv
<1>3. PICK r : notices = <<r>> /\ ComesNext(r)
  BY <1>2 DEF MenuInOrder
<1>4. k = 1 /\ notices[k] = r
  BY <1>3
<1>14. PICK rows : rows = RowsOf(r)
  OBVIOUS
<1>5. rows \in SUBSET written /\ rows \in SUBSET Row
  BY <1>2, <1>14 DEF RowsOf, MenuInOrder, MenuType
<1>6. PICK n, told, gone :
         /\ n \in 0..PageSize /\ told \in [1..n -> rows] /\ gone \in SUBSET rows
         /\ Tells(rows, told, gone)
         /\ notices' = [notices EXCEPT ![k].answers =
               {Info(told, ~(rows \subseteq Range(told) \union gone))}]
         /\ written' = written \ gone
         /\ steady' = IF r.first THEN written' ELSE steady \intersect written'
  BY <1>4, <1>14 DEF GetNotifications
<1>15. PICK more : more = ~(rows \subseteq Range(told) \union gone)
  OBVIOUS
<1>16. PICK a : a = Info(told, more)
  OBVIOUS
<1>17. PICK q : q = [r EXCEPT !.answers = {a}]
  OBVIOUS
<1>7. /\ a \in NoticePage /\ a.told = told /\ a.more = more
      /\ WellTold(told)
      /\ more => Len(told) > 0 /\ a.date = told[Len(told)].date
      /\ \A s \in rows \ gone :
            \/ \E i \in DOMAIN told : told[i].date = s.date
            \/ more /\ s.date < a.date
  BY <1>5, <1>6, <1>15, <1>16, TellsWell
<1>8. notices' = <<q>>
  <2>1. notices' = [notices EXCEPT ![k].answers = {a}]
    BY <1>6, <1>15, <1>16, Zenon
  <2>2. notices' = [notices EXCEPT ![1] = q]
    BY <1>3, <1>4, <1>17, <2>1
  <2> QED
    BY <1>3, <2>2
<1>9. /\ q \in NoticeRequest /\ q.answers = {a} /\ q.first = r.first /\ q.date = r.date
  BY <1>3, <1>7, <1>17 DEF ComesNext, NoticeRequest
<1>10. AnswersWell(q, a)'
  <2>1. ~r.first => \A i \in DOMAIN told : told[i].date < r.date
    <3>1. DOMAIN told = 1..n /\ \A i \in 1..n : told[i] \in rows
      BY <1>6
    <3> QED
      BY <1>14, <3>1 DEF RowsOf
  <2>2. \A s \in steady' : r.first \/ s.date < r.date => s \in rows \ gone
    BY <1>6, <1>14 DEF RowsOf
  <2> QED
    BY <1>7, <1>9, <2>1, <2>2 DEF AnswersWell, WellTold, Newest
<1>11. ComesNext(q)'
  BY <1>1, <1>3, <1>9, <1>10 DEF ComesNext
<1>12. MenuType'
  BY <1>1, <1>2, <1>6 DEF MenuInOrder, MenuType
<1>13. (menu.count # 0 => \A s \in steady :
          Accounted(s) \/ (menu.count > 0 /\ s.date < menu.lastDate))'
  <2>1. menu.count # 0 => ~r.first
    BY <1>3 DEF ComesNext
  <2>2. menu.count # 0 => steady' \subseteq steady
    BY <1>6, <2>1
  <2> QED
    BY <1>1, <1>2, <2>2 DEF MenuInOrder, Accounted
<1>18. WellTold(menu.content)'
  BY <1>1, <1>2 DEF MenuInOrder, WellTold, Newest
<1> QED
  BY <1>1, <1>2, <1>8, <1>11, <1>12, <1>13, <1>18 DEF MenuInOrder

\* An answer that comes next, put after what is shown.
LEMMA DeliverKeeps ==
    ASSUME MenuInv, NEW k \in DOMAIN notices, FirstPage(k) \/ NextPage(k)
    PROVE  MenuInv'
<1>1. UNCHANGED <<overtaken, written, steady>>
  BY DEF FirstPage, NextPage, Deliver
<1> SUFFICES ASSUME ~overtaken PROVE MenuInOrder'
  BY <1>1 DEF MenuInv
<1>2. MenuInOrder
  BY DEF MenuInv
<1>3. PICK r : notices = <<r>> /\ ComesNext(r)
  BY <1>2 DEF MenuInOrder
<1>4. k = 1 /\ notices[k] = r
  BY <1>3
<1>5. PICK a \in r.answers, shown \in Seq(Row), n \in Nat :
         /\ menu' = [menu EXCEPT !.content = shown \o a.told, !.lastDate = a.date,
                                 !.count = Count(n, a), !.waitingNext = FALSE]
         /\ IF r.first THEN Len(shown) = 0
            ELSE shown = menu.content /\ menu.count > 0 /\ r.date = menu.lastDate
  <2>1. PICK empty \in Seq(Row) : empty = << >> /\ Len(empty) = 0
    BY NoNotices
  <2>4. PICK zero \in Nat : zero = 0
    OBVIOUS
  <2>2. CASE FirstPage(k)
    <3>1. /\ r.first
          /\ \E a \in r.answers :
                menu' = [menu EXCEPT !.content = empty \o a.told, !.lastDate = a.date,
                                     !.count = Count(zero, a), !.waitingNext = FALSE]
      BY <1>4, <2>1, <2>2, <2>4, Zenon DEF FirstPage, Deliver
    <3> QED
      BY <2>1, <3>1
  <2>3. CASE NextPage(k)
    <3>1. /\ r.first = FALSE
          /\ \E a \in r.answers :
                menu' = [menu EXCEPT !.content = menu.content \o a.told, !.lastDate = a.date,
                                     !.count = Count(menu.count, a), !.waitingNext = FALSE]
      BY <1>4, <2>3 DEF NextPage, Deliver
    <3>2. menu.content \in Seq(Row) /\ menu.count \in Nat /\ menu.count > 0
          /\ r.date = menu.lastDate
      BY <1>2, <1>3, <3>1 DEF MenuInOrder, MenuType, ComesNext
    <3> QED
      BY <3>1, <3>2
  <2> QED
    BY <2>2, <2>3
<1>6. AnswersWell(r, a) /\ a \in NoticePage
  BY <1>3, <1>5 DEF ComesNext, AnswersWell
<1>7. a.told \in Seq(Row) /\ a.date \in Nat /\ a.more \in BOOLEAN
  BY <1>6 DEF NoticePage
<1> DEFINE content == shown \o a.told
           count == Count(n, a)
<1>8. /\ PageSize \in Nat /\ PageSize > 0
      /\ count \in Int /\ count # 0 /\ (count > 0 <=> a.more)
  BY <1>5, <1>7, NotifyAssumption DEF Count
<1>9. /\ content \in Seq(Row) /\ Len(content) = Len(shown) + Len(a.told)
      /\ Len(shown) \in Nat /\ Len(a.told) \in Nat
      /\ DOMAIN shown = 1..Len(shown) /\ DOMAIN a.told = 1..Len(a.told)
      /\ DOMAIN content = 1..(Len(shown) + Len(a.told))
      /\ \A i \in 1..Len(shown) : content[i] = shown[i]
      /\ \A i \in DOMAIN content : i > Len(shown) =>
            i - Len(shown) \in DOMAIN a.told /\ content[i] = a.told[i - Len(shown)]
      /\ \A i \in DOMAIN a.told :
            Len(shown) + i \in DOMAIN content /\ content[Len(shown) + i] = a.told[i]
  BY <1>5, <1>7
<1> HIDE DEF content, count
<1>10. /\ menu'.content = content /\ menu'.lastDate = a.date /\ menu'.count = count
       /\ menu' \in [open : BOOLEAN, content : Seq(Row), lastDate : Nat, count : Int,
                     waitingNext : BOOLEAN]
  <2>1. menu' = [menu EXCEPT !.content = content, !.lastDate = a.date,
                             !.count = count, !.waitingNext = FALSE]
    BY <1>5 DEF content, count
  <2> QED
    BY <1>2, <1>7, <1>8, <1>9, <2>1 DEF MenuInOrder, MenuType
<1>11. WellTold(shown) /\ WellTold(a.told)
  <2>1. Len(shown) = 0 => WellTold(shown)
    BY <1>5 DEF WellTold, Newest
  <2> QED
    BY <1>2, <1>5, <1>6, <2>1 DEF MenuInOrder, AnswersWell
<1>12. \A i \in DOMAIN shown, j \in DOMAIN a.told : shown[i].date > a.told[j].date
  <2> SUFFICES ASSUME NEW i \in DOMAIN shown, NEW j \in DOMAIN a.told
               PROVE  shown[i].date > a.told[j].date
    OBVIOUS
  <2>1. /\ ~r.first /\ shown = menu.content /\ menu.count > 0 /\ r.date = menu.lastDate
    BY <1>5, <1>9
  <2>2. a.told[j].date < r.date
    BY <1>6, <2>1 DEF AnswersWell
  <2>3. r.date = shown[Len(shown)].date /\ Len(shown) \in DOMAIN shown
    BY <1>2, <1>9, <2>1 DEF MenuInOrder
  <2>4. shown[i].date >= shown[Len(shown)].date
    <3>1. shown[Len(shown)].date \in Nat /\ shown[Len(shown)] \in Row
      BY <1>5, <2>3, RowDates
    <3>2. i < Len(shown) => shown[i].date >= shown[Len(shown)].date
      BY <1>11, <2>3 DEF WellTold, Newest
    <3>3. i = Len(shown) \/ i < Len(shown)
      BY <1>9
    <3> QED
      BY <3>1, <3>2, <3>3
  <2>5. shown[i].date \in Nat /\ shown[Len(shown)].date \in Nat /\ a.told[j].date \in Nat
    BY <1>5, <1>7, <2>3, RowDates
  <2> QED
    BY <2>2, <2>3, <2>4, <2>5
<1>13. WellTold(content)
  <2>0. \A i \in DOMAIN shown, j \in DOMAIN a.told :
           shown[i].date \in Nat /\ a.told[j].date \in Nat
    BY <1>5, <1>7, RowDates
  <2>1. Newest(content)
    <3> SUFFICES ASSUME NEW i \in DOMAIN content, NEW j \in DOMAIN content, i < j
                 PROVE  content[i].date >= content[j].date
      BY DEF Newest
    <3>1. CASE j <= Len(shown)
      BY <1>9, <1>11, <3>1 DEF WellTold, Newest
    <3>2. CASE i > Len(shown)
      <4>1. /\ i - Len(shown) \in DOMAIN a.told /\ content[i] = a.told[i - Len(shown)]
            /\ j - Len(shown) \in DOMAIN a.told /\ content[j] = a.told[j - Len(shown)]
            /\ i - Len(shown) < j - Len(shown)
        BY <1>9, <3>2
      <4> QED
        BY <1>11, <4>1 DEF WellTold, Newest
    <3>3. CASE i <= Len(shown) /\ j > Len(shown)
      BY <1>9, <1>12, <2>0, <3>3
    <3> QED
      BY <1>9, <3>1, <3>2, <3>3
  <2>2. ASSUME NEW i \in DOMAIN content, NEW j \in DOMAIN content, i < j
        PROVE  content[i] # content[j]
    <3>1. CASE j <= Len(shown)
      BY <1>9, <1>11, <2>2, <3>1 DEF WellTold
    <3>2. CASE i > Len(shown)
      BY <1>9, <1>11, <2>2, <3>2 DEF WellTold
    <3>3. CASE i <= Len(shown) /\ j > Len(shown)
      <4>1. content[i].date > content[j].date /\ content[i].date \in Nat
        BY <1>9, <1>12, <2>0, <3>3
      <4> QED
        BY <4>1
    <3> QED
      BY <1>9, <2>2, <3>1, <3>2, <3>3
  <2>3. \A i, j \in DOMAIN content : i # j => content[i] # content[j]
    BY <1>9, <2>2
  <2> QED
    BY <1>9, <2>1, <2>3 DEF WellTold
<1>14. count > 0 => Len(content) > 0 /\ a.date = content[Len(content)].date
  <2> SUFFICES ASSUME a.more PROVE Len(content) > 0 /\ a.date = content[Len(content)].date
    BY <1>8
  <2>1. Len(a.told) > 0 /\ a.date = a.told[Len(a.told)].date
    BY <1>6 DEF AnswersWell
  <2>2. Len(a.told) \in DOMAIN a.told
    BY <1>9, <2>1
  <2>3. content[Len(content)] = a.told[Len(a.told)]
    BY <1>9, <2>2
  <2> QED
    BY <1>9, <2>1, <2>3
<1>15. ASSUME NEW s \in steady
       PROVE  \/ \E i \in DOMAIN content : content[i].date = s.date
              \/ count > 0 /\ s.date < a.date
  <2>1. CASE \E i \in DOMAIN shown : shown[i].date = s.date
    BY <1>9, <2>1
  <2>2. CASE r.first \/ s.date < r.date
    <3>1. \/ \E i \in DOMAIN a.told : a.told[i].date = s.date
          \/ a.more /\ s.date < a.date
      BY <1>6, <2>2 DEF AnswersWell
    <3> QED
      BY <1>8, <1>9, <3>1
  <2>3. CASE ~r.first
    <3>1. Accounted(s) \/ s.date < menu.lastDate
      BY <1>2, <1>5, <2>3 DEF MenuInOrder
    <3> QED
      BY <1>5, <2>1, <2>2, <2>3, <3>1 DEF Accounted
  <2> QED
    BY <2>2, <2>3
<1>16. notices' = << >>
  <2>1. notices' = RemoveAt(<<r>>, 1)
    BY <1>3, <1>4 DEF FirstPage, NextPage, Deliver
  <2>2. \A s \in Seq({r}) : Len(s) = 0 => s = << >>
    OBVIOUS
  <2>3. RemoveAt(<<r>>, 1) \in Seq({r}) /\ Len(RemoveAt(<<r>>, 1)) = 0
    <3>1. <<r>> \in Seq({r}) /\ Len(<<r>>) = 1
      OBVIOUS
    <3>2. /\ SubSeq(<<r>>, 1, 1 - 1) \in Seq({r}) /\ Len(SubSeq(<<r>>, 1, 1 - 1)) = 0
          /\ SubSeq(<<r>>, 1 + 1, 1) \in Seq({r}) /\ Len(SubSeq(<<r>>, 1 + 1, 1)) = 0
      BY <3>1
    <3> QED
      BY <3>1, <3>2 DEF RemoveAt
  <2> QED
    BY <2>1, <2>2, <2>3
<1>17. MenuType' /\ WellTold(menu.content)'
  BY <1>1, <1>2, <1>10, <1>13 DEF MenuInOrder, MenuType, WellTold, Newest
<1> QED
  BY <1>1, <1>10, <1>14, <1>15, <1>16, <1>17 DEF MenuInOrder, Accounted

LEMMA MenuStep ==
    ASSUME MenuInv, [NotifyNext]_notifyVars
    PROVE  MenuInv'
<1>1. CASE CloseMenu
  <2>1. /\ menu' = [menu EXCEPT !.open = FALSE]
        /\ UNCHANGED <<written, notices, overtaken, steady>>
    BY <1>1 DEF CloseMenu
  <2> SUFFICES ASSUME ~overtaken PROVE MenuInOrder'
    BY <2>1 DEF MenuInv
  <2>2. MenuInOrder
    BY DEF MenuInv
  <2>3. /\ menu'.content = menu.content /\ menu'.count = menu.count
        /\ menu'.lastDate = menu.lastDate /\ menu'.waitingNext = menu.waitingNext
        /\ MenuType'
    BY <2>1, <2>2 DEF MenuInOrder, MenuType
  <2>4. WellTold(menu.content)'
    BY <2>2, <2>3 DEF WellTold, Newest, MenuInOrder
  <2>5. ASSUME NEW r, ComesNext(r) PROVE ComesNext(r)'
    BY <2>1, <2>3, <2>5 DEF ComesNext, AnswersWell, WellTold, Newest
  <2> QED
    BY <2>1, <2>2, <2>3, <2>4, <2>5 DEF MenuInOrder, Accounted
<1>2. CASE TimerAuths \/ UNCHANGED notifyVars
  <2>1. UNCHANGED <<menu, written, notices, overtaken, steady>>
    BY <1>2 DEF TimerAuths, notifyVars
  <2>2. ASSUME NEW r, ComesNext(r) PROVE ComesNext(r)'
    BY <2>1, <2>2, ComesNextStays
  <2> QED
    BY <2>1, <2>2 DEF MenuInv, MenuInOrder, MenuType, Accounted, WellTold, Newest
<1>3. ASSUME NEW n \in Notices, DeleteNotification(n) \/ \E d \in 1..MaxDate : Notify(n, d)
      PROVE  MenuInv'
  <2>1. CASE overtaken
    <3>1. overtaken' = overtaken
      BY <1>3 DEF DeleteNotification, Notify, Rewrite
    <3> QED
      BY <2>1, <3>1 DEF MenuInv
  <2>2. CASE ~overtaken
    <3>1. written \in SUBSET Row
      BY <2>2 DEF MenuInv, MenuInOrder, MenuType
    <3>2. {r \in written : r.notice # n} \in SUBSET Row
      BY <3>1
    <3>3. ASSUME NEW d \in 1..MaxDate
          PROVE  {r \in written : r.notice # n} \union {[notice |-> n, date |-> d]}
                    \in SUBSET Row
      BY <3>1 DEF Row
    <3> QED
      BY <1>3, <3>2, <3>3, RewriteKeeps DEF DeleteNotification, Notify
  <2> QED
    BY <2>1, <2>2
<1> QED
  BY <1>1, <1>2, <1>3, ToggleOpenKeeps, ScrollKeeps, GetNotificationsKeeps, DeliverKeeps
     DEF NotifyNext

LEMMA MenuInvHolds == NotifySpec => []MenuInv
<1>1. NotifyInit => MenuInv
  <2> SUFFICES ASSUME NotifyInit PROVE MenuInOrder
    BY DEF MenuInv
  <2>1. PICK empty \in Seq(Row) : empty = << >> /\ DOMAIN empty = {}
    BY NoNotices
  <2>5. PICK zero \in Int : zero = 0
    OBVIOUS
  <2>2. menu = [open |-> FALSE, content |-> empty, lastDate |-> 0, count |-> zero,
                waitingNext |-> FALSE]
    BY <2>1, <2>5, Zenon DEF NotifyInit
  <2>3. notices = << >> /\ steady = {} /\ written \in SUBSET Row
    BY DEF NotifyInit
  <2>4. menu.content = empty /\ menu.count = zero /\ MenuType
    BY <2>2, <2>3 DEF MenuType
  <2> QED
    BY <2>1, <2>3, <2>4, <2>5 DEF MenuInOrder, WellTold, Newest
<1>2. MenuInv /\ [NotifyNext]_notifyVars => MenuInv'
  BY MenuStep
<1> QED
  BY <1>1, <1>2, PTL DEF NotifySpec

\* The menu shows the notifications from the newest on, none twice, and of those
\* that nobody touches only such are left out whose date is that of one it shows
\* (Notification::getNotifications and notify.js), for pages, openings and
\* writings without a bound; not if it was opened again with a page on its way.
THEOREM NoticesComeInOrder == NotifySpec => []NoticesInOrder
<1>1. MenuInv => NoticesInOrder
  BY DEF MenuInv, MenuInOrder, WellTold, NoticesInOrder
<1> QED
  BY <1>1, MenuInvHolds, PTL

-----------------------------------------------------------------------------
(***************************************************************************)
(* The page of the automated tests.  A select that has a list has that of  *)
(* the choice in the select before it, and the newest request for a list   *)
(* is for that choice too; only the VLANs may be those of a port that is   *)
(* not chosen any more, and then no port is.                               *)
(***************************************************************************)

IsFill(r) ==
    /\ r = [select |-> r.select, of |-> r.of, newest |-> r.newest]
    /\ r.newest \in BOOLEAN

CascadeType ==
    /\ testEnd = [s \in Cascade |-> [of |-> testEnd[s].of, value |-> testEnd[s].value]]
    /\ \A r \in fills : IsFill(r)

ChoicesMatch ==
    /\ testEnd["dev"].of # None => testEnd["dev"].of = testEnd["dom"].value
    /\ testEnd["dev"].value # None => /\ testEnd["dev"].of # None
                                      /\ testEnd["dev"].value \in DevicesOf[testEnd["dev"].of]
    /\ testEnd["port"].of # None => testEnd["port"].of = testEnd["dev"].value
    /\ testEnd["port"].value # None => testEnd["port"].value = testEnd["port"].of
    /\ testEnd["vlan"].value # None /\ testEnd["port"].value # None =>
          testEnd["vlan"].value = testEnd["port"].value

\* The request r is for the list of the choice that is there, and its select waits.
AskedForTheChoice(r) ==
    /\ testEnd[r.select] = Empty
    /\ \/ r.select = "dev" /\ r.of = testEnd["dom"].value
       \/ r.select = "port" /\ r.of = testEnd["dev"].value
       \/ r.select = "vlan" /\ testEnd["port"].value \in {None, r.of}

OneNewest ==
    \A q, r \in fills : q.newest /\ r.newest /\ q.select = r.select => q = r

CascadeInv ==
    \/ stale
    \/ /\ CascadeType
       /\ ChoicesMatch
       /\ \A r \in fills : r.newest => AskedForTheChoice(r)
       /\ OneNewest
       /\ PostedEndMatches

\* What a change of the select s makes of the selects.
LEMMA ChangedSelects ==
    ASSUME CascadeType, NEW s \in Cascade, NEW v, NEW S \in SUBSET Cascade, s \notin S,
           NEW next \in S, OneNewest, ChangeSelect(s, v, S, next)
    PROVE  /\ v # testEnd[s].value /\ v \in Options(s) \union {None}
           /\ testEnd'[s].value = v /\ testEnd'[s].of = testEnd[s].of
           /\ \A t \in S : testEnd'[t] = Empty
           /\ \A t \in Cascade \ (S \union {s}) : testEnd'[t] = testEnd[t]
           /\ CascadeType'
           /\ \A r \in fills' : r.newest =>
                 \/ r.select = next /\ r.of = v /\ v # None
                 \/ r \in fills /\ r.newest /\ r.select \notin S
           /\ OneNewest'
           /\ UNCHANGED <<tests, stale>>
<1>1. testEnd = [t \in Cascade |-> [of |-> testEnd[t].of, value |-> testEnd[t].value]]
  BY DEF CascadeType
<1>2. /\ v # testEnd[s].value /\ v \in Options(s) \union {None}
      /\ testEnd' = [t \in Cascade |->
          IF t \in S THEN Empty
          ELSE IF t = s THEN [testEnd[s] EXCEPT !.value = v] ELSE testEnd[t]]
      /\ fills' = {[r EXCEPT !.newest = @ /\ r.select \notin S] : r \in fills}
                   \union (IF v = None THEN {}
                           ELSE {[select |-> next, of |-> v, newest |-> TRUE]})
      /\ UNCHANGED <<tests, stale>>
  BY DEF ChangeSelect
<1>3. /\ testEnd'[s].value = v /\ testEnd'[s].of = testEnd[s].of
      /\ \A t \in S : testEnd'[t] = Empty
      /\ \A t \in Cascade \ (S \union {s}) : testEnd'[t] = testEnd[t]
  BY <1>1, <1>2
<1>4. ASSUME NEW r \in fills'
      PROVE  /\ IsFill(r)
             /\ r.newest =>
                 \/ r.select = next /\ r.of = v /\ v # None
                 \/ r \in fills /\ r.newest /\ r.select \notin S
  <2>1. CASE v # None /\ r = [select |-> next, of |-> v, newest |-> TRUE]
    BY <2>1 DEF IsFill
  <2>2. CASE \E q \in fills : r = [q EXCEPT !.newest = @ /\ q.select \notin S]
    <3>1. PICK q \in fills : r = [q EXCEPT !.newest = @ /\ q.select \notin S]
      BY <2>2
    <3>2. IsFill(q)
      BY DEF CascadeType
    <3> QED
      BY <3>1, <3>2 DEF IsFill
  <2> QED
    BY <1>2, <2>1, <2>2
<1>5. testEnd' = [t \in Cascade |-> [of |-> testEnd'[t].of, value |-> testEnd'[t].value]]
  BY <1>1, <1>2 DEF Empty
<1>6. OneNewest'
  BY <1>4 DEF OneNewest, IsFill
<1> QED
  BY <1>2, <1>3, <1>4, <1>5, <1>6 DEF CascadeType

LEMMA ChangeDomKeeps ==
    ASSUME CascadeInv, NEW v, ChangeDom(v)
    PROVE  CascadeInv'
<1> SUFFICES ASSUME ~stale PROVE CascadeInv'
  BY DEF CascadeInv, ChangeDom, ChangeSelect
<1>1. ChangeSelect("dom", v, {"dev", "port", "vlan"}, "dev")
  BY DEF ChangeDom
<1>8. CascadeType /\ OneNewest /\ "dom" \in Cascade
      /\ {"dev", "port", "vlan"} \in SUBSET Cascade
      /\ "dom" \notin {"dev", "port", "vlan"} /\ "dev" \in {"dev", "port", "vlan"}
  BY DEF CascadeInv, Cascade
<1>2. /\ testEnd'["dom"].value = v
      /\ \A t \in {"dev", "port", "vlan"} : testEnd'[t] = Empty
      /\ CascadeType' /\ OneNewest' /\ UNCHANGED <<tests, stale>>
      /\ \A r \in fills' : r.newest =>
            \/ r.select = "dev" /\ r.of = v
            \/ r \in fills /\ r.newest /\ r.select \notin {"dev", "port", "vlan"}
  BY <1>1, <1>8, ChangedSelects
<1>3. \A r \in fills : r.newest => r.select \in {"dev", "port", "vlan"}
  BY DEF CascadeInv, AskedForTheChoice
<1> QED
  BY <1>2, <1>3 DEF CascadeInv, ChoicesMatch, AskedForTheChoice, PostedEndMatches, Empty

LEMMA ChangeDevKeeps ==
    ASSUME CascadeInv, NEW v, ChangeDev(v)
    PROVE  CascadeInv'
<1> SUFFICES ASSUME ~stale PROVE CascadeInv'
  BY DEF CascadeInv, ChangeDev, ChangeSelect
<1>1. ChangeSelect("dev", v, {"port"}, "port")
  BY DEF ChangeDev
<1>8. CascadeType /\ OneNewest /\ {"port"} \subseteq Cascade /\ "dev" \in Cascade
  BY DEF CascadeInv, Cascade
<1>2. /\ v # testEnd["dev"].value /\ v \in Options("dev") \union {None}
      /\ testEnd'["dev"].value = v /\ testEnd'["dev"].of = testEnd["dev"].of
      /\ testEnd'["port"] = Empty
      /\ testEnd'["dom"] = testEnd["dom"] /\ testEnd'["vlan"] = testEnd["vlan"]
      /\ CascadeType' /\ OneNewest' /\ UNCHANGED <<tests, stale>>
      /\ \A r \in fills' : r.newest =>
            \/ r.select = "port" /\ r.of = v
            \/ r \in fills /\ r.newest /\ r.select # "port"
  BY <1>1, <1>8, ChangedSelects DEF Cascade
<1>3. v # None => testEnd["dev"].of # None /\ v \in DevicesOf[testEnd["dev"].of]
  BY <1>2 DEF Options
<1>4. \A r \in fills : r.newest => AskedForTheChoice(r)
  BY DEF CascadeInv
<1>5. \A r \in fills : r.newest => r.select # "dev"
  BY <1>2, <1>3, <1>4 DEF AskedForTheChoice, Empty
<1>6. \A r \in fills' : r.newest => AskedForTheChoice(r)'
  BY <1>2, <1>4, <1>5 DEF AskedForTheChoice, Empty
<1>7. ChoicesMatch'
  BY <1>2, <1>3 DEF CascadeInv, ChoicesMatch, Empty
<1> QED
  BY <1>2, <1>6, <1>7 DEF CascadeInv, PostedEndMatches

LEMMA ChangeTestPortKeeps ==
    ASSUME CascadeInv, NEW v, ChangeTestPort(v)
    PROVE  CascadeInv'
<1> SUFFICES ASSUME ~stale PROVE CascadeInv'
  BY DEF CascadeInv, ChangeTestPort, ChangeSelect
<1>1. ChangeSelect("port", v, {"vlan"}, "vlan")
  BY DEF ChangeTestPort
<1>8. CascadeType /\ OneNewest /\ {"vlan"} \in SUBSET Cascade /\ "port" \in Cascade
      /\ "port" \notin {"vlan"} /\ "vlan" \in {"vlan"}
  BY DEF CascadeInv, Cascade
<1>2. /\ v # testEnd["port"].value /\ v \in Options("port") \union {None}
      /\ testEnd'["port"].value = v /\ testEnd'["port"].of = testEnd["port"].of
      /\ testEnd'["vlan"] = Empty
      /\ testEnd'["dom"] = testEnd["dom"] /\ testEnd'["dev"] = testEnd["dev"]
      /\ CascadeType' /\ OneNewest' /\ UNCHANGED <<tests, stale>>
      /\ \A r \in fills' : r.newest =>
            \/ r.select = "vlan" /\ r.of = v
            \/ r \in fills /\ r.newest /\ r.select # "vlan"
  <2>1. "dom" \in Cascade \ ({"vlan"} \union {"port"}) /\ "dev" \in Cascade \ ({"vlan"} \union {"port"})
    BY DEF Cascade
  <2> DEFINE S == {"vlan"}
  <2>2. /\ ChangeSelect("port", v, S, "vlan") /\ S \in SUBSET Cascade
        /\ CascadeType /\ OneNewest
        /\ "port" \in Cascade /\ "port" \notin S /\ "vlan" \in S
    BY <1>1, <1>8
  <2> HIDE DEF S
  <2>3. v # testEnd["port"].value /\ v \in Options("port") \union {None}
    BY <2>2, ChangedSelects
  <2>4. testEnd'["port"].value = v /\ testEnd'["port"].of = testEnd["port"].of
    BY <2>2, ChangedSelects
  <2>5. \A t \in S : testEnd'[t] = Empty
    BY <2>2, ChangedSelects
  <2>8. \A t \in Cascade \ (S \union {"port"}) : testEnd'[t] = testEnd[t]
    BY <2>2, ChangedSelects
  <2>6. CascadeType' /\ OneNewest' /\ UNCHANGED <<tests, stale>>
    BY <2>2, ChangedSelects
  <2>7. \A r \in fills' : r.newest =>
              \/ r.select = "vlan" /\ r.of = v /\ v # None
              \/ r \in fills /\ r.newest /\ r.select \notin S
    BY <2>2, ChangedSelects
  <2> QED
    BY <2>1, <2>3, <2>4, <2>5, <2>6, <2>7, <2>8 DEF S
<1>3. v # None => v = testEnd["port"].of
  BY <1>2 DEF Options
<1>4. \A r \in fills : r.newest => AskedForTheChoice(r)
  BY DEF CascadeInv
<1>5. \A r \in fills : r.newest => r.select # "port"
  BY <1>2, <1>3, <1>4 DEF AskedForTheChoice, Empty
<1>6. \A r \in fills' : r.newest => AskedForTheChoice(r)'
  BY <1>2, <1>4, <1>5 DEF AskedForTheChoice, Empty
<1>7. ChoicesMatch'
  BY <1>2, <1>3 DEF CascadeInv, ChoicesMatch, Empty
<1> QED
  BY <1>2, <1>6, <1>7 DEF CascadeInv, PostedEndMatches

LEMMA FillAnsweredKeeps ==
    ASSUME CascadeInv, NEW r \in fills, FillAnswered(r)
    PROVE  CascadeInv'
<1> SUFFICES ASSUME ~stale, r.newest PROVE CascadeInv'
  BY DEF CascadeInv, FillAnswered
<1> DEFINE filled == [of |-> r.of, value |-> IF r.select = "vlan" THEN r.of ELSE None]
<1>1. /\ fills' = fills \ {r} /\ UNCHANGED tests /\ ~stale'
      /\ testEnd' = [testEnd EXCEPT ![r.select] = filled]
  BY DEF FillAnswered
<1>2. CascadeType
  BY DEF CascadeInv
<1>3. AskedForTheChoice(r) /\ r.select \in Cascade
  BY DEF CascadeInv, AskedForTheChoice, Cascade
<1>4. /\ testEnd'[r.select].of = r.of
      /\ testEnd'[r.select].value = (IF r.select = "vlan" THEN r.of ELSE None)
      /\ \A t \in Cascade \ {r.select} : testEnd'[t] = testEnd[t]
  BY <1>1, <1>2, <1>3 DEF CascadeType
<1>5. CascadeType'
  BY <1>1, <1>2 DEF CascadeType, IsFill
<1>6. ASSUME NEW q \in fills', q.newest
      PROVE  q \in fills /\ AskedForTheChoice(q) /\ q.select # r.select
  BY <1>1, <1>6 DEF CascadeInv, OneNewest
<1>7. OneNewest' /\ PostedEndMatches'
  BY <1>1 DEF CascadeInv, OneNewest, PostedEndMatches
<1>8. ChoicesMatch
  BY DEF CascadeInv
<1>9. CASE r.select = "dev"
  <2>1. testEnd'["dev"].of = testEnd["dom"].value /\ testEnd'["dev"].value = None
        /\ \A t \in {"dom", "port", "vlan"} : testEnd'[t] = testEnd[t]
    BY <1>3, <1>4, <1>9 DEF Cascade, AskedForTheChoice
  <2>2. testEnd["dev"].value = None
    BY <1>3, <1>9 DEF AskedForTheChoice, Empty
  <2>3. ChoicesMatch'
    BY <1>8, <2>1, <2>2 DEF ChoicesMatch
  <2>4. \A q \in fills' : q.newest => AskedForTheChoice(q)'
    BY <1>6, <1>9, <2>1, <2>2 DEF AskedForTheChoice
  <2> QED
    BY <1>5, <1>7, <2>3, <2>4 DEF CascadeInv
<1>10. CASE r.select = "port"
  <2>1. testEnd'["port"].of = testEnd["dev"].value /\ testEnd'["port"].value = None
        /\ \A t \in {"dom", "dev", "vlan"} : testEnd'[t] = testEnd[t]
    BY <1>3, <1>4, <1>10 DEF Cascade, AskedForTheChoice
  <2>2. testEnd["port"].value = None
    BY <1>3, <1>10 DEF AskedForTheChoice, Empty
  <2>3. ChoicesMatch'
    BY <1>8, <2>1, <2>2 DEF ChoicesMatch
  <2>4. \A q \in fills' : q.newest => AskedForTheChoice(q)'
    BY <1>6, <1>10, <2>1, <2>2 DEF AskedForTheChoice
  <2> QED
    BY <1>5, <1>7, <2>3, <2>4 DEF CascadeInv
<1>11. CASE r.select = "vlan"
  <2>1. testEnd'["vlan"].value = r.of
        /\ \A t \in {"dom", "dev", "port"} : testEnd'[t] = testEnd[t]
    BY <1>4, <1>11 DEF Cascade
  <2>2. testEnd["port"].value \in {None, r.of}
    BY <1>3, <1>11 DEF AskedForTheChoice
  <2>3. ChoicesMatch'
    BY <1>8, <2>1, <2>2 DEF ChoicesMatch
  <2>4. \A q \in fills' : q.newest => AskedForTheChoice(q)'
    BY <1>6, <1>11, <2>1 DEF AskedForTheChoice
  <2> QED
    BY <1>5, <1>7, <2>3, <2>4 DEF CascadeInv
<1> QED
  BY <1>3, <1>9, <1>10, <1>11 DEF AskedForTheChoice

\* What is posted are the choices as they are, when none is missing.
LEMMA CreateTimerKeeps ==
    ASSUME CascadeInv, CreateTimer
    PROVE  CascadeInv'
<1>1. UNCHANGED <<testEnd, fills, stale>>
  BY DEF CreateTimer
<1>2. CASE UNCHANGED tests
  BY <1>1, <1>2 DEF CascadeInv, CascadeType, ChoicesMatch, OneNewest, AskedForTheChoice,
                    PostedEndMatches
<1>3. CASE /\ \A s \in Cascade : testEnd[s].value # None
           /\ tests' = tests \union {[s \in Cascade |-> testEnd[s].value]}
  <2>1. ASSUME ~stale
        PROVE  PostedEndMatches'
    <3> DEFINE p == [s \in Cascade |-> testEnd[s].value]
    <3>1. ChoicesMatch /\ PostedEndMatches
      BY <2>1 DEF CascadeInv
    <3>2. /\ p["dev"] \in DevicesOf[p["dom"]]
          /\ p["dev"] = p["port"] /\ p["port"] = p["vlan"]
      BY <1>3, <3>1 DEF ChoicesMatch, Cascade
    <3> HIDE DEF p
    <3> QED
      BY <1>1, <1>3, <2>1, <3>1, <3>2 DEF PostedEndMatches, p
  <2> QED
    BY <1>1, <2>1 DEF CascadeInv, CascadeType, ChoicesMatch, OneNewest, AskedForTheChoice
<1> QED
  BY <1>2, <1>3 DEF CreateTimer

\* The page as it is loaded, and the dialog as it is opened.
NothingChosen ==
    /\ testEnd = NoChoice
    /\ \A r \in fills : IsFill(r) /\ ~r.newest
    /\ stale \/ PostedEndMatches

LEMMA NoChoiceMatches == NothingChosen => CascadeInv
<1> SUFFICES ASSUME NothingChosen PROVE CascadeInv
  OBVIOUS
<1>1. testEnd = [s \in Cascade |-> [of |-> testEnd[s].of, value |-> testEnd[s].value]]
  BY DEF NothingChosen, NoChoice, Empty
<1>2. ChoicesMatch
  BY DEF NothingChosen, ChoicesMatch, NoChoice, Empty, Cascade
<1> QED
  BY <1>1, <1>2 DEF NothingChosen, CascadeInv, CascadeType, OneNewest

LEMMA CascadeStep ==
    ASSUME CascadeInv, [TesterNext]_testerVars
    PROVE  CascadeInv'
<1>1. CASE OpenCreateModal
  <2> SUFFICES ASSUME ~stale PROVE CascadeInv'
    BY <1>1 DEF OpenCreateModal, CascadeInv
  <2>1. /\ testEnd' = NoChoice /\ fills' = {[r EXCEPT !.newest = FALSE] : r \in fills}
        /\ UNCHANGED <<tests, stale>>
    BY <1>1 DEF OpenCreateModal
  <2>2. ASSUME NEW r \in fills'
        PROVE  ~r.newest /\ IsFill(r)
    <3>1. PICK q \in fills : r = [q EXCEPT !.newest = FALSE]
      BY <2>1, <2>2
    <3>2. IsFill(q)
      BY DEF CascadeInv, CascadeType
    <3> QED
      BY <3>1, <3>2 DEF IsFill
  <2>3. (stale \/ PostedEndMatches)'
    BY <2>1 DEF CascadeInv, PostedEndMatches
  <2>4. NothingChosen'
    BY <2>1, <2>2, <2>3 DEF NothingChosen, NoChoice, IsFill
  <2> QED
    BY <2>4, NoChoiceMatches, PTL
<1>2. CASE TestCreated
  <2>1. NothingChosen'
    BY <1>2 DEF TestCreated, CascadeInv, PostedEndMatches, NothingChosen, NoChoice
  <2> QED
    BY <2>1, NoChoiceMatches, PTL
<1>3. CASE CloseModal \/ CreateTest \/ UNCHANGED testerVars
  BY <1>3 DEF CloseModal, CreateTest, testerVars, CascadeInv, CascadeType, ChoicesMatch,
              OneNewest, AskedForTheChoice, PostedEndMatches
<1> QED
  BY <1>1, <1>2, <1>3, ChangeDomKeeps, ChangeDevKeeps, ChangeTestPortKeeps,
     FillAnsweredKeeps, CreateTimerKeeps DEF TesterNext

\* A test that is posted is of one device, its port and its VLAN, unless an answer
\* has overtaken a newer one (tester status.js).
THEOREM PostedEndsMatch == TesterSpec => []PostedEndMatches
<1>1. TesterInit => CascadeInv
  <2> SUFFICES ASSUME TesterInit PROVE CascadeInv
    OBVIOUS
  <2> QED
    BY NoChoiceMatches DEF TesterInit, PostedEndMatches, NothingChosen
<1>2. CascadeInv /\ [TesterNext]_testerVars => CascadeInv'
  BY CascadeStep
<1>3. CascadeInv => PostedEndMatches
  BY DEF CascadeInv, PostedEndMatches
<1> QED
  BY <1>1, <1>2, <1>3, PTL DEF TesterSpec

-----------------------------------------------------------------------------
(***************************************************************************)
(* The widget of the schedules.  The positions of an expression that hold  *)
(* a number tell its period, so that what was written is read again.       *)
(***************************************************************************)

\* What a form holds: a period, and in every select one of its options.
IsCronForm(f) ==
    /\ f = [period |-> f.period, selects |-> f.selects]
    /\ f.period \in Periods
    /\ f.selects = [s \in CronSelects |-> f.selects[s]]
    /\ \A s \in CronSelects : f.selects[s] \in CronOptions[s]

CronInv ==
    /\ IsCronForm(cronForm)
    /\ cronValue = GetCurrentValue(cronForm)

LEMMA PeriodsAre == Periods = {"hour", "day", "week", "month", "year"}
BY DEF Periods, ToDisplay

LEMMA CronSelectsAre == CronSelects = {"mins", "hour", "min", "dom", "month", "dow"}
BY DEF CronSelects, CronOptions

LEMMA CombinationsDiffer ==
    ASSUME NEW p \in Periods, NEW q \in Periods, Combinations[p] = Combinations[q]
    PROVE  p = q
<1>1. /\ Combinations["hour"] = {1} /\ Combinations["day"] = {1, 2}
      /\ Combinations["week"] = {1, 2, 5} /\ Combinations["month"] = {1, 2, 3}
      /\ Combinations["year"] = {1, 2, 3, 4}
  BY DEF Combinations
<1>2. /\ {1} # {1, 2} /\ {1} # {1, 2, 5} /\ {1} # {1, 2, 3} /\ {1} # {1, 2, 3, 4}
      /\ {1, 2} # {1, 2, 5} /\ {1, 2} # {1, 2, 3} /\ {1, 2} # {1, 2, 3, 4}
      /\ {1, 2, 5} # {1, 2, 3} /\ {1, 2, 5} # {1, 2, 3, 4}
      /\ {1, 2, 3} # {1, 2, 3, 4}
  OBVIOUS
<1> QED
  BY <1>1, <1>2, PeriodsAre

\* What the options of a select are.
LEMMA OptionsAre ==
    ASSUME NEW f, IsCronForm(f)
    PROVE  /\ f.selects["mins"] \in 0..59 /\ f.selects["hour"] \in 0..23
           /\ f.selects["min"] \in 0..59 /\ f.selects["dom"] \in 1..31
           /\ f.selects["month"] \in 2..12 /\ f.selects["dow"] \in 0..6
BY CronSelectsAre DEF IsCronForm, CronOptions

\* What an expression of each period holds.
LEMMA ExpressionOf ==
    ASSUME NEW f, IsCronForm(f)
    PROVE  LET v == GetCurrentValue(f) IN
           /\ f.period = "hour" =>
                 v = <<f.selects["mins"], None, None, None, None>>
           /\ f.period = "day" =>
                 v = <<f.selects["min"], f.selects["hour"], None, None, None>>
           /\ f.period = "week" =>
                 v = <<f.selects["min"], f.selects["hour"], None, None, f.selects["dow"]>>
           /\ f.period = "month" =>
                 v = <<f.selects["min"], f.selects["hour"], f.selects["dom"], None, None>>
           /\ f.period = "year" =>
                 v = <<f.selects["min"], f.selects["hour"], f.selects["dom"],
                       f.selects["month"], None>>
BY PeriodsAre DEF GetCurrentValue

\* The bounds of each position hold what the selects of a period offer.
Least == <<0, 0, 1, 1, 0>>
Most == <<59, 23, 31, 12, 6>>

LEMMA ExpressionFits ==
    ASSUME NEW f, IsCronForm(f), NEW i \in 1..5
    PROVE  LET v == GetCurrentValue(f) IN
           /\ v[i] # None <=> i \in Combinations[f.period]
           /\ v[i] # None => v[i] \in Least[i]..Most[i]
<1> DEFINE v == GetCurrentValue(f)
<1>1. PICK min, mins, hour, dom, month, dow :
         /\ min = f.selects["min"] /\ mins = f.selects["mins"] /\ hour = f.selects["hour"]
         /\ dom = f.selects["dom"] /\ month = f.selects["month"] /\ dow = f.selects["dow"]
  OBVIOUS
<1>2. /\ mins \in 0..59 /\ hour \in 0..23 /\ min \in 0..59 /\ dom \in 1..31
      /\ month \in 2..12 /\ dow \in 0..6
  BY <1>1, OptionsAre
<1>3. /\ mins # None /\ hour # None /\ min # None /\ dom # None /\ month # None /\ dow # None
  BY <1>2, NoneAssumption
<1>4. /\ Least[1] = 0 /\ Least[2] = 0 /\ Least[3] = 1 /\ Least[4] = 1 /\ Least[5] = 0
      /\ Most[1] = 59 /\ Most[2] = 23 /\ Most[3] = 31 /\ Most[4] = 12 /\ Most[5] = 6
  BY DEF Least, Most
<1>5. f.period \in Periods
  BY DEF IsCronForm
<1>6. CASE f.period = "hour"
  <2>1. v = <<mins, None, None, None, None>> /\ Combinations[f.period] = {1}
    BY <1>1, <1>6, ExpressionOf DEF Combinations
  <2>2. v[1] = mins /\ v[2] = None /\ v[3] = None /\ v[4] = None /\ v[5] = None
    BY <2>1
  <2> QED
    BY <1>2, <1>3, <1>4, <2>1, <2>2
<1>7. CASE f.period = "day"
  <2>1. v = <<min, hour, None, None, None>> /\ Combinations[f.period] = {1, 2}
    BY <1>1, <1>7, ExpressionOf DEF Combinations
  <2>2. v[1] = min /\ v[2] = hour /\ v[3] = None /\ v[4] = None /\ v[5] = None
    BY <2>1
  <2> QED
    BY <1>2, <1>3, <1>4, <2>1, <2>2
<1>8. CASE f.period = "week"
  <2>1. v = <<min, hour, None, None, dow>> /\ Combinations[f.period] = {1, 2, 5}
    BY <1>1, <1>8, ExpressionOf DEF Combinations
  <2>2. v[1] = min /\ v[2] = hour /\ v[3] = None /\ v[4] = None /\ v[5] = dow
    BY <2>1
  <2> QED
    BY <1>2, <1>3, <1>4, <2>1, <2>2
<1>9. CASE f.period = "month"
  <2>1. v = <<min, hour, dom, None, None>> /\ Combinations[f.period] = {1, 2, 3}
    BY <1>1, <1>9, ExpressionOf DEF Combinations
  <2>2. v[1] = min /\ v[2] = hour /\ v[3] = dom /\ v[4] = None /\ v[5] = None
    BY <2>1
  <2> QED
    BY <1>2, <1>3, <1>4, <2>1, <2>2
<1>10. CASE f.period = "year"
  <2>1. v = <<min, hour, dom, month, None>> /\ Combinations[f.period] = {1, 2, 3, 4}
    BY <1>1, <1>10, ExpressionOf DEF Combinations
  <2>2. v[1] = min /\ v[2] = hour /\ v[3] = dom /\ v[4] = month /\ v[5] = None
    BY <2>1
  <2> QED
    BY <1>2, <1>3, <1>4, <2>1, <2>2
<1> QED
  BY <1>5, <1>6, <1>7, <1>8, <1>9, <1>10, PeriodsAre

\* The period that is read from an expression is the one it was written for.
LEMMA PeriodReadsBack ==
    ASSUME NEW f, IsCronForm(f)
    PROVE  GetCronType(GetCurrentValue(f)) = f.period
<1> DEFINE v == GetCurrentValue(f)
           numbers == {i \in 1..5 : v[i] # None}
           types == {p \in Periods : Combinations[p] = numbers}
<1>1. Combinations[f.period] \subseteq 1..5 /\ f.period \in Periods
  BY PeriodsAre DEF IsCronForm, Combinations
<1>2. numbers = Combinations[f.period]
  BY <1>1, ExpressionFits
<1>3. \A i \in numbers : v[i] \in Least[i]..Most[i]
  BY ExpressionFits
<1>4. types = {f.period}
  BY <1>1, <1>2, CombinationsDiffer
<1>5. GetCronType(v) = IF types # {} /\ \A i \in numbers : v[i] \in Least[i]..Most[i]
                       THEN CHOOSE p \in types : TRUE ELSE None
  BY DEF GetCronType, Least, Most
<1> HIDE DEF numbers, types, v
<1>6. GetCronType(v) = CHOOSE p \in types : TRUE
  BY <1>3, <1>4, <1>5
<1> QED
  BY <1>4, <1>6 DEF v

\* So are the choices in the selects that the period shows.
LEMMA ChoicesReadBack ==
    ASSUME NEW f, IsCronForm(f), NEW g
    PROVE  LET again == SetCronValue(g, GetCurrentValue(f)) IN
           again.period = f.period /\ Displayed(again) = Displayed(f)
<1> DEFINE cron == GetCurrentValue(f)
           t == GetCronType(cron)
           v == [mins |-> cron[1], min |-> cron[1], hour |-> cron[2],
                 dom |-> cron[3], month |-> cron[4], dow |-> cron[5]]
           again == [period |-> t,
                     selects |-> [s \in CronSelects |->
                        IF s \in ToDisplay[t] THEN v[s] ELSE g.selects[s]]]
<1>1. t = f.period /\ t \in Periods
  BY PeriodReadsBack DEF IsCronForm
<1>2. t # None
  BY <1>1, PeriodAssumption
<1>3. SetCronValue(g, cron) = again
  BY <1>2 DEF SetCronValue
<1>4. \A s \in ToDisplay[t] : s \in CronSelects /\ v[s] = f.selects[s]
  <2>1. PICK min, mins, hour, dom, month, dow :
           /\ min = f.selects["min"] /\ mins = f.selects["mins"]
           /\ hour = f.selects["hour"] /\ dom = f.selects["dom"]
           /\ month = f.selects["month"] /\ dow = f.selects["dow"]
    OBVIOUS
  <2>7. /\ ToDisplay["hour"] = {"mins"} /\ ToDisplay["day"] = {"hour", "min"}
        /\ ToDisplay["week"] = {"dow", "hour", "min"}
        /\ ToDisplay["month"] = {"dom", "hour", "min"}
        /\ ToDisplay["year"] = {"dom", "month", "hour", "min"}
    BY DEF ToDisplay
  <2> HIDE DEF t, v
  <2>2. CASE t = "hour"
    <3>1. cron = <<mins, None, None, None, None>> /\ ToDisplay[t] = {"mins"}
      BY <1>1, <2>1, <2>2, <2>7, ExpressionOf
    <3>2. v["mins"] = mins
      BY <3>1 DEF v
    <3> QED
      BY <2>1, <3>1, <3>2, CronSelectsAre
  <2>3. CASE t = "day"
    <3>1. cron = <<min, hour, None, None, None>> /\ ToDisplay[t] = {"hour", "min"}
      BY <1>1, <2>1, <2>3, <2>7, ExpressionOf
    <3>2. v["min"] = min /\ v["hour"] = hour
      BY <3>1 DEF v
    <3> QED
      BY <2>1, <3>1, <3>2, CronSelectsAre
  <2>4. CASE t = "week"
    <3>1. cron = <<min, hour, None, None, dow>> /\ ToDisplay[t] = {"dow", "hour", "min"}
      BY <1>1, <2>1, <2>4, <2>7, ExpressionOf
    <3>2. v["min"] = min /\ v["hour"] = hour /\ v["dow"] = dow
      BY <3>1 DEF v
    <3> QED
      BY <2>1, <3>1, <3>2, CronSelectsAre
  <2>5. CASE t = "month"
    <3>1. cron = <<min, hour, dom, None, None>> /\ ToDisplay[t] = {"dom", "hour", "min"}
      BY <1>1, <2>1, <2>5, <2>7, ExpressionOf
    <3>2. v["min"] = min /\ v["hour"] = hour /\ v["dom"] = dom
      BY <3>1 DEF v
    <3> QED
      BY <2>1, <3>1, <3>2, CronSelectsAre
  <2>6. CASE t = "year"
    <3>1. /\ cron = <<min, hour, dom, month, None>>
          /\ ToDisplay[t] = {"dom", "month", "hour", "min"}
      BY <1>1, <2>1, <2>6, <2>7, ExpressionOf
    <3>2. v["min"] = min /\ v["hour"] = hour /\ v["dom"] = dom /\ v["month"] = month
      BY <3>1 DEF v
    <3> QED
      BY <2>1, <3>1, <3>2, CronSelectsAre
  <2> QED
    BY <1>1, <2>2, <2>3, <2>4, <2>5, <2>6, PeriodsAre
<1> HIDE DEF t, v, cron
<1>5. again.period = t /\ \A s \in ToDisplay[t] : again.selects[s] = f.selects[s]
  BY <1>4
<1> HIDE DEF again
<1>6. Displayed(again) = Displayed(f)
  BY <1>1, <1>5 DEF Displayed
<1> QED
  BY <1>1, <1>3, <1>5, <1>6 DEF cron

\* Each select has a first option.
LEMMA FirstOptionsAreOptions ==
    /\ FirstOptions = [s \in CronSelects |-> FirstOptions[s]]
    /\ \A s \in CronSelects : FirstOptions[s] \in CronOptions[s]
<1>1. ASSUME NEW s \in CronSelects
      PROVE  \E n \in CronOptions[s] : \A m \in CronOptions[s] : n <= m
  <2>1. /\ CronOptions["mins"] = 0..59 /\ CronOptions["hour"] = 0..23
        /\ CronOptions["min"] = 0..59 /\ CronOptions["dom"] = 1..31
        /\ CronOptions["month"] = 2..12 /\ CronOptions["dow"] = 0..6
    BY DEF CronOptions
  <2> QED
    BY <2>1, CronSelectsAre
<1> QED
  BY <1>1 DEF FirstOptions

LEMMA CronInitHolds ==
    ASSUME CronInit
    PROVE  CronInv
<1> DEFINE built == [period |-> "hour", selects |-> FirstOptions]
           cron == <<0, 12, None, None, None>>
<1>1. GetCronType(cron) = "day"
  <2> DEFINE f == [period |-> "day",
                   selects |-> [s \in CronSelects |->
                      IF s = "min" THEN 0 ELSE IF s = "hour" THEN 12 ELSE FirstOptions[s]]]
  <2>1. IsCronForm(f)
    <3>1. 0 \in CronOptions["min"] /\ 12 \in CronOptions["hour"]
      BY DEF CronOptions
    <3>2. \A s \in CronSelects : f.selects[s] \in CronOptions[s]
      BY <3>1, FirstOptionsAreOptions
    <3> QED
      BY <3>2, PeriodsAre DEF IsCronForm
  <2>2. f.period = "day" /\ f.selects["min"] = 0 /\ f.selects["hour"] = 12
    BY CronSelectsAre
  <2> HIDE DEF f
  <2>3. GetCurrentValue(f) = cron
    BY <2>1, <2>2, ExpressionOf
  <2> QED
    BY <2>1, <2>2, <2>3, PeriodReadsBack
<1>2. cronForm = [period |-> "day",
                  selects |-> [s \in CronSelects |->
                     IF s \in ToDisplay["day"]
                     THEN [mins |-> cron[1], min |-> cron[1], hour |-> cron[2],
                           dom |-> cron[3], month |-> cron[4], dow |-> cron[5]][s]
                     ELSE FirstOptions[s]]]
  <2>1. "day" # None
    BY PeriodAssumption, PeriodsAre
  <2> HIDE DEF cron
  <2> QED
    BY <1>1, <2>1 DEF CronInit, SetCronValue, cron
<1>3. cron[1] = 0 /\ cron[2] = 12 /\ ToDisplay["day"] = {"hour", "min"}
  BY DEF ToDisplay
<1>4. 0 \in CronOptions["min"] /\ 12 \in CronOptions["hour"]
  BY DEF CronOptions
<1>5. \A s \in CronSelects : cronForm.selects[s] \in CronOptions[s]
  BY <1>2, <1>3, <1>4, FirstOptionsAreOptions
<1> QED
  BY <1>2, <1>5, PeriodsAre DEF CronInv, IsCronForm, CronInit

LEMMA CronStep ==
    ASSUME CronInv, [CronNext]_cronVars
    PROVE  CronInv'
<1>1. ASSUME NEW p \in Periods, PeriodChanged(p)
      PROVE  CronInv'
  <2>1. /\ cronForm' = [cronForm EXCEPT !.period = p]
        /\ cronValue' = GetCurrentValue(cronForm')
    BY <1>1 DEF PeriodChanged, SomethingChanged
  <2>2. IsCronForm(cronForm')
    BY <2>1 DEF CronInv, IsCronForm
  <2> QED
    BY <2>1, <2>2 DEF CronInv
<1>2. ASSUME NEW s \in CronSelects, NEW n, ChangeCronSelect(s, n)
      PROVE  CronInv'
  <2>1. /\ cronForm' = [cronForm EXCEPT !.selects[s] = n] /\ n \in CronOptions[s]
        /\ cronValue' = GetCurrentValue(cronForm')
    BY <1>2 DEF ChangeCronSelect, SomethingChanged
  <2>2. /\ cronForm'.period = cronForm.period
        /\ cronForm' = [period |-> cronForm'.period, selects |-> cronForm'.selects]
        /\ cronForm'.selects = [cronForm.selects EXCEPT ![s] = n]
    BY <2>1 DEF CronInv, IsCronForm
  <2>3. IsCronForm(cronForm')
    BY <2>1, <2>2 DEF CronInv, IsCronForm
  <2> QED
    BY <2>1, <2>3 DEF CronInv
<1>3. CASE UNCHANGED cronVars
  BY <1>3 DEF cronVars, CronInv
<1> QED
  BY <1>1, <1>2, <1>3 DEF CronNext

\* Whatever was chosen before, the expression that is posted is shown again as the
\* same period and the same choices (jquery-cron.js).
THEOREM ScheduleReadsBack == CronSpec => []CronReadsBack
<1>1. CronInit => CronInv
  BY CronInitHolds
<1>2. CronInv /\ [CronNext]_cronVars => CronInv'
  BY CronStep
<1>3. CronInv => CronReadsBack
  <2> SUFFICES ASSUME CronInv PROVE CronReadsBack
    OBVIOUS
  <2>1. GetCronType(cronValue) = cronForm.period /\ cronForm.period # None
    BY PeriodReadsBack, PeriodAssumption DEF CronInv, IsCronForm
  <2> QED
    BY <2>1, ChoicesReadBack DEF CronInv, CronReadsBack
<1> QED
  BY <1>1, <1>2, <1>3, PTL DEF CronSpec

-----------------------------------------------------------------------------
(***************************************************************************)
(* The dialogs of a circuit.  What a form, and what was posted of one,     *)
(* holds beside what it was filled with was typed since.                   *)
(***************************************************************************)

\* Of the form of s, which is the dialog or what was posted of it, all else is as it was.
OnlyTyped(s) ==
    \A f \in Fields : s.form[f] # s.base[f] => f \in s.typed

EditType ==
    [shown : BOOLEAN, form : [Fields -> Values], base : [Fields -> Values],
     typed : SUBSET Fields, accept : BOOLEAN, error : BOOLEAN]

DialogsInv ==
    /\ row \in [Fields -> Values] /\ details \in [Fields -> Values]
    /\ edit \in EditType
    /\ OnlyTyped(edit)
    /\ \A s \in submits : OnlyTyped(s) /\ s.form \in [Fields -> Values]
    /\ confirmations \in Nat
    /\ confirmations > 0 => wanted.form \in [Fields -> Values]
    /\ OnlyTypedIsChanged

\* The dialog is filled anew.
LEMMA FillingKeeps ==
    ASSUME DialogsInv, EditClick \/ UndoClick
    PROVE  DialogsInv'
<1>1. FromDetails(edit) \in EditType /\ FromDetails(edit).form = details
      /\ FromDetails(edit).base = details
  BY DEF DialogsInv, FromDetails, EditType
<1>2. /\ \/ edit' = FromDetails(edit)
         \/ edit' = [FromDetails(edit) EXCEPT !.shown = TRUE, !.error = FALSE]
      /\ UNCHANGED <<row, details, submits, wanted, confirmations>>
  BY DEF EditClick, UndoClick
<1>3. edit' \in EditType /\ edit'.form = details /\ edit'.base = details
  BY <1>1, <1>2 DEF EditType
<1> QED
  BY <1>2, <1>3 DEF DialogsInv, OnlyTyped, OnlyTypedIsChanged

LEMMA TypeFieldKeeps ==
    ASSUME DialogsInv, NEW f \in Fields, NEW v \in Values, TypeField(f, v)
    PROVE  DialogsInv'
<1>1. /\ edit' = [edit EXCEPT !.form[f] = v, !.typed = @ \union {f}]
      /\ UNCHANGED <<row, details, submits, wanted, confirmations>>
  BY DEF TypeField
<1>2. /\ edit'.form = [edit.form EXCEPT ![f] = v] /\ edit'.base = edit.base
      /\ edit'.typed = edit.typed \union {f}
      /\ edit' \in EditType
  BY <1>1 DEF DialogsInv, EditType
<1>3. OnlyTyped(edit')
  BY <1>2 DEF DialogsInv, OnlyTyped
<1> QED
  BY <1>1, <1>2, <1>3 DEF DialogsInv, OnlyTypedIsChanged

\* What the form holds without having been typed is in no field another value than
\* what it was filled with; so the server finds it changed only by others.
LEMMA SubmittedKeeps ==
    ASSUME DialogsInv, NEW s \in submits, Submitted(s)
    PROVE  DialogsInv'
<1> DEFINE changed == {f \in Fields : s.form[f] # row[f]}
           others == {f \in Fields : s.base[f] # row[f]}
<1>1. submits' = submits \ {s} /\ UNCHANGED <<row, details>>
  BY DEF Submitted
<1>2. changed \subseteq s.typed \union others
  BY DEF DialogsInv, OnlyTyped
<1>3. CASE UNCHANGED <<edit, wanted, confirmations>>
  BY <1>1, <1>3 DEF DialogsInv, OnlyTyped, OnlyTypedIsChanged
<1>4. CASE /\ wanted' = [form |-> s.form, fields |-> changed, typed |-> s.typed,
                         others |-> others]
           /\ confirmations' = confirmations + 1
           /\ edit' = [edit EXCEPT !.shown = FALSE]
  <2>1. /\ wanted'.fields \subseteq wanted'.typed \union wanted'.others
        /\ wanted'.form \in [Fields -> Values]
    BY <1>2, <1>4 DEF DialogsInv
  <2>2. /\ edit'.form = edit.form /\ edit'.base = edit.base /\ edit'.typed = edit.typed
        /\ edit' \in EditType
    BY <1>4 DEF DialogsInv, EditType
  <2>3. /\ row' \in [Fields -> Values] /\ details' \in [Fields -> Values]
        /\ confirmations' \in Nat
        /\ \A q \in submits' : OnlyTyped(q)' /\ q.form \in [Fields -> Values]
    BY <1>1, <1>4 DEF DialogsInv, OnlyTyped
  <2>4. OnlyTyped(edit)'
    BY <2>2 DEF DialogsInv, OnlyTyped
  <2> QED
    BY <2>1, <2>2, <2>3, <2>4 DEF DialogsInv, OnlyTypedIsChanged
<1> QED
  BY <1>3, <1>4 DEF Submitted

LEMMA DialogsStep ==
    ASSUME DialogsInv, [DialogsNext]_dialogsVars
    PROVE  DialogsInv'
<1>1. CASE OthersChange
  BY <1>1 DEF OthersChange, editVars, DialogsInv, OnlyTyped, OnlyTypedIsChanged
<1>2. CASE DetailsReloaded
  BY <1>2 DEF DetailsReloaded, editVars, DialogsInv, OnlyTyped, OnlyTypedIsChanged
<1>3. ASSUME CloseEdit \/ AcceptRelease \/ \E c \in checks : Validated(c)
      PROVE  DialogsInv'
  <2>1. /\ UNCHANGED <<row, details, submits, wanted, confirmations>>
        /\ \/ edit' = [edit EXCEPT !.shown = FALSE] \/ edit' = [edit EXCEPT !.accept = ~@]
           \/ \E b \in BOOLEAN : edit' = [edit EXCEPT !.error = b]
    BY <1>3 DEF CloseEdit, AcceptRelease, Validated, IsInvalid
  <2>2. /\ edit'.form = edit.form /\ edit'.base = edit.base /\ edit'.typed = edit.typed
        /\ edit' \in EditType
    BY <2>1 DEF DialogsInv, EditType
  <2> QED
    BY <2>1, <2>2 DEF DialogsInv, OnlyTyped, OnlyTypedIsChanged
<1>4. CASE EditTimer
  <2> DEFINE s == [form |-> edit.form, accept |-> edit.accept, base |-> edit.base,
                   typed |-> edit.typed]
  <2>1. /\ submits' \subseteq submits \union {s}
        /\ UNCHANGED <<row, details, edit, wanted, confirmations>>
    BY <1>4 DEF EditTimer
  <2>2. OnlyTyped(s) /\ s.form \in [Fields -> Values]
    BY DEF DialogsInv, OnlyTyped, EditType
  <2> HIDE DEF s
  <2> QED
    BY <2>1, <2>2 DEF DialogsInv, OnlyTyped, OnlyTypedIsChanged
<1>5. CASE Confirmed
  BY <1>5 DEF Confirmed, otherDialogs, DialogsInv, OnlyTyped, OnlyTypedIsChanged
<1>6. CASE \/ ConfirmEdit \/ ShowCancel \/ (\E confirmed \in BOOLEAN : CloseCancel(confirmed))
           \/ (\E m \in Messages : EventMessage(m) \/ MessageAnswered(m))
           \/ HideMessage \/ UNCHANGED dialogsVars
  <2>1. UNCHANGED <<row, details, edit, submits, wanted, confirmations>>
    BY <1>6 DEF ConfirmEdit, ShowCancel, CloseCancel, EventMessage, MessageAnswered,
                HideMessage, dialogsVars, editVars
  <2> QED
    BY <2>1 DEF DialogsInv, OnlyTyped, OnlyTypedIsChanged
<1> QED
  BY <1>1, <1>2, <1>3, <1>4, <1>5, <1>6, FillingKeeps, TypeFieldKeeps, SubmittedKeeps
     DEF DialogsNext

\* A change that is stored changes what was typed since the form was last filled, and
\* what others have changed since (view2.js).
THEOREM OnlyTypedFieldsChange == DialogsSpec => []OnlyTypedIsChanged
<1>1. DialogsInit => DialogsInv
  BY DEF DialogsInit, DialogsInv, OnlyTyped, OnlyTypedIsChanged, EditType, Values
<1>2. DialogsInv /\ [DialogsNext]_dialogsVars => DialogsInv'
  BY DialogsStep
<1>3. DialogsInv => OnlyTypedIsChanged
  BY DEF DialogsInv
<1> QED
  BY <1>1, <1>2, <1>3, PTL DEF DialogsSpec

-----------------------------------------------------------------------------
(***************************************************************************)
(* The forms of the workflow editor.  What a field shows is the text of    *)
(* what it holds from when it is set until it is set again, while its      *)
(* editor is open as well.                                                 *)
(***************************************************************************)

Texts == [as : {"text", "value", "(click to edit)"}, of : Contents \union {None}]

InPlaceType ==
    [kind : EditorKinds, value : Contents \union {None}, shown : Texts, open : BOOLEAN,
     editor : Contents]

ShowsItsValue ==
    IF inPlace.value = None THEN inPlace.shown = Unfilled
    ELSE \/ inPlace.shown = Rendered(inPlace.kind, inPlace.value)
         \/ inPlace.value.choice \notin Offers(inPlace.kind)

FormInv ==
    /\ offered \subseteq Listed
    /\ inPlace \in InPlaceType
    /\ ShowsItsValue
    /\ formPosted # None => formPosted.name \notin {"", "invite"}

LEMMA TextsOfContents ==
    ASSUME NEW e \in Contents, NEW kind
    PROVE  EditorText(e) \in Texts /\ Rendered(kind, e) \in Texts
BY DEF EditorText, Rendered, Texts

\* Every option of an editor, and what an editor makes of a value, is of its type.
LEMMA ContentsOfEditors ==
    ASSUME FormInv, NEW kind \in EditorKinds
    PROVE  /\ Offers(kind) \subseteq Numbers \union Listed
           /\ \A e, v \in Contents : EditorSetValue(kind, e, v) \in Contents
<1>1. Offers(kind) \subseteq Numbers \union Listed
  BY DEF FormInv, Offers
<1>2. ASSUME NEW e \in Contents, NEW v \in Contents
      PROVE  EditorSetValue(kind, e, v) \in Contents
  BY DEF EditorSetValue, SelectSetValue, Contents
<1> QED
  BY <1>1, <1>2

LEMMA NewFieldsType ==
    ASSUME offered \subseteq Listed, NEW f \in NewFields
    PROVE  f \in InPlaceType /\ f.value = None /\ f.shown = Unfilled
<1>1. PICK k \in EditorKinds, c \in Numbers \union offered :
         f = [kind |-> k, value |-> None, shown |-> Unfilled, open |-> FALSE,
              editor |-> NewEditor(c)]
  BY DEF NewFields
<1>2. Unfilled \in Texts /\ NewEditor(c) \in Contents
  BY DEF Unfilled, Texts, NewEditor, Contents, Operators
<1> QED
  BY <1>1, <1>2 DEF InPlaceType

LEMMA OpenEditorKeeps ==
    ASSUME FormInv, OpenEditor
    PROVE  FormInv'
<1>1. PICK e \in Contents : inPlace' = [inPlace EXCEPT !.open = TRUE, !.editor = e]
  <2> DEFINE e == IF inPlace.value = None THEN inPlace.editor
                  ELSE EditorSetValue(inPlace.kind, inPlace.editor, inPlace.value)
  <2>1. inPlace' = [inPlace EXCEPT !.open = TRUE, !.editor = e]
    BY DEF OpenEditor, Opened
  <2>2. /\ inPlace.kind \in EditorKinds /\ inPlace.editor \in Contents
        /\ inPlace.value = None \/ inPlace.value \in Contents
    BY DEF FormInv, InPlaceType
  <2>3. e \in Contents
    BY <2>2, ContentsOfEditors
  <2> QED
    BY <2>1, <2>3
<1>2. inPlace' \in InPlaceType /\ inPlace'.kind = inPlace.kind
      /\ inPlace'.value = inPlace.value /\ inPlace'.shown = inPlace.shown
  BY <1>1 DEF FormInv, InPlaceType
<1> QED
  BY <1>2 DEF OpenEditor, FormInv, ShowsItsValue, Offers

LEMMA OnOkEditorKeeps ==
    ASSUME FormInv, OnOkEditor
    PROVE  FormInv'
<1> DEFINE text == Rendered(inPlace.kind, inPlace.editor)
<1>1. inPlace.editor \in Contents /\ inPlace.editor # None /\ text \in Texts
  BY TextsOfContents, ContentAssumption DEF FormInv, InPlaceType
<1>2. inPlace' = [[inPlace EXCEPT !.value = inPlace.editor, !.shown = text]
                     EXCEPT !.open = FALSE]
  BY DEF OnOkEditor, Close, SetValueAndText
<1> HIDE DEF text
<1>3. inPlace' \in InPlaceType /\ inPlace'.kind = inPlace.kind
      /\ inPlace'.value = inPlace.editor /\ inPlace'.shown = text
  BY <1>1, <1>2 DEF FormInv, InPlaceType
<1> QED
  BY <1>1, <1>3 DEF OnOkEditor, FormInv, ShowsItsValue, Offers, text

\* A list that offers the value selects it, and its text is shown.
LEMMA LoadFormKeeps ==
    ASSUME FormInv, NEW name, NEW v \in Contents, LoadForm(name, v)
    PROVE  FormInv'
<1>1. PICK f \in NewFields : inPlace' = InPlaceSetValue(f, v)
  BY DEF LoadForm
<1>2. UNCHANGED <<offered, formPosted>>
  BY DEF LoadForm
<1>3. v # None
  BY ContentAssumption
<1>4. f \in InPlaceType
  BY NewFieldsType DEF FormInv
<1>5. CASE f.kind = "number"
  <2> DEFINE text == Rendered("number", v)
  <2>1. inPlace' = [f EXCEPT !.value = v, !.shown = text] /\ text \in Texts
    BY <1>1, <1>5, TextsOfContents DEF InPlaceSetValue, SetValueAndText
  <2> HIDE DEF text
  <2>2. inPlace' \in InPlaceType /\ inPlace'.kind = "number" /\ inPlace'.value = v
        /\ inPlace'.shown = text
    BY <1>4, <1>5, <2>1 DEF InPlaceType
  <2> QED
    BY <1>2, <1>3, <2>2 DEF FormInv, ShowsItsValue, text
<1>6. CASE f.kind # "number"
  <2> DEFINE g == [f EXCEPT !.value = v]
             e == EditorSetValue(f.kind, f.editor, v)
             o == [g EXCEPT !.open = TRUE, !.editor = e]
             text == EditorText(e)
  <2>1. g \in InPlaceType /\ g.value = v /\ g.kind = f.kind /\ g.editor = f.editor
    BY <1>4 DEF InPlaceType
  <2>2. e \in Contents /\ text \in Texts
    BY <1>4, ContentsOfEditors, TextsOfContents DEF InPlaceType
  <2>3. Opened(g) = o
    BY <1>3, <2>1 DEF Opened
  <2> HIDE DEF g, e
  <2>4. o \in InPlaceType /\ o.kind = f.kind /\ o.editor = e
    BY <2>1, <2>2 DEF InPlaceType
  <2>5. inPlace' = [[o EXCEPT !.value = v, !.shown = text] EXCEPT !.open = FALSE]
    BY <1>1, <1>6, <2>3, <2>4 DEF InPlaceSetValue, Close, SetValueAndText, g
  <2> HIDE DEF o, text
  <2>6. inPlace' \in InPlaceType /\ inPlace'.kind = f.kind /\ inPlace'.value = v
        /\ inPlace'.shown = text
    BY <2>2, <2>4, <2>5 DEF InPlaceType
  <2>7. v.choice \in offered => e = v
    <3> SUFFICES ASSUME v.choice \in offered PROVE e = v
      OBVIOUS
    <3>1. e = [operator |-> v.operator, choice |-> v.choice]
      BY <1>6 DEF e, EditorSetValue, SelectSetValue
    <3> QED
      BY <3>1 DEF Contents
  <2> QED
    BY <1>2, <1>3, <1>6, <2>6, <2>7 DEF FormInv, ShowsItsValue, Rendered, Offers, text
<1> QED
  BY <1>5, <1>6

LEMMA FormStep ==
    ASSUME FormInv, [FormNext]_formVars
    PROVE  FormInv'
<1>1. ASSUME NEW o \in Operators, NEW c \in Numbers \union Listed, EditInPlace(o, c)
      PROVE  FormInv'
  <2> DEFINE e == [operator |-> o, choice |-> c]
  <2>1. inPlace' = [inPlace EXCEPT !.editor = e] /\ e \in Contents
    BY <1>1 DEF EditInPlace, Contents
  <2> HIDE DEF e
  <2>2. inPlace' \in InPlaceType /\ inPlace'.kind = inPlace.kind
        /\ inPlace'.value = inPlace.value /\ inPlace'.shown = inPlace.shown
    BY <2>1 DEF FormInv, InPlaceType
  <2> QED
    BY <1>1, <2>2 DEF EditInPlace, FormInv, ShowsItsValue, Offers
<1>2. ASSUME NEW o \in Operators, NEW c \in Numbers \union Listed,
             LoadForm("work", [operator |-> o, choice |-> c])
      PROVE  FormInv'
  <2>1. [operator |-> o, choice |-> c] \in Contents
    BY DEF Contents
  <2> QED
    BY <1>2, <2>1, LoadFormKeeps
<1>3. CASE OnCancelEditor
  <2>1. inPlace' \in InPlaceType /\ inPlace'.kind = inPlace.kind
        /\ inPlace'.value = inPlace.value /\ inPlace'.shown = inPlace.shown
    BY <1>3 DEF FormInv, InPlaceType, OnCancelEditor, Close
  <2> QED
    BY <1>3, <2>1 DEF OnCancelEditor, FormInv, ShowsItsValue, Offers
<1>4. CASE SaveForm
  <2>1. formPosted'.name \notin {"", "invite"}
    BY <1>4 DEF SaveForm, IsEmpty, StringValue
  <2> QED
    BY <1>4, <2>1 DEF SaveForm, FormInv, ShowsItsValue, Offers
<1>5. CASE FocusName \/ BlurName \/ (\E text \in Names : TypeName(text)) \/ UNCHANGED formVars
  BY <1>5 DEF FocusName, BlurName, TypeName, formVars, FormInv, ShowsItsValue, Offers
<1> QED
  BY <1>1, <1>2, <1>3, <1>4, <1>5, OpenEditorKeeps, OnOkEditorKeeps DEF FormNext

\* However it is opened, changed, cancelled and loaded, a closed form shows what will
\* be saved, unless its list does not offer that any more, and the invitation is
\* never taken for a name (inputEx's InPlaceEdit and StringField).
THEOREM FormShowsWhatIsSaved == FormSpec => []FormShowsWhatItSaves
<1>1. FormInit => FormInv
  <2> SUFFICES ASSUME FormInit PROVE FormInv
    OBVIOUS
  <2>1. offered \subseteq Listed /\ inPlace \in NewFields
    BY DEF FormInit
  <2> QED
    BY <2>1, NewFieldsType DEF FormInit, FormInv, ShowsItsValue
<1>2. FormInv /\ [FormNext]_formVars => FormInv'
  BY FormStep
<1>3. FormInv => FormShowsWhatItSaves
  BY DEF FormInv, ShowsItsValue, FormShowsWhatItSaves
<1> QED
  BY <1>1, <1>2, <1>3, PTL DEF FormSpec

-----------------------------------------------------------------------------
(***************************************************************************)
(* What the editor of the workflows draws.  While the mouse holds          *)
(* something nothing is closed or loaded, so what it holds stays there.    *)
(***************************************************************************)

\* The arrow a leads from p to q, and its canvas is no larger than that.
Joins(a, p, q) ==
    /\ a.region.left + a.from = p /\ a.region.left + a.to = q
    /\ a.region.width \in {a.from, a.to}

\* What was saved is what a layer may hold.
IsPipe(saved) ==
    /\ DOMAIN saved.config \subseteq Boxes
    /\ \A b \in DOMAIN saved.config : saved.config[b] \in Places
    /\ \A w \in saved.wires : {w[1], w[2]} \subseteq DOMAIN saved.config

CanvasInv ==
    /\ place \in [Boxes -> Places \union {None}] /\ scrolled \in {0, 1}
    /\ \A w \in DOMAIN arrows : {w[1], w[2]} \subseteq OnCanvas
    /\ \A w \in DOMAIN arrows : Joins(arrows[w], place[w[1]], place[w[2]])
    /\ HoldsWire => held \in HeldWires
    /\ HoldsBox => held.box \in OnCanvas
    /\ HoldsWire => held.from \in OnCanvas
    /\ invited \subseteq OnCanvas
    /\ ~HoldsWire => invited = {}
    /\ pipe = None \/ IsPipe(pipe)
    /\ focus \in [layer : Boxes \union {None}, shown : SUBSET Boxes]
    /\ focus.shown \subseteq {focus.layer}

LEMMA ArrowJoins ==
    ASSUME NEW p \in Int, NEW q \in Int
    PROVE  Joins(DrawArrows(p, q), p, q) /\ DrawArrows(p, q) \in Arrows
<1> DEFINE min == IF p < q THEN p ELSE q
           max == IF p < q THEN q ELSE p
           a == DrawArrows(p, q)
<1>1. /\ a.region.left = min /\ a.region.width = max - min
      /\ a.from = p - min /\ a.to = q - min
  BY DEF DrawArrows, SetCanvasRegion
<1>2. a \in Arrows
  BY DEF DrawArrows, SetCanvasRegion, Arrows
<1> HIDE DEF a
<1>3. CASE p < q
  <2>1. min = p /\ max = q
    BY <1>3
  <2> HIDE DEF min, max
  <2> QED
    BY <1>1, <1>2, <2>1 DEF Joins, a
<1>4. CASE ~(p < q)
  <2>1. min = q /\ max = p
    BY <1>4
  <2> HIDE DEF min, max
  <2> QED
    BY <1>1, <1>2, <2>1 DEF Joins, a
<1> QED
  BY <1>3, <1>4

LEMMA RedrawJoins ==
    ASSUME NEW at, NEW w, at[w[1]] \in Places, at[w[2]] \in Places
    PROVE  Joins(Redraw(w, at), at[w[1]], at[w[2]])
BY ArrowJoins, CanvasAssumption DEF Redraw, GetXY, Places

\* A container on the layer has a place.
LEMMA PlaceOf ==
    ASSUME CanvasInv, NEW b \in OnCanvas
    PROVE  b \in Boxes /\ place[b] \in Places
BY DEF CanvasInv, OnCanvas

LEMMA PlacesAreNotNone == \A p \in Places : p # None
BY NoneAssumption, CanvasAssumption DEF Places

LEMMA AddModuleKeeps ==
    ASSUME CanvasInv, NEW b \in Boxes, NEW x, AddModuleAt(b, x)
    PROVE  CanvasInv'
<1>1. /\ InLayer(x) \in Places /\ place' = [place EXCEPT ![b] = InLayer(x)]
      /\ place[b] = None
      /\ UNCHANGED <<arrows, held, invited, focus, scrolled, pipe>>
  BY DEF AddModuleAt
<1>2. OnCanvas' = OnCanvas \union {b} /\ b \notin OnCanvas
      /\ \A c \in OnCanvas : place'[c] = place[c]
  BY <1>1, PlacesAreNotNone DEF OnCanvas, CanvasInv
<1>3. place' \in [Boxes -> Places \union {None}]
  BY <1>1 DEF CanvasInv
<1> QED
  BY <1>1, <1>2, <1>3 DEF CanvasInv, HoldsBox, HoldsWire

LEMMA OnDragKeeps ==
    ASSUME CanvasInv, NEW p \in Places, OnDrag(p)
    PROVE  CanvasInv'
<1>1. /\ HoldsBox /\ place' = [place EXCEPT ![held.box] = p]
      /\ arrows' = [w \in DOMAIN arrows |->
                     IF held.box \in {w[1], w[2]} THEN Redraw(w, place') ELSE arrows[w]]
      /\ UNCHANGED <<held, invited, focus, scrolled, pipe>>
  BY DEF OnDrag
<1>2. /\ held.box \in OnCanvas /\ p # None /\ place'[held.box] = p
      /\ \A c \in Boxes \ {held.box} : place'[c] = place[c]
      /\ place' \in [Boxes -> Places \union {None}]
  BY <1>1, PlacesAreNotNone DEF CanvasInv, OnCanvas
<1>3. OnCanvas' = OnCanvas
  BY <1>2 DEF OnCanvas
<1>4. \A c \in OnCanvas : place'[c] \in Places
  BY <1>2, PlaceOf
<1>5. ASSUME NEW w \in DOMAIN arrows
      PROVE  Joins(arrows'[w], place'[w[1]], place'[w[2]])
  <2>1. w[1] \in OnCanvas /\ w[2] \in OnCanvas
    BY DEF CanvasInv
  <2>2. CASE held.box \in {w[1], w[2]}
    BY <1>1, <1>4, <2>1, <2>2, RedrawJoins
  <2>3. CASE held.box \notin {w[1], w[2]}
    BY <1>1, <1>2, <2>1, <2>3, PlaceOf DEF CanvasInv
  <2> QED
    BY <2>2, <2>3
<1>6. DOMAIN arrows' = DOMAIN arrows
  BY <1>1
<1> QED
  BY <1>1, <1>2, <1>3, <1>5, <1>6 DEF CanvasInv, HoldsBox, HoldsWire

\* Of the arrows some are kept.
LEMMA KeptArrows ==
    ASSUME NEW W
    PROVE  /\ DOMAIN Kept(W) = DOMAIN arrows \ W
           /\ \A w \in DOMAIN Kept(W) : Kept(W)[w] = arrows[w]
BY DEF Kept

LEMMA CloseContainerKeeps ==
    ASSUME CanvasInv, NEW b, CloseContainer(b)
    PROVE  CanvasInv'
<1>1. /\ held = None /\ b \in OnCanvas
      /\ place' = [place EXCEPT ![b] = None]
      /\ arrows' = Kept(WiresOf(b))
      /\ focus' = [focus EXCEPT !.shown = @ \ {b}]
      /\ UNCHANGED <<held, invited, scrolled, pipe>>
  BY DEF CloseContainer
<1>2. /\ OnCanvas' = OnCanvas \ {b} /\ \A c \in OnCanvas \ {b} : place'[c] = place[c]
      /\ place' \in [Boxes -> Places \union {None}]
  BY <1>1 DEF CanvasInv, OnCanvas
<1>3. DOMAIN arrows' = DOMAIN arrows \ WiresOf(b) /\ \A w \in DOMAIN arrows' : arrows'[w] = arrows[w]
  BY <1>1, KeptArrows
<1>4. \A w \in DOMAIN arrows' : w \in DOMAIN arrows /\ w[1] # b /\ w[2] # b
  BY <1>3 DEF WiresOf
<1>5. \A w \in DOMAIN arrows' : {w[1], w[2]} \subseteq OnCanvas'
  BY <1>2, <1>4 DEF CanvasInv
<1>6. \A w \in DOMAIN arrows' : Joins(arrows'[w], place'[w[1]], place'[w[2]])
  BY <1>2, <1>3, <1>4 DEF CanvasInv
<1>7. ~HoldsBox /\ ~HoldsWire /\ invited = {}
  BY <1>1 DEF CanvasInv, HoldsBox, HoldsWire
<1>8. focus'.shown \subseteq {focus'.layer}
      /\ focus' \in [layer : Boxes \union {None}, shown : SUBSET Boxes]
  BY <1>1 DEF CanvasInv
<1>9. (pipe = None \/ IsPipe(pipe))' /\ scrolled' \in {0, 1} /\ invited' \subseteq OnCanvas'
      /\ ~HoldsBox' /\ ~HoldsWire' /\ invited' = {}
  BY <1>1, <1>7 DEF CanvasInv, HoldsBox, HoldsWire
<1> QED
  BY <1>2, <1>5, <1>6, <1>8, <1>9 DEF CanvasInv

LEMMA HoldWireKeeps ==
    ASSUME CanvasInv, NEW b, HoldWire(b)
    PROVE  CanvasInv'
<1>1. /\ held = None /\ b \in OnCanvas
      /\ held' = [from |-> b, drawn |-> None]
      /\ arrows' = Kept({w \in DOMAIN arrows : w[1] = b})
      /\ UNCHANGED <<place, invited, focus, scrolled, pipe>>
  BY DEF HoldWire
<1>2. DOMAIN arrows' \subseteq DOMAIN arrows /\ \A w \in DOMAIN arrows' : arrows'[w] = arrows[w]
  BY <1>1, KeptArrows
<1>3. invited = {}
  BY <1>1 DEF CanvasInv, HoldsWire
<1>4. held'.from \in OnCanvas /\ held' \in HeldWires
  BY <1>1 DEF HeldWires, OnCanvas
<1>5. ~HoldsBox'
  BY <1>1 DEF HoldsBox
<1>6. OnCanvas' = OnCanvas
  BY <1>1 DEF OnCanvas
<1> QED
  BY <1>1, <1>2, <1>3, <1>4, <1>5, <1>6 DEF CanvasInv

LEMMA DragWireKeeps ==
    ASSUME CanvasInv, NEW p \in Places, DragWire(p)
    PROVE  CanvasInv'
<1> DEFINE d == DrawArrows(GetXY(held.from, place), p)
<1>1. /\ HoldsWire /\ held' = [held EXCEPT !.drawn = d]
      /\ UNCHANGED <<place, arrows, invited, focus, scrolled, pipe>>
  BY DEF DragWire
<1>4. d \in Arrows
  <2>1. held.from \in OnCanvas
    BY <1>1 DEF CanvasInv
  <2> QED
    BY <2>1, PlaceOf, ArrowJoins, CanvasAssumption DEF GetXY, Places
<1> HIDE DEF d
<1>2. held' \in HeldWires /\ held'.from = held.from /\ held' # None
  BY <1>1, <1>4, HeldAssumption DEF CanvasInv, HeldWires
<1>5. "from" \in DOMAIN held' /\ "box" \notin DOMAIN held'
  BY <1>2 DEF HeldWires
<1>3. OnCanvas' = OnCanvas
  BY <1>1 DEF OnCanvas
<1> QED
  BY <1>1, <1>2, <1>3, <1>5 DEF CanvasInv, HoldsWire, HoldsBox

\* The wire that is dropped joins two containers of the layer.
LEMMA DropWireKeeps ==
    ASSUME CanvasInv, NEW b, DropWire(b)
    PROVE  CanvasInv'
<1> DEFINE w == <<held.from, b>>
           R == Redraw(w, place)
           K == Kept({u \in DOMAIN arrows : u[2] = b})
<1>1. /\ HoldsWire /\ b \in invited
      /\ arrows' = [u \in DOMAIN K \union {w} |-> IF u = w THEN R ELSE K[u]]
      /\ held' = None /\ invited' = {}
      /\ UNCHANGED <<place, focus, scrolled, pipe>>
  BY DEF DropWire
<1>2. /\ w[1] \in OnCanvas /\ w[2] \in OnCanvas
  BY <1>1 DEF CanvasInv
<1>3. Joins(R, place[w[1]], place[w[2]])
  BY <1>2, PlaceOf, RedrawJoins
<1>4. DOMAIN K \subseteq DOMAIN arrows /\ \A u \in DOMAIN K : K[u] = arrows[u]
  BY KeptArrows
<1> HIDE DEF w, R, K
<1>5. /\ DOMAIN arrows' = {w} \union DOMAIN K
      /\ \A u \in DOMAIN arrows' : arrows'[u] = IF u = w THEN R ELSE K[u]
  BY <1>1
<1>6. OnCanvas' = OnCanvas
  BY <1>1 DEF OnCanvas
<1>7. \A u \in DOMAIN arrows' : {u[1], u[2]} \subseteq OnCanvas
  BY <1>2, <1>4, <1>5 DEF CanvasInv
<1>8. \A u \in DOMAIN arrows' : Joins(arrows'[u], place[u[1]], place[u[2]])
  BY <1>3, <1>4, <1>5 DEF CanvasInv
<1> QED
  BY <1>1, <1>6, <1>7, <1>8 DEF CanvasInv, HoldsWire, HoldsBox

\* What is computed from the places on the page are the places in the layer.
LEMMA SavePipeKeeps ==
    ASSUME CanvasInv, SavePipe
    PROVE  CanvasInv'
<1>1. /\ pipe' = [config |-> [b \in OnCanvas |-> GetConfig(b)], wires |-> DOMAIN arrows]
      /\ UNCHANGED <<place, arrows, held, invited, focus, scrolled>>
  BY DEF SavePipe
<1>2. ASSUME NEW b \in OnCanvas
      PROVE  b \in Boxes /\ GetConfig(b) \in Places
  <2>1. b \in Boxes /\ place[b] \in Places
    BY PlaceOf
  <2>2. GetConfig(b) = place[b]
    BY <2>1, CanvasAssumption DEF GetConfig, InLayer, OnPage, Places, CanvasInv
  <2> QED
    BY <2>1, <2>2
<1>3. IsPipe(pipe')
  <2>1. DOMAIN pipe'.config = OnCanvas /\ pipe'.wires = DOMAIN arrows
        /\ \A b \in OnCanvas : pipe'.config[b] = GetConfig(b)
    BY <1>1
  <2> QED
    BY <1>2, <2>1 DEF IsPipe, CanvasInv
<1>4. OnCanvas' = OnCanvas
  BY <1>1 DEF OnCanvas
<1> QED
  BY <1>1, <1>3, <1>4 DEF CanvasInv, HoldsWire, HoldsBox

LEMMA LoadPipeAtKeeps ==
    ASSUME CanvasInv, LoadPipeAt
    PROVE  CanvasInv'
<1>1. /\ held = None /\ IsPipe(pipe)
      /\ place' = RenderedAt(pipe.config)
      /\ arrows' = [w \in pipe.wires |-> Redraw(w, place')]
      /\ focus' = [focus EXCEPT !.shown = {}]
      /\ UNCHANGED <<held, invited, scrolled, pipe>>
  BY DEF LoadPipeAt, CanvasInv
<1>2. /\ place' \in [Boxes -> Places \union {None}]
      /\ \A b \in DOMAIN pipe.config : place'[b] \in Places
  BY <1>1 DEF RenderedAt, IsPipe
<1>3. OnCanvas' = DOMAIN pipe.config
  BY <1>1, <1>2, PlacesAreNotNone DEF OnCanvas, RenderedAt, IsPipe
<1>4. \A w \in DOMAIN arrows' : {w[1], w[2]} \subseteq OnCanvas'
  <2>1. DOMAIN arrows' = pipe.wires
    BY <1>1
  <2> QED
    BY <1>1, <1>3, <2>1 DEF IsPipe
<1>5. ASSUME NEW w \in DOMAIN arrows'
      PROVE  Joins(arrows'[w], place'[w[1]], place'[w[2]])
  <2>1. place'[w[1]] \in Places /\ place'[w[2]] \in Places
    BY <1>2, <1>3, <1>4
  <2> QED
    BY <1>1, <2>1, RedrawJoins
<1>6. ~HoldsBox /\ ~HoldsWire /\ invited = {}
  BY <1>1 DEF CanvasInv, HoldsBox, HoldsWire
<1>7. /\ focus'.shown = {}
      /\ focus' \in [layer : Boxes \union {None}, shown : SUBSET Boxes]
  BY <1>1 DEF CanvasInv
<1> QED
  BY <1>1, <1>2, <1>4, <1>5, <1>6, <1>7 DEF CanvasInv, HoldsBox, HoldsWire, IsPipe

LEMMA CanvasStep ==
    ASSUME CanvasInv, [CanvasNext]_canvasVars
    PROVE  CanvasInv'
<1>1. ASSUME NEW b \in Boxes, OnMouseDown(b)
      PROVE  CanvasInv'
  <2>1. /\ b \in OnCanvas /\ held = None /\ held' = [box |-> b]
        /\ focus' = [layer |-> b,
                     shown |-> (focus.shown \ IF focus.layer = b THEN {} ELSE {focus.layer})
                                  \union {b}]
        /\ UNCHANGED <<place, arrows, invited, scrolled, pipe>>
    BY <1>1 DEF OnMouseDown
  <2>2. /\ focus'.shown \subseteq {focus'.layer}
        /\ focus' \in [layer : Boxes \union {None}, shown : SUBSET Boxes]
    BY <2>1 DEF CanvasInv
  <2>3. invited = {} /\ ~HoldsWire' /\ (HoldsBox' => held'.box \in OnCanvas)
    BY <2>1 DEF CanvasInv, HoldsWire, HoldsBox
  <2>4. OnCanvas' = OnCanvas
    BY <2>1 DEF OnCanvas
  <2> QED
    BY <2>1, <2>2, <2>3, <2>4 DEF CanvasInv
<1>2. ASSUME NEW b \in Boxes, SetDropInvitation(b)
      PROVE  CanvasInv'
  BY <1>2 DEF SetDropInvitation, SymDiff, CanvasInv, OnCanvas, HoldsBox, HoldsWire
<1>3. CASE EndDrag
  BY <1>3 DEF EndDrag, CanvasInv, OnCanvas, HoldsBox, HoldsWire
<1>4. CASE ScrollLayer
  BY <1>4 DEF ScrollLayer, CanvasInv, OnCanvas, HoldsBox, HoldsWire
<1>5. CASE UNCHANGED canvasVars
  BY <1>5 DEF canvasVars, CanvasInv, OnCanvas, HoldsBox, HoldsWire
<1> QED
  BY <1>1, <1>2, <1>3, <1>4, <1>5, AddModuleKeeps, OnDragKeeps, CloseContainerKeeps,
     HoldWireKeeps, DragWireKeeps, DropWireKeeps, SavePipeKeeps, LoadPipeAtKeeps
     DEF CanvasNext

\* Whatever was dragged, scrolled, closed or loaded, the arrows join the containers
\* where they are, and the focus is where the layer will take it from (WireIt).
THEOREM CanvasShowsLayer == CanvasSpec => []CanvasShowsTheLayer
<1>1. CanvasInit => CanvasInv
  <2> SUFFICES ASSUME CanvasInit PROVE CanvasInv
    OBVIOUS
  <2>1. DOMAIN arrows = {}
    BY DEF CanvasInit
  <2> QED
    BY <2>1 DEF CanvasInit, CanvasInv, HoldsBox, HoldsWire
<1>2. CanvasInv /\ [CanvasNext]_canvasVars => CanvasInv'
  BY CanvasStep
<1>3. CanvasInv => CanvasShowsTheLayer
  BY DEF CanvasInv, CanvasShowsTheLayer, Joins
<1> QED
  BY <1>1, <1>2, <1>3, PTL DEF CanvasSpec

-----------------------------------------------------------------------------
(***************************************************************************)
(* The roles of a user.  For a user who waits for every answer at most one *)
(* is to come: a form, while no form shows, or the groups of the domain    *)
(* that is chosen in the form the script finds first.                      *)
(***************************************************************************)

LEMMA RemovedFromList ==
    ASSUME NEW S, NEW s \in Seq(S), NEW i \in DOMAIN s
    PROVE  /\ RemoveAt(s, i) \in Seq(S)
           /\ \A e : s = <<e>> => RemoveAt(s, i) = <<>> /\ s[i] = e
<1>0. i \in 1..Len(s) /\ Len(s) \in Nat
  OBVIOUS
<1>1. /\ SubSeq(s, 1, i-1) \in Seq(S) /\ Len(SubSeq(s, 1, i-1)) = i - 1
  BY <1>0
<1>2. /\ SubSeq(s, i+1, Len(s)) \in Seq(S) /\ Len(SubSeq(s, i+1, Len(s))) = Len(s) - i
  BY <1>0
<1>3. ASSUME NEW p \in Seq(S), NEW q \in Seq(S), Len(p) = i - 1, Len(q) = Len(s) - i
      PROVE  p \o q \in Seq(S) /\ Len(p \o q) = Len(s) - 1
  BY <1>0, <1>3
<1>4. RemoveAt(s, i) \in Seq(S) /\ Len(RemoveAt(s, i)) = Len(s) - 1
  BY <1>1, <1>2, <1>3 DEF RemoveAt
<1>5. ASSUME NEW e, s = <<e>>
      PROVE  RemoveAt(s, i) = <<>> /\ s[i] = e
  <2>1. Len(s) = 1 /\ s[1] = e /\ i = 1
    BY <1>0, <1>5
  <2>2. RemoveAt(s, i) \in Seq(S) /\ Len(RemoveAt(s, i)) = 0
    BY <1>4, <2>1
  <2> QED
    BY <2>1, <2>2
<1> QED
  BY <1>4, <1>5

AnyDomain == RoleDomains \union {None}

RolesType ==
    /\ forms \in [Kinds -> RoleForms \union {None}]
    /\ formsAsked \in Seq([kind : Kinds, of : AnyDomain])
    /\ groupsAsked \in Seq(AnyDomain)
    /\ \A k \in roleDialogs \intersect Kinds : forms[k] # None
    /\ groupsAsked # <<>> => forms[FirstForm] # None

\* The form k offers the groups of its domain, or the script has the other one.
IsRight(k) ==
    \/ forms[k] = None
    \/ k = "edit" /\ forms["add"] # None
    \/ forms[k].groups = forms[k].domain

AllRight == IsRight("add") /\ IsRight("edit")

AtMostOneToCome ==
    \/ NothingToCome /\ AllRight
    \/ /\ formsAsked = <<>>
       /\ forms[FirstForm] # None /\ groupsAsked = <<forms[FirstForm].domain>>
    \/ /\ groupsAsked = <<>> /\ \E f : formsAsked = <<f>>
       /\ roleDialogs \intersect Kinds = {} /\ AllRight

RolesInv == RolesType /\ (unhurried => AtMostOneToCome)

LEMMA KindsAre == Kinds = {"add", "edit", "addSystem", "editSystem"}
BY DEF Kinds

LEMMA Appended ==
    ASSUME NEW S, NEW s \in Seq(S), NEW e \in S
    PROVE  Append(s, e) \in Seq(S) /\ (s = <<>> => Append(s, e) = <<e>>)
<1>1. Append(s, e) \in Seq(S)
  OBVIOUS
<1>2. ASSUME s = <<>>
      PROVE  Append(s, e) = <<e>>
  <2>1. Len(s) = 0 /\ Len(Append(s, e)) = 1 /\ Append(s, e)[1] = e
    BY <1>2
  <2>2. \A t \in Seq(S) : Len(t) = 1 => t = <<t[1]>>
    OBVIOUS
  <2> QED
    BY <1>1, <2>1, <2>2
<1> QED
  BY <1>1, <1>2

LEMMA ListElements ==
    ASSUME NEW S, NEW s \in Seq(S), NEW i \in DOMAIN s
    PROVE  s[i] \in S
OBVIOUS

LEMMA AskFormKeeps ==
    ASSUME RolesInv, NEW kind \in Kinds, NEW of \in AnyDomain, AskForm(kind, of)
    PROVE  RolesInv'
<1> DEFINE f == [kind |-> kind, of |-> of]
<1>1. /\ roleDialogs = {} /\ formsAsked' = Append(formsAsked, f)
      /\ unhurried' = (unhurried /\ NothingToCome)
      /\ UNCHANGED <<forms, roleDialogs, groupsAsked>>
  BY DEF AskForm
<1>2. f \in [kind : Kinds, of : AnyDomain]
  OBVIOUS
<1> HIDE DEF f
<1>3. formsAsked' \in Seq([kind : Kinds, of : AnyDomain])
      /\ (formsAsked = <<>> => formsAsked' = <<f>>)
  BY <1>1, <1>2, Appended DEF RolesInv, RolesType
<1>4. RolesType'
  BY <1>1, <1>3 DEF RolesInv, RolesType, FirstForm
<1>5. ASSUME unhurried'
      PROVE  AtMostOneToCome'
  <2>1. unhurried /\ NothingToCome
    BY <1>1, <1>5
  <2>2. NothingToCome => ~(\E g : formsAsked = <<g>>) /\ \A d : groupsAsked # <<d>>
    BY DEF NothingToCome
  <2>3. AllRight
    BY <2>1, <2>2 DEF RolesInv, AtMostOneToCome
  <2> QED
    BY <1>1, <1>3, <2>1, <2>3 DEF AtMostOneToCome, AllRight, IsRight, NothingToCome
<1> QED
  BY <1>4, <1>5 DEF RolesInv

LEMMA FormAnsweredKeeps ==
    ASSUME RolesInv, NEW i \in DOMAIN formsAsked, FormAnswered(i)
    PROVE  RolesInv'
<1> DEFINE f == formsAsked[i]
           filling == [domain |-> f.of, groups |-> IF f.kind = "add" THEN Placeholder ELSE f.of]
<1>1. /\ formsAsked' = RemoveAt(formsAsked, i)
      /\ forms' = [forms EXCEPT ![f.kind] = filling]
      /\ roleDialogs' = roleDialogs \union {f.kind}
      /\ groupsAsked' = IF f.kind = "add" /\ "add" \notin roleDialogs
                        THEN Append(groupsAsked, f.of) ELSE groupsAsked
      /\ UNCHANGED unhurried
  BY DEF FormAnswered
<1>2. formsAsked \in Seq([kind : Kinds, of : AnyDomain])
  BY DEF RolesInv, RolesType
<1>3. f \in [kind : Kinds, of : AnyDomain]
  <2> DEFINE S == [kind : Kinds, of : AnyDomain]
  <2> HIDE DEF S
  <2>1. formsAsked \in Seq(S)
    BY <1>2 DEF S
  <2> QED
    BY <2>1, ListElements DEF S
<1>4. filling \in RoleForms /\ filling # None
  BY <1>3, RoleFormAssumption DEF RoleForms, AnyDomain
<1>5. /\ formsAsked' \in Seq([kind : Kinds, of : AnyDomain])
      /\ \A e : formsAsked = <<e>> => formsAsked' = <<>>
  BY <1>1, <1>2, RemovedFromList
<1>6. filling.domain = f.of /\ (f.kind # "add" => filling.groups = f.of)
      /\ f.kind \in Kinds /\ f.of \in AnyDomain
  BY <1>3
<1> HIDE DEF filling, f
<1>7. /\ forms' \in [Kinds -> RoleForms \union {None}]
      /\ forms'[f.kind] = filling
      /\ \A k \in Kinds \ {f.kind} : forms'[k] = forms[k]
  BY <1>1, <1>4, <1>6 DEF RolesInv, RolesType
<1>8. groupsAsked' \in Seq(AnyDomain)
  BY <1>1, <1>6, Appended DEF RolesInv, RolesType
<1>11. groupsAsked' # <<>> => forms'[FirstForm'] # None
  <2>1. CASE f.kind = "add"
    BY <1>4, <1>6, <1>7, <2>1 DEF FirstForm
  <2>2. CASE f.kind # "add"
    BY <1>1, <1>4, <1>6, <1>7, <2>2, KindsAre DEF FirstForm, RolesInv, RolesType
  <2> QED
    BY <2>1, <2>2
<1>9. RolesType'
  BY <1>1, <1>4, <1>5, <1>7, <1>8, <1>11 DEF RolesInv, RolesType
<1>10. ASSUME unhurried
       PROVE  AtMostOneToCome'
  <2>1. /\ groupsAsked = <<>> /\ formsAsked' = <<>> /\ AllRight
        /\ roleDialogs \intersect Kinds = {}
    BY <1>5, <1>10 DEF RolesInv, AtMostOneToCome, NothingToCome
  <2>2. CASE f.kind = "add"
    <3>1. groupsAsked' = <<f.of>>
      BY <1>1, <1>6, <2>1, <2>2, Appended DEF RolesInv, RolesType
    <3>2. FirstForm' = "add" /\ forms'["add"] # None /\ forms'["add"].domain = f.of
      BY <1>4, <1>6, <1>7, <2>2 DEF FirstForm
    <3> QED
      BY <2>1, <3>1, <3>2 DEF AtMostOneToCome
  <2>3. CASE f.kind # "add"
    <3>1. groupsAsked' = <<>>
      BY <1>1, <2>1, <2>3
    <3>2. AllRight'
      BY <1>6, <1>7, <2>1, <2>3, KindsAre DEF AllRight, IsRight
    <3> QED
      BY <2>1, <3>1, <3>2 DEF AtMostOneToCome, NothingToCome
  <2> QED
    BY <2>2, <2>3
<1> QED
  BY <1>1, <1>9, <1>10 DEF RolesInv

LEMMA ChangeRoleDomainKeeps ==
    ASSUME RolesInv, NEW kind \in Kinds, NEW d \in AnyDomain, ChangeRoleDomain(kind, d)
    PROVE  RolesInv'
<1>1. /\ kind \in roleDialogs \intersect {"add", "edit"}
      /\ forms' = [forms EXCEPT ![kind].domain = d]
      /\ groupsAsked' = GetGroups(forms')
      /\ unhurried' = (unhurried /\ NothingToCome)
      /\ UNCHANGED <<roleDialogs, formsAsked>>
  BY DEF ChangeRoleDomain
<1>2. forms[kind] # None /\ forms[kind] \in RoleForms
  BY <1>1 DEF RolesInv, RolesType
<1>3. PICK g : g = [forms[kind] EXCEPT !.domain = d]
  OBVIOUS
<1>4. g \in RoleForms /\ g # None /\ g.domain = d
  BY <1>2, <1>3, RoleFormAssumption DEF RoleForms, AnyDomain
<1>5. forms' = [forms EXCEPT ![kind] = g]
  BY <1>1, <1>3
<1>6. /\ forms' \in [Kinds -> RoleForms \union {None}]
      /\ forms'[kind] = g /\ \A k \in Kinds \ {kind} : forms'[k] = forms[k]
  BY <1>4, <1>5 DEF RolesInv, RolesType
<1>7. FirstForm' = FirstForm /\ FirstForm \in Kinds /\ forms'[FirstForm] # None
  BY <1>1, <1>2, <1>4, <1>6, KindsAre DEF FirstForm
<1>8. groupsAsked' = Append(groupsAsked, forms'[FirstForm].domain)
      /\ forms'[FirstForm].domain \in AnyDomain
  BY <1>1, <1>6, <1>7 DEF GetGroups, RoleForms, AnyDomain
<1>9. /\ groupsAsked' \in Seq(AnyDomain)
      /\ groupsAsked = <<>> => groupsAsked' = <<forms'[FirstForm].domain>>
  BY <1>8, Appended DEF RolesInv, RolesType
<1>10. RolesType'
  BY <1>1, <1>4, <1>6, <1>7, <1>9 DEF RolesInv, RolesType
<1>11. unhurried' => AtMostOneToCome'
  BY <1>1, <1>7, <1>9 DEF AtMostOneToCome, NothingToCome
<1> QED
  BY <1>10, <1>11 DEF RolesInv

LEMMA GroupsAnsweredKeeps ==
    ASSUME RolesInv, NEW i \in DOMAIN groupsAsked, GroupsAnswered(i)
    PROVE  RolesInv'
<1>1. /\ groupsAsked' = RemoveAt(groupsAsked, i)
      /\ forms' = [forms EXCEPT ![FirstForm].groups = groupsAsked[i]]
      /\ UNCHANGED <<roleDialogs, formsAsked, unhurried>>
  BY DEF GroupsAnswered
<1>2. groupsAsked \in Seq(AnyDomain) /\ groupsAsked # <<>>
  BY DEF RolesInv, RolesType
<1>3. PICK answer \in AnyDomain : answer = groupsAsked[i]
  BY <1>2
<1>4. FirstForm \in Kinds /\ forms[FirstForm] \in RoleForms /\ FirstForm \in {"add", "edit"}
  BY <1>2, KindsAre DEF RolesInv, RolesType, FirstForm
<1>5. PICK g : g = [forms[FirstForm] EXCEPT !.groups = answer]
  OBVIOUS
<1>6. /\ g \in RoleForms /\ g # None /\ g.groups = answer
      /\ g.domain = forms[FirstForm].domain
  BY <1>3, <1>4, <1>5, RoleFormAssumption DEF RoleForms, AnyDomain
<1>7. forms' = [forms EXCEPT ![FirstForm] = g]
  BY <1>1, <1>3, <1>5
<1>8. /\ forms' \in [Kinds -> RoleForms \union {None}]
      /\ forms'[FirstForm] = g /\ \A k \in Kinds \ {FirstForm} : forms'[k] = forms[k]
  BY <1>4, <1>6, <1>7 DEF RolesInv, RolesType
<1>9. FirstForm' = FirstForm
  BY <1>2, <1>4, <1>6, <1>8, KindsAre DEF FirstForm, RolesInv, RolesType
<1>10. /\ groupsAsked' \in Seq(AnyDomain)
       /\ \A e : groupsAsked = <<e>> => groupsAsked' = <<>> /\ groupsAsked[i] = e
  BY <1>1, <1>2, RemovedFromList
<1>11. RolesType'
  BY <1>1, <1>6, <1>8, <1>9, <1>10 DEF RolesInv, RolesType
<1>12. ASSUME unhurried
       PROVE  AtMostOneToCome'
  <2>1. formsAsked = <<>> /\ groupsAsked = <<forms[FirstForm].domain>>
    BY <1>2, <1>12 DEF RolesInv, AtMostOneToCome, NothingToCome
  <2>2. groupsAsked' = <<>> /\ g.groups = g.domain
    BY <1>3, <1>6, <1>10, <2>1
  <2>3. /\ forms'[FirstForm].groups = forms'[FirstForm].domain
        /\ FirstForm = "edit" => forms'["add"] = None
    BY <1>8, <2>2, KindsAre DEF FirstForm
  <2>4. AllRight'
    <3>1. CASE FirstForm = "add"
      BY <1>6, <1>8, <2>3, <3>1 DEF AllRight, IsRight
    <3>2. CASE FirstForm = "edit"
      BY <2>3, <3>2 DEF AllRight, IsRight
    <3> QED
      BY <1>4, <3>1, <3>2
  <2> QED
    BY <1>1, <2>1, <2>2, <2>4 DEF AtMostOneToCome, NothingToCome
<1> QED
  BY <1>1, <1>11, <1>12 DEF RolesInv

\* The page as it is loaded.
AsLoaded ==
    /\ forms = [k \in Kinds |-> None] /\ roleDialogs = {}
    /\ formsAsked = <<>> /\ groupsAsked = <<>>

LEMMA LoadedIsRight == AsLoaded => RolesInv
<1> SUFFICES ASSUME AsLoaded PROVE RolesInv
  OBVIOUS
<1>1. /\ formsAsked \in Seq([kind : Kinds, of : AnyDomain])
      /\ groupsAsked \in Seq(AnyDomain)
  BY DEF AsLoaded
<1>2. RolesType
  BY <1>1 DEF RolesType, AsLoaded
<1>3. AtMostOneToCome
  BY KindsAre DEF AsLoaded, AtMostOneToCome, NothingToCome, AllRight, IsRight
<1> QED
  BY <1>2, <1>3 DEF RolesInv

LEMMA RolesStep ==
    ASSUME RolesInv, [RolesNext]_rolesVars
    PROVE  RolesInv'
<1>1. ASSUME AddDomainClick \/ EditDomainClick \/ AddSystemClick \/ EditSystemClick
      PROVE  RolesInv'
  <2>1. \E kind \in Kinds, of \in AnyDomain : AskForm(kind, of)
    BY <1>1, KindsAre DEF AddDomainClick, EditDomainClick, AddSystemClick, EditSystemClick,
                          DomainsOf, AnyDomain
  <2> QED
    BY <2>1, AskFormKeeps
<1>2. ASSUME NEW posting, Loaded(posting)
      PROVE  RolesInv'
  <2>1. AsLoaded'
    BY <1>2 DEF Loaded, AsLoaded
  <2> QED
    BY <2>1, LoadedIsRight, PTL
<1>3. ASSUME NEW D, roleDialogs' = D, D \intersect Kinds \subseteq roleDialogs \intersect Kinds,
             UNCHANGED <<forms, formsAsked, groupsAsked, unhurried>>
      PROVE  RolesInv'
  <2>1. FirstForm' = FirstForm /\ (NothingToCome' <=> NothingToCome)
    BY <1>3 DEF FirstForm, NothingToCome
  <2>2. AllRight' <=> AllRight
    BY <1>3 DEF AllRight, IsRight
  <2> QED
    BY <1>3, <2>1, <2>2 DEF RolesInv, RolesType, AtMostOneToCome
<1>4. ASSUME NEW k, CloseRoleDialog(k)
      PROVE  RolesInv'
  BY <1>3, <1>4 DEF CloseRoleDialog
<1>5. ASSUME NEW g, DeleteRoles(g)
      PROVE  RolesInv'
  <2>1. roleDialogs' \in {{"error"}, {"delete"}, {"deleteSystem"}}
        /\ UNCHANGED <<forms, formsAsked, groupsAsked, unhurried>>
    BY <1>5 DEF DeleteRoles
  <2>2. roleDialogs' \intersect Kinds = {}
    BY <2>1, KindsAre
  <2> QED
    BY <1>3, <2>1, <2>2
<1>6. ASSUME NEW g, CheckRole(g)
      PROVE  RolesInv'
  BY <1>3, <1>6 DEF CheckRole
<1>7. CASE UNCHANGED rolesVars
  BY <1>3, <1>7 DEF rolesVars
<1> QED
  BY <1>1, <1>2, <1>4, <1>5, <1>6, <1>7, FormAnsweredKeeps, ChangeRoleDomainKeeps,
     GroupsAnsweredKeeps
     DEF RolesNext, SaveRole, ConfirmDeleteRoles, DeleteDomainRole, DeleteSystemRole, AnyDomain

\* For a user who waits for every answer a form offers the groups of its domain, but
\* for the one that edits once a role has been added to (roleDomain.js).
THEOREM FormsOfferTheirGroups == RolesSpec => []GroupsOfTheDomain
<1>1. RolesInit => RolesInv
  BY LoadedIsRight DEF RolesInit, AsLoaded
<1>2. RolesInv /\ [RolesNext]_rolesVars => RolesInv'
  BY RolesStep
<1>3. RolesInv => GroupsOfTheDomain
  <2> SUFFICES ASSUME RolesInv, unhurried, NothingToCome, NEW k \in {"add", "edit"}
               PROVE  IsRight(k)
    BY DEF GroupsOfTheDomain, IsRight
  <2>1. NothingToCome => ~(\E g : formsAsked = <<g>>) /\ \A d : groupsAsked # <<d>>
    BY DEF NothingToCome
  <2> QED
    BY <2>1 DEF RolesInv, AtMostOneToCome, AllRight
<1> QED
  BY <1>1, <1>2, <1>3, PTL DEF RolesSpec
=============================================================================
