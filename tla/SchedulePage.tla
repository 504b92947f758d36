---------------------------- MODULE SchedulePage ----------------------------
(***************************************************************************)
(* The schedule of a reservation: a calendar whose events are the times at *)
(* which the circuit is wanted, and a dialog that adds, changes and        *)
(* removes them (create2.js).  What the calendar itself does with an event *)
(* is that of its library (FullCalendar); so is dragging one.              *)
(*                                                                         *)
(* Times are hours; a day has Day of them.                                 *)
(***************************************************************************)
EXTENDS WebPage, Integers

CONSTANTS
    Day,         \* the hours of a day
    MaxHour,     \* times are up to it
    MaxEvents    \* bound on the events that are added

ASSUME ScheduleAssumption ==
    /\ Day \in Nat \ {0} /\ MaxHour \in Nat /\ MaxEvents \in Nat

VARIABLES
    calendar,        \* the events, a map from ids to [start, finish, allDay]
    added,           \* how many were added
    currentEvent,    \* the id of the event the dialog was opened for, or None
    eventDialog,     \* [open, removable, start, finish]: the dialog and its picker
    posted           \* [off, sent]: whether the button of the last tab is off,
                     \* and the ranges that were sent, or None

scheduleVars == <<calendar, added, currentEvent, eventDialog, posted>>

Hours == 0..MaxHour
Ranges == {r \in Hours \X Hours : r[1] <= r[2]}

\* An event that does not end after it starts has no end; one of whole days has no
\* times of a day.
NormalizedEvent(start, finish, allDay) ==
    LET DayOf(t) == IF allDay THEN t - (t % Day) ELSE t
        end == IF finish = None THEN None ELSE DayOf(finish)
    IN  [start |-> DayOf(start), allDay |-> allDay,
         finish |-> IF end = None THEN None
                    ELSE IF end > DayOf(start) THEN end ELSE None]

\* The dialog opens with a range in its picker.
OpenDialog(event, start, finish) ==
    /\ ~eventDialog.open
    /\ currentEvent' = event
    /\ eventDialog' = [open |-> TRUE, removable |-> event # None,
                  start |-> start, finish |-> finish]
    /\ UNCHANGED <<calendar, added, posted>>

\* Mutant: the event the dialog was opened for before is kept.
DayClickForLast(t, ambigTime) ==
    /\ ~eventDialog.open
    /\ eventDialog' = [open |-> TRUE, removable |-> FALSE,
                  start |-> t, finish |-> t + IF ambigTime THEN Day ELSE 1]
    /\ UNCHANGED <<calendar, added, currentEvent, posted>>

\* A click on a day, or on an hour of one.
DayClick(t, ambigTime) ==
    /\ ambigTime => t % Day = 0
    /\ OpenDialog(None, t, t + IF ambigTime THEN Day ELSE 1)

\* A click on an event.  The picker has no end when the event has none, unless it is
\* of a whole day.
EventClick(e) ==
    /\ e \in DOMAIN calendar
    /\ LET v == calendar[e]
       IN  OpenDialog(e, v.start, IF v.allDay THEN v.start + Day ELSE v.finish)

\* The user chooses a range in the picker.
ChooseRange(r) ==
    /\ eventDialog.open
    /\ eventDialog' = [eventDialog EXCEPT !.start = r[1], !.finish = r[2]]
    /\ UNCHANGED <<calendar, added, currentEvent, posted>>

\* What the dialog held makes no difference: it is set whenever the dialog opens.
Hidden == [open |-> FALSE, removable |-> TRUE, start |-> 0, finish |-> 1]

HideDialog == eventDialog' = Hidden

\* The range is that of a new event, or of the one the dialog was opened for.
SaveEvent ==
    /\ eventDialog.open
    /\ IF currentEvent = None
       THEN /\ added < MaxEvents
            /\ added' = added + 1
            /\ calendar' = [e \in DOMAIN calendar \union {added'} |->
                  IF e = added'
                  THEN NormalizedEvent(eventDialog.start, eventDialog.finish, FALSE)
                  ELSE calendar[e]]
       ELSE /\ calendar' = [calendar EXCEPT ![currentEvent] =
                               NormalizedEvent(eventDialog.start, eventDialog.finish, @.allDay)]
            /\ UNCHANGED added
    /\ HideDialog
    /\ UNCHANGED <<currentEvent, posted>>

RemoveEvent ==
    /\ eventDialog.open /\ eventDialog.removable
    /\ calendar' = [e \in DOMAIN calendar \ {currentEvent} |-> calendar[e]]
    /\ HideDialog
    /\ UNCHANGED <<added, currentEvent, posted>>

CancelEvent == eventDialog.open /\ HideDialog /\ UNCHANGED <<calendar, added, currentEvent, posted>>

\* An event is dragged to another time; when that changes whether it has times of a
\* day, it loses its end.
DragEvent(e, t, allDay) ==
    /\ ~eventDialog.open /\ e \in DOMAIN calendar
    /\ LET v == calendar[e]
           end == IF v.allDay # allDay \/ v.finish = None THEN None
                  ELSE v.finish + t - v.start
       IN  /\ end = None \/ end \in Hours
           /\ calendar' = [calendar EXCEPT ![e] = NormalizedEvent(t, end, allDay)]
    /\ UNCHANGED <<added, currentEvent, eventDialog, posted>>

\* The last tab.  Without an event the user is told so; otherwise the button is
\* disabled, and the ranges of all events are sent.  The handler fails at the first
\* event that has no end.
ConfirmSchedule ==
    /\ ~eventDialog.open /\ ~posted.off
    /\ calendar # <<>>
    /\ LET Events == {calendar[e] : e \in DOMAIN calendar} IN
       posted' = [off |-> TRUE,
                  sent |-> IF \E v \in Events : v.finish = None THEN None
                           ELSE {<<v.start, v.finish>> : v \in Events}]
    /\ UNCHANGED <<calendar, added, currentEvent, eventDialog>>

-----------------------------------------------------------------------------
ScheduleInit ==
    /\ calendar = <<>> /\ added = 0
    /\ currentEvent = None
    /\ eventDialog = Hidden
    /\ posted = [off |-> FALSE, sent |-> None]

ScheduleNext ==
    \/ \E t \in Hours, b \in BOOLEAN : DayClick(t, b)
    \/ \E e \in 1..MaxEvents : EventClick(e)
    \/ \E e \in 1..MaxEvents, t \in Hours, b \in BOOLEAN : DragEvent(e, t, b)
    \/ \E r \in Ranges : ChooseRange(r)
    \/ SaveEvent \/ RemoveEvent \/ CancelEvent \/ ConfirmSchedule

ScheduleSpec == ScheduleInit /\ [][ScheduleNext]_scheduleVars

-----------------------------------------------------------------------------
\* Whatever was added, dragged, changed and removed before, the dialog changes the
\* event it was opened for: one that the calendar has, and that it offers to remove,
\* or none.  What is sent for the circuits ends after it starts.
DialogIsOfTheEvent ==
    /\ eventDialog.open =>
          /\ eventDialog.removable <=> currentEvent # None
          /\ currentEvent # None => currentEvent \in DOMAIN calendar
    /\ posted.sent # None => \A r \in posted.sent : r[1] < r[2]
=============================================================================
