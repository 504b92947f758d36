----------------------- MODULE AuthorizationCalendar ------------------------
(***************************************************************************)
(* The calendar of the page on which authorizations are answered: two      *)
(* sources of events, pending and confirmed, that are loaded in their own  *)
(* time and shown or hidden by a check box each (authorization.js).        *)
(***************************************************************************)
EXTENDS WebPage

VARIABLE events    \* events[b]: [checked, loaded, shown] of check box b

CheckBoxes == {"checkPending", "checkConfirmed"}

\* A change of the box adds or removes the source, as far as it has been loaded.
CheckEvents(b) ==
    LET checked == ~events[b].checked
    IN  events' = [events EXCEPT ![b].checked = checked,
                                 ![b].shown = checked /\ events[b].loaded]

\* The answer shows the source, whatever the box has come to say.
LoadEvents(b) ==
    /\ ~events[b].loaded
    /\ events' = [events EXCEPT ![b].loaded = TRUE, ![b].shown = TRUE]

CalendarInit ==
    events = [b \in CheckBoxes |->
                 [checked |-> TRUE, loaded |-> FALSE, shown |-> FALSE]]

CalendarNext == \E b \in CheckBoxes : CheckEvents(b) \/ LoadEvents(b)
=============================================================================
