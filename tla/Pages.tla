------------------------------- MODULE Pages --------------------------------
(***************************************************************************)
(* The web front end: a browser with one page of it open.  The pages share *)
(* no state but the server's, and what each needs to know of the server is *)
(* part of its module; so a behaviour is one of the page that is open, and *)
(* the other pages stay as they were.  The menu of notifications, the      *)
(* widget of the schedules, the calendar of a reservation, the forms and   *)
(* the canvas of the editor and the calendar of the authorizations are     *)
(* parts of pages with scripts of their own, and count as pages here.      *)
(***************************************************************************)
EXTENDS ReservationPage, CircuitPage, TrafficPage, ViewerPage, NotifyMenu,
        TesterPage, CronWidget, WorkflowList, WorkflowForm, AuthorizationPage,
        AuthorizationCalendar, TrafficHistory, CircuitDialogs, RolesPage,
        Discovery, EditorCanvas, SchedulePage, PortsPage, RulesPage,
        FeedbackDialog, NewWorkflow

VARIABLE openPage    \* the page that is open

pagesVars == <<openPage, reservationVars, circuitVars, trafficVars,
               viewerVars, notifyVars, testerVars, cronVars, listVars,
               formVars, authorizationVars, events, historyVars, dialogsVars,
               rolesVars, discoveryVars, canvasVars, scheduleVars, portsVars,
               rulesVars, feedbackVars, newWorkflowVars>>

PageNames ==
    {"reservation", "circuit", "traffic", "viewer", "notices", "tester",
     "schedule", "workflows", "form", "authorization", "calendar",
     "history", "dialogs", "roles", "task", "canvas", "times",
     "ports", "rules", "feedback", "new"}

\* Of the states a page may start in, those of a page that is not open are one:
\* what they are makes no difference.
ClosedPages ==
    /\ openPage = "circuit" \/ circuit = [authorized |-> FALSE, active |-> FALSE]
    /\ openPage = "workflows" \/ inDatabase.active = {}
    /\ \/ openPage = "form"
       \/ /\ offered = Listed /\ ~awaited
          /\ inPlace = CHOOSE f \in NewFields : FreshField(f)
    /\ openPage = "notices" \/ written = {}

PagesInit ==
    /\ openPage \in PageNames
    /\ ReservationInit
    /\ CircuitInit
    /\ TrafficInit
    /\ ViewerInit
    /\ NotifyInit
    /\ TesterInit
    /\ CronInit
    /\ ListInit
    /\ FormInit
    /\ AuthorizationInit
    /\ CalendarInit
    /\ HistoryInit
    /\ DialogsInit
    /\ RolesInit
    /\ DiscoveryInit
    /\ CanvasInit
    /\ ScheduleInit
    /\ PortsInit
    /\ RulesInit
    /\ FeedbackInit
    /\ NewWorkflowInit
    /\ ClosedPages

\* The pages other than the one named stay as they are.
OthersStay(name) ==
    /\ UNCHANGED openPage
    /\ IF name = "reservation" THEN TRUE ELSE UNCHANGED reservationVars
    /\ IF name = "circuit" THEN TRUE ELSE UNCHANGED circuitVars
    /\ IF name = "traffic" THEN TRUE ELSE UNCHANGED trafficVars
    /\ IF name = "viewer" THEN TRUE ELSE UNCHANGED viewerVars
    /\ IF name = "notices" THEN TRUE ELSE UNCHANGED notifyVars
    /\ IF name = "tester" THEN TRUE ELSE UNCHANGED testerVars
    /\ IF name = "schedule" THEN TRUE ELSE UNCHANGED cronVars
    /\ IF name = "workflows" THEN TRUE ELSE UNCHANGED listVars
    /\ IF name = "form" THEN TRUE ELSE UNCHANGED formVars
    /\ IF name = "authorization" THEN TRUE ELSE UNCHANGED authorizationVars
    /\ IF name = "calendar" THEN TRUE ELSE UNCHANGED events
    /\ IF name = "history" THEN TRUE ELSE UNCHANGED historyVars
    /\ IF name = "dialogs" THEN TRUE ELSE UNCHANGED dialogsVars
    /\ IF name = "roles" THEN TRUE ELSE UNCHANGED rolesVars
    /\ IF name = "task" THEN TRUE ELSE UNCHANGED discoveryVars
    /\ IF name = "canvas" THEN TRUE ELSE UNCHANGED canvasVars
    /\ IF name = "times" THEN TRUE ELSE UNCHANGED scheduleVars
    /\ IF name = "ports" THEN TRUE ELSE UNCHANGED portsVars
    /\ IF name = "rules" THEN TRUE ELSE UNCHANGED rulesVars
    /\ IF name = "feedback" THEN TRUE ELSE UNCHANGED feedbackVars
    /\ IF name = "new" THEN TRUE ELSE UNCHANGED newWorkflowVars

PagesNext ==
    \/ openPage = "reservation" /\ ReservationNext /\ OthersStay("reservation")
    \/ openPage = "circuit" /\ CircuitNext /\ OthersStay("circuit")
    \/ openPage = "traffic" /\ TrafficNext /\ OthersStay("traffic")
    \/ openPage = "viewer" /\ ViewerNext /\ OthersStay("viewer")
    \/ openPage = "notices" /\ NotifyNext /\ OthersStay("notices")
    \/ openPage = "tester" /\ TesterNext /\ OthersStay("tester")
    \/ openPage = "schedule" /\ CronNext /\ OthersStay("schedule")
    \/ openPage = "workflows" /\ ListNext /\ OthersStay("workflows")
    \/ openPage = "form" /\ FormNext /\ OthersStay("form")
    \/ openPage = "authorization" /\ AuthorizationNext /\ OthersStay("authorization")
    \/ openPage = "calendar" /\ CalendarNext /\ OthersStay("calendar")
    \/ openPage = "history" /\ HistoryNext /\ OthersStay("history")
    \/ openPage = "dialogs" /\ DialogsNext /\ OthersStay("dialogs")
    \/ openPage = "roles" /\ RolesNext /\ OthersStay("roles")
    \/ openPage = "task" /\ DiscoveryNext /\ OthersStay("task")
    \/ openPage = "canvas" /\ CanvasNext /\ OthersStay("canvas")
    \/ openPage = "times" /\ ScheduleNext /\ OthersStay("times")
    \/ openPage = "ports" /\ PortsNext /\ OthersStay("ports")
    \/ openPage = "rules" /\ RulesNext /\ OthersStay("rules")
    \/ openPage = "feedback" /\ FeedbackNext /\ OthersStay("feedback")
    \/ openPage = "new" /\ NewWorkflowNext /\ OthersStay("new")

PagesSpec == PagesInit /\ [][PagesNext]_pagesVars
=============================================================================
