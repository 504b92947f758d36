-------------------------- MODULE ReservationPage ---------------------------
(***************************************************************************)
(* The page on which a user draws up a reservation (create2.js): the path  *)
(* is a list of points edited in a dialog whose selects are filled by      *)
(* requests that overtake one another, the map shows the path, a calendar  *)
(* holds the intervals, and one button posts the reservation.              *)
(*                                                                         *)
(* The network has one site per domain: the domain, its network, device,   *)
(* port and VLAN range bear the name of the site.                          *)
(***************************************************************************)
EXTENDS WebPage, LMap

CONSTANTS
    Sites,       \* the domains of the network
    MaxPoints,   \* bound on the length of the path
    MaxClicks,   \* bound on the clicks and changes in the dialog of a point
    MaxAsked     \* bound: so many requests of selects are in flight at once

ASSUME ReservationAssumption ==
    /\ None \notin Sites
    /\ MaxPoints \in Nat \ {0, 1}
    /\ {MaxClicks, MaxAsked} \subseteq Nat

VARIABLES
    topo,       \* what the page has been told of the network
    resMap,     \* the map
    points,     \* the path: the elements of class point
    dialog,     \* the dialog that edits a point
    asked,      \* requests of the selects that are not answered yet
    saving,     \* Save was clicked, its timer of 200 ms runs
    rest,       \* bandwidth and name are valid, the calendar holds an event
    submit,     \* the life of the confirm button and of what it posts
    clicks      \* clicks counted against MaxClicks

reservationVars == <<topo, resMap, points, dialog, asked, saving, rest,
                     submit, clicks>>

pathVars == <<resMap, points>>
dialogVars == <<dialog, asked, saving, clicks>>
orderVars == <<rest, submit>>

-----------------------------------------------------------------------------
(***************************************************************************)
(* The path on the map.                                                    *)
(***************************************************************************)

BuildPoint == [mode |-> "normal", dom |-> None, dev |-> None, port |-> None,
               vlan |-> None, urn |-> FALSE]

IsNormal(p) == p.mode = "normal"

\* The ends of the legs of a path, which lead from each point of mode normal to
\* the next one.
LegEnds(pts) ==
    {e \in (DOMAIN pts) \X (DOMAIN pts) :
        /\ e[1] < e[2] /\ IsNormal(pts[e[1]]) /\ IsNormal(pts[e[2]])
        /\ \A k \in (e[1] + 1)..(e[2] - 1) : ~IsNormal(pts[k])}

\* The map is redrawn, with those legs whose devices it knows.
DrawPath(m, pts) ==
    AddLinks(RemoveLinks(m), {<<pts[e[1]].dev, pts[e[2]].dev>> : e \in LegEnds(pts)},
             "path", "gray")

\* loadDomains, then loadDevices, then the markers.
LoadDomains ==
    /\ topo.map = "domains"
    /\ topo' = [topo EXCEPT !.map = "devices"]
    /\ UNCHANGED <<pathVars, dialogVars, orderVars>>

LoadDevices ==
    /\ topo.map = "devices"
    /\ topo' = [topo EXCEPT !.map = "loaded"]
    /\ resMap' = AddNodes(resMap, Sites, "dev")
    /\ UNCHANGED <<points, dialogVars, orderVars>>

\* The page is free: the dialog of a point does not cover it.  A bound of the
\* model: the user leaves the page alone once the reservation is posted.
Free == ~dialog.open /\ submit = "ready"

\* A new point becomes the last one; the map is not redrawn.
AddPoint ==
    /\ Free /\ Len(points) < MaxPoints
    /\ points' = Append(points, BuildPoint)
    /\ UNCHANGED <<topo, resMap, dialogVars, orderVars>>

\* The arrows of a point, which redraw the map whether it moves or not.
MovePoint(i, j) ==
    /\ Free
    /\ LET pts == IF j \in DOMAIN points
                  THEN [points EXCEPT ![i] = points[j], ![j] = points[i]]
                  ELSE points
       IN  points' = pts /\ resMap' = DrawPath(resMap, pts)
    /\ UNCHANGED <<topo, dialogVars, orderVars>>

MovePointUp(i) == MovePoint(i, i - 1)

MovePointDown(i) == MovePoint(i, i + 1)

RemoveFromList(i) ==
    /\ Free /\ Len(points) > 2
    /\ points' = RemoveAt(points, i)
    /\ UNCHANGED <<topo, resMap, dialogVars, orderVars>>

RemovePoint(i) ==
    /\ Free /\ Len(points) > 2
    /\ points' = RemoveAt(points, i)
    /\ resMap' = DrawPath(resMap, RemoveAt(points, i))
    /\ UNCHANGED <<topo, dialogVars, orderVars>>

-----------------------------------------------------------------------------
(***************************************************************************)
(* The dialog that edits a point.  A select is [of, value]: of whom the    *)
(* list it shows is, None while it is empty, and what is chosen in it.     *)
(* A request is [select, of, preset, newest]; newest is FALSE when its     *)
(* select has been emptied or asked for again since.  mixed says that the  *)
(* dialog was opened on a point that mixes sites, or before the domains    *)
(* were there, or that it has shown an answer which was not the newest.    *)
(***************************************************************************)

Selects == {"device", "port", "vlan"}

Disabled == [of |-> None, value |-> None]

ClosedDialog ==
    [open |-> FALSE, order |-> 1, tab |-> "normal", dom |-> None,
     lists |-> [s \in Selects |-> Disabled],
     urn |-> FALSE, typed |-> FALSE, mixed |-> FALSE]

\* disableSelect: the selects S are emptied, and wait for no answer any more.
Emptied(lists, S) == [s \in Selects |-> IF s \in S THEN Disabled ELSE lists[s]]

Outdate(rs, S) == {[r EXCEPT !.newest = @ /\ r.select \notin S] : r \in rs}

\* The request fillXSelect makes when it is given a parent.
Request(s, of, preset) ==
    IF of = None THEN {}
    ELSE {[select |-> s, of |-> of, preset |-> preset, newest |-> TRUE]}

OfOneSite(p) == Cardinality({p.dom, p.dev, p.port} \ {None}) <= 1

\* showPointModal: the dialog opens on point i with what p holds, and empty
\* selects until the requests are answered.
ShowPointModal(i, p, requests) ==
    /\ clicks < MaxClicks
    /\ clicks' = clicks + 1
    /\ dialog' = [ClosedDialog EXCEPT
                     !.open = TRUE, !.order = i, !.tab = p.mode,
                     !.dom = IF topo.options THEN p.dom ELSE None,
                     !.urn = p.urn, !.typed = p.vlan = "typed",
                     !.mixed = ~topo.options \/ ~OfOneSite(p)]
    /\ asked' = Outdate(asked, Selects) \union requests
    /\ Cardinality(asked') <= MaxAsked

\* A dialog opened from a marker asks for all but the VLANs.
AtNode(s) == [BuildPoint EXCEPT !.dom = s, !.dev = s]

FromNode(s) == Request("device", s, s) \union Request("port", s, None)

EditPoint(i) ==
    /\ Free
    /\ LET p == points[i]
       IN  ShowPointModal(i, p,
               Request("device", p.dom, p.dev) \union Request("port", p.dev, p.port)
               \union Request("vlan", p.port, p.vlan))
    /\ UNCHANGED <<topo, pathVars, saving, orderVars>>

\* "From here" and "To here" in the popup of a marker.
SetEnd(s, i) ==
    /\ Free /\ HasNode(resMap, s) /\ i \in {1, Len(points)}
    /\ ShowPointModal(i, AtNode(s), FromNode(s))
    /\ UNCHANGED <<topo, pathVars, saving, orderVars>>

\* "Add waypoint": a new point before the destination, and its dialog.
AddWayPoint(s) ==
    /\ Free /\ HasNode(resMap, s) /\ Len(points) < MaxPoints
    /\ points' = InsertAt(points, Len(points), BuildPoint)
    /\ ShowPointModal(Len(points), AtNode(s), FromNode(s))
    /\ UNCHANGED <<topo, resMap, saving, orderVars>>

\* fillDomainSelect, once per page: its answer empties the choice made so far.
FillDomainSelect ==
    /\ ~topo.options
    /\ topo' = [topo EXCEPT !.options = TRUE]
    /\ dialog' = [dialog EXCEPT !.dom = None]
    /\ UNCHANGED <<pathVars, asked, saving, clicks, orderVars>>

\* An answer fills its select, whatever was asked since.  The first VLAN is
\* chosen; elsewhere the preset is, or nothing.
FillSelect(r) ==
    LET chosen == \/ r.preset = r.of
                  \/ r.select = "vlan" /\ r.preset = None
        list   == [of |-> r.of, value |-> IF chosen THEN r.of ELSE None]
    IN  /\ r \in asked
        /\ asked' = asked \ {r}
        /\ dialog' = IF dialog.open \/ saving
                     THEN [dialog EXCEPT !.lists[r.select] = list,
                                         !.mixed = @ \/ ~r.newest]
                     ELSE dialog
        /\ UNCHANGED <<topo, pathVars, saving, clicks, orderVars>>

\* The user makes a choice: the selects S are emptied, requests made.
Choose(dom, lists, S, requests) ==
    /\ dialog.open /\ dialog.tab = "normal" /\ clicks < MaxClicks
    /\ clicks' = clicks + 1
    /\ dialog' = [dialog EXCEPT !.dom = dom, !.lists = Emptied(lists, S)]
    /\ asked' = Outdate(asked, S) \union requests
    /\ Cardinality(asked') <= MaxAsked
    /\ UNCHANGED <<topo, pathVars, saving, orderVars>>

Chosen(s, v) == [dialog.lists EXCEPT ![s].value = v]

ChangeDomain(v) ==
    /\ topo.options /\ v # dialog.dom
    /\ Choose(v, dialog.lists, Selects, Request("device", v, None))

\* Another network, or none: the devices of the domain are asked for again.
ChangeNetwork ==
    /\ dialog.dom # None
    /\ Choose(dialog.dom, dialog.lists, Selects, Request("device", dialog.dom, None))

ChangeDeviceOnly(v) ==
    /\ v \in {None, dialog.lists["device"].of} \ {dialog.lists["device"].value}
    /\ Choose(dialog.dom, Chosen("device", v), {"port"}, Request("port", v, None))

ChangeDevice(v) ==
    /\ v \in {None, dialog.lists["device"].of} \ {dialog.lists["device"].value}
    /\ Choose(dialog.dom, Chosen("device", v), {"port", "vlan"}, Request("port", v, None))

ChangePort(v) ==
    /\ v \in {None, dialog.lists["port"].of} \ {dialog.lists["port"].value}
    /\ Choose(dialog.dom, Chosen("port", v), {"vlan"}, Request("vlan", v, None))

\* The tab "Advanced": a URN and a VLAN typed by hand.
TypeAdvanced ==
    /\ dialog.open /\ clicks < MaxClicks
    /\ clicks' = clicks + 1
    /\ \E urn, typed \in BOOLEAN :
          dialog' = [dialog EXCEPT !.tab = "advanced", !.urn = urn,
                                   !.typed = typed]
    /\ UNCHANGED <<topo, pathVars, asked, saving, orderVars>>

-----------------------------------------------------------------------------
(***************************************************************************)
(* Save, and the timer that stores the point 200 ms later.                 *)
(***************************************************************************)

Value(s) == dialog.lists[s].value

HasError == IF dialog.tab = "normal"
            THEN None \in {dialog.dom, Value("device"), Value("port"),
                           Value("vlan")}
            ELSE ~dialog.urn \/ ~dialog.typed

\* What the dialog makes of point p; the other mode's inputs are kept.
SetPoint(p) ==
    IF dialog.tab = "normal"
    THEN [p EXCEPT !.mode = "normal", !.dom = dialog.dom,
                   !.dev = Value("device"), !.port = Value("port"),
                   !.vlan = Value("vlan")]
    ELSE [p EXCEPT !.mode = "advanced", !.urn = TRUE, !.vlan = "typed"]

Save ==
    /\ dialog.open /\ ~saving
    /\ saving' = TRUE
    /\ UNCHANGED <<topo, pathVars, dialog, asked, clicks, orderVars>>

SaveTimer ==
    /\ saving
    /\ saving' = FALSE
    /\ IF HasError
       THEN /\ dialog' = IF dialog.open THEN dialog ELSE ClosedDialog
            /\ UNCHANGED pathVars
       ELSE LET i   == dialog.order
                pts == IF i \in DOMAIN points
                       THEN [points EXCEPT ![i] = SetPoint(@)] ELSE points
            IN  /\ points' = pts
                /\ resMap' = DrawPath(resMap, pts)
                /\ dialog' = ClosedDialog
    /\ UNCHANGED <<topo, asked, clicks, orderVars>>

\* Cancel; a timer that runs still reads what the dialog held.
Cancel ==
    /\ dialog.open
    /\ dialog' = IF saving THEN [dialog EXCEPT !.open = FALSE]
                 ELSE ClosedDialog
    /\ UNCHANGED <<topo, pathVars, asked, saving, clicks, orderVars>>

-----------------------------------------------------------------------------
(***************************************************************************)
(* The other tabs.                                                         *)
(***************************************************************************)

\* Bandwidth and name are typed, events added to the calendar or removed.
EditRest ==
    /\ Free
    /\ rest' = ~rest
    /\ UNCHANGED <<topo, pathVars, dialogVars, submit>>

IsFilled(p) == IF IsNormal(p) THEN p.port # None ELSE p.urn

\* The loop over the points returns at the first of them.
IsValidPath == IsFilled(points[1])

\* The button is disabled, and the path posted as it stands.
Confirm ==
    /\ Free /\ rest /\ IsValidPath
    /\ submit' = IF \A i \in DOMAIN points : IsFilled(points[i])
                 THEN "posted" ELSE "posted in part"
    /\ UNCHANGED <<topo, pathVars, dialogVars, rest>>

\* With the id of the reservation the page confirms it and goes to its view.
\* ReservationForm::save fails on a point without a port; any answer may be lost.
RequestAnswered ==
    /\ submit \in {"posted", "posted in part"}
    /\ \/ submit = "posted" /\ submit' = "confirmed"
       \/ submit' = "stuck"
    /\ UNCHANGED <<topo, pathVars, dialogVars, rest>>

\* The page: once it has confirmed the reservation it goes to its view.
Here == submit # "confirmed"

-----------------------------------------------------------------------------
ReservationInit ==
    /\ topo = [map |-> "domains", options |-> FALSE]
    /\ resMap = ShowMapOf(EmptyMap, "dev")
    /\ points = <<BuildPoint, BuildPoint>>
    /\ dialog = ClosedDialog
    /\ asked = {}
    /\ saving = FALSE
    /\ rest = FALSE
    /\ submit = "ready"
    /\ clicks = 0

ReservationNext ==
    /\ Here
    /\ \/ LoadDomains \/ LoadDevices \/ FillDomainSelect
       \/ AddPoint
       \/ \E i \in DOMAIN points :
             \/ MovePointUp(i) \/ MovePointDown(i) \/ RemovePoint(i)
             \/ EditPoint(i)
             \/ \E s \in Sites : SetEnd(s, i)
       \/ \E s \in Sites : AddWayPoint(s)
       \/ \E r \in asked : FillSelect(r)
       \/ \E v \in Sites \union {None} :
             ChangeDomain(v) \/ ChangeDevice(v) \/ ChangePort(v)
       \/ ChangeNetwork
       \/ TypeAdvanced \/ Save \/ SaveTimer \/ Cancel
       \/ EditRest \/ Confirm \/ RequestAnswered

ReservationSpec == ReservationInit /\ [][ReservationNext]_reservationVars

-----------------------------------------------------------------------------
(***************************************************************************)
(* Properties.                                                             *)
(***************************************************************************)

\* What is posted has a port or a URN at each point of the path: the page says
\* so when it refuses a path ("verify if your path is completelly filled").
PostedPathIsFilled == submit # "posted in part"

\* A leg on the map joins two points of the path with nothing between them but
\* points of the other mode and points that are not filled in yet, so moving,
\* removing or saving a point leaves no leg of the old path on the map.
DrawnLegsFollowThePath ==
    \A l \in resMap.links :
       \E i, j \in DOMAIN points :
          /\ i < j /\ points[i].dev = l.from /\ points[j].dev = l.to
          /\ \A k \in (i + 1)..(j - 1) :
                points[k].mode = "advanced" \/ points[k].dev = None

\* Unless an overtaken answer was shown, a list that is filled is the list of
\* what is chosen in the select it depends on, once that one is filled: a port
\* is never picked from the ports of another device, nor a VLAN from another
\* port's range.
ListsOfTheChosen ==
    dialog.open /\ ~dialog.mixed =>
       \A s \in {"device", "port", "vlan"} :
          LET parent == CASE s = "device" -> "domain"
                          [] s = "port" -> "device"
                          [] s = "vlan" -> "port"
          IN  dialog.lists[s].of # None =>
                 \/ \E r \in asked : r.select = parent /\ r.newest
                 \/ dialog.lists[s].of =
                       IF parent = "domain" THEN dialog.dom ELSE Value(parent)
=============================================================================
