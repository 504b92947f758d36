------------------------------ MODULE PortsPage -----------------------------
(***************************************************************************)
(* The page of the ports (port.js): one grid per domain, and three dialogs *)
(* that add, edit and delete ports.  Every click that opens a dialog leaves *)
(* a handler on the save or delete button of it, beside those of earlier   *)
(* clicks: taking the handlers off the button does not take off those that *)
(* the dialog holds for it.                                                *)
(*                                                                         *)
(* Requests of one user are handled by the server one after the other.     *)
(***************************************************************************)
EXTENDS WebPage

CONSTANTS
    PortsOf,      \* PortsOf[d]: the ports that domain d has or may get
    MaxOpened     \* bound on the clicks that open a dialog

ASSUME PortsAssumption ==
    /\ \A d \in DOMAIN PortsOf : None \notin PortsOf[d]
    /\ MaxOpened \in Nat

VARIABLES
    portRows,      \* the ports at the server
    portGrid,      \* [rows, checked]: what the page shows
    portDialog,    \* "none", "delete", "edit", "add", "error" or "message"
    portForm,      \* the form in a dialog: [domain, port], or None
    portAsked,     \* forms on their way
    portHandlers,  \* what the handlers of each dialog were left for
    portPosts,     \* requests that the server has yet to handle, in order
    leaving,       \* the page is to be loaded again
    portsOpened    \* clicks counted against MaxOpened

portsVars == <<portRows, portGrid, portDialog, portForm, portAsked,
               portHandlers, portPosts, leaving, portsOpened>>

OwnerOf(p) == CHOOSE d \in DOMAIN PortsOf : p \in PortsOf[d]

PortOpening ==
    /\ portDialog = "none" /\ ~leaving /\ portsOpened < MaxOpened
    /\ portsOpened' = portsOpened + 1

-----------------------------------------------------------------------------
CheckPort(p) ==
    /\ portDialog = "none" /\ ~leaving
    /\ p \in portGrid.rows \ portGrid.checked
    /\ portGrid' = [portGrid EXCEPT !.checked = @ \union {p}]
    /\ UNCHANGED <<portRows, portDialog, portForm, portAsked, portHandlers,
                   portPosts, leaving, portsOpened>>

\* Without a checked box of the domain the user is told so.
DeletePortsClick(d) ==
    /\ PortOpening
    /\ IF portGrid.checked \intersect PortsOf[d] # {}
       THEN /\ portDialog' = "delete"
            /\ portHandlers' = [portHandlers EXCEPT !["delete"] = Append(@, d)]
       ELSE portDialog' = "error" /\ UNCHANGED portHandlers
    /\ UNCHANGED <<portRows, portGrid, portForm, portAsked, portPosts, leaving>>

\* The form is asked for, and its dialog opens with the answer.
AskPortForm(kind, d, p) ==
    /\ PortOpening
    /\ portAsked' = portAsked \union {[kind |-> kind, domain |-> d, port |-> p]}
    /\ UNCHANGED <<portRows, portGrid, portDialog, portForm, portHandlers,
                   portPosts, leaving>>

PortFormAnswered(r) ==
    /\ r \in portAsked /\ ~leaving
    /\ portAsked' = portAsked \ {r}
    /\ portDialog' = r.kind
    /\ portForm' = [domain |-> r.domain, port |-> r.port]
    /\ portHandlers' = [portHandlers EXCEPT ![r.kind] = Append(@, r.domain)]
    /\ UNCHANGED <<portRows, portGrid, portPosts, leaving, portsOpened>>

HidePortDialog ==
    /\ portDialog # "none" /\ ~leaving
    /\ portDialog' = "none"
    /\ UNCHANGED <<portRows, portGrid, portForm, portAsked, portHandlers,
                   portPosts, leaving, portsOpened>>

\* Every handler posts: those of the delete dialog the checked boxes of their
\* domain, the others the form that the dialog shows.
SaveOrDeleteClick ==
    /\ portDialog \in {"delete", "edit", "add"} /\ portPosts = <<>> /\ ~leaving
    /\ \E p \in IF portDialog = "add" THEN PortsOf[portForm.domain] ELSE {None} :
          portPosts' = [i \in DOMAIN portHandlers[portDialog] |->
             [kind |-> portDialog,
              ports |-> CASE portDialog = "delete" ->
                               portGrid.checked \intersect PortsOf[portHandlers["delete"][i]]
                          [] portDialog = "edit" -> {portForm.port}
                          [] OTHER -> {p}]]
    /\ UNCHANGED <<portRows, portGrid, portDialog, portForm, portAsked,
                   portHandlers, leaving, portsOpened>>

\* What the server can do as it was asked: a new port has a URN of its own, the
\* ports to delete or to change are there.
CanBeDone(r) ==
    IF r.kind = "add" THEN r.ports \intersect portRows = {}
    ELSE r.ports # {} /\ r.ports \subseteq portRows

RowsAfter(r) ==
    CASE r.kind = "add" -> portRows \union r.ports
      [] r.kind = "delete" -> portRows \ r.ports
      [] OTHER -> portRows

\* The page is left when something was saved or deleted.  Else nothing happens, the
\* form is shown again, or a message says that the user may not delete.
PortPostAnswered ==
    /\ portPosts # <<>>
    /\ portPosts' = Tail(portPosts)
    /\ LET r == Head(portPosts)
       IN  \/ /\ CanBeDone(r)
              /\ portRows' = RowsAfter(r)
              /\ leaving' = TRUE
              /\ UNCHANGED portDialog
           \/ /\ portDialog' \in {portDialog} \union
                    (IF r.kind = "delete" THEN {"message"} ELSE {})
              /\ UNCHANGED <<portRows, leaving>>
    /\ UNCHANGED <<portGrid, portForm, portAsked, portHandlers, portsOpened>>

NoPortHandlers == [k \in {"delete", "edit", "add"} |-> <<>>]

\* The page as it is loaded, at the domain of one of the handlers.
PortsReloaded ==
    /\ leaving /\ portPosts = <<>>
    /\ leaving' = FALSE
    /\ portGrid' = [rows |-> portRows, checked |-> {}]
    /\ portDialog' = "none" /\ portForm' = None /\ portAsked' = {}
    /\ portHandlers' = NoPortHandlers
    /\ UNCHANGED <<portRows, portPosts, portsOpened>>

-----------------------------------------------------------------------------
PortsInit ==
    /\ portRows = UNION {PortsOf[d] : d \in DOMAIN PortsOf}
    /\ portGrid = [rows |-> portRows, checked |-> {}]
    /\ portDialog = "none" /\ portForm = None /\ portAsked = {}
    /\ portHandlers = NoPortHandlers
    /\ portPosts = <<>> /\ leaving = FALSE /\ portsOpened = 0

PortsNext ==
    \/ \E d \in DOMAIN PortsOf : DeletePortsClick(d) \/ AskPortForm("add", d, None)
    \/ \E p \in portGrid.rows : CheckPort(p) \/ AskPortForm("edit", OwnerOf(p), p)
    \/ \E r \in portAsked : PortFormAnswered(r)
    \/ HidePortDialog \/ SaveOrDeleteClick \/ PortPostAnswered \/ PortsReloaded

PortsSpec == PortsInit /\ [][PortsNext]_portsVars
=============================================================================
