---------------------------- MODULE WorkflowList ----------------------------
(***************************************************************************)
(* The page that lists the workflows of a domain (bpm index.js): switches  *)
(* that enable and disable them, and a button that deletes one.  Every     *)
(* click starts a chain of requests that read the server's state and then  *)
(* change it; the chains of several clicks run side by side, while the     *)
(* requests of one user are handled one after the other by the server.     *)
(***************************************************************************)
EXTENDS WebPage

CONSTANTS
    Workflows,   \* the workflows of the domain
    MaxChosen    \* bound on the clicks on switches and delete buttons

ASSUME WorkflowListAssumption == None \notin Workflows /\ MaxChosen \in Nat

VARIABLES
    inDatabase,  \* [there, active]: the workflows that exist and are active
    enabling,    \* actionActive has disabled another and is to enable this one
    switch,      \* switch[w]: the switch of w is on
    chain,       \* requests on their way: [ask, id]
    deleting,    \* the first dialog: [shown, handlers]
    disabling,   \* the second: [shown, id, then, hidden], the last the handlers
                 \* that run when it is hidden
    chosen       \* clicks counted against MaxChosen

listVars == <<inDatabase, enabling, switch, chain, deleting, disabling, chosen>>

pageVars == <<switch, chain, deleting, disabling, chosen>>

Active(w) == w \in inDatabase.active

\* The server is free, and the requests R of a workflow that still exists are
\* answered; the next requests are sent.
Answer(r, next) ==
    /\ r \in chain /\ enabling = None /\ r.id \in inDatabase.there
    /\ chain' = (chain \ {r}) \union next

Ask(what, id) == {[ask |-> what, id |-> id]}

Click ==
    /\ chosen < MaxChosen
    /\ chosen' = chosen + 1

-----------------------------------------------------------------------------
(***************************************************************************)
(* The server.                                                             *)
(***************************************************************************)

\* Mutant: the handler trusts the page to have disabled the other one.
EnableBeside(w) ==
    /\ inDatabase' = [inDatabase EXCEPT !.active = @ \union {w}]
    /\ enabling' = None

\* actionActive: the active workflow is disabled, and in a second step, which a
\* crash may prevent, this one is enabled.
ActionActive(w) ==
    IF inDatabase.active \in {{}, {w}}
    THEN /\ inDatabase' = [inDatabase EXCEPT !.active = {w}]
         /\ enabling' = None
    ELSE \E old \in inDatabase.active :
            /\ inDatabase' = [inDatabase EXCEPT !.active = @ \ {old}]
            /\ enabling' = w

FinishActive ==
    /\ enabling # None
    /\ \/ inDatabase' = [inDatabase EXCEPT !.active = @ \union {enabling}]
       \/ UNCHANGED inDatabase
    /\ enabling' = None
    /\ UNCHANGED pageVars

ActionDisable(w) ==
    /\ inDatabase' = [inDatabase EXCEPT !.active = @ \ {w}]
    /\ UNCHANGED enabling

\* An active workflow is disabled first.
ActionDelete(w) ==
    /\ inDatabase' = [there |-> inDatabase.there \ {w},
                      active |-> inDatabase.active \ {w}]
    /\ UNCHANGED enabling

-----------------------------------------------------------------------------
(***************************************************************************)
(* A switch.                                                               *)
(***************************************************************************)

\* The request that a change of a switch starts with.
Changed(on, w) == Ask(IF on THEN "is-active, on" ELSE "is-active, off", w)

Toggle(w) ==
    /\ Click /\ ~disabling.shown /\ ~deleting.shown
    /\ switch' = [switch EXCEPT ![w] = ~@]
    /\ chain' = chain \union Changed(~switch[w], w)
    /\ UNCHANGED <<inDatabase, enabling, deleting, disabling>>

IsActiveOn(r) ==
    /\ r.ask = "is-active, on"
    /\ Answer(r, IF Active(r.id) THEN {} ELSE Ask("has-other-active", r.id))
    /\ UNCHANGED <<inDatabase, enabling, switch, deleting, disabling, chosen>>

\* Another active workflow is disabled before this one is enabled.
HasOtherActive(r) ==
    /\ r.ask = "has-other-active"
    /\ LET others == inDatabase.active \ {r.id}
       IN  Answer(r, IF others = {} THEN Ask("active", r.id)
                     ELSE {[ask |-> "disable other", id |-> o, for |-> r.id] :
                              o \in others})
    /\ UNCHANGED <<inDatabase, enabling, switch, deleting, disabling, chosen>>

DisableOther(r) ==
    /\ r.ask = "disable other"
    /\ Answer(r, Ask("active", r.for) \union Changed(FALSE, r.id))
    /\ ActionDisable(r.id)
    /\ switch' = [switch EXCEPT ![r.id] = FALSE]
    /\ UNCHANGED <<deleting, disabling, chosen>>

Enable(r) ==
    /\ r.ask = "active"
    /\ Answer(r, {})
    /\ ActionActive(r.id)
    /\ UNCHANGED <<switch, deleting, disabling, chosen>>

\* Disabling is confirmed in a dialog that takes what it is to do from the last
\* one who opens it, but keeps all the handlers for when it is hidden.
ShowDisable(w, then) ==
    disabling' = [shown |-> TRUE, id |-> w, then |-> then,
                  hidden |-> IF then = "disable" THEN disabling.hidden \union {w}
                             ELSE disabling.hidden]

IsActiveOff(r) ==
    /\ r.ask = "is-active, off"
    /\ Answer(r, {})
    /\ IF Active(r.id) THEN ShowDisable(r.id, "disable") ELSE UNCHANGED disabling
    /\ UNCHANGED <<inDatabase, enabling, switch, deleting, chosen>>

\* Confirm or cancel: every handler asks whether its switch is to be on again.
HideDisable(confirmed) ==
    /\ disabling.shown
    /\ disabling' = [disabling EXCEPT !.shown = FALSE]
    /\ chain' = chain \union UNION {Ask("is-active, hidden", w) : w \in disabling.hidden}
          \union (IF confirmed THEN Ask(disabling.then, disabling.id) ELSE {})
    /\ UNCHANGED <<inDatabase, enabling, switch, deleting, chosen>>

IsActiveHidden(r) ==
    /\ r.ask = "is-active, hidden"
    /\ Answer(r, IF Active(r.id) THEN Changed(TRUE, r.id) ELSE {})
    /\ switch' = [switch EXCEPT ![r.id] = @ \/ Active(r.id)]
    /\ UNCHANGED <<inDatabase, enabling, deleting, disabling, chosen>>

Disable(r) ==
    /\ r.ask = "disable"
    /\ Answer(r, Changed(FALSE, r.id))
    /\ ActionDisable(r.id)
    /\ switch' = [switch EXCEPT ![r.id] = FALSE]
    /\ UNCHANGED <<deleting, disabling, chosen>>

-----------------------------------------------------------------------------
(***************************************************************************)
(* The delete button: every click leaves a handler on the confirm button.  *)
(***************************************************************************)

DeleteClick(w) ==
    /\ Click /\ ~disabling.shown /\ ~deleting.shown
    /\ deleting' = [shown |-> TRUE, handlers |-> deleting.handlers \union {w}]
    /\ UNCHANGED <<inDatabase, enabling, switch, chain, disabling>>

DeleteCancel ==
    /\ deleting.shown
    /\ deleting' = [deleting EXCEPT !.shown = FALSE]
    /\ UNCHANGED <<inDatabase, enabling, switch, chain, disabling, chosen>>

DeleteConfirm ==
    /\ deleting.shown
    /\ chain' = chain \union
          UNION {Ask("is-active, delete", w) : w \in deleting.handlers}
    /\ UNCHANGED <<inDatabase, enabling, switch, deleting, disabling, chosen>>

\* An active workflow is deleted after another confirmation.
IsActiveDelete(r) ==
    /\ r.ask = "is-active, delete"
    /\ IF Active(r.id)
       THEN /\ Answer(r, {}) /\ ShowDisable(r.id, "delete")
            /\ deleting' = [deleting EXCEPT !.shown = FALSE]
       ELSE Answer(r, Ask("delete", r.id)) /\ UNCHANGED <<deleting, disabling>>
    /\ UNCHANGED <<inDatabase, enabling, switch, chosen>>

Delete(r) ==
    /\ r.ask = "delete"
    /\ Answer(r, {})
    /\ ActionDelete(r.id)
    /\ deleting' = [deleting EXCEPT !.shown = FALSE]
    /\ UNCHANGED <<switch, disabling, chosen>>

-----------------------------------------------------------------------------
ListInit ==
    /\ inDatabase \in {[there |-> Workflows, active |-> a] :
                          a \in {{}} \union {{w} : w \in Workflows}}
    /\ enabling = None
    /\ switch = [w \in Workflows |-> w \in inDatabase.active]
    /\ chain = {}
    /\ deleting = [shown |-> FALSE, handlers |-> {}]
    /\ disabling = [shown |-> FALSE, id |-> None, then |-> "none", hidden |-> {}]
    /\ chosen = 0

ListNext ==
    \/ \E w \in Workflows : Toggle(w) \/ DeleteClick(w)
    \/ \E r \in chain :
          \/ IsActiveOn(r) \/ HasOtherActive(r) \/ DisableOther(r) \/ Enable(r)
          \/ IsActiveOff(r) \/ IsActiveHidden(r) \/ Disable(r)
          \/ IsActiveDelete(r) \/ Delete(r)
    \/ \E confirmed \in BOOLEAN : HideDisable(confirmed)
    \/ FinishActive \/ DeleteCancel \/ DeleteConfirm

ListSpec == ListInit /\ [][ListNext]_listVars

-----------------------------------------------------------------------------
(***************************************************************************)
(* Properties.                                                             *)
(***************************************************************************)

\* However the chains of several clicks interleave, with what one of them has
\* read changed by another, the domain has at most one active workflow, the one
\* the engine looks up, and it exists.
AtMostOneActive ==
    /\ \A v, w \in inDatabase.active : v = w
    /\ inDatabase.active \subseteq inDatabase.there
=============================================================================
