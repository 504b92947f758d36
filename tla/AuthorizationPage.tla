------------------------- MODULE AuthorizationPage --------------------------
(***************************************************************************)
(* The page on which a manager answers the authorizations of a reservation *)
(* (authorization.js): buttons that open a dialog of which every opening   *)
(* leaves a handler on the confirm button.  What the server makes of an    *)
(* answer is the module AuthWorkflow's; here it is the new status.  The    *)
(* calendar of the page is the module AuthorizationCalendar.               *)
(***************************************************************************)
EXTENDS WebPage

CONSTANTS
    Auths,    \* the authorizations of the reservation in the manager's domain
    MaxOpen   \* bound on how often dialogs are opened

ASSUME AuthorizationAssumption ==
    "all" \notin Auths /\ IsFiniteSet(Auths) /\ MaxOpen \in Nat

VARIABLES
    status,     \* status[a]: "waiting", "accept" or "reject", at the server
    buttons,    \* the authorizations that have buttons on the page
    checking,   \* is-answered requests to come: [way, id]
    modals,     \* modals[w]: [shown, last, handlers], of the four dialogs
    answers,    \* answers on their way to the server: [way, id, meant]
    opened      \* openings counted against MaxOpen

authorizationVars == <<status, buttons, checking, modals, answers, opened>>

Ways == {"accept", "reject"}
Targets == Auths \union {"all"}

\* The dialog for one authorization and the one for all of them.
Modal(way, id) == <<way, IF id = "all" THEN "all" ELSE "one">>

Waiting == {a \in Auths : status[a] = "waiting"}

-----------------------------------------------------------------------------
\* The dialog opens, and its confirm button gets one more handler.
Open(way, id) ==
    /\ opened < MaxOpen
    /\ opened' = opened + 1
    /\ modals' = [modals EXCEPT ![Modal(way, id)] =
          [shown |-> TRUE, last |-> id, handlers |-> @.handlers \union {id}]]

\* A button beside an authorization: the server is asked whether it is answered.
ClickAnswer(way, id) ==
    /\ id \in buttons
    /\ checking' = checking \union {[way |-> way, id |-> id]}
    /\ UNCHANGED <<status, buttons, modals, answers, opened>>

IsAnswered(r) ==
    /\ r \in checking
    /\ checking' = checking \ {r}
    /\ IF r.id \in Waiting THEN Open(r.way, r.id) ELSE UNCHANGED <<modals, opened>>
    /\ UNCHANGED <<status, buttons, answers>>

\* acceptAll and rejectAll open their dialogs at once.
ClickAll(way) ==
    /\ Open(way, "all")
    /\ UNCHANGED <<status, buttons, checking, answers>>

CancelModal(w) ==
    /\ modals[w].shown
    /\ modals' = [modals EXCEPT ![w].shown = FALSE]
    /\ UNCHANGED <<status, buttons, checking, answers, opened>>

\* The confirm button: every handler sends its answer.
ConfirmModal(w) ==
    /\ modals[w].shown
    /\ answers' = answers \union
          {[way |-> w[1], id |-> id, meant |-> modals[w].last] :
              id \in modals[w].handlers}
    /\ UNCHANGED <<status, buttons, checking, modals, opened>>

\* The server takes the answer, the dialog closes and the buttons are loaded anew.
Answered(r) ==
    /\ r \in answers
    /\ answers' = answers \ {r}
    /\ status' = [a \in Auths |->
          IF a = r.id \/ (r.id = "all" /\ a \in Waiting) THEN r.way ELSE status[a]]
    /\ buttons' = {a \in Auths : status'[a] = "waiting"}
    /\ modals' = [modals EXCEPT ![Modal(r.way, r.id)].shown = FALSE]
    /\ UNCHANGED <<checking, opened>>

\* Another manager of the domain answers.
OtherAnswers(a, way) ==
    /\ a \in Waiting
    /\ status' = [status EXCEPT ![a] = way]
    /\ UNCHANGED <<buttons, checking, modals, answers, opened>>

-----------------------------------------------------------------------------
AuthorizationInit ==
    /\ status = [a \in Auths |-> "waiting"]
    /\ buttons = Auths
    /\ checking = {}
    /\ modals = [w \in Ways \X {"one", "all"} |->
                    [shown |-> FALSE, last |-> None, handlers |-> {}]]
    /\ answers = {}
    /\ opened = 0

AuthorizationNext ==
    \/ \E way \in Ways : \/ ClickAll(way)
                         \/ \E a \in Auths : ClickAnswer(way, a) \/ OtherAnswers(a, way)
    \/ \E r \in checking : IsAnswered(r)
    \/ \E w \in DOMAIN modals : CancelModal(w) \/ ConfirmModal(w)
    \/ \E r \in answers : Answered(r)

AuthorizationSpec == AuthorizationInit /\ [][AuthorizationNext]_authorizationVars

-----------------------------------------------------------------------------
(***************************************************************************)
(* Properties.                                                             *)
(***************************************************************************)

\* The dialog says what its button does to the one authorization it was opened
\* for ("Request will be accepted. If you want, provide a message:"): nothing is
\* sent for any other.
OnlyTheConfirmedIsAnswered == \A r \in answers : r.id = r.meant
=============================================================================
