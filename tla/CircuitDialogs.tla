--------------------------- MODULE CircuitDialogs ---------------------------
(***************************************************************************)
(* The dialogs of the page of a circuit (view2.js): one edits it, one      *)
(* cancels it and one shows a message of its history.  What the server     *)
(* makes of a confirmed change or cancellation is the module Connection's; *)
(* here a change comes true, or does not.                                  *)
(*                                                                         *)
(* The start of a circuit is treated as its bandwidth is, and stands for   *)
(* neither.                                                                *)
(***************************************************************************)
EXTENDS WebPage

CONSTANTS
    Messages,      \* the messages of the history
    MaxEdits       \* bound on what the user does in the dialogs and others do

ASSUME DialogAssumption == None \notin Messages /\ MaxEdits \in Nat

VARIABLES
    row,           \* [bandwidth, end]: the circuit at the server
    details,       \* the same, as the block of the details shows it
    edit,          \* the dialog: [shown, form, accept, error], and of the form:
                   \* what it was filled with, and the fields typed since
    checks,        \* validations of the form to come: [form, accept]
    editTimers,    \* timers of 200 ms after a click on confirm
    submits,       \* changes that were posted: [form, accept, base, typed]
    wanted,        \* the newest change the server has stored, or None: [form,
                   \* fields, typed], and the fields others changed meanwhile
    confirmations, \* requests to carry out the newest change, on their way
    cancelling,    \* [shown, posted]: the dialog that cancels the circuit
    message,       \* [shown, body, asked]: the dialog that shows a message
    edits          \* what was done, counted against MaxEdits

dialogsVars == <<row, details, edit, checks, editTimers, submits, wanted,
                 confirmations, cancelling, message, edits>>

editVars == <<edit, checks, editTimers, submits, wanted, confirmations>>
otherDialogs == <<cancelling, message>>

Fields == {"bandwidth", "end"}
Values == 0..1

\* A change of the bandwidth interrupts the circuit, which must be accepted.
IsInvalid(form, accept) == form["bandwidth"] # row["bandwidth"] /\ ~accept

\* A dialog that shows covers the page.
PageIsFree == ~edit.shown /\ ~cancelling.shown /\ ~message.shown

\* The bound on what is done.
CountAct == edits < MaxEdits /\ edits' = edits + 1

-----------------------------------------------------------------------------
(***************************************************************************)
(* Editing.                                                                *)
(***************************************************************************)

\* Others change the circuit; the block of the details is reloaded.
OthersChange ==
    /\ CountAct
    /\ row' \in [Fields -> Values] \ {row}
    /\ UNCHANGED <<details, editVars, otherDialogs>>

DetailsReloaded ==
    /\ details # row
    /\ details' = row
    /\ UNCHANGED <<row, editVars, otherDialogs, edits>>

\* The form takes what the block of the details shows.
FromDetails(e) == [e EXCEPT !.form = details, !.base = details, !.typed = {}]

\* Mutant: the form keeps what was typed before it was closed.
EditAgain ==
    /\ PageIsFree /\ CountAct
    /\ edit' = [edit EXCEPT !.shown = TRUE, !.error = FALSE, !.typed = {}]
    /\ UNCHANGED <<row, details, checks, editTimers, submits, wanted,
                   confirmations, otherDialogs>>

EditClick ==
    /\ PageIsFree /\ CountAct
    /\ edit' = [FromDetails(edit) EXCEPT !.shown = TRUE, !.error = FALSE]
    /\ UNCHANGED <<row, details, checks, editTimers, submits, wanted,
                   confirmations, otherDialogs>>

CloseEdit ==
    /\ edit.shown
    /\ edit' = [edit EXCEPT !.shown = FALSE]
    /\ UNCHANGED <<row, details, checks, editTimers, submits, wanted,
                   confirmations, otherDialogs, edits>>

\* validateEditForm sends the form as it is to be validated.
ValidateEditForm(e) == checks \union {[form |-> e.form, accept |-> e.accept]}

UndoClick ==
    /\ edit.shown
    /\ edit' = FromDetails(edit)
    /\ checks' = ValidateEditForm(FromDetails(edit))
    /\ UNCHANGED <<row, details, editTimers, submits, wanted, confirmations,
                   otherDialogs, edits>>

TypeField(f, v) ==
    /\ edit.shown /\ CountAct
    /\ edit' = [edit EXCEPT !.form[f] = v, !.typed = @ \union {f}]
    /\ UNCHANGED <<row, details, checks, editTimers, submits, wanted,
                   confirmations, otherDialogs>>

AcceptRelease ==
    /\ edit.shown /\ CountAct
    /\ edit' = [edit EXCEPT !.accept = ~@]
    /\ checks' = ValidateEditForm(edit')
    /\ UNCHANGED <<row, details, editTimers, submits, wanted, confirmations,
                   otherDialogs>>

\* An answer marks the form, whatever it has come to hold.
Validated(c) ==
    /\ c \in checks
    /\ checks' = checks \ {c}
    /\ edit' = [edit EXCEPT !.error = IsInvalid(c.form, c.accept)]
    /\ UNCHANGED <<row, details, editTimers, submits, wanted, confirmations,
                   otherDialogs, edits>>

\* Confirm: the form is validated, and posted after 200 ms unless an error shows;
\* a validation that takes longer is not waited for.
ConfirmEdit ==
    /\ edit.shown /\ editTimers = 0 /\ CountAct
    /\ editTimers' = 1
    /\ checks' = ValidateEditForm(edit)
    /\ UNCHANGED <<row, details, edit, submits, wanted, confirmations,
                   otherDialogs>>

EditTimer ==
    /\ editTimers > 0
    /\ editTimers' = editTimers - 1
    /\ submits' = IF edit.error THEN submits
                  ELSE submits \union {[form |-> edit.form, accept |-> edit.accept,
                                        base |-> edit.base, typed |-> edit.typed]}
    /\ UNCHANGED <<row, details, edit, checks, wanted, confirmations,
                   otherDialogs, edits>>

\* The server stores what differs from the circuit, if it is valid; then the
\* page hides the dialog and asks to carry it out.
Submitted(s) ==
    LET changed == {f \in Fields : s.form[f] # row[f]}
    IN  /\ s \in submits
        /\ submits' = submits \ {s}
        /\ IF changed = {} \/ IsInvalid(s.form, s.accept)
           THEN UNCHANGED <<edit, wanted, confirmations>>
           ELSE /\ wanted' = [form |-> s.form, fields |-> changed,
                              typed |-> s.typed,
                              others |-> {f \in Fields : s.base[f] # row[f]}]
                /\ confirmations' = confirmations + 1
                /\ edit' = [edit EXCEPT !.shown = FALSE]
        /\ UNCHANGED <<row, details, checks, editTimers, otherDialogs, edits>>

\* The newest change is carried out, whoever has asked for it, or it fails.
Confirmed ==
    /\ confirmations > 0
    /\ confirmations' = confirmations - 1
    /\ \/ row' = [f \in Fields |-> IF f \in wanted.fields THEN wanted.form[f] ELSE row[f]]
       \/ UNCHANGED row
    /\ UNCHANGED <<details, edit, checks, editTimers, submits, wanted,
                   otherDialogs, edits>>

-----------------------------------------------------------------------------
(***************************************************************************)
(* Cancelling, and the messages of the history.                            *)
(***************************************************************************)

ShowCancel ==
    /\ PageIsFree /\ CountAct
    /\ cancelling' = [cancelling EXCEPT !.shown = TRUE]
    /\ UNCHANGED <<row, details, editVars, message>>

\* Whatever the server answers, the dialog is closed at once.
CloseCancel(confirmed) ==
    /\ cancelling.shown
    /\ cancelling' = [shown |-> FALSE, posted |-> cancelling.posted \/ confirmed]
    /\ UNCHANGED <<row, details, editVars, message, edits>>

EventMessage(m) ==
    /\ PageIsFree /\ CountAct
    /\ message' = [message EXCEPT !.shown = TRUE, !.asked = @ \union {m}]
    /\ UNCHANGED <<row, details, editVars, cancelling>>

\* A late answer fills the dialog when it shows another message, or is hidden.
MessageAnswered(m) ==
    /\ m \in message.asked
    /\ message' = [message EXCEPT !.asked = @ \ {m}, !.body = m]
    /\ UNCHANGED <<row, details, editVars, cancelling, edits>>

HideMessage ==
    /\ message.shown
    /\ message' = [message EXCEPT !.shown = FALSE, !.body = None]
    /\ UNCHANGED <<row, details, editVars, cancelling, edits>>

-----------------------------------------------------------------------------
DialogsInit ==
    /\ row = [f \in Fields |-> 0] /\ details = row
    /\ edit = [shown |-> FALSE, form |-> row, base |-> row, typed |-> {},
               accept |-> FALSE, error |-> FALSE]
    /\ checks = {} /\ editTimers = 0 /\ submits = {}
    /\ wanted = None /\ confirmations = 0
    /\ cancelling = [shown |-> FALSE, posted |-> FALSE]
    /\ message = [shown |-> FALSE, body |-> None, asked |-> {}]
    /\ edits = 0

DialogsNext ==
    \/ OthersChange \/ DetailsReloaded
    \/ EditClick \/ CloseEdit \/ UndoClick \/ AcceptRelease
    \/ \E f \in Fields, v \in Values : TypeField(f, v)
    \/ \E c \in checks : Validated(c)
    \/ ConfirmEdit \/ EditTimer \/ Confirmed
    \/ \E s \in submits : Submitted(s)
    \/ ShowCancel \/ (\E confirmed \in BOOLEAN : CloseCancel(confirmed))
    \/ \E m \in Messages : EventMessage(m) \/ MessageAnswered(m)
    \/ HideMessage

DialogsSpec == DialogsInit /\ [][DialogsNext]_dialogsVars

-----------------------------------------------------------------------------
\* A change that is stored changes what the user typed since the form was last
\* filled, and beside it only what others have changed since then: nothing of an
\* earlier edit that was closed without confirming it comes back (view2.js fills
\* the form at every click on the edit button).
OnlyTypedIsChanged ==
    wanted # None => wanted.fields \subseteq wanted.typed \union wanted.others
=============================================================================
