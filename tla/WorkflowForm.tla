---------------------------- MODULE WorkflowForm ----------------------------
(***************************************************************************)
(* The forms of the workflow editor, over the inputEx library: the name of *)
(* the workflow, a text input that shows an invitation while it is empty,  *)
(* and the form of one module, edited in place: what it holds is shown as  *)
(* a text; a click opens an editor, Ok or cancel closes it again.          *)
(*                                                                         *)
(* The editor is a list ("list": users, groups, devices), a list beside an *)
(* operator ("domain") or a number beside an operator ("number").  A list  *)
(* offers what there is when the page is opened, which may lack what was   *)
(* chosen when the workflow was saved.  Style classes are left out.        *)
(***************************************************************************)
EXTENDS WebPage

CONSTANT Listed    \* what lists may offer

ASSUME FormAssumption == Listed # {} /\ None \notin Listed

VARIABLES
    nameField,   \* [text, focused, invited]: the name of the workflow
    inPlace,     \* [kind, value, shown, open, editor]: the form of the module
    offered,     \* what the list of the editor offers
    awaited,     \* a workflow has been asked for and is not answered
    formPosted   \* [name, post] as it was sent last, or None

formVars == <<nameField, inPlace, offered, awaited, formPosted>>

EditorKinds == {"list", "domain", "number"}
Operators == {"source", "next"}
Names == {"", "invite", "work"}
Numbers == {"", "10"}

\* What an editor may hold.
Contents == [operator : Operators, choice : Numbers \union Listed]

ASSUME ContentAssumption == None \notin Contents

-----------------------------------------------------------------------------
(***************************************************************************)
(* The text input.                                                         *)
(***************************************************************************)

\* A text that reads like the invitation counts as no text.
StringValue(f) == IF f.text = "invite" THEN "" ELSE f.text

IsEmpty(f) == StringValue(f) = ""

\* Without the focus an empty input is filled with the invitation; with it the
\* invitation goes away.
UpdateTypeInvite(f) ==
    IF ~f.focused
    THEN IF IsEmpty(f) THEN [f EXCEPT !.text = "invite", !.invited = TRUE]
         ELSE [f EXCEPT !.invited = FALSE]
    ELSE IF f.invited THEN [f EXCEPT !.text = "", !.invited = FALSE] ELSE f

\* Every change of the state comes with the invitation.
SetClassFromState(f) == UpdateTypeInvite(f)

\* Setting a value brings the state up to date.
FieldSetValue(f) == SetClassFromState(f)

StringSetValue(f, text) == FieldSetValue([f EXCEPT !.text = text])

\* A field is built without a value, and only then invites.
NewField == [text |-> "", focused |-> FALSE, invited |-> FALSE]

NewStringField == UpdateTypeInvite(NewField)

OnFocus(f) == UpdateTypeInvite([f EXCEPT !.focused = TRUE])

OnBlur(f) == SetClassFromState([f EXCEPT !.focused = FALSE])

FocusName ==
    /\ ~nameField.focused
    /\ nameField' = OnFocus(nameField)
    /\ UNCHANGED <<inPlace, offered, awaited, formPosted>>

TypeName(text) ==
    /\ nameField.focused
    /\ nameField' = [nameField EXCEPT !.text = text]
    /\ UNCHANGED <<inPlace, offered, awaited, formPosted>>

BlurName ==
    /\ nameField.focused
    /\ nameField' = OnBlur(nameField)
    /\ UNCHANGED <<inPlace, offered, awaited, formPosted>>

-----------------------------------------------------------------------------
(***************************************************************************)
(* The editor, whose content is [operator, choice], and the field.         *)
(***************************************************************************)

Offers(kind) == IF kind = "number" THEN Numbers ELSE offered

\* A list keeps its selection when it does not offer the value.
SelectSetValue(choice, v) == IF v \in offered THEN v ELSE choice

\* The inputs of the editor take the values of their names.
EditorSetValue(kind, e, v) ==
    [operator |-> v.operator,
     choice |-> IF kind = "number" THEN v.choice
                ELSE SelectSetValue(e.choice, v.choice)]

\* The text of an editor: that of what its lists have selected.
EditorText(e) == [as |-> "text", of |-> e]

\* Lists are shown by their text, a number as it is.
Rendered(kind, e) == IF kind = "number" THEN [as |-> "value", of |-> e] ELSE EditorText(e)

Unfilled == [as |-> "(click to edit)", of |-> None]

\* An editor is built with some option of its lists selected.
NewEditor(c) == [operator |-> "source", choice |-> c]

\* The fields as they are built: nothing held, the editor closed.
NewFields ==
    {[kind |-> k, value |-> None, shown |-> Unfilled, open |-> FALSE,
      editor |-> NewEditor(c)] :
        k \in EditorKinds, c \in Numbers \union offered}

FreshField(f) == f \in NewFields /\ f.editor.choice \in Offers(f.kind)

\* What is saved: an open editor counts with what it holds.
InPlaceValue(f) == IF f.open THEN f.editor ELSE f.value

Close(f) == [f EXCEPT !.open = FALSE]

Opened(f) ==
    [f EXCEPT !.open = TRUE,
              !.editor = IF f.value = None THEN @
                         ELSE EditorSetValue(f.kind, @, f.value)]

SetValueAndText(f, v, text) == [f EXCEPT !.value = v, !.shown = text]

\* Setting a field when a workflow is loaded opens its lists, to show the text
\* that is selected, and closes them.
InPlaceSetValue(f, v) ==
    IF f.kind = "number" THEN SetValueAndText(f, v, Rendered("number", v))
    ELSE LET o == Opened([f EXCEPT !.value = v])
         IN  Close(SetValueAndText(o, v, EditorText(o.editor)))

OpenEditor ==
    /\ ~inPlace.open
    /\ inPlace' = Opened(inPlace)
    /\ UNCHANGED <<nameField, offered, awaited, formPosted>>

EditInPlace(operator, choice) ==
    /\ inPlace.open /\ choice \in Offers(inPlace.kind)
    /\ inPlace' = [inPlace EXCEPT
          !.editor = [operator |-> operator, choice |-> choice]]
    /\ UNCHANGED <<nameField, offered, awaited, formPosted>>

\* Mutant: lists are shown by what they hold.
OkWithoutText ==
    /\ inPlace.open
    /\ inPlace' = Close(SetValueAndText(inPlace, inPlace.editor,
                             [as |-> "value", of |-> inPlace.editor]))
    /\ UNCHANGED <<nameField, offered, awaited, formPosted>>

\* The button, or the keys Enter and Tab in a list.
OnOkEditor ==
    /\ inPlace.open
    /\ inPlace' = Close(SetValueAndText(inPlace, inPlace.editor,
                             Rendered(inPlace.kind, inPlace.editor)))
    /\ UNCHANGED <<nameField, offered, awaited, formPosted>>

\* The link, or the key Escape: the editor keeps what was chosen in it.
OnCancelEditor ==
    /\ inPlace.open
    /\ inPlace' = Close(inPlace)
    /\ UNCHANGED <<nameField, offered, awaited, formPosted>>

-----------------------------------------------------------------------------
(***************************************************************************)
(* Loading and saving.                                                     *)
(***************************************************************************)

\* The answer builds the module and its form anew, and sets the name, whether
\* the user has begun to type one or not.
LoadForm(name, v) ==
    /\ awaited
    /\ awaited' = FALSE
    /\ nameField' = StringSetValue(nameField, name)
    /\ \E f \in NewFields :
          /\ FreshField(f) /\ v.choice # ""
          /\ (f.kind = "number") = (v.choice \in Numbers)
          /\ inPlace' = InPlaceSetValue(f, v)
    /\ UNCHANGED <<offered, formPosted>>

\* Saving is refused without a name.
SaveForm ==
    /\ ~IsEmpty(nameField)
    /\ formPosted' = [name |-> StringValue(nameField), post |-> InPlaceValue(inPlace)]
    /\ UNCHANGED <<nameField, inPlace, offered, awaited>>

-----------------------------------------------------------------------------
FormInit ==
    /\ nameField = NewStringField
    /\ offered \in SUBSET Listed \ {{}}
    /\ inPlace \in {f \in NewFields : FreshField(f)}
    /\ awaited \in BOOLEAN
    /\ formPosted = None

FormNext ==
    \/ FocusName \/ BlurName
    \/ \E text \in Names : TypeName(text)
    \/ OpenEditor \/ OnOkEditor \/ OnCancelEditor
    \/ \E o \in Operators, c \in Numbers \union Listed :
          \/ EditInPlace(o, c)
          \/ LoadForm("work", [operator |-> o, choice |-> c])
    \/ SaveForm

FormSpec == FormInit /\ [][FormNext]_formVars

-----------------------------------------------------------------------------
(***************************************************************************)
(* Properties.                                                             *)
(***************************************************************************)

\* However the editor is opened, changed, cancelled and loaded, a closed form
\* shows, by its text, what will be saved, unless the list no longer offers that;
\* then it shows some other option.  The invitation is never taken for a name.
FormShowsWhatItSaves ==
    /\ ~inPlace.open =>
          IF inPlace.value = None THEN inPlace.shown = Unfilled
          ELSE \/ inPlace.shown = Rendered(inPlace.kind, inPlace.value)
               \/ inPlace.value.choice \notin Offers(inPlace.kind)
    /\ formPosted # None => formPosted.name \notin {"", "invite"}
=============================================================================
