---------------------------- MODULE NewWorkflow -----------------------------
(***************************************************************************)
(* The page between the list of the workflows and the editor of a new one  *)
(* (bpm indexCreate.js): the user chooses the domain of the workflow, if   *)
(* there is a choice.  The rights of the user may change meanwhile.        *)
(***************************************************************************)
EXTENDS WebPage

CONSTANT WorkflowDomains    \* the domains there are

ASSUME NewWorkflowAssumption == None \notin WorkflowDomains

VARIABLES
    mayCreate,      \* the domains in which the user may create workflows
    at,             \* "index", "new" or "create", the page that is open
    domainSelect,   \* [options, value]: the select of the dialog, or None
    domainTop       \* the domain the editor was opened for, or None

newWorkflowVars == <<mayCreate, at, domainSelect, domainTop>>

\* An administrator changes the groups of the user.
RightsChange ==
    /\ mayCreate' \in (SUBSET WorkflowDomains) \ {mayCreate}
    /\ UNCHANGED <<at, domainSelect, domainTop>>

\* The page of the choice is for those who may create workflows at all.
ActionNew ==
    /\ at = "index" /\ mayCreate # {}
    /\ at' = "new"
    /\ UNCHANGED <<mayCreate, domainSelect, domainTop>>

\* The editor of a domain, if the user may create there; the list otherwise.
ActionCreate(d) ==
    IF d \in mayCreate THEN at' = "create" /\ domainTop' = d
    ELSE at' = "index" /\ UNCHANGED domainTop

\* The select offers the domains of the answer, the first of them is chosen; one
\* domain is no choice.
UserDomainsAnswered ==
    /\ at = "new" /\ domainSelect = None
    /\ CASE Cardinality(mayCreate) > 1 ->
              /\ \E d \in mayCreate :
                    domainSelect' = [options |-> mayCreate, value |-> d]
              /\ UNCHANGED <<at, domainTop>>
         [] Cardinality(mayCreate) = 1 ->
              /\ \E d \in mayCreate : ActionCreate(d)
              /\ UNCHANGED domainSelect
         [] OTHER -> at' = "index" /\ UNCHANGED <<domainSelect, domainTop>>
    /\ UNCHANGED mayCreate

SelectDomain(d) ==
    /\ domainSelect # None /\ d \in domainSelect.options
    /\ domainSelect' = [domainSelect EXCEPT !.value = d]
    /\ UNCHANGED <<mayCreate, at, domainTop>>

OkClick ==
    /\ domainSelect # None
    /\ domainSelect' = None
    /\ ActionCreate(domainSelect.value)
    /\ UNCHANGED mayCreate

\* The cancel button here, and those of the editor.
BackToList ==
    /\ domainSelect # None \/ at = "create"
    /\ at' = "index"
    /\ domainSelect' = None /\ domainTop' = None
    /\ UNCHANGED mayCreate

NewWorkflowInit ==
    /\ mayCreate = WorkflowDomains
    /\ at = "index" /\ domainSelect = None /\ domainTop = None

NewWorkflowNext ==
    \/ RightsChange \/ ActionNew \/ UserDomainsAnswered \/ OkClick \/ BackToList
    \/ \E d \in WorkflowDomains : SelectDomain(d)

NewWorkflowSpec == NewWorkflowInit /\ [][NewWorkflowNext]_newWorkflowVars
=============================================================================
