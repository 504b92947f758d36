------------------------------ MODULE RulesPage -----------------------------
(***************************************************************************)
(* The page of the discovery rules (discovery/public/index.js): a grid     *)
(* with a button in each row that starts a task of its rule, and the       *)
(* buttons that delete the rules that are checked.  The grid lies in a     *)
(* form that deletes rules, and is replaced whenever it is refreshed; the  *)
(* handler of the start buttons belongs to the first grid.                 *)
(***************************************************************************)
EXTENDS WebPage

CONSTANTS
    Rules,       \* the rules at first
    MaxStarts    \* bound on the clicks on the start buttons

ASSUME RulesAssumption == None \notin Rules /\ MaxStarts \in Nat

VARIABLES
    rules,         \* the rules at the server
    ruleGrid,      \* [rows, checked, handled]: the grid, and whether it has the
                   \* handler of the start buttons
    ruleDialog,    \* "none", "delete" or "error"
    refreshers,    \* how many timers refresh the grid
    refreshing,    \* a refresh is on its way
    executing,     \* the rules whose tasks have not ended, with how often
    ruleDeletion,  \* None, or the rules that the form was submitted with
    starts         \* clicks counted against MaxStarts

rulesVars == <<rules, ruleGrid, ruleDialog, refreshers, refreshing, executing,
               ruleDeletion, starts>>

\* The form that was submitted replaces the page.
OnRulesPage == ruleDeletion = None

CheckRule(r) ==
    /\ OnRulesPage /\ ruleDialog = "none" /\ r \in ruleGrid.rows
    /\ ruleGrid' = [ruleGrid EXCEPT !.checked = (@ \ {r}) \union ({r} \ @)]
    /\ UNCHANGED <<rules, ruleDialog, refreshers, refreshing, executing,
                   ruleDeletion, starts>>

SubmitDeleteForm == ruleDeletion' = ruleGrid.checked

\* enableRefresh: at once, and with a timer beside those that run.
EnableRefresh ==
    /\ refreshing' = TRUE
    /\ refreshers' = refreshers + 1

\* The grid that is there first starts a task.  In a later one nobody hears the
\* click, and the button submits the form it lies in.
StartDiscovery(r) ==
    /\ OnRulesPage /\ ruleDialog = "none" /\ r \in ruleGrid.rows
    /\ starts < MaxStarts
    /\ starts' = starts + 1
    /\ IF ruleGrid.handled
       THEN /\ EnableRefresh
            /\ executing' = [executing EXCEPT ![r] = @ + 1]
            /\ UNCHANGED ruleDeletion
       ELSE SubmitDeleteForm /\ UNCHANGED <<refreshers, refreshing, executing>>
    /\ UNCHANGED <<rules, ruleGrid, ruleDialog>>

RefreshTimer ==
    /\ OnRulesPage /\ refreshers > 0 /\ ~refreshing
    /\ refreshing' = TRUE
    /\ UNCHANGED <<rules, ruleGrid, ruleDialog, refreshers, executing,
                   ruleDeletion, starts>>

\* The new grid has no box checked, and no handler.
GridRefreshed ==
    /\ OnRulesPage /\ refreshing
    /\ refreshing' = FALSE
    /\ ruleGrid' = [rows |-> rules, checked |-> {}, handled |-> FALSE]
    /\ UNCHANGED <<rules, ruleDialog, refreshers, executing, ruleDeletion, starts>>

\* The page says how the task ended; a task goes on when its page is left.
TaskEnds(r) ==
    /\ executing[r] > 0
    /\ executing' = [executing EXCEPT ![r] = @ - 1]
    /\ UNCHANGED <<rules, ruleGrid, ruleDialog, refreshers, refreshing,
                   ruleDeletion, starts>>

-----------------------------------------------------------------------------
\* The delete button: rules are to be checked, and the user confirms.
DeleteGridClick ==
    /\ OnRulesPage /\ ruleDialog = "none"
    /\ ruleDialog' = IF ruleGrid.checked # {} THEN "delete" ELSE "error"
    /\ UNCHANGED <<rules, ruleGrid, refreshers, refreshing, executing,
                   ruleDeletion, starts>>

CloseGridDialog ==
    /\ OnRulesPage /\ ruleDialog # "none"
    /\ ruleDialog' = "none"
    /\ UNCHANGED <<rules, ruleGrid, refreshers, refreshing, executing,
                   ruleDeletion, starts>>

\* A refresh under the dialog unchecks the boxes.
ConfirmGridClick ==
    /\ OnRulesPage /\ ruleDialog = "delete"
    /\ SubmitDeleteForm
    /\ UNCHANGED <<rules, ruleGrid, ruleDialog, refreshers, refreshing, executing,
                   starts>>

\* The server deletes the rules and answers with the page.
ActionDeleteRule ==
    /\ ruleDeletion # None
    /\ rules' = rules \ ruleDeletion
    /\ ruleDeletion' = None
    /\ ruleGrid' = [rows |-> rules', checked |-> {}, handled |-> TRUE]
    /\ ruleDialog' = "none" /\ refreshers' = 0 /\ refreshing' = FALSE
    /\ UNCHANGED <<executing, starts>>

-----------------------------------------------------------------------------
RulesInit ==
    /\ rules = Rules
    /\ ruleGrid = [rows |-> Rules, checked |-> {}, handled |-> TRUE]
    /\ ruleDialog = "none" /\ refreshers = 0 /\ refreshing = FALSE
    /\ executing = [r \in Rules |-> 0]
    /\ ruleDeletion = None /\ starts = 0

RulesNext ==
    \/ \E r \in Rules : CheckRule(r) \/ StartDiscovery(r) \/ TaskEnds(r)
    \/ RefreshTimer \/ GridRefreshed
    \/ DeleteGridClick \/ CloseGridDialog \/ ConfirmGridClick \/ ActionDeleteRule

RulesSpec == RulesInit /\ [][RulesNext]_rulesVars
=============================================================================
