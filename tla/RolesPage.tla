----------------------------- MODULE RolesPage ------------------------------
(***************************************************************************)
(* The roles on the page of a user (roleDomain.js, roleSystem.js): roles in *)
(* a domain, or in any, and roles in the system.  The forms that add and   *)
(* edit a role are asked for at a click, and stay in the page when their   *)
(* dialog is hidden.  The groups that a form on a domain offers are asked  *)
(* for when it is added to, and when another domain is chosen.             *)
(*                                                                         *)
(* The inputs of the forms have the same ids, and the form that adds comes *)
(* first: that is the one a script finds by id.                            *)
(***************************************************************************)
EXTENDS WebPage

CONSTANTS
    RoleDomains,   \* the domains a role may be in
    MaxForms       \* bound on the forms and lists that are asked for

ASSUME RolesAssumption == None \notin RoleDomains /\ MaxForms \in Nat

VARIABLES
    forms,        \* forms[k]: None, or [domain, groups], the domain chosen and the
                  \* domain whose groups are offered
    roleDialogs,  \* the dialogs that show
    formsAsked,   \* the forms to come, a sequence of [kind, of]
    groupsAsked,  \* the domains whose groups are to come
    checked,      \* checked[g]: some role of grid g is checked
    rolePosted,   \* what the server got last: [domain, groups], "delete" or None
    asks,         \* what was asked, counted against MaxForms
    unhurried     \* nothing was clicked or chosen while an answer was to come

rolesVars == <<forms, roleDialogs, formsAsked, groupsAsked, checked, rolePosted,
               asks, unhurried>>

Grids == {"domain", "system"}
Kinds == {"add", "edit", "addSystem", "editSystem"}

\* None stands for any domain, and for no domain where the role is in the system.
DomainsOf(kind) == IF kind \in {"add", "edit"} THEN RoleDomains \union {None} ELSE {None}

\* A list that offers two empty options, as the form that adds has it at first.
Placeholder == "placeholder"

\* What a form may hold.
RoleForms ==
    LET d == RoleDomains \union {None}
    IN  [domain : d, groups : d \union {Placeholder}]

ASSUME RoleFormAssumption == None \notin RoleForms

NothingToCome == formsAsked = <<>> /\ groupsAsked = <<>>

-----------------------------------------------------------------------------
(***************************************************************************)
(* Forms.                                                                  *)
(***************************************************************************)

\* The page as it is loaded, again after every submit.
Loaded(posted) ==
    /\ forms' = [k \in Kinds |-> None] /\ roleDialogs' = {}
    /\ formsAsked' = <<>> /\ groupsAsked' = <<>>
    /\ checked' = [g \in Grids |-> FALSE]
    /\ rolePosted' = posted /\ unhurried' = TRUE

\* The button that adds a role in a domain, and that of the system; the pencils.
AskForm(kind, of) ==
    /\ roleDialogs = {} /\ asks < MaxForms
    /\ asks' = asks + 1
    /\ formsAsked' = Append(formsAsked, [kind |-> kind, of |-> of])
    /\ unhurried' = (unhurried /\ NothingToCome)
    /\ UNCHANGED <<forms, roleDialogs, groupsAsked, checked, rolePosted>>

AddDomainClick == AskForm("add", None) \/ \E d \in RoleDomains : AskForm("add", d)
EditDomainClick == \E d \in DomainsOf("edit") : AskForm("edit", d)
AddSystemClick == AskForm("addSystem", None)
EditSystemClick == AskForm("editSystem", None)

\* The form whose inputs a script finds: the first one in the page.
FirstForm == IF forms["add"] # None THEN "add" ELSE "edit"

GetGroups(all) == Append(groupsAsked, all[FirstForm].domain)

\* Mutant: the groups are asked for when another domain is chosen only.
FormWithoutGroups(i) ==
    LET f == formsAsked[i]
    IN  /\ formsAsked' = RemoveAt(formsAsked, i)
        /\ forms' = [forms EXCEPT ![f.kind] = [domain |-> f.of,
               groups |-> IF f.kind = "add" THEN Placeholder ELSE f.of]]
        /\ roleDialogs' = roleDialogs \union {f.kind}
        /\ UNCHANGED <<groupsAsked, checked, rolePosted, asks, unhurried>>

\* A dialog that shows already is not shown again, and does not ask again.
FormAnswered(i) ==
    LET f == formsAsked[i]
        filled == [forms EXCEPT ![f.kind] = [domain |-> f.of,
                      groups |-> IF f.kind = "add" THEN Placeholder ELSE f.of]]
    IN  /\ formsAsked' = RemoveAt(formsAsked, i)
        /\ forms' = filled
        /\ roleDialogs' = roleDialogs \union {f.kind}
        /\ groupsAsked' = IF f.kind = "add" /\ "add" \notin roleDialogs
                          THEN Append(groupsAsked, f.of) ELSE groupsAsked
        /\ UNCHANGED <<checked, rolePosted, asks, unhurried>>

\* Another domain is chosen in the form that adds or edits.
ChangeRoleDomain(kind, d) ==
    /\ kind \in roleDialogs \intersect {"add", "edit"}
    /\ d \in DomainsOf(kind) \ {forms[kind].domain} /\ asks < MaxForms
    /\ asks' = asks + 1
    /\ forms' = [forms EXCEPT ![kind].domain = d]
    /\ groupsAsked' = GetGroups(forms')
    /\ unhurried' = (unhurried /\ NothingToCome)
    /\ UNCHANGED <<roleDialogs, formsAsked, checked, rolePosted>>

\* The answers come in any order, and fill the list that is first by then.
GroupsAnswered(i) ==
    /\ groupsAsked' = RemoveAt(groupsAsked, i)
    /\ forms' = [forms EXCEPT ![FirstForm].groups = groupsAsked[i]]
    /\ UNCHANGED <<roleDialogs, formsAsked, checked, rolePosted, asks, unhurried>>

CloseRoleDialog(kind) ==
    /\ kind \in roleDialogs
    /\ roleDialogs' = roleDialogs \ {kind}
    /\ UNCHANGED <<forms, formsAsked, groupsAsked, checked, rolePosted, asks, unhurried>>

\* The form is submitted as it is.
SaveRole(kind) ==
    /\ kind \in roleDialogs \intersect Kinds
    /\ Loaded(forms[kind])
    /\ UNCHANGED asks

-----------------------------------------------------------------------------
(***************************************************************************)
(* Deleting.                                                               *)
(***************************************************************************)

CheckRole(g) ==
    /\ roleDialogs = {}
    /\ checked' = [checked EXCEPT ![g] = ~@]
    /\ UNCHANGED <<forms, roleDialogs, formsAsked, groupsAsked, rolePosted, asks, unhurried>>

\* The dialog that refuses is the same for both grids.
DeleteRoles(g) ==
    /\ roleDialogs = {}
    /\ roleDialogs' = IF ~checked[g] THEN {"error"}
                      ELSE IF g = "domain" THEN {"delete"} ELSE {"deleteSystem"}
    /\ UNCHANGED <<forms, formsAsked, groupsAsked, checked, rolePosted, asks, unhurried>>

DeleteDomainRole == DeleteRoles("domain")
DeleteSystemRole == DeleteRoles("system")

ConfirmDeleteRoles ==
    /\ roleDialogs \intersect {"delete", "deleteSystem"} # {}
    /\ Loaded("delete")
    /\ UNCHANGED asks

-----------------------------------------------------------------------------
RolesInit ==
    /\ forms = [k \in Kinds |-> None] /\ roleDialogs = {}
    /\ formsAsked = <<>> /\ groupsAsked = <<>>
    /\ checked = [g \in Grids |-> FALSE]
    /\ rolePosted = None /\ asks = 0 /\ unhurried = TRUE

RolesNext ==
    \/ AddDomainClick \/ EditDomainClick \/ AddSystemClick \/ EditSystemClick
    \/ \E i \in DOMAIN formsAsked : FormAnswered(i)
    \/ \E k \in Kinds, d \in RoleDomains \union {None} : ChangeRoleDomain(k, d)
    \/ \E i \in DOMAIN groupsAsked : GroupsAnswered(i)
    \/ \E k \in Kinds \union {"error", "delete", "deleteSystem"} : CloseRoleDialog(k)
    \/ \E k \in Kinds : SaveRole(k)
    \/ \E g \in Grids : CheckRole(g)
    \/ DeleteDomainRole \/ DeleteSystemRole \/ ConfirmDeleteRoles

RolesSpec == RolesInit /\ [][RolesNext]_rolesVars

-----------------------------------------------------------------------------
\* A form on a domain offers the groups of the domain that is chosen in it, once
\* nothing is to come, for a user who waits for every answer; the form that edits
\* does so only until a role has been added to: then the script takes the domain
\* from the one form and fills it, and a role can get a group of another domain.
GroupsOfTheDomain ==
    unhurried /\ NothingToCome =>
        \A k \in {"add", "edit"} :
            \/ forms[k] = None
            \/ k = "edit" /\ forms["add"] # None
            \/ forms[k].groups = forms[k].domain
=============================================================================
