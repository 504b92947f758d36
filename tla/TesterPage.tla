----------------------------- MODULE TesterPage -----------------------------
(***************************************************************************)
(* The page of the automated tests (tester status.js): a dialog in which a *)
(* test is created between two end points, each chosen in a cascade of     *)
(* selects that are filled by requests.  The cascades have nothing in      *)
(* common, and one is modelled.                                            *)
(*                                                                         *)
(* A device has one port and the port one VLAN range, both of its name.    *)
(* The network is not required, its select feeds none of the others, and   *)
(* it is left out; so are the grid of the page and its refreshing, and the *)
(* schedule of the test.                                                   *)
(***************************************************************************)
EXTENDS WebPage

CONSTANTS
    DevicesOf,    \* DevicesOf[d]: the devices of domain d
    MaxChanges,   \* bound on the changes of selects
    MaxTests      \* bound on the clicks on the confirm button

ASSUME TesterAssumption ==
    /\ \A d \in DOMAIN DevicesOf : None \notin DevicesOf[d]
    /\ {MaxChanges, MaxTests} \subseteq Nat

VARIABLES
    testEnd,   \* the selects of the end point, each [of, value]
    fills,     \* requests that fill a select: [select, of, newest]
    creating,  \* the dialog: [shown, timers, sent]
    tests,     \* the end points of the tests that were posted
    stale,     \* an answer filled a select after another was asked for
    changes,   \* changes counted against MaxChanges
    confirms   \* clicks on the confirm button counted against MaxTests

testerVars == <<testEnd, fills, creating, tests, stale, changes, confirms>>

Cascade == {"dom", "dev", "port", "vlan"}
Empty == [of |-> None, value |-> None]
NoChoice == [s \in Cascade |-> Empty]

\* What the select s offers, when its list is that of its parent.
Options(s) ==
    LET of == testEnd[s].of
    IN  CASE s = "dom" -> DOMAIN DevicesOf
          [] s = "dev" -> IF of = None THEN {} ELSE DevicesOf[of]
          [] OTHER -> {of} \ {None}

\* The select s is changed: the selects S are emptied, and s fills the next one.
ChangeSelect(s, v, S, next) ==
    /\ creating.shown /\ changes < MaxChanges
    /\ v \in (Options(s) \union {None}) \ {testEnd[s].value}
    /\ changes' = changes + 1
    /\ testEnd' = [t \in Cascade |->
          IF t \in S THEN Empty
          ELSE IF t = s THEN [testEnd[s] EXCEPT !.value = v] ELSE testEnd[t]]
    /\ fills' = {[r EXCEPT !.newest = @ /\ r.select \notin S] : r \in fills}
                   \union (IF v = None THEN {}
                           ELSE {[select |-> next, of |-> v, newest |-> TRUE]})
    /\ UNCHANGED <<creating, tests, stale, confirms>>

-----------------------------------------------------------------------------
OpenCreateModal ==
    /\ ~creating.shown
    /\ creating' = [creating EXCEPT !.shown = TRUE]
    /\ testEnd' = NoChoice
    /\ fills' = {[r EXCEPT !.newest = FALSE] : r \in fills}
    /\ UNCHANGED <<tests, stale, changes, confirms>>

CloseModal ==
    /\ creating.shown
    /\ creating' = [creating EXCEPT !.shown = FALSE]
    /\ UNCHANGED <<testEnd, fills, tests, stale, changes, confirms>>

ChangeDom(v) == ChangeSelect("dom", v, {"dev", "port", "vlan"}, "dev")

\* The VLANs of the port chosen so far stay in their select.
ChangeDev(v) == ChangeSelect("dev", v, {"port"}, "port")

\* Mutant: so they do when the port changes.
ChangePortOnly(v) == ChangeSelect("port", v, {}, "vlan")

ChangeTestPort(v) == ChangeSelect("port", v, {"vlan"}, "vlan")

\* An answer fills its select, whatever was asked since; the first VLAN is chosen.
FillAnswered(r) ==
    /\ r \in fills
    /\ fills' = fills \ {r}
    /\ testEnd' = [testEnd EXCEPT ![r.select] =
          [of |-> r.of, value |-> IF r.select = "vlan" THEN r.of ELSE None]]
    /\ stale' = (stale \/ ~r.newest)
    /\ UNCHANGED <<creating, tests, changes, confirms>>

-----------------------------------------------------------------------------
\* The confirm button: a timer gives the validation 200 ms.
CreateTest ==
    /\ creating.shown /\ confirms < MaxTests
    /\ confirms' = confirms + 1
    /\ creating' = [creating EXCEPT !.timers = @ + 1]
    /\ UNCHANGED <<testEnd, fills, tests, stale, changes>>

\* Every select must hold a choice.
CreateTimer ==
    /\ creating.timers > 0
    /\ IF \E s \in Cascade : testEnd[s].value = None
       THEN /\ creating' = [creating EXCEPT !.timers = @ - 1]
            /\ UNCHANGED tests
       ELSE /\ creating' = [creating EXCEPT !.timers = @ - 1, !.sent = @ + 1]
            /\ tests' = tests \union {[s \in Cascade |-> testEnd[s].value]}
    /\ UNCHANGED <<testEnd, fills, stale, changes, confirms>>

\* The page is loaded again when the test is there.
TestCreated ==
    /\ creating.sent > 0
    /\ creating' = [shown |-> FALSE, timers |-> 0, sent |-> 0]
    /\ testEnd' = NoChoice
    /\ fills' = {}
    /\ UNCHANGED <<tests, stale, changes, confirms>>

-----------------------------------------------------------------------------
TesterInit ==
    /\ testEnd = NoChoice
    /\ fills = {}
    /\ creating = [shown |-> FALSE, timers |-> 0, sent |-> 0]
    /\ tests = {}
    /\ stale = FALSE
    /\ changes = 0
    /\ confirms = 0

TesterNext ==
    \/ OpenCreateModal \/ CloseModal
    \/ \E v \in UNION {Options(s) : s \in Cascade} \union {None} :
          ChangeDom(v) \/ ChangeDev(v) \/ ChangeTestPort(v)
    \/ \E r \in fills : FillAnswered(r)
    \/ CreateTest \/ CreateTimer \/ TestCreated

TesterSpec == TesterInit /\ [][TesterNext]_testerVars

-----------------------------------------------------------------------------
(***************************************************************************)
(* Properties.                                                             *)
(***************************************************************************)

\* A test is posted with a device of its domain, the port of that device and a
\* VLAN of that port, although changing the device leaves the old VLANs in their
\* select, unless an answer has overtaken a newer one.
PostedEndMatches ==
    stale \/ \A p \in tests : /\ p["dev"] \in DevicesOf[p["dom"]]
                              /\ p["dev"] = p["port"] /\ p["port"] = p["vlan"]
=============================================================================
