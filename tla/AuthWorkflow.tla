---------------------------- MODULE AuthWorkflow ----------------------------
(***************************************************************************)
(* The authorization of one circuit by the workflows of the domains on its *)
(* path.  Each domain may have an active workflow, a graph whose filters   *)
(* test the circuit and whose request nodes ask a manager; a domain        *)
(* without one applies its default policy.  The workflows run inside web   *)
(* requests.  Here the requests about the circuit are served one after the *)
(* other, each to its end, and one iteration of a loop of the code, or one *)
(* call of BpmFlow::execute for a row, is one step; module AuthOverlap     *)
(* takes these steps apart into statements, and lets requests overlap.     *)
(***************************************************************************)
EXTENDS Naturals, FiniteSets

CONSTANTS
    NumDomains,  \* the DISTINCT domains of the path are numbered in its order
    Known,       \* those the topology database still lists
    Nodes,       \* the nodes of the workflows
    Kind,        \* what a node does
    Yes, No,     \* its outputs
    Manager,     \* whom a request node asks
    Start,       \* the first node of each domain's workflow
    Policy,      \* the default policy of each domain
    Requester,   \* the user who reserves the circuit
    LateAnswers, \* TRUE: a request may be answered again
    MayDisable   \* TRUE: workflows may be disabled while circuits use them

Domains == 1..NumDomains
Requests == {n \in Nodes : Kind[n] \in {"user", "group"}}
Managers == {Manager[n] : n \in Requests}

ASSUME WorkflowAssumption ==
    /\ NumDomains \in Nat \ {0}
    /\ Known \subseteq Domains
    /\ Kind \in [Nodes -> {"filter", "user", "group", "accept", "deny"}]
    /\ {Yes, No} \subseteq [Nodes -> Nodes]
    /\ \A n, o \in Requests : Manager[n] = Manager[o] => Kind[n] = Kind[o]
    /\ Start \in [Domains -> Nodes]
    /\ Policy \in [Domains -> {"ACCEPT_ALL", "REJECT_ALL"}]
    /\ {LateAnswers, MayDisable} \subseteq BOOLEAN

VARIABLES
    auth,        \* auth_status of the circuit
    cancelled,   \* isCancelStatus() of the circuit
    active,      \* the domains whose workflow is active
    flow,        \* the row of meican_bpm_flow_control of each domain
    request,     \* the rows of meican_connection_auth that ask a manager
    verdict,     \* those that tell the verdict of a domain
    provisions,  \* provision requests sent to the provider
    task         \* what the request that is served is doing

vars == <<auth, cancelled, active, flow, request, verdict, provisions, task>>

-----------------------------------------------------------------------------

AuthStatuses == {"UNEXECUTED", "WAITING", "AUTHORIZED", "DENIED", "EXPIRED"}
Answers == {"AUTHORIZED", "DENIED"}
RequestStatuses == {"none", "WAITING", "AUTHORIZED", "DENIED", "EXPIRED"}

NoFlow == [node |-> "none", status |-> "none"]
Flows == {NoFlow} \union
         [node : Nodes, status : {"WAITING", "READY", "YES", "NO"}]

\* idle:    no request is served        start:   creates the flows
\* respond: runs the answered flow      visit:   is about to run a flow
\* run:     runs the flow it visits     next:    is done with that domain
\* decide:  is past the last domain     approve: approves the circuit
Tasks ==
    [pc : {"idle", "start", "respond", "visit", "run", "next", "decide", "approve"},
     at : 0..NumDomains,
     asking : BOOLEAN]

Idle == [pc |-> "idle", at |-> 0, asking |-> FALSE]

TypeOK ==
    /\ auth \in AuthStatuses
    /\ cancelled \in BOOLEAN
    /\ active \subseteq Domains
    /\ flow \in [Domains -> Flows]
    /\ request \in [Domains \X Managers -> RequestStatuses]
    /\ verdict \in [Domains -> SUBSET Answers]
    /\ provisions \in Nat
    /\ task \in Tasks

\* A request node waits until the questions are allowed.
Arrive(n) ==
    [node |-> n, status |-> IF n \in Requests THEN "WAITING" ELSE "READY"]

NoFlows == [d \in Domains |-> NoFlow]
Pending == {r \in Domains \X Managers : request[r] = "WAITING"}

Init ==
    /\ auth = "UNEXECUTED"
    /\ cancelled = FALSE
    /\ active \in SUBSET Known
    /\ flow = NoFlows
    /\ request = [r \in Domains \X Managers |-> "none"]
    /\ verdict = [d \in Domains |-> {}]
    /\ provisions = 0
    /\ task = Idle

Goto(pc) == task' = [task EXCEPT !.pc = pc]
ContinueWorkflows(asking) ==
    task' = [Idle EXCEPT !.pc = "visit", !.at = 1, !.asking = asking]

-----------------------------------------------------------------------------
(***************************************************************************)
(* Connection::executeWorkflows                                            *)
(***************************************************************************)

\* confirmRead
RequestAuthorization ==
    /\ task.pc = "idle" /\ auth = "UNEXECUTED"
    /\ auth' = "WAITING"
    /\ task' = [Idle EXCEPT !.pc = "start", !.at = 1]
    /\ UNCHANGED <<cancelled, active, flow, request, verdict, provisions>>

\* BpmFlow::startFlow for domain d, given the rows there are by then.
StartFlow(d, flows, verdicts, workflows) ==
    \/ /\ d \in workflows
       /\ flow' = [flows EXCEPT ![d] = Arrive(Start[d])]
       /\ verdict' = verdicts
       /\ UNCHANGED auth
    \/ /\ d \notin workflows /\ Policy[d] = "ACCEPT_ALL"
       /\ flow' = flows
       /\ verdict' = [verdicts EXCEPT ![d] = @ \union {"AUTHORIZED"}]
       /\ UNCHANGED auth
    \/ /\ d \notin workflows /\ Policy[d] = "REJECT_ALL"
       /\ flow' = NoFlows
       /\ verdict' = [verdicts EXCEPT ![d] = @ \union {"DENIED"}]
       /\ auth' = "DENIED"

\* One domain of the first loop, which ends early once somebody denied.
StartNext ==
    /\ task.pc = "start"
    /\ IF task.at \in Known
       THEN StartFlow(task.at, flow, verdict, active)
       ELSE UNCHANGED <<auth, flow, verdict>>
    /\ IF auth' = "WAITING" /\ task.at < NumDomains
       THEN task' = [task EXCEPT !.at = @ + 1]
       ELSE ContinueWorkflows(FALSE)
    /\ UNCHANGED <<cancelled, active, request, provisions>>

-----------------------------------------------------------------------------
(***************************************************************************)
(* Connection::continueWorkflows                                           *)
(***************************************************************************)

\* The next domain: its flow, if it has one, is about to run.
Visit ==
    LET d == task.at IN
    /\ task.pc = "visit"
    /\ IF auth = "DENIED"
       THEN Goto("decide") /\ UNCHANGED flow
       ELSE IF d \in Known /\ flow[d] # NoFlow
       THEN /\ flow' = IF task.asking
                       THEN [flow EXCEPT ![d].status = "READY"] ELSE flow
            /\ Goto("run")
       ELSE Goto("next") /\ UNCHANGED flow
    /\ UNCHANGED <<auth, cancelled, active, request, verdict, provisions>>

\* Mutants: one domain too many; the loop goes on with a question open.
PastTheLastDomain ==
    /\ task.pc = "next"
    /\ IF Pending # {} \/ task.at > NumDomains
       THEN Goto("decide")
       ELSE task' = [task EXCEPT !.pc = "visit", !.at = @ + 1]
    /\ UNCHANGED <<auth, cancelled, active, flow, request, verdict, provisions>>

AllDomainsAtOnce ==
    /\ task.pc = "next"
    /\ IF task.at = NumDomains
       THEN Goto("decide")
       ELSE task' = [task EXCEPT !.pc = "visit", !.at = @ + 1]
    /\ UNCHANGED <<auth, cancelled, active, flow, request, verdict, provisions>>

\* An open question ends the loop over the domains.
NextDomain ==
    /\ task.pc = "next"
    /\ IF Pending # {} \/ task.at = NumDomains
       THEN Goto("decide")
       ELSE task' = [task EXCEPT !.pc = "visit", !.at = @ + 1]
    /\ UNCHANGED <<auth, cancelled, active, flow, request, verdict, provisions>>

\* Mutants: a denial is not looked at; an open question is not.
DecideOverDenial ==
    /\ task.pc = "decide"
    /\ IF ~task.asking
       THEN ContinueWorkflows(TRUE)
       ELSE IF Pending # {}
       THEN task' = Idle
       ELSE Goto("approve")
    /\ UNCHANGED <<auth, cancelled, active, flow, request, verdict, provisions>>

DecideUnanswered ==
    /\ task.pc = "decide"
    /\ IF ~task.asking
       THEN ContinueWorkflows(TRUE) /\ UNCHANGED flow
       ELSE IF auth = "WAITING"
       THEN Goto("approve") /\ UNCHANGED flow
       ELSE /\ flow' = NoFlows
            /\ task' = Idle
    /\ UNCHANGED <<auth, cancelled, active, request, verdict, provisions>>

\* Behind the loop: ask, wait for an answer, or look at the circuit.
Decide ==
    /\ task.pc = "decide"
    /\ IF ~task.asking
       THEN ContinueWorkflows(TRUE) /\ UNCHANGED flow
       ELSE IF Pending # {}
       THEN task' = Idle /\ UNCHANGED flow
       ELSE IF auth = "WAITING"
       THEN Goto("approve") /\ UNCHANGED flow
       ELSE /\ flow' = NoFlows
            /\ task' = Idle
    /\ UNCHANGED <<auth, cancelled, active, request, verdict, provisions>>

\* The circuit is saved, provisioned unless its user cancelled it, and its flows
\* are removed.
Approve ==
    /\ task.pc = "approve"
    /\ auth' = "AUTHORIZED"
    /\ provisions' = IF cancelled THEN provisions ELSE provisions + 1
    /\ flow' = NoFlows
    /\ task' = Idle
    /\ UNCHANGED <<cancelled, active, request, verdict>>

-----------------------------------------------------------------------------
(***************************************************************************)
(* BpmFlow::execute, called until it returns false.                        *)
(***************************************************************************)

Running == task.pc \in {"run", "respond"}

\* Mutant: after an answer the other domains are not visited.
AnswerGoesNoFurther ==
    IF task.pc = "respond" THEN task' = Idle ELSE Goto("next")

\* The loop ends.  After an answer all domains are visited again.
LoopEnds ==
    IF task.pc = "respond" THEN ContinueWorkflows(TRUE) ELSE Goto("next")

At(kinds) ==
    LET f == flow[task.at]
    IN  Running /\ f # NoFlow /\ Kind[f.node] \in kinds

\* nextNodes
MoveOn(d, status) ==
    LET n == flow[d].node
    IN  flow' = [flow EXCEPT ![d] = Arrive(IF status = "YES" THEN Yes[n] ELSE No[n])]

\* A filter tests the circuit; an answered request has its answer already.
Filter ==
    /\ At({"filter"})
    /\ \E status \in {"YES", "NO"} : MoveOn(task.at, status)
    /\ UNCHANGED <<auth, cancelled, active, request, verdict, provisions, task>>

Answered ==
    LET d == task.at IN
    /\ At({"user", "group"})
    /\ flow[d].status \in {"YES", "NO"}
    /\ MoveOn(d, flow[d].status)
    /\ UNCHANGED <<auth, cancelled, active, request, verdict, provisions, task>>

NotAskedYet ==
    /\ At({"user", "group"})
    /\ flow[task.at].status = "WAITING"
    /\ LoopEnds
    /\ UNCHANGED <<auth, cancelled, active, flow, request, verdict, provisions>>

\* Mutant: the answer of the requester is not saved.
AskForgetsRequester ==
    LET d == task.at
        m == Manager[flow[d].node]
    IN
    /\ At({"user", "group"})
    /\ flow[d].status = "READY"
    /\ IF request[<<d, m>>] # "none" \/ (Kind[flow[d].node] = "user" /\ m = Requester)
       THEN UNCHANGED <<request, task>>
       ELSE request' = [request EXCEPT ![<<d, m>>] = "WAITING"] /\ LoopEnds
    /\ UNCHANGED <<auth, cancelled, active, flow, verdict, provisions>>

\* createUserAuth and createGroupAuth: a manager who was asked already is not
\* asked again, but the flow stays where it is and execute is called again.
Ask ==
    LET d == task.at
        m == Manager[flow[d].node]
    IN
    /\ At({"user", "group"})
    /\ flow[d].status = "READY"
    /\ \/ /\ request[<<d, m>>] # "none"
          /\ UNCHANGED <<flow, request, task>>
       \/ /\ request[<<d, m>>] = "none"
          /\ Kind[flow[d].node] = "user" /\ m = Requester
          /\ flow' = [flow EXCEPT ![d].status = "YES"]
          /\ UNCHANGED <<request, task>>
       \/ /\ request[<<d, m>>] = "none"
          /\ ~(Kind[flow[d].node] = "user" /\ m = Requester)
          /\ request' = [request EXCEPT ![<<d, m>>] = "WAITING"]
          /\ LoopEnds
          /\ UNCHANGED flow
    /\ UNCHANGED <<auth, cancelled, active, verdict, provisions>>

\* removeFlow
Accept ==
    LET d == task.at IN
    /\ At({"accept"})
    /\ flow' = [flow EXCEPT ![d] = NoFlow]
    /\ verdict' = [verdict EXCEPT ![d] = @ \union {"AUTHORIZED"}]
    /\ LoopEnds
    /\ UNCHANGED <<auth, cancelled, active, request, provisions>>

\* Mutant: the flows of the other domains stay.
DenyOwnFlow ==
    LET d == task.at IN
    /\ At({"deny"})
    /\ flow' = [flow EXCEPT ![d] = NoFlow]
    /\ verdict' = [verdict EXCEPT ![d] = @ \union {"DENIED"}]
    /\ auth' = "DENIED"
    /\ LoopEnds
    /\ UNCHANGED <<cancelled, active, request, provisions>>

Deny ==
    LET d == task.at IN
    /\ At({"deny"})
    /\ flow' = NoFlows
    /\ verdict' = [verdict EXCEPT ![d] = @ \union {"DENIED"}]
    /\ auth' = "DENIED"
    /\ LoopEnds
    /\ UNCHANGED <<cancelled, active, request, provisions>>

\* Without a row, execute returns false; a loop that is run has one, as long as
\* requests do not overlap.
Execute ==
    \/ Filter \/ Answered \/ NotAskedYet
    \/ Ask \/ Accept \/ Deny

-----------------------------------------------------------------------------
(***************************************************************************)
(* Requests of managers, users and administrators.                         *)
(***************************************************************************)

\* actionAccept and actionReject.  The page asks whether the request was
\* answered when the button is pressed, and sends the answer, perhaps twice,
\* after a dialog; the server does not ask again.  BpmFlow::response puts the
\* answer into the flow of the domain, wherever that flow is by now.
Answer(r, answer) ==
    LET d == r[1] IN
    /\ task.pc = "idle"
    /\ request[r] \in (IF LateAnswers THEN RequestStatuses \ {"none"} ELSE {"WAITING"})
    /\ request' = [request EXCEPT ![r] = answer]
    /\ IF flow[d] = NoFlow
       THEN UNCHANGED <<flow, task>>
       ELSE /\ flow' = [flow EXCEPT ![d].status =
                            IF answer = "AUTHORIZED" THEN "YES" ELSE "NO"]
            /\ task' = [Idle EXCEPT !.pc = "respond", !.at = d]
    /\ UNCHANGED <<auth, cancelled, active, verdict, provisions>>

\* requestCancel; cancelConnAuthRequest expires one open question.
Cancel ==
    /\ task.pc = "idle"
    /\ cancelled' = TRUE
    /\ \/ /\ Pending = {}
          /\ UNCHANGED <<auth, flow, request>>
       \/ \E r \in Pending :
              /\ request' = [request EXCEPT ![r] = "EXPIRED"]
              /\ flow' = NoFlows
              /\ auth' = "EXPIRED"
    /\ UNCHANGED <<active, verdict, provisions, task>>

\* actionAnswer, after the circuit should have started.
Expire ==
    /\ task.pc = "idle" /\ Pending # {}
    /\ request' = [r \in DOMAIN request |->
                      IF r \in Pending THEN "EXPIRED" ELSE request[r]]
    /\ flow' = NoFlows
    /\ auth' = "EXPIRED"
    /\ UNCHANGED <<cancelled, active, verdict, provisions, task>>

\* BpmWorkflow::disable: the circuits that use the workflow start again in
\* that domain, under its default policy.
Disable(d) ==
    /\ MayDisable
    /\ task.pc = "idle" /\ d \in active
    /\ active' = active \ {d}
    /\ IF flow[d] = NoFlow
       THEN UNCHANGED <<auth, flow, request, verdict, task>>
       ELSE /\ request' = [r \in DOMAIN request |->
                              IF r[1] = d THEN "none" ELSE request[r]]
            /\ StartFlow(d, [flow EXCEPT ![d] = NoFlow],
                            [verdict EXCEPT ![d] = {}], active')
            /\ ContinueWorkflows(TRUE)
    /\ UNCHANGED <<cancelled, provisions>>

\* What serves a request to its end.
Work ==
    \/ StartNext \/ Visit \/ NextDomain \/ Decide \/ Approve
    \/ Execute

Next ==
    \/ RequestAuthorization
    \/ Work
    \/ \E r \in Domains \X Managers, answer \in Answers : Answer(r, answer)
    \/ \E d \in Domains : Disable(d)
    \/ Cancel
    \/ Expire

Spec == Init /\ [][Next]_vars

\* A request that is served runs to its end.
FairSpec == Spec /\ WF_vars(Work)

-----------------------------------------------------------------------------
(***************************************************************************)
(* Properties.                                                             *)
(***************************************************************************)

\* A circuit is authorized only when every domain of its path gave a verdict
\* in its favour and none against it.
AuthorizedByAll ==
    auth = "AUTHORIZED" => \A d \in Known : verdict[d] = {"AUTHORIZED"}

\* The managers are asked one at a time.
OneQuestion == Cardinality(Pending) <= 1

\* A circuit that waits while no request is served waits for a manager whose
\* answer its flow will take: it never waits for nobody.
WaitingIsAsked ==
    task.pc = "idle" /\ auth = "WAITING" =>
        \E r \in Pending :
            flow[r[1]].node \in Requests /\ Manager[flow[r[1]].node] = r[2]

\* Once the circuit is decided, no flow of it is left behind.
DecidedLeavesNoFlow ==
    task.pc = "idle" /\ auth \in {"AUTHORIZED", "DENIED", "EXPIRED"} => flow = NoFlows

\* Only the manager a flow waits for makes it go on: its answer is in the
\* flow only if it is in the row of that manager too, or if the manager is
\* the requester.
OnlyTheAskedAnswers ==
    \A d \in Domains :
        flow[d].status \in {"YES", "NO"} =>
            LET n == flow[d].node
                said == IF n \in Requests THEN request[<<d, Manager[n]>>] ELSE "nobody"
            IN  \/ flow[d].status = "YES" /\ said = "AUTHORIZED"
                \/ flow[d].status = "NO" /\ said = "DENIED"
                \/ flow[d].status = "YES" /\ said = "none"
                       /\ Kind[n] = "user" /\ Manager[n] = Requester

\* The provider is asked once to provision the circuit, when it is authorized.
ProvisionedOnce ==
    [][provisions' # provisions =>
           provisions = 0 /\ auth = "WAITING" /\ auth' = "AUTHORIZED"]_vars

\* The authorization keeps what it promises: the verdicts of the domains come
\* first, one decision follows from them, and it is never taken back.
Promise == INSTANCE AuthPromise WITH Voters <- Known
PromiseKept == Promise!Spec

\* The comment in createGroupAuth and createUserAuth: a manager who answered
\* the same request is not asked again.  The flow goes on without.
AnsweredIsTakenOver ==
    \A d \in Domains :
        LET asksAgain == /\ flow[d].node \in Requests /\ flow[d].status = "READY"
                         /\ request[<<d, Manager[flow[d].node]>>] \in Answers
        IN  asksAgain ~> ~asksAgain

\* Every request that is served comes to its end.
RequestsEnd == task.pc # "idle" ~> task.pc = "idle"
=============================================================================
