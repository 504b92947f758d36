---------------------------- MODULE AuthOverlap ----------------------------
(***************************************************************************)
(* The authorization of one circuit, statement by statement.  Every query  *)
(* and every save of a web request about the circuit is a step of its own, *)
(* and several requests are served at the same time, by workers: each one  *)
(* holds copies of rows that the others change and delete meanwhile, and   *)
(* may be killed between any two statements.                               *)
(*                                                                         *)
(* Module AuthWorkflow tells the same with larger steps, for requests that *)
(* are served one after the other; as long as they are, this module        *)
(* implements that one.                                                    *)
(***************************************************************************)
EXTENDS Naturals, FiniteSets

CONSTANTS
    NumDomains, Known, Nodes, Kind, Yes, No, Manager, Start, Policy, Requester,
                  \* as in AuthWorkflow
    Workers,      \* the processes that serve requests
    Ids,          \* the keys of rows
    MaxRequests   \* bound: requests that begin, and that are killed

Domains == 1..NumDomains
Requests == {n \in Nodes : Kind[n] \in {"user", "group"}}
Managers == {Manager[n] : n \in Requests}

ASSUME OverlapAssumption ==
    /\ NumDomains \in Nat \ {0}
    /\ Known \subseteq Domains
    /\ Kind \in [Nodes -> {"filter", "user", "group", "accept", "deny"}]
    /\ {Yes, No} \subseteq [Nodes -> Nodes]
    /\ Start \in [Domains -> Nodes]
    /\ Policy \in [Domains -> {"ACCEPT_ALL", "REJECT_ALL"}]

VARIABLES
    auth, cancelled, active, verdict, provisions,   \* as in AuthWorkflow
    flow,        \* the rows of meican_bpm_flow_control
    request,     \* the rows of meican_connection_auth that ask a manager
    task,        \* what each worker is doing
    served,      \* how many requests have begun, and were killed
    said,        \* the answers that managers of each domain ever sent
    disturbed    \* whether a request ever overlapped another or was killed

tables == <<auth, cancelled, active, flow, request, verdict, provisions>>
history == <<served, said, disturbed>>
vars == <<auth, cancelled, active, flow, request, verdict, provisions, task,
          served, said, disturbed>>

-----------------------------------------------------------------------------

Answers == {"AUTHORIZED", "DENIED"}

\* What a worker remembers: the statement that comes next; domain and mode of
\* the loop in continueWorkflows; where to go on behind a call; a status that
\* it read or will write; whether it found the circuit cancelled; and copies of
\* rows: those to go through, the one at hand, those of a disabled workflow
\* that are left, and questions.
Idle == [pc |-> "idle", at |-> 0, asking |-> FALSE, back |-> "end", value |-> "none",
         sawCancel |-> FALSE, todo |-> {}, copy |-> {}, left |-> {}, asked |-> {}]

Init ==
    /\ auth = "UNEXECUTED"
    /\ cancelled = FALSE
    /\ active \in SUBSET Known
    /\ flow = {}
    /\ request = {}
    /\ verdict = [d \in Domains |-> {}]
    /\ provisions = 0
    /\ task = [w \in Workers |-> Idle]
    /\ served = 0
    /\ said = {}
    /\ disturbed = FALSE

FlowsOf(d) == {f \in flow : f.domain = d}
Pending == {q \in request : q.status = "WAITING"}

\* A new row takes a key that no row and no copy of one has.
FreeFlowIds ==
    Ids \ ({f.id : f \in flow} \union
           UNION {{f.id : f \in t.todo \union t.copy \union t.left} : t \in {task[w] : w \in Workers}})
FreeRequestIds ==
    Ids \ ({q.id : q \in request} \union
           UNION {{q.id : q \in t.asked} : t \in {task[w] : w \in Workers}})

Arrive(i, d, n) ==
    [id |-> i, domain |-> d, node |-> n,
     status |-> IF n \in Requests THEN "WAITING" ELSE "READY"]

\* A save writes what differs from the copy, into the row if it is still there.
Saved(rows, copy, status) ==
    IF copy.status = status
    THEN rows
    ELSE {IF r.id = copy.id THEN [r EXCEPT !.status = status] ELSE r : r \in rows}
Deleted(rows, copy) == {r \in rows : r.id # copy.id}
SaveAuth(w, status) == auth' = IF task[w].value = status THEN auth ELSE status

At(w, pc) == task[w].pc = pc
Put(w, t) == task' = [task EXCEPT ![w] = t]
Goto(w, pc) == Put(w, [task[w] EXCEPT !.pc = pc, !.copy = {}])

\* Calls of continueWorkflows, the end of a request or of its turn for one row,
\* and the way back from startFlow and from the loop around execute.
Continue(w, asking) ==
    Put(w, [Idle EXCEPT !.pc = "visit", !.at = 1, !.asking = asking, !.left = task[w].left])
End(w) ==
    Put(w, IF task[w].left = {} THEN Idle
           ELSE [Idle EXCEPT !.pc = "redo", !.left = task[w].left])
Return(w) ==
    IF task[w].back = "continue"
    THEN Continue(w, TRUE)
    ELSE Put(w, [task[w] EXCEPT !.pc = task[w].back, !.value = "none",
                                !.todo = {}, !.copy = {}])

OnlyReads == UNCHANGED tables
OnlyAuth == UNCHANGED <<cancelled, active, flow, request, verdict, provisions>>
OnlyFlow == UNCHANGED <<auth, cancelled, active, request, verdict, provisions>>
OnlyRequest == UNCHANGED <<auth, cancelled, active, flow, verdict, provisions>>
OnlyVerdict == UNCHANGED <<auth, cancelled, active, flow, request, provisions>>

-----------------------------------------------------------------------------
(***************************************************************************)
(* A request comes in.                                                     *)
(***************************************************************************)

Begin(w, t) ==
    /\ At(w, "idle") /\ served < MaxRequests
    /\ served' = served + 1
    /\ disturbed' = (disturbed \/ \E v \in Workers : ~At(v, "idle"))
    /\ Put(w, t)

\* confirmRead
RequestAuthorization(w) ==
    /\ auth = "UNEXECUTED"
    /\ Begin(w, [Idle EXCEPT !.pc = "begin"])
    /\ OnlyReads /\ UNCHANGED said

\* actionAccept and actionReject, at any time.
Answer(w, q, answer) ==
    /\ Begin(w, [Idle EXCEPT !.pc = "reply", !.at = q.domain, !.asked = {q},
                             !.value = answer])
    /\ said' = said \union {<<q.domain, answer>>}
    /\ OnlyReads

\* requestCancel
Cancel(w) ==
    /\ Begin(w, [Idle EXCEPT !.pc = "cancel", !.sawCancel = cancelled])
    /\ cancelled' = TRUE
    /\ UNCHANGED <<auth, active, flow, request, verdict, provisions, said>>

\* actionAnswer, after the circuit should have started.
Expire(w) ==
    /\ Begin(w, [Idle EXCEPT !.pc = "late", !.value = auth])
    /\ OnlyReads /\ UNCHANGED said

\* BpmWorkflow::disable
Disable(w, d) ==
    /\ d \in active
    /\ Begin(w, [Idle EXCEPT !.pc = "disabled", !.at = d])
    /\ active' = active \ {d}
    /\ UNCHANGED <<auth, cancelled, flow, request, verdict, provisions, said>>

\* PHP ends a request wherever it is.
Abort(w) ==
    /\ ~At(w, "idle") /\ served < MaxRequests
    /\ served' = served + 1
    /\ Put(w, Idle)
    /\ disturbed' = TRUE
    /\ OnlyReads /\ UNCHANGED said

-----------------------------------------------------------------------------
(***************************************************************************)
(* Connection::executeWorkflows and BpmFlow::startFlow.                    *)
(***************************************************************************)

BeginRead(w) ==
    /\ At(w, "begin")
    /\ Put(w, [task[w] EXCEPT !.pc = "begin_save", !.value = auth])
    /\ OnlyReads

BeginSave(w) ==
    /\ At(w, "begin_save")
    /\ SaveAuth(w, "WAITING")
    /\ Put(w, [Idle EXCEPT !.pc = "start", !.at = 1, !.back = "started"])
    /\ OnlyAuth

StartFlow(w) ==
    LET d == task[w].at IN
    /\ At(w, "start")
    /\ Goto(w, IF d \notin Known THEN "started"
               ELSE IF d \in active THEN "insert_first"
               ELSE IF Policy[d] = "ACCEPT_ALL" THEN "tell_yes" ELSE "deny_all")
    /\ OnlyReads

InsertFirst(w) ==
    LET d == task[w].at IN
    /\ At(w, "insert_first")
    /\ \E i \in FreeFlowIds : flow' = flow \union {Arrive(i, d, Start[d])}
    /\ Return(w)
    /\ OnlyFlow

\* Mutant: the domains behind a denial are started, too.
StartedAfterDenial(w) ==
    /\ At(w, "started")
    /\ IF task[w].at = NumDomains
       THEN Continue(w, FALSE)
       ELSE Put(w, [task[w] EXCEPT !.pc = "start", !.at = @ + 1])
    /\ OnlyReads

\* The next domain, unless the circuit waits no more.
Started(w) ==
    /\ At(w, "started")
    /\ IF auth # "WAITING" \/ task[w].at = NumDomains
       THEN Continue(w, FALSE)
       ELSE Put(w, [task[w] EXCEPT !.pc = "start", !.at = @ + 1])
    /\ OnlyReads

\* The row that tells the verdict for the circuit.
TellYes(w) ==
    /\ At(w, "tell_yes")
    /\ verdict' = [verdict EXCEPT ![task[w].at] = @ \union {"AUTHORIZED"}]
    /\ Return(w)
    /\ OnlyVerdict

\* A denial: all flows are deleted, the circuit is saved, the verdict is told.
DenyAll(w) ==
    /\ At(w, "deny_all")
    /\ flow' = {}
    /\ Goto(w, "deny_read")
    /\ OnlyFlow

DenyRead(w) ==
    /\ At(w, "deny_read")
    /\ Put(w, [task[w] EXCEPT !.pc = "deny_save", !.value = auth])
    /\ OnlyReads

DenySave(w) ==
    /\ At(w, "deny_save")
    /\ SaveAuth(w, "DENIED")
    /\ Goto(w, "deny_tell")
    /\ OnlyAuth

DenyTell(w) ==
    /\ At(w, "deny_tell")
    /\ verdict' = [verdict EXCEPT ![task[w].at] = @ \union {"DENIED"}]
    /\ Return(w)
    /\ OnlyVerdict

-----------------------------------------------------------------------------
(***************************************************************************)
(* Connection::continueWorkflows and BpmFlow::doRequest.                   *)
(***************************************************************************)

Visit(w) ==
    /\ At(w, "visit")
    /\ Goto(w, IF auth = "DENIED" THEN "decide"
               ELSE IF task[w].at \in Known THEN "count" ELSE "next")
    /\ OnlyReads

CountFlows(w) ==
    /\ At(w, "count")
    /\ Goto(w, IF FlowsOf(task[w].at) = {} THEN "next" ELSE "find")
    /\ OnlyReads

\* Without a row to set the status of, the request ends with an error.
FindFlow(w) ==
    LET run == [task[w] EXCEPT !.pc = "execute", !.back = "next"] IN
    /\ At(w, "find")
    /\ \/ /\ ~task[w].asking
          /\ Put(w, run)
       \/ /\ task[w].asking
          /\ \E f \in FlowsOf(task[w].at) :
                Put(w, [run EXCEPT !.pc = "mark", !.copy = {f}])
       \/ /\ task[w].asking /\ FlowsOf(task[w].at) = {}
          /\ Put(w, Idle)
    /\ OnlyReads

Mark(w) ==
    /\ At(w, "mark")
    /\ \E f \in task[w].copy : flow' = Saved(flow, f, "READY")
    /\ Goto(w, "execute")
    /\ OnlyFlow

NextDomain(w) ==
    /\ At(w, "next")
    /\ IF Pending # {} \/ task[w].at = NumDomains
       THEN Goto(w, "decide")
       ELSE Put(w, [task[w] EXCEPT !.pc = "visit", !.at = @ + 1])
    /\ OnlyReads

Decide(w) ==
    /\ At(w, "decide")
    /\ IF ~task[w].asking THEN Continue(w, TRUE)
       ELSE IF Pending # {} THEN End(w)
       ELSE Goto(w, "read_circuit")
    /\ OnlyReads

ReadCircuit(w) ==
    /\ At(w, "read_circuit")
    /\ IF auth = "WAITING"
       THEN Put(w, [task[w] EXCEPT !.pc = "approve", !.sawCancel = cancelled])
       ELSE Put(w, [task[w] EXCEPT !.pc = "remove", !.back = "end"])
    /\ OnlyReads

Approve(w) ==
    /\ At(w, "approve")
    /\ auth' = "AUTHORIZED"
    /\ Put(w, [task[w] EXCEPT !.pc = IF task[w].sawCancel THEN "remove" ELSE "provision",
                              !.back = "end"])
    /\ OnlyAuth

Provision(w) ==
    /\ At(w, "provision")
    /\ provisions' = provisions + 1
    /\ Goto(w, "remove")
    /\ UNCHANGED <<auth, cancelled, active, flow, request, verdict>>

\* BpmFlow::removeFlows
RemoveFlows(w) ==
    /\ At(w, "remove")
    /\ Put(w, [task[w] EXCEPT !.pc = "removing", !.todo = flow])
    /\ OnlyReads

RemoveNext(w) ==
    /\ At(w, "removing")
    /\ \/ /\ task[w].todo = {}
          /\ IF task[w].back = "end" THEN End(w) ELSE Goto(w, task[w].back)
          /\ UNCHANGED flow
       \/ \E f \in task[w].todo :
             /\ flow' = Deleted(flow, f)
             /\ Put(w, [task[w] EXCEPT !.todo = @ \ {f}])
    /\ OnlyFlow

-----------------------------------------------------------------------------
(***************************************************************************)
(* BpmFlow::execute, called until it returns false.                        *)
(***************************************************************************)

Execute(w) ==
    LET rows == FlowsOf(task[w].at) IN
    /\ At(w, "execute")
    /\ IF rows = {}
       THEN Return(w)
       ELSE Put(w, [task[w] EXCEPT !.pc = "foreach", !.todo = rows])
    /\ OnlyReads

\* The copy of one row after the other: what it does depends on its node.
NextFlow(w) ==
    /\ At(w, "foreach")
    /\ \/ task[w].todo = {} /\ Goto(w, "execute")
       \/ \E f \in task[w].todo :
             LET do(pc, copy) ==
                     Put(w, [task[w] EXCEPT !.pc = pc, !.todo = @ \ {f}, !.copy = {copy}])
             IN
             \/ /\ Kind[f.node] = "filter" /\ f.status = "READY"
                /\ \E status \in {"YES", "NO"} : do("insert", [f EXCEPT !.status = status])
             \/ Kind[f.node] = "filter" /\ f.status # "READY" /\ do("insert", f)
             \/ f.node \in Requests /\ f.status = "WAITING" /\ Return(w)
             \/ f.node \in Requests /\ f.status = "READY" /\ do("ask", f)
             \/ f.node \in Requests /\ f.status \in {"YES", "NO"} /\ do("insert", f)
             \/ Kind[f.node] \in {"accept", "deny"} /\ do(Kind[f.node], f)
    /\ OnlyReads

\* Mutant: the new row keeps the status of the old one.
InsertSameStatus(w) ==
    /\ At(w, "insert")
    /\ \E f \in task[w].copy, i \in FreeFlowIds :
          flow' = flow \union
              {[f EXCEPT !.id = i, !.node = IF f.status = "YES" THEN Yes[@] ELSE No[@]]}
    /\ Put(w, [task[w] EXCEPT !.pc = "delete"])
    /\ OnlyFlow

\* nextNodes
InsertNext(w) ==
    /\ At(w, "insert")
    /\ \E f \in task[w].copy, i \in FreeFlowIds :
          flow' = flow \union
              {Arrive(i, f.domain, IF f.status = "YES" THEN Yes[f.node] ELSE No[f.node])}
    /\ Put(w, [task[w] EXCEPT !.pc = "delete"])
    /\ OnlyFlow

DeleteOld(w) ==
    /\ At(w, "delete")
    /\ \E f \in task[w].copy : flow' = Deleted(flow, f)
    /\ Goto(w, "foreach")
    /\ OnlyFlow

\* createUserAuth and createGroupAuth
FindQuestion(w) ==
    /\ At(w, "ask")
    /\ \E f \in task[w].copy :
          LET m == Manager[f.node]
              run(pc) == Put(w, [task[w] EXCEPT !.pc = pc, !.todo = {},
                                 !.copy = IF pc = "execute" THEN {} ELSE {f}])
          IN  IF \E q \in request : q.domain = f.domain /\ q.manager = m
              THEN run("execute")
              ELSE IF Kind[f.node] = "user" /\ m = Requester
              THEN run("say_yes")
              ELSE run("question")
    /\ OnlyReads

SayYes(w) ==
    /\ At(w, "say_yes")
    /\ \E f \in task[w].copy : flow' = Saved(flow, f, "YES")
    /\ Goto(w, "execute")
    /\ OnlyFlow

InsertQuestion(w) ==
    /\ At(w, "question")
    /\ \E f \in task[w].copy, i \in FreeRequestIds :
          request' = request \union
              {[id |-> i, domain |-> f.domain, manager |-> Manager[f.node], status |-> "WAITING"]}
    /\ Return(w)
    /\ OnlyRequest

\* removeFlow
Accept(w) ==
    /\ At(w, "accept")
    /\ \E f \in task[w].copy : flow' = Deleted(flow, f)
    /\ Goto(w, "tell_yes")
    /\ OnlyFlow

Deny(w) ==
    /\ At(w, "deny")
    /\ \E f \in task[w].copy : flow' = Deleted(flow, f)
    /\ Goto(w, "deny_count")
    /\ OnlyFlow

\* Another row of the domain may still accept.
CountDenied(w) ==
    /\ At(w, "deny_count")
    /\ IF FlowsOf(task[w].at) = {} THEN Goto(w, "deny_all") ELSE Return(w)
    /\ OnlyReads

-----------------------------------------------------------------------------
(***************************************************************************)
(* The other requests.                                                     *)
(***************************************************************************)

\* actionAccept and actionReject, and BpmFlow::response.
SaveAnswer(w) ==
    /\ At(w, "reply")
    /\ \E q \in task[w].asked : request' = Saved(request, q, task[w].value)
    /\ Put(w, [task[w] EXCEPT !.pc = "respond", !.asked = {}])
    /\ OnlyRequest

Respond(w) ==
    /\ At(w, "respond")
    /\ \/ FlowsOf(task[w].at) = {} /\ End(w)
       \/ \E f \in FlowsOf(task[w].at) :
             Put(w, [task[w] EXCEPT !.pc = "respond_save", !.copy = {f}])
    /\ OnlyReads

RespondSave(w) ==
    LET status == IF task[w].value = "AUTHORIZED" THEN "YES" ELSE "NO" IN
    /\ At(w, "respond_save")
    /\ \E f \in task[w].copy : flow' = Saved(flow, f, status)
    /\ Put(w, [task[w] EXCEPT !.pc = "execute", !.back = "continue",
                              !.value = "none", !.copy = {}])
    /\ OnlyFlow

\* cancelConnAuthRequest looks for one open question, actionAnswer for all.
FindPending(w) ==
    /\ At(w, "cancel")
    /\ \/ Pending = {} /\ End(w)
       \/ \E q \in Pending :
             Put(w, [Idle EXCEPT !.pc = "expire", !.asked = {q}, !.back = "expire_read"])
    /\ OnlyReads

ReadPending(w) ==
    /\ At(w, "late")
    /\ IF Pending = {}
       THEN End(w)
       ELSE Put(w, [task[w] EXCEPT !.pc = "expire", !.asked = Pending, !.back = "expire_save"])
    /\ OnlyReads

\* changeStatusToExpired, which removes the flows
ExpireQuestion(w) ==
    /\ At(w, "expire")
    /\ \E q \in task[w].asked :
          /\ request' = Saved(request, q, "EXPIRED")
          /\ Put(w, [task[w] EXCEPT !.pc = "remove", !.asked = @ \ {q}])
    /\ OnlyRequest

ExpireRead(w) ==
    /\ At(w, "expire_read")
    /\ Put(w, [task[w] EXCEPT !.pc = "expire_save", !.value = auth])
    /\ OnlyReads

ExpireSave(w) ==
    /\ At(w, "expire_save")
    /\ SaveAuth(w, "EXPIRED")
    /\ IF task[w].asked = {}
       THEN End(w)
       ELSE Put(w, [task[w] EXCEPT !.pc = "expire", !.value = "EXPIRED"])
    /\ OnlyAuth

\* BpmWorkflow::disable: the rows of the workflow, one after the other.
ReadFlows(w) ==
    LET rows == FlowsOf(task[w].at) IN
    /\ At(w, "disabled")
    /\ IF rows = {} THEN End(w)
       ELSE Put(w, [task[w] EXCEPT !.pc = "redo", !.left = rows])
    /\ OnlyReads

DeleteFlow(w) ==
    /\ At(w, "redo")
    /\ \E f \in task[w].left :
          /\ flow' = Deleted(flow, f)
          /\ Put(w, [task[w] EXCEPT !.pc = "forget", !.at = f.domain, !.left = @ \ {f}])
    /\ OnlyFlow

ForgetAnswers(w) ==
    LET d == task[w].at IN
    /\ At(w, "forget")
    /\ request' = {q \in request : q.domain # d}
    /\ verdict' = [verdict EXCEPT ![d] = {}]
    /\ Put(w, [task[w] EXCEPT !.pc = "start", !.back = "continue"])
    /\ UNCHANGED <<auth, cancelled, active, flow, provisions>>

-----------------------------------------------------------------------------

Statement(w) ==
    /\ \/ BeginRead(w) \/ BeginSave(w) \/ StartFlow(w) \/ InsertFirst(w) \/ Started(w)
       \/ TellYes(w) \/ DenyAll(w) \/ DenyRead(w) \/ DenySave(w) \/ DenyTell(w)
       \/ Visit(w) \/ CountFlows(w) \/ FindFlow(w) \/ Mark(w) \/ NextDomain(w)
       \/ Decide(w) \/ ReadCircuit(w) \/ Approve(w) \/ Provision(w)
       \/ RemoveFlows(w) \/ RemoveNext(w) \/ Execute(w) \/ NextFlow(w)
       \/ InsertNext(w) \/ DeleteOld(w) \/ FindQuestion(w) \/ SayYes(w)
       \/ InsertQuestion(w) \/ Accept(w) \/ Deny(w) \/ CountDenied(w)
       \/ SaveAnswer(w) \/ Respond(w) \/ RespondSave(w)
       \/ FindPending(w) \/ ReadPending(w) \/ ExpireQuestion(w) \/ ExpireRead(w)
       \/ ExpireSave(w) \/ ReadFlows(w) \/ DeleteFlow(w) \/ ForgetAnswers(w)
    /\ UNCHANGED history

Next ==
    \E w \in Workers :
        \/ RequestAuthorization(w)
        \/ \E q \in request, answer \in Answers : Answer(w, q, answer)
        \/ Cancel(w)
        \/ Expire(w)
        \/ \E d \in Domains : Disable(w, d)
        \/ Abort(w)
        \/ Statement(w)

Spec == Init /\ [][Next]_vars

-----------------------------------------------------------------------------
(***************************************************************************)
(* Properties.                                                             *)
(***************************************************************************)

\* What follows a node when no manager gave this answer: both outputs of a
\* filter, and the other output of a node that asks.
Without(answer, n) ==
    IF n \notin Requests THEN {Yes[n], No[n]}
    ELSE IF answer = "DENIED" THEN {Yes[n]}
    ELSE IF Kind[n] = "user" /\ Manager[n] = Requester THEN {Yes[n], No[n]}
    ELSE {No[n]}

\* The verdicts that the workflow of a domain leaves to its managers: no path
\* from its first node reaches the verdict without such an answer.
LeftTo(answer, Q) ==
    /\ \A n \in Q : Without(answer, n) \subseteq Q
    /\ \A n \in Q : Kind[n] # IF answer = "AUTHORIZED" THEN "accept" ELSE "deny"
LeftToManagers(d, answer) ==
    \E Q \in SUBSET Nodes : Start[d] \in Q /\ LeftTo(answer, Q)

\* A workflow gives no verdict that nobody gave: what it leaves to its managers
\* one of them has said, however requests overlap, whatever they find changed
\* under their hands and wherever they are killed.
VerdictIsAnswered ==
    \A d \in active : \A answer \in verdict[d] :
        LeftToManagers(d, answer) => <<d, answer>> \in said

-----------------------------------------------------------------------------
(***************************************************************************)
(* What AuthWorkflow says of this.  A request that is served alone has     *)
(* done what a step of AuthWorkflow does as soon as nothing can keep it    *)
(* from that; the bars below are the tables as they will be then.          *)
(***************************************************************************)

Busy == {w \in Workers : task[w].pc # "idle"}
Current == IF Busy = {} THEN Idle ELSE task[CHOOSE w \in Busy : TRUE]
Is(pcs) == Current.pc \in pcs

Restarts ==
    \/ Is({"redo", "forget"})
    \/ Is({"start"}) /\ Current.back = "continue"
    \/ Is({"disabled"}) /\ FlowsOf(Current.at) # {}
Denies ==
    \/ Is({"deny_count", "deny_all", "deny_read", "deny_save", "deny_tell"})
    \/ Restarts /\ Policy[Current.at] = "REJECT_ALL"
Accepts == Is({"tell_yes"}) \/ (Restarts /\ ~Denies)
Expires ==
    \/ Is({"expire", "expire_read", "expire_save"})
    \/ Is({"remove", "removing"}) /\ Current.back # "end"
Closes == Denies \/ Expires \/ Is({"provision", "remove", "removing"})
Answering == Is({"respond", "respond_save"}) /\ FlowsOf(Current.at) # {}

AuthBar == IF Denies THEN "DENIED" ELSE IF Expires THEN "EXPIRED" ELSE auth
CancelledBar == IF Is({"cancel"}) THEN Current.sawCancel ELSE cancelled
ProvisionsBar == IF Is({"provision"}) THEN provisions + 1 ELSE provisions

VerdictBar ==
    [d \in Domains |->
        (IF Restarts /\ d = Current.at THEN {} ELSE verdict[d])
        \union (IF Accepts /\ d = Current.at THEN {"AUTHORIZED"} ELSE {})
        \union (IF Denies /\ d = Current.at THEN {"DENIED"} ELSE {})]

RequestBar ==
    [r \in Domains \X Managers |->
        LET rows == {q \in request : q.domain = r[1] /\ q.manager = r[2]}
        IN  IF rows = {} \/ (Restarts /\ r[1] = Current.at) THEN "none"
            ELSE IF Expires /\ rows \intersect Current.asked # {} THEN "EXPIRED"
            ELSE (CHOOSE q \in rows : TRUE).status]

\* The row that nextNodes is about to delete has been left already.
FlowBar ==
    [d \in Domains |->
        LET rows == {f \in FlowsOf(d) :
                        ~(Is({"delete"}) /\ f.id \in {c.id : c \in Current.copy})}
            f == CHOOSE f \in rows : TRUE
            row(n, s) == [node |-> n, status |-> s]
        IN  IF Closes \/ (Accepts /\ d = Current.at)
            THEN row("none", "none")
            ELSE IF Is({"insert_first"}) /\ d = Current.at
            THEN row(Start[d], Arrive(0, d, Start[d]).status)
            ELSE IF rows = {}
            THEN row("none", "none")
            ELSE IF Answering /\ d = Current.at
            THEN row(f.node, IF Current.value = "AUTHORIZED" THEN "YES" ELSE "NO")
            ELSE row(f.node, f.status)]

TaskBar ==
    LET at(pc, d) == [pc |-> pc, at |-> d, asking |-> Current.asking]
        again(asking) == [pc |-> "visit", at |-> 1, asking |-> asking]
        loop == IF Current.back = "next" THEN "run" ELSE "respond"
    IN  CASE Is({"visit", "count", "find", "mark"}) -> at("visit", Current.at)
          [] Is({"execute", "foreach", "insert", "delete", "ask", "say_yes", "question",
                 "accept", "deny"}) -> at(loop, Current.at)
          [] Answering -> at("respond", Current.at)
          [] Is({"next", "approve"}) -> at(Current.pc, Current.at)
          [] Is({"decide", "read_circuit"}) -> at("decide", Current.at)
          [] Restarts -> again(TRUE)
          [] Is({"start"}) /\ ~Restarts -> at("start", Current.at)
          [] Is({"insert_first", "tell_yes", "started"}) \/ (Denies /\ ~Restarts) ->
                IF Current.back = "next" THEN at("next", Current.at)
                ELSE IF Current.back = "continue" THEN again(TRUE)
                ELSE IF AuthBar = "WAITING" /\ Current.at < NumDomains
                THEN at("start", Current.at + 1)
                ELSE again(FALSE)
          [] OTHER -> [pc |-> "idle", at |-> 0, asking |-> FALSE]

Serial ==
    INSTANCE AuthWorkflow WITH
        LateAnswers <- TRUE, MayDisable <- TRUE,
        auth <- AuthBar, cancelled <- CancelledBar, flow <- FlowBar,
        request <- RequestBar, verdict <- VerdictBar, provisions <- ProvisionsBar,
        task <- TaskBar

\* As long as requests are served one after the other, each to its end, their
\* statements make the steps of AuthWorkflow.
SerialImplements ==
    Serial!Init /\ [][disturbed' \/ Serial!Next]_(Serial!vars)
=============================================================================
