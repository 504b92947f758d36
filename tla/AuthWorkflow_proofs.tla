------------------------ MODULE AuthWorkflow_proofs ------------------------
(***************************************************************************)
(* Proofs about module AuthWorkflow: its types, and that a circuit is      *)
(* authorized only by all its domains.                                     *)
(***************************************************************************)
EXTENDS AuthWorkflow, TLAPS

-----------------------------------------------------------------------------
(***************************************************************************)
(* Types.                                                                  *)
(***************************************************************************)

PCs == {"idle", "start", "respond", "visit", "run", "next", "decide", "approve"}

AtADomain ==
    task.pc \in {"start", "respond", "visit", "run", "next", "decide"} =>
        task.at \in Domains

TInv == TypeOK /\ AtADomain

\* What a row of a flow looks like, and one that has just arrived at a node.
LEMMA FlowRows ==
    /\ NoFlow \in Flows
    /\ \A f \in Flows \ {NoFlow} :
          /\ f.node \in Nodes
          /\ f.status \in {"WAITING", "READY", "YES", "NO"}
          /\ f = [node |-> f.node, status |-> f.status]
          /\ f.node \in Requests <=> Kind[f.node] \in {"user", "group"}
    /\ \A n \in Nodes :
          /\ Arrive(n) \in Flows
          /\ Arrive(n) # NoFlow
          /\ Arrive(n).node = n
          /\ n \in Requests => Arrive(n).status = "WAITING"
          /\ n \notin Requests => Arrive(n).status = "READY"
BY DEF NoFlow, Flows, Arrive, Requests

\* A row whose status is set stays at its node.
LEMMA SetStatus ==
    ASSUME NEW f \in Flows, f # NoFlow, NEW s \in {"WAITING", "READY", "YES", "NO"}
    PROVE  /\ [f EXCEPT !.status = s] \in Flows
           /\ [f EXCEPT !.status = s] # NoFlow
           /\ [f EXCEPT !.status = s].node = f.node
           /\ [f EXCEPT !.status = s].status = s
BY DEF Flows, NoFlow

LEMMA DomainTypes ==
    /\ NumDomains \in Nat \ {0}
    /\ 1 \in Domains
    /\ NumDomains \in Domains
    /\ \A d \in Domains : d \in 0..NumDomains
    /\ \A d \in Domains : d < NumDomains => d + 1 \in Domains
    /\ Known \subseteq Domains
    /\ NoFlows \in [Domains -> Flows]
    /\ \A d \in Domains : NoFlows[d] = NoFlow
    /\ \A n \in Requests : Manager[n] \in Managers /\ n \in Nodes
BY WorkflowAssumption DEF Domains, NoFlows, NoFlow, Flows, Managers, Requests

\* A request that goes on, starts over or ends.
LEMMA TaskSteps ==
    ASSUME TypeOK
    PROVE  /\ \A pc \in PCs : Goto(pc) =>
                 /\ task' \in Tasks
                 /\ task'.pc = pc
                 /\ task'.at = task.at
                 /\ task'.asking = task.asking
           /\ \A a \in BOOLEAN : ContinueWorkflows(a) =>
                 /\ task' \in Tasks
                 /\ task'.pc = "visit"
                 /\ task'.at = 1
                 /\ task'.asking = a
           /\ task' = Idle =>
                 /\ task' \in Tasks
                 /\ task'.pc = "idle"
           /\ task \in Tasks
<1>1. 1 \in 0..NumDomains /\ 0 \in 0..NumDomains
  BY DomainTypes
<1>2. task \in Tasks
  BY DEF TypeOK
<1>3. ASSUME NEW pc \in PCs, Goto(pc)
      PROVE  /\ task' \in Tasks
             /\ task'.pc = pc
             /\ task'.at = task.at
             /\ task'.asking = task.asking
  <2>1. task' = [task EXCEPT !.pc = pc]
    BY <1>3 DEF Goto
  <2>2. [task EXCEPT !.pc = pc] \in Tasks
    BY <1>2 DEF Tasks, PCs
  <2>3. /\ [task EXCEPT !.pc = pc].pc = pc
        /\ [task EXCEPT !.pc = pc].at = task.at
        /\ [task EXCEPT !.pc = pc].asking = task.asking
    BY <1>2 DEF Tasks
  <2>4. QED
    BY <1>2, <2>1, <2>2, <2>3
<1>4. ASSUME NEW a \in BOOLEAN, ContinueWorkflows(a)
      PROVE  /\ task' \in Tasks
             /\ task'.pc = "visit"
             /\ task'.at = 1
             /\ task'.asking = a
  BY <1>1, <1>2, <1>4 DEF ContinueWorkflows, Idle, Tasks
<1>5. ASSUME task' = Idle
      PROVE  /\ task' \in Tasks
             /\ task'.pc = "idle"
  BY <1>1, <1>2, <1>5 DEF Idle, Tasks
<1>6. QED
  BY <1>2, <1>3, <1>4, <1>5

\* Any end of a loop keeps the tasks well-formed.
LEMMA LoopEndTypes ==
    ASSUME TInv, Running, LoopEnds
    PROVE  /\ task' \in Tasks
           /\ AtADomain'
           /\ task.pc = "respond" =>
                 task'.pc = "visit" /\ task'.at = 1 /\ task'.asking = TRUE
           /\ task.pc = "run" =>
                 /\ task'.pc = "next"
                 /\ task'.at = task.at
                 /\ task'.asking = task.asking
<1>1. CASE task.pc = "respond"
  <2>1. ContinueWorkflows(TRUE)
    BY <1>1 DEF LoopEnds
  <2>2. QED
    BY <1>1, <2>1, TaskSteps, DomainTypes DEF TInv, AtADomain
<1>2. CASE task.pc = "run"
  <2>1. Goto("next")
    BY <1>2 DEF LoopEnds
  <2>2. QED
    BY <1>2, <2>1, TaskSteps, DomainTypes DEF TInv, AtADomain, PCs
<1>3. QED
  BY <1>1, <1>2 DEF Running

\* The flow that is run.
LEMMA RunningFlow ==
    ASSUME TInv, Running
    PROVE  /\ task.at \in Domains
           /\ flow[task.at] \in Flows
           /\ flow[task.at] # NoFlow =>
                 Yes[flow[task.at].node] \in Nodes /\ No[flow[task.at].node] \in Nodes
<1>1. task.at \in Domains
  BY DEF TInv, AtADomain, Running
<1>2. flow[task.at] \in Flows
  BY <1>1 DEF TInv, TypeOK
<1>3. Yes \in [Nodes -> Nodes] /\ No \in [Nodes -> Nodes]
  BY WorkflowAssumption
<1>4. QED
  BY <1>1, <1>2, <1>3, FlowRows

\* The first rows of a domain.
LEMMA StartFlowTypes ==
    ASSUME TypeOK, NEW d \in Domains, NEW flows \in [Domains -> Flows],
           NEW verdicts \in [Domains -> SUBSET Answers], NEW workflows,
           StartFlow(d, flows, verdicts, workflows)
    PROVE  /\ flow' \in [Domains -> Flows]
           /\ verdict' \in [Domains -> SUBSET Answers]
           /\ auth' \in AuthStatuses
<1>1. Arrive(Start[d]) \in Flows
  BY WorkflowAssumption, FlowRows
<1>2. auth \in AuthStatuses /\ "DENIED" \in AuthStatuses
  BY DEF TypeOK, AuthStatuses
<1>3. {"AUTHORIZED", "DENIED"} \subseteq Answers
  BY DEF Answers
<1>4. \A x \in {"AUTHORIZED", "DENIED"} :
          [verdicts EXCEPT ![d] = @ \union {x}] \in [Domains -> SUBSET Answers]
  BY <1>3
<1>5. QED
  BY <1>1, <1>2, <1>4, DomainTypes DEF StartFlow

LEMMA InitTypes == Init => TInv
<1> SUFFICES ASSUME Init PROVE TInv
  OBVIOUS
<1>1. Idle \in Tasks /\ Idle.pc = "idle"
  BY DomainTypes DEF Idle, Tasks
<1>2. task \in Tasks /\ AtADomain
  BY <1>1 DEF Init, AtADomain
<1>3. /\ flow \in [Domains -> Flows]
      /\ active \subseteq Domains
  BY DomainTypes DEF Init
<1>4. /\ request \in [Domains \X Managers -> RequestStatuses]
      /\ verdict \in [Domains -> SUBSET Answers]
  BY DEF Init, RequestStatuses
<1>5. QED
  BY <1>2, <1>3, <1>4 DEF Init, TInv, TypeOK, AuthStatuses

LEMMA RequestAuthorizationTypes ==
    ASSUME TInv, RequestAuthorization
    PROVE  TInv'
<1>1. [Idle EXCEPT !.pc = "start", !.at = 1] \in Tasks
  BY DomainTypes DEF Idle, Tasks
<1>2. [Idle EXCEPT !.pc = "start", !.at = 1].at \in Domains
  BY DomainTypes DEF Idle
<1>3. task' \in Tasks /\ AtADomain'
  BY <1>1, <1>2 DEF RequestAuthorization, TInv, TypeOK, AtADomain
<1>4. QED
  BY <1>3 DEF RequestAuthorization, TInv, TypeOK, AuthStatuses

LEMMA StartNextTypes ==
    ASSUME TInv, StartNext
    PROVE  TInv'
<1>1. task.at \in Domains /\ TypeOK /\ task \in Tasks
  BY TaskSteps DEF TInv, AtADomain, StartNext
<1>2. /\ flow' \in [Domains -> Flows]
      /\ verdict' \in [Domains -> SUBSET Answers]
      /\ auth' \in AuthStatuses
  <2>1. CASE task.at \in Known
    <3>1. StartFlow(task.at, flow, verdict, active)
      BY <2>1 DEF StartNext
    <3>2. QED
      BY <1>1, <3>1, StartFlowTypes DEF TypeOK
  <2>2. CASE task.at \notin Known
    BY <1>1, <2>2 DEF StartNext, TypeOK
  <2>3. QED
    BY <2>1, <2>2
<1>3. task' \in Tasks /\ AtADomain'
  <2>1. CASE auth' = "WAITING" /\ task.at < NumDomains
    <3>1. task' = [task EXCEPT !.at = task.at + 1]
      BY <2>1 DEF StartNext
    <3>2. task.at + 1 \in Domains
      BY <1>1, <2>1, DomainTypes
    <3>3. [task EXCEPT !.at = task.at + 1] \in Tasks
      BY <1>1, <3>2, DomainTypes DEF Tasks
    <3>4. [task EXCEPT !.at = task.at + 1].at = task.at + 1
      BY <1>1 DEF Tasks
    <3>5. QED
      BY <3>1, <3>2, <3>3, <3>4 DEF TInv, TypeOK, AtADomain
  <2>2. CASE ~(auth' = "WAITING" /\ task.at < NumDomains)
    <3>1. ContinueWorkflows(FALSE)
      BY <2>2 DEF StartNext
    <3>2. QED
      BY <1>1, <3>1, TaskSteps, DomainTypes DEF TInv, AtADomain
  <2>3. QED
    BY <2>1, <2>2
<1>4. QED
  BY <1>2, <1>3 DEF StartNext, TInv, TypeOK

LEMMA VisitTypes ==
    ASSUME TInv, Visit
    PROVE  TInv'
<1>1. task.at \in Domains /\ TypeOK
  BY DEF TInv, AtADomain, Visit
<1>2. flow' \in [Domains -> Flows]
  <2>1. CASE flow' = flow
    BY <1>1, <2>1 DEF TypeOK
  <2>2. CASE flow' # flow
    <3>1. /\ flow[task.at] # NoFlow
          /\ flow' = [flow EXCEPT ![task.at] = [flow[task.at] EXCEPT !.status = "READY"]]
      BY <2>2 DEF Visit
    <3>2. [flow[task.at] EXCEPT !.status = "READY"] \in Flows
      BY <1>1, <3>1, SetStatus DEF TypeOK
    <3>3. QED
      BY <1>1, <3>1, <3>2 DEF TypeOK
  <2>3. QED
    BY <2>1, <2>2
<1>3. task' \in Tasks /\ AtADomain'
  <2>1. PICK pc \in {"decide", "run", "next"} : Goto(pc)
    BY DEF Visit
  <2>2. QED
    BY <1>1, <2>1, TaskSteps DEF TInv, AtADomain, PCs
<1>4. QED
  BY <1>2, <1>3 DEF Visit, TInv, TypeOK

LEMMA NextDomainTypes ==
    ASSUME TInv, NextDomain
    PROVE  TInv'
<1>1. task.at \in Domains /\ TypeOK /\ task \in Tasks
  BY TaskSteps DEF TInv, AtADomain, NextDomain
<1>2. task' \in Tasks /\ AtADomain'
  <2>1. CASE Pending # {} \/ task.at = NumDomains
    <3>1. Goto("decide")
      BY <2>1 DEF NextDomain
    <3>2. QED
      BY <1>1, <3>1, TaskSteps DEF TInv, AtADomain, PCs
  <2>2. CASE ~(Pending # {} \/ task.at = NumDomains)
    <3>1. task' = [task EXCEPT !.pc = "visit", !.at = task.at + 1]
      BY <1>1, <2>2 DEF NextDomain, TypeOK
    <3>2. task.at + 1 \in Domains
      BY <1>1, <2>2, DomainTypes DEF Domains
    <3>3. [task EXCEPT !.pc = "visit", !.at = task.at + 1] \in Tasks
      BY <1>1, <3>2, DomainTypes DEF Tasks
    <3>4. [task EXCEPT !.pc = "visit", !.at = task.at + 1].at = task.at + 1
      BY <1>1 DEF Tasks
    <3>5. QED
      BY <3>1, <3>2, <3>3, <3>4 DEF TInv, TypeOK, AtADomain
  <2>3. QED
    BY <2>1, <2>2
<1>3. QED
  BY <1>2 DEF NextDomain, TInv, TypeOK

LEMMA DecideTypes ==
    ASSUME TInv, Decide
    PROVE  TInv'
<1>1. TypeOK /\ task \in Tasks /\ cancelled \in BOOLEAN
  BY TaskSteps DEF TInv, TypeOK
<1>2. flow' \in [Domains -> Flows]
  BY DomainTypes DEF Decide, TInv, TypeOK
<1>3. task' \in Tasks /\ AtADomain'
  <2>1. CASE ContinueWorkflows(TRUE)
    BY <1>1, <2>1, TaskSteps, DomainTypes DEF TInv, AtADomain
  <2>2. CASE task' = Idle
    BY <1>1, <2>2, TaskSteps DEF TInv, AtADomain
  <2>3. CASE Goto("approve")
    BY <1>1, <2>3, TaskSteps DEF TInv, AtADomain, PCs
  <2>4. QED
    BY <2>1, <2>2, <2>3 DEF Decide
<1>4. QED
  BY <1>2, <1>3 DEF Decide, TInv, TypeOK

LEMMA ApproveTypes ==
    ASSUME TInv, Approve
    PROVE  TInv'
<1>1. task' \in Tasks /\ AtADomain'
  BY TaskSteps DEF Approve, TInv, AtADomain
<1>2. QED
  BY <1>1, DomainTypes DEF Approve, TInv, TypeOK, AuthStatuses

\* A flow that moves on arrives at the next node.
LEMMA MoveOnFlow ==
    ASSUME TInv, Running, flow[task.at] # NoFlow,
           NEW status, MoveOn(task.at, status)
    PROVE  \E n \in Nodes :
              /\ n = IF status = "YES" THEN Yes[flow[task.at].node]
                                       ELSE No[flow[task.at].node]
              /\ flow' \in [Domains -> Flows]
              /\ flow'[task.at] = Arrive(n)
              /\ \A d \in Domains \ {task.at} : flow'[d] = flow[d]
<1> DEFINE n == IF status = "YES" THEN Yes[flow[task.at].node]
                                  ELSE No[flow[task.at].node]
<1>1. n \in Nodes /\ task.at \in Domains
  BY RunningFlow
<1>2. flow' = [flow EXCEPT ![task.at] = Arrive(n)]
  BY DEF MoveOn
<1>3. Arrive(n) \in Flows
  BY <1>1, FlowRows
<1> HIDE DEF n
<1>4. /\ flow' \in [Domains -> Flows]
      /\ flow'[task.at] = Arrive(n)
      /\ \A d \in Domains \ {task.at} : flow'[d] = flow[d]
  BY <1>1, <1>2, <1>3 DEF TInv, TypeOK
<1>5. QED
  BY <1>1, <1>4 DEF n

LEMMA ExecuteTypes ==
    ASSUME TInv, Execute
    PROVE  TInv'
<1> DEFINE d == task.at
<1>1. Running
  BY DEF Execute, Filter, Answered, NotAskedYet, Ask, Accept, Deny, At
<1>2. d \in Domains /\ flow[d] \in Flows /\ TypeOK
  BY <1>1, RunningFlow DEF TInv
<1>3. ASSUME LoopEnds
      PROVE  task' \in Tasks /\ AtADomain'
  BY <1>1, <1>3, LoopEndTypes
<1>4. ASSUME task' = task
      PROVE  task' \in Tasks /\ AtADomain'
  BY <1>2, <1>4 DEF TInv, TypeOK, AtADomain
<1>5. CASE NotAskedYet
  <2>1. LoopEnds
    BY <1>5 DEF NotAskedYet
  <2>2. QED
    BY <1>2, <1>3, <1>5, <2>1 DEF NotAskedYet, TInv, TypeOK
<1>6. CASE Filter \/ Answered
  <2>1. PICK status : MoveOn(d, status) /\ flow[d] # NoFlow
    BY <1>6 DEF Filter, Answered, At
  <2>2. flow' \in [Domains -> Flows]
    BY <1>1, <2>1, MoveOnFlow
  <2>3. QED
    BY <1>2, <1>4, <1>6, <2>2 DEF Filter, Answered, TInv, TypeOK
<1>7. CASE Ask
  <2>1. flow' \in [Domains -> Flows]
    <3>1. CASE flow' = flow
      BY <1>2, <3>1 DEF TypeOK
    <3>2. CASE flow' # flow
      <4>1. /\ flow' = [flow EXCEPT ![d] = [flow[d] EXCEPT !.status = "YES"]]
            /\ flow[d] # NoFlow
        BY <1>7, <3>2 DEF Ask, At
      <4>2. [flow[d] EXCEPT !.status = "YES"] \in Flows
        BY <1>2, <4>1, SetStatus
      <4>3. QED
        BY <1>2, <4>1, <4>2 DEF TypeOK
    <3>3. QED
      BY <3>1, <3>2
  <2>2. request' \in [Domains \X Managers -> RequestStatuses]
    <3>1. CASE request' = request
      BY <1>2, <3>1 DEF TypeOK
    <3>2. CASE request' # request
      <4>1. PICK r : request' = [request EXCEPT ![r] = "WAITING"]
        BY <1>7, <3>2 DEF Ask
      <4>2. QED
        BY <1>2, <4>1 DEF TypeOK, RequestStatuses
    <3>3. QED
      BY <3>1, <3>2
  <2>3. task' \in Tasks /\ AtADomain'
    BY <1>3, <1>4, <1>7 DEF Ask
  <2>4. QED
    BY <1>2, <1>7, <2>1, <2>2, <2>3 DEF Ask, TInv, TypeOK
<1>8. CASE Accept \/ Deny
  <2>1. task' \in Tasks /\ AtADomain'
    BY <1>3, <1>8 DEF Accept, Deny
  <2>2. flow' \in [Domains -> Flows]
    BY <1>2, <1>8, FlowRows, DomainTypes DEF Accept, Deny, TypeOK
  <2>3. verdict' \in [Domains -> SUBSET Answers]
    <3>1. PICK x \in Answers : verdict' = [verdict EXCEPT ![d] = verdict[d] \union {x}]
      BY <1>8 DEF Accept, Deny, Answers
    <3>2. verdict[d] \union {x} \in SUBSET Answers
      BY <1>2 DEF TypeOK
    <3>3. QED
      BY <1>2, <3>1, <3>2 DEF TypeOK
  <2>4. auth' \in AuthStatuses
    BY <1>2, <1>8 DEF Accept, Deny, AuthStatuses, TypeOK
  <2>5. QED
    BY <1>2, <1>8, <2>1, <2>2, <2>3, <2>4 DEF Accept, Deny, TInv, TypeOK
<1>9. QED
  BY <1>5, <1>6, <1>7, <1>8 DEF Execute

LEMMA AnswerTypes ==
    ASSUME TInv, NEW r \in Domains \X Managers,
           NEW answer \in Answers, Answer(r, answer)
    PROVE  TInv'
<1> DEFINE d == r[1]
           status == IF answer = "AUTHORIZED" THEN "YES" ELSE "NO"
<1>1. d \in Domains /\ TypeOK /\ flow[d] \in Flows
  BY DEF TInv, TypeOK
<1>2. request' \in [Domains \X Managers -> RequestStatuses]
  BY <1>1 DEF Answer, TypeOK, RequestStatuses, Answers
<1>3. CASE flow[d] = NoFlow
  BY <1>1, <1>2, <1>3 DEF Answer, TInv, TypeOK, AtADomain
<1>4. CASE flow[d] # NoFlow
  <2>1. /\ flow' = [flow EXCEPT ![d] = [flow[d] EXCEPT !.status = status]]
        /\ task' = [Idle EXCEPT !.pc = "respond", !.at = d]
    BY <1>4 DEF Answer
  <2>2. [flow[d] EXCEPT !.status = status] \in Flows
    BY <1>1, <1>4, SetStatus
  <2>3. flow' \in [Domains -> Flows]
    BY <1>1, <2>1, <2>2 DEF TypeOK
  <2>4. /\ [Idle EXCEPT !.pc = "respond", !.at = d] \in Tasks
        /\ [Idle EXCEPT !.pc = "respond", !.at = d].at = d
    BY <1>1, DomainTypes DEF Idle, Tasks
  <2>5. task' \in Tasks /\ AtADomain'
    BY <1>1, <2>1, <2>4 DEF TInv, TypeOK, AtADomain
  <2>6. QED
    BY <1>1, <1>2, <2>3, <2>5 DEF Answer, TInv, TypeOK
<1>5. QED
  BY <1>3, <1>4

LEMMA CancelExpireTypes ==
    ASSUME TInv, Cancel \/ Expire
    PROVE  TInv'
<1>1. request' \in [Domains \X Managers -> RequestStatuses]
  BY DEF Cancel, Expire, TInv, TypeOK, RequestStatuses
<1>2. flow' \in [Domains -> Flows] /\ auth' \in AuthStatuses
  BY DomainTypes DEF Cancel, Expire, TInv, TypeOK, AuthStatuses
<1>3. QED
  BY <1>1, <1>2 DEF Cancel, Expire, TInv, TypeOK, AtADomain

LEMMA DisableTypes ==
    ASSUME TInv, NEW d \in Domains, Disable(d)
    PROVE  TInv'
<1>1. TypeOK
  BY DEF TInv
<1>2. CASE flow[d] = NoFlow
  BY <1>1, <1>2 DEF Disable, TInv, TypeOK, AtADomain
<1>3. CASE flow[d] # NoFlow
  <2>1. /\ StartFlow(d, [flow EXCEPT ![d] = NoFlow], [verdict EXCEPT ![d] = {}], active')
        /\ ContinueWorkflows(TRUE)
        /\ request' = [r \in DOMAIN request |-> IF r[1] = d THEN "none" ELSE request[r]]
    BY <1>3 DEF Disable
  <2>2. /\ [flow EXCEPT ![d] = NoFlow] \in [Domains -> Flows]
        /\ [verdict EXCEPT ![d] = {}] \in [Domains -> SUBSET Answers]
    BY <1>1, FlowRows DEF TypeOK
  <2>3. /\ flow' \in [Domains -> Flows]
        /\ verdict' \in [Domains -> SUBSET Answers]
        /\ auth' \in AuthStatuses
    BY <1>1, <2>1, <2>2, StartFlowTypes
  <2>4. request' \in [Domains \X Managers -> RequestStatuses]
    BY <1>1, <2>1 DEF TypeOK, RequestStatuses
  <2>5. task' \in Tasks /\ AtADomain'
    BY <1>1, <2>1, TaskSteps, DomainTypes DEF TInv, AtADomain
  <2>6. QED
    BY <1>1, <2>3, <2>4, <2>5 DEF Disable, TInv, TypeOK
<1>4. QED
  BY <1>2, <1>3

LEMMA NextTypes == TInv /\ [Next]_vars => TInv'
<1> SUFFICES ASSUME TInv, [Next]_vars PROVE TInv'
  OBVIOUS
<1>1. ASSUME RequestAuthorization PROVE TInv'
  BY <1>1, RequestAuthorizationTypes
<1>2. ASSUME Work PROVE TInv'
  BY <1>2, StartNextTypes, VisitTypes, NextDomainTypes, DecideTypes, ApproveTypes,
     ExecuteTypes DEF Work
<1>3. ASSUME NEW r \in Domains \X Managers, NEW answer \in Answers,
             Answer(r, answer)
      PROVE  TInv'
  BY <1>3, AnswerTypes
<1>4. ASSUME NEW d \in Domains, Disable(d) PROVE TInv'
  BY <1>4, DisableTypes
<1>6. CASE Cancel \/ Expire
  BY <1>6, CancelExpireTypes
<1>7. CASE UNCHANGED vars
  BY <1>7 DEF vars, TInv, TypeOK, AtADomain
<1>8. QED
  BY <1>1, <1>2, <1>3, <1>4, <1>6, <1>7 DEF Next

\* The rows of the circuit, of its flows and its requests keep their types,
\* and a request that is inside a loop is at a domain of the path, for all
\* workflows, and whether or not answers come late and workflows are disabled.
THEOREM TypeCorrect == Spec => []TypeOK
<1>1. Init => TInv
  BY InitTypes
<1>2. TInv /\ [Next]_vars => TInv'
  BY NextTypes
<1>3. TInv => TypeOK
  BY DEF TInv
<1>4. QED
  BY <1>1, <1>2, <1>3, PTL DEF Spec

-----------------------------------------------------------------------------
(***************************************************************************)
(* The invariant behind AuthorizedByAll.  Q is a set of nodes that ask     *)
(* nobody and lead to nobody who is asked.                                 *)
(***************************************************************************)

QuietNodes(Q) ==
    /\ Q \subseteq Nodes \ Requests
    /\ \A n \in Q : Yes[n] \in Q /\ No[n] \in Q
    /\ \A n \in Requests : Kind[n] = "user" /\ Manager[n] = Requester => Yes[n] \in Q

NobodyAsked == \A r \in Domains \X Managers : request[r] = "none"
AtRequest(d) == flow[d] = NoFlow \/ flow[d].node \in Requests
FreshRow(f) == f # NoFlow /\ f.node \in Requests => f.status = "WAITING"
Fresh(d) == FreshRow(flow[d])

\* Flows are rows of circuits that wait.
FlowsWait ==
    \A d \in Domains : flow[d] # NoFlow => d \in Known /\ auth = "WAITING"

NothingYet ==
    auth = "UNEXECUTED" =>
        /\ task.pc = "idle" /\ NobodyAsked
        /\ \A d \in Domains : verdict[d] = {}

\* While the circuit waits each domain has a flow or said yes.
InProgress ==
    auth = "WAITING" => \A d \in Known :
        IF task.pc = "start" /\ task.at <= d
        THEN flow[d] = NoFlow /\ verdict[d] = {}
        ELSE \/ flow[d] # NoFlow /\ verdict[d] = {}
             \/ flow[d] = NoFlow /\ verdict[d] = {"AUTHORIZED"}

InLoop == task.pc \in {"visit", "run", "next", "decide"}
Passed(d) ==
    \/ d < task.at
    \/ d = task.at /\ task.pc = "next"
    \/ task.pc = "decide"

Starting ==
    task.pc = "start" =>
        auth = "WAITING" /\ NobodyAsked /\ \A d \in Domains : Fresh(d)

\* The pass that may not ask leaves the flows at their first questions.
FirstPass ==
    InLoop /\ ~task.asking =>
        /\ NobodyAsked
        /\ \A d \in Domains : Fresh(d) /\ (Passed(d) => AtRequest(d))

\* The pass that asks finds them there, and ends at the first open question.
AsksRow(f, Q) ==
    \/ f = NoFlow
    \/ f.node \in Q
    \/ f.node \in Requests /\ f.status = "READY"
    \/ /\ f.node \in Requests /\ f.status = "YES"
       /\ Kind[f.node] = "user" /\ Manager[f.node] = Requester
AsksNow(d, Q) == AsksRow(flow[d], Q)

SecondPass(Q) ==
    InLoop /\ task.asking =>
        /\ \A d \in Domains :
              IF task.pc = "run" /\ d = task.at THEN AsksNow(d, Q) ELSE AtRequest(d)
        /\ auth = "WAITING" /\ Pending = {} =>
              \A d \in Domains : Passed(d) => flow[d] = NoFlow

Between ==
    /\ task.pc = "idle" => \A d \in Domains : AtRequest(d)
    /\ task.pc = "respond" => \A d \in Domains \ {task.at} : AtRequest(d)

Approving ==
    task.pc = "approve" => auth = "WAITING" /\ Pending = {} /\ flow = NoFlows

IInv(Q) ==
    /\ TInv
    /\ FlowsWait
    /\ NothingYet
    /\ InProgress
    /\ Starting
    /\ FirstPass
    /\ SecondPass(Q)
    /\ Between
    /\ Approving
    /\ AuthorizedByAll

\* The parts of the invariant that speak of where the request is.
Phases(Q) ==
    Starting /\ FirstPass /\ SecondPass(Q) /\ Between /\ Approving

\* The pass that asks starts with every flow at a request, and ends so.
LEMMA AllVisitedAgain ==
    ASSUME NEW Q, TInv', task'.pc = "visit", task'.at = 1,
           task'.asking = TRUE, \A d \in Domains : AtRequest(d)'
    PROVE  Phases(Q)'
<1>1. \A d \in Domains : ~(d < 1)
  BY DomainTypes DEF Domains
<1>2. QED
  BY <1>1 DEF Phases, Starting, FirstPass, SecondPass, Between, Approving, InLoop, Passed

LEMMA DoneForNow ==
    ASSUME NEW Q, task'.pc = "idle", \A d \in Domains : AtRequest(d)'
    PROVE  Phases(Q)'
BY DEF Phases, Starting, FirstPass, SecondPass, Between, Approving, InLoop

\* A circuit that is denied or expired has no flows.
LEMMA ClosedCircuit ==
    ASSUME NEW Q, flow' = NoFlows, auth' \in {"DENIED", "EXPIRED"}
    PROVE  /\ FlowsWait' /\ NothingYet' /\ InProgress' /\ AuthorizedByAll'
           /\ SecondPass(Q)' /\ Between'
           /\ \A d \in Domains : AtRequest(d)' /\ Fresh(d)'
<1>1. \A d \in Domains : flow'[d] = NoFlow
  BY DomainTypes
<1>2. FlowsWait' /\ NothingYet' /\ InProgress' /\ AuthorizedByAll'
  BY <1>1 DEF FlowsWait, NothingYet, InProgress, AuthorizedByAll
<1>3. \A d \in Domains : AtRequest(d)' /\ Fresh(d)'
  BY <1>1 DEF AtRequest, Fresh, FreshRow
<1>4. SecondPass(Q)' /\ Between'
  BY <1>1, <1>3 DEF SecondPass, Between, AsksNow, AsksRow
<1>5. QED
  BY <1>2, <1>3, <1>4

LEMMA InitInvariant ==
    ASSUME NEW Q, Init
    PROVE  IInv(Q)
<1>1. TInv
  BY InitTypes
<1>2. task = Idle /\ task.pc = "idle"
  BY DEF Init, Idle
<1>3. \A d \in Domains : flow[d] = NoFlow
  BY DomainTypes DEF Init
<1>4. QED
  BY <1>1, <1>2, <1>3 DEF Init, IInv, FlowsWait, NothingYet, NobodyAsked, InProgress,
     Starting, FirstPass, SecondPass, Between, Approving, AuthorizedByAll, InLoop, AtRequest

LEMMA RequestAuthorizationKeeps ==
    ASSUME NEW Q, IInv(Q), RequestAuthorization, TInv'
    PROVE  IInv(Q)'
<1>1. /\ auth = "UNEXECUTED" /\ auth' = "WAITING"
      /\ flow' = flow /\ request' = request /\ verdict' = verdict
  BY DEF RequestAuthorization
<1>2. task'.pc = "start" /\ task'.at = 1
  BY DEF RequestAuthorization, IInv, TInv, TypeOK, Idle
<1>3. NobodyAsked /\ \A d \in Domains : verdict[d] = {} /\ flow[d] = NoFlow
  BY <1>1 DEF IInv, NothingYet, FlowsWait
<1>4. \A d \in Known : d \in Domains /\ 1 <= d
  BY DomainTypes DEF Domains
<1>5. FlowsWait' /\ NothingYet' /\ InProgress' /\ AuthorizedByAll'
  <2>1. FlowsWait'
    BY <1>1, <1>3 DEF FlowsWait
  <2>2. NothingYet' /\ AuthorizedByAll'
    BY <1>1 DEF NothingYet, AuthorizedByAll
  <2>3. InProgress'
    BY <1>1, <1>2, <1>3, <1>4 DEF InProgress
  <2>4. QED
    BY <2>1, <2>2, <2>3
<1>6. Starting'
  BY <1>1, <1>3 DEF Starting, NobodyAsked, Fresh, FreshRow
<1>7. FirstPass' /\ SecondPass(Q)' /\ Between' /\ Approving'
  BY <1>2 DEF FirstPass, SecondPass, Between, Approving, InLoop
<1>8. QED
  BY <1>5, <1>6, <1>7 DEF IInv

LEMMA StartNextKeeps ==
    ASSUME NEW Q, IInv(Q), StartNext, TInv'
    PROVE  IInv(Q)'
<1> DEFINE at == task.at
<1>1. /\ auth = "WAITING" /\ NobodyAsked
      /\ \A d \in Domains : Fresh(d)
      /\ at \in Domains /\ TypeOK /\ task.pc = "start"
  BY DEF IInv, Starting, TInv, AtADomain, StartNext
<1>2. NobodyAsked' /\ Pending' = {}
  BY <1>1 DEF StartNext, NobodyAsked, Pending
<1>3. CASE auth' = "DENIED"
  <2>1. flow' = NoFlows
    BY <1>1, <1>3 DEF StartNext, StartFlow
  <2>2. ContinueWorkflows(FALSE)
    BY <1>3 DEF StartNext
  <2>3. task'.pc = "visit" /\ task'.at = 1 /\ task'.asking = FALSE
    BY <1>1, <2>2, TaskSteps
  <2>4. FirstPass'
    BY <1>2, <1>3, <2>1, ClosedCircuit DEF FirstPass
  <2>5. Starting' /\ Approving'
    BY <2>3 DEF Starting, Approving
  <2>6. QED
    BY <1>3, <2>1, <2>4, <2>5, ClosedCircuit DEF IInv
<1>4. CASE auth' # "DENIED"
  <2>1. auth' = "WAITING"
    BY <1>1, <1>4 DEF StartNext, StartFlow
  <2>2. \A d \in Domains \ {at} : flow'[d] = flow[d] /\ verdict'[d] = verdict[d]
    BY <1>1, <1>4 DEF StartNext, StartFlow, TypeOK
  <2>3. at \in Known => /\ \/ flow'[at] # NoFlow /\ verdict'[at] = {}
                           \/ flow'[at] = NoFlow /\ verdict'[at] = {"AUTHORIZED"}
                        /\ FreshRow(flow'[at])
    <3> SUFFICES ASSUME at \in Known
                 PROVE  /\ \/ flow'[at] # NoFlow /\ verdict'[at] = {}
                           \/ flow'[at] = NoFlow /\ verdict'[at] = {"AUTHORIZED"}
                        /\ FreshRow(flow'[at])
      OBVIOUS
    <3>1. flow[at] = NoFlow /\ verdict[at] = {}
      BY <1>1 DEF IInv, InProgress, Domains
    <3>2. StartFlow(at, flow, verdict, active)
      BY DEF StartNext
    <3>3. CASE at \in active
      <4>1. flow' = [flow EXCEPT ![at] = Arrive(Start[at])] /\ verdict' = verdict
        BY <3>2, <3>3 DEF StartFlow
      <4>2. flow'[at] = Arrive(Start[at]) /\ Start[at] \in Nodes
        BY <1>1, <4>1, WorkflowAssumption DEF TypeOK
      <4>3. flow'[at] # NoFlow /\ (flow'[at].node \in Requests => flow'[at].status = "WAITING")
        <5> DEFINE f == flow'[at]
        <5>1. f = Arrive(Start[at]) /\ Start[at] \in Nodes
          BY <4>2
        <5> HIDE DEF f
        <5>2. f # NoFlow /\ (f.node \in Requests => f.status = "WAITING")
          BY <5>1, FlowRows DEF Arrive
        <5>3. QED
          BY <5>2 DEF f
      <4>4. QED
        BY <3>1, <4>1, <4>3 DEF FreshRow
    <3>4. CASE at \notin active
      <4>1. flow' = flow /\ verdict' = [verdict EXCEPT ![at] = @ \union {"AUTHORIZED"}]
        BY <1>4, <3>2, <3>4 DEF StartFlow
      <4>2. verdict'[at] = {"AUTHORIZED"}
        BY <1>1, <3>1, <4>1 DEF TypeOK
      <4>3. flow'[at] = NoFlow
        BY <3>1, <4>1
      <4>4. QED
        BY <4>2, <4>3 DEF FreshRow
    <3>5. QED
      BY <3>3, <3>4
  <2>4. at \notin Known => flow' = flow
    BY DEF StartNext
  <2>5. \A d \in Domains : Fresh(d)'
    <3> TAKE d \in Domains
    <3>1. CASE flow'[d] = flow[d]
      BY <1>1, <3>1 DEF Fresh, FreshRow
    <3>2. CASE d = at /\ at \in Known
      BY <2>3, <3>2 DEF Fresh, FreshRow
    <3>3. QED
      BY <2>2, <2>4, <3>1, <3>2
  <2>6. FlowsWait'
    BY <1>1, <2>1, <2>2, <2>4 DEF IInv, FlowsWait
  <2>7. NothingYet' /\ AuthorizedByAll'
    BY <2>1 DEF NothingYet, AuthorizedByAll
  <2>8. CASE at < NumDomains
    <3>1. task' = [task EXCEPT !.at = at + 1]
      BY <2>1, <2>8 DEF StartNext
    <3>2. task'.pc = "start" /\ task'.at = at + 1
      BY <1>1, <3>1, TaskSteps DEF TypeOK, Tasks
    <3>3. \A d \in Domains : d < at + 1 => d < at \/ d = at
      BY <1>1 DEF Domains
    <3>4. \A d \in Domains : at + 1 <= d => d # at /\ at <= d
      BY <1>1 DEF Domains
    <3>5. ASSUME NEW d \in Known
          PROVE  IF at + 1 <= d
                 THEN flow'[d] = NoFlow /\ verdict'[d] = {}
                 ELSE \/ flow'[d] # NoFlow /\ verdict'[d] = {}
                      \/ flow'[d] = NoFlow /\ verdict'[d] = {"AUTHORIZED"}
      <4>1. d \in Domains
        BY DomainTypes
      <4>2. CASE at + 1 <= d
        BY <1>1, <2>2, <3>4, <4>1, <4>2 DEF IInv, InProgress
      <4>3. CASE ~(at + 1 <= d)
        <5>1. d = at \/ ~(at <= d)
          BY <1>1, <4>1, <4>3 DEF Domains
        <5>2. QED
          BY <1>1, <2>2, <2>3, <4>1, <4>3, <5>1 DEF IInv, InProgress
      <4>4. QED
        BY <4>2, <4>3
    <3>6. InProgress'
      BY <3>2, <3>5 DEF InProgress
    <3>7. Phases(Q)'
      BY <1>2, <2>1, <2>5, <3>2
         DEF Phases, Starting, FirstPass, SecondPass, Between, Approving, InLoop
    <3>8. QED
      BY <2>6, <2>7, <3>6, <3>7 DEF IInv, Phases
  <2>9. CASE ~(at < NumDomains)
    <3>1. ContinueWorkflows(FALSE)
      BY <2>9 DEF StartNext
    <3>2. task'.pc = "visit" /\ task'.at = 1 /\ task'.asking = FALSE
      BY <1>1, <3>1, TaskSteps
    <3>3. \A d \in Domains : d = at \/ ~(at <= d)
      BY <1>1, <2>9, DomainTypes DEF Domains
    <3>4. \A d \in Known : d \in Domains
      BY DomainTypes
    <3>5. ASSUME NEW d \in Known
          PROVE  \/ flow'[d] # NoFlow /\ verdict'[d] = {}
                 \/ flow'[d] = NoFlow /\ verdict'[d] = {"AUTHORIZED"}
      BY <1>1, <2>2, <2>3, <3>3, <3>4 DEF IInv, InProgress
    <3>6. InProgress'
      BY <3>2, <3>5 DEF InProgress
    <3>7. \A d \in Domains : ~(d < 1)
      BY DomainTypes DEF Domains
    <3>8. Phases(Q)'
      BY <1>2, <2>5, <3>2, <3>7
         DEF Phases, Starting, FirstPass, SecondPass, Between, Approving, InLoop, Passed
    <3>9. QED
      BY <2>6, <2>7, <3>6, <3>8 DEF IInv, Phases
  <2>10. QED
    BY <2>8, <2>9
<1>5. QED
  BY <1>3, <1>4

\* A step that moves no verdict, and neither starts nor ends a flow.
LEMMA RowsStay ==
    ASSUME NEW Q, IInv(Q), auth' = auth, verdict' = verdict,
           auth # "UNEXECUTED", task.pc # "start", task'.pc # "start",
           \A d \in Domains : flow'[d] = NoFlow <=> flow[d] = NoFlow
    PROVE  FlowsWait' /\ NothingYet' /\ InProgress' /\ AuthorizedByAll'
<1>1. FlowsWait'
  BY DEF IInv, FlowsWait
<1>2. NothingYet' /\ AuthorizedByAll'
  BY DEF IInv, NothingYet, AuthorizedByAll
<1>3. InProgress'
  <2>1. \A d \in Known : d \in Domains
    BY DomainTypes
  <2>2. QED
    BY <2>1 DEF IInv, InProgress
<1>4. QED
  BY <1>1, <1>2, <1>3

\* A step that none of this speaks of.
LEMMA NothingMoves ==
    ASSUME NEW Q, IInv(Q), TInv', auth' = auth, flow' = flow,
           request' = request, verdict' = verdict, task' = task
    PROVE  IInv(Q)'
<1>1. FlowsWait' /\ NothingYet' /\ InProgress' /\ AuthorizedByAll'
  BY DEF IInv, FlowsWait, NothingYet, InProgress, AuthorizedByAll, NobodyAsked
<1>2. Starting' /\ Between' /\ Approving'
  BY DEF IInv, Starting, Between, Approving, NobodyAsked, Fresh, FreshRow, AtRequest, Pending
<1>3. FirstPass'
  BY DEF IInv, FirstPass, InLoop, NobodyAsked, Fresh, FreshRow, AtRequest, Passed
<1>4. SecondPass(Q)'
  BY DEF IInv, SecondPass, InLoop, AsksNow, AsksRow, AtRequest, Passed, Pending
<1>5. QED
  BY <1>1, <1>2, <1>3, <1>4 DEF IInv

LEMMA VisitKeeps ==
    ASSUME NEW Q, IInv(Q), Visit, TInv'
    PROVE  IInv(Q)'
<1>1. PICK e \in Domains : e = task.at
  BY DEF IInv, TInv, AtADomain, Visit
<1>2. /\ TypeOK /\ task.pc = "visit" /\ auth # "UNEXECUTED" /\ auth' = auth
      /\ request' = request /\ verdict' = verdict /\ Pending' = Pending
  BY DEF IInv, TInv, Visit, NothingYet, Pending
<1>3. CASE auth = "DENIED"
  <2>1. flow' = flow /\ Goto("decide")
    BY <1>3 DEF Visit
  <2>2. task'.pc = "decide" /\ task'.asking = task.asking
    BY <1>2, <2>1, TaskSteps DEF PCs
  <2>3. \A d \in Domains : flow'[d] = NoFlow
    BY <1>3, <2>1 DEF IInv, FlowsWait
  <2>4. Phases(Q)'
    BY <1>2, <1>3, <2>2, <2>3 DEF IInv, Phases, Starting, FirstPass, SecondPass, Between,
       Approving, InLoop, NobodyAsked, AtRequest, Fresh, FreshRow
  <2>5. QED
    BY <1>2, <2>1, <2>2, <2>4, RowsStay DEF IInv, Phases
<1>4. CASE auth # "DENIED" /\ e \in Known /\ flow[e] # NoFlow
  <2>1. /\ Goto("run")
        /\ flow' = IF task.asking THEN [flow EXCEPT ![e].status = "READY"] ELSE flow
    BY <1>1, <1>4 DEF Visit
  <2>2. task'.pc = "run" /\ task'.at = e /\ task'.asking = task.asking
    BY <1>1, <1>2, <2>1, TaskSteps DEF PCs
  <2>3. /\ \A d \in Domains \ {e} : flow'[d] = flow[d]
        /\ task.asking => flow'[e] = [flow[e] EXCEPT !.status = "READY"]
        /\ ~task.asking => flow'[e] = flow[e]
    BY <1>2, <2>1 DEF TypeOK
  <2>4. flow[e] \in Flows
    BY <1>2 DEF TypeOK
  <2>5. task.asking => /\ flow'[e] # NoFlow
                          /\ flow'[e].node = flow[e].node
                          /\ flow'[e].status = "READY"
    <3>1. PICK f \in Flows : f = flow[e]
      BY <2>4
    <3>2. /\ [f EXCEPT !.status = "READY"] # NoFlow
          /\ [f EXCEPT !.status = "READY"].node = f.node
          /\ [f EXCEPT !.status = "READY"].status = "READY"
      BY <1>4, <3>1, SetStatus
    <3>3. task.asking => flow'[e] = [f EXCEPT !.status = "READY"]
      BY <2>3, <3>1
    <3>4. QED
      BY <3>1, <3>2, <3>3
  <2>6. \A d \in Domains : flow'[d] = NoFlow <=> flow[d] = NoFlow
    BY <1>4, <2>3, <2>5
  <2>7. \A d \in Domains : Passed(d)' => d # e /\ Passed(d)
    BY <1>1, <2>2 DEF Passed, Domains
  <2>8. CASE ~task.asking
    <3>1. flow' = flow
      BY <2>1, <2>8
    <3>2. FirstPass'
      BY <1>2, <2>7, <2>8, <3>1 DEF IInv, FirstPass, InLoop, NobodyAsked, Fresh, AtRequest
    <3>3. Phases(Q)'
      BY <2>2, <2>8, <3>2 DEF Phases, Starting, SecondPass, Between, Approving, InLoop
    <3>4. QED
      BY <1>2, <2>2, <2>6, <3>3, RowsStay DEF IInv, Phases
  <2>9. CASE task.asking
    <3>1. \A d \in Domains : AtRequest(d)
      BY <1>2, <2>9 DEF IInv, SecondPass, InLoop
    <3>2. AsksRow(flow'[e], Q)
      BY <1>4, <2>5, <2>9, <3>1 DEF AsksRow, AtRequest
    <3>3. \A d \in Domains \ {e} : AtRequest(d)'
      BY <2>3, <3>1 DEF AtRequest
    <3>4. auth = "WAITING" /\ Pending = {} =>
              \A d \in Domains : Passed(d) => flow[d] = NoFlow
      BY <1>2, <2>9 DEF IInv, SecondPass, InLoop
    <3>5. auth' = "WAITING" /\ Pending' = {} =>
              \A d \in Domains : Passed(d)' => flow'[d] = NoFlow
      BY <1>2, <2>6, <2>7, <3>4
    <3>6. SecondPass(Q)'
      BY <2>2, <3>2, <3>3, <3>5 DEF SecondPass, AsksNow
    <3>7. Phases(Q)'
      BY <2>2, <2>9, <3>6 DEF Phases, Starting, FirstPass, Between, Approving, InLoop
    <3>8. QED
      BY <1>2, <2>2, <2>6, <3>7, RowsStay DEF IInv, Phases
  <2>10. QED
    BY <2>8, <2>9
<1>5. CASE auth # "DENIED" /\ ~(e \in Known /\ flow[e] # NoFlow)
  <2>1. flow' = flow /\ Goto("next")
    BY <1>1, <1>5 DEF Visit
  <2>2. task'.pc = "next" /\ task'.at = e /\ task'.asking = task.asking
    BY <1>1, <1>2, <2>1, TaskSteps DEF PCs
  <2>3. flow[e] = NoFlow
    BY <1>5 DEF IInv, FlowsWait
  <2>4. \A d \in Domains : Passed(d)' => d = e \/ Passed(d)
    BY <1>1, <2>2 DEF Passed
  <2>5. FirstPass'
    BY <1>2, <2>1, <2>2, <2>3, <2>4
       DEF IInv, FirstPass, InLoop, NobodyAsked, Fresh, AtRequest
  <2>6. SecondPass(Q)'
    BY <1>2, <2>1, <2>2, <2>3, <2>4 DEF IInv, SecondPass, InLoop, AtRequest
  <2>7. Phases(Q)'
    BY <2>2, <2>5, <2>6 DEF Phases, Starting, Between, Approving
  <2>8. QED
    BY <1>2, <2>1, <2>2, <2>7, RowsStay DEF IInv, Phases
<1>6. QED
  BY <1>3, <1>4, <1>5

LEMMA NextDomainKeeps ==
    ASSUME NEW Q, IInv(Q), NextDomain, TInv'
    PROVE  IInv(Q)'
<1>1. PICK e \in Domains : e = task.at
  BY DEF IInv, TInv, AtADomain, NextDomain
<1>2. /\ TypeOK /\ task \in Tasks /\ task.pc = "next"
      /\ auth # "UNEXECUTED" /\ auth' = auth /\ flow' = flow
      /\ request' = request /\ verdict' = verdict /\ Pending' = Pending
  BY TaskSteps DEF IInv, TInv, NextDomain, NothingYet, Pending
<1>3. /\ ~task.asking => /\ NobodyAsked
                            /\ \A d \in Domains : Fresh(d) /\ (Passed(d) => AtRequest(d))
      /\ task.asking =>
            /\ \A d \in Domains : AtRequest(d)
            /\ auth = "WAITING" /\ Pending = {} =>
                  \A d \in Domains : Passed(d) => flow[d] = NoFlow
  BY <1>2 DEF IInv, FirstPass, SecondPass, InLoop
<1>4. CASE Pending # {} \/ e = NumDomains
  <2>1. Goto("decide")
    BY <1>1, <1>4 DEF NextDomain
  <2>2. task'.pc = "decide" /\ task'.asking = task.asking
    BY <1>2, <2>1, TaskSteps DEF PCs
  <2>3. Pending = {} => \A d \in Domains : Passed(d)
    BY <1>1, <1>2, <1>4, DomainTypes DEF Passed, Domains
  <2>4. NobodyAsked => Pending = {}
    BY DEF NobodyAsked, Pending
  <2>5. FirstPass'
    BY <1>2, <1>3, <2>2, <2>3, <2>4 DEF FirstPass, NobodyAsked, Fresh, AtRequest
  <2>6. SecondPass(Q)'
    BY <1>2, <1>3, <2>2, <2>3 DEF SecondPass, AtRequest
  <2>7. Phases(Q)'
    BY <2>2, <2>5, <2>6 DEF Phases, Starting, Between, Approving
  <2>8. QED
    BY <1>2, <2>2, <2>7, RowsStay DEF IInv, Phases
<1>5. CASE ~(Pending # {} \/ e = NumDomains)
  <2>1. task' = [task EXCEPT !.pc = "visit", !.at = task.at + 1]
    BY <1>1, <1>2, <1>5 DEF NextDomain, TypeOK
  <2>2. task'.pc = "visit" /\ task'.at = e + 1 /\ task'.asking = task.asking
    BY <1>1, <1>2, <2>1 DEF TypeOK, Tasks
  <2>3. \A d \in Domains : Passed(d)' => Passed(d)
    BY <1>1, <1>2, <2>2 DEF Passed, Domains
  <2>4. FirstPass'
    BY <1>2, <1>3, <2>2, <2>3 DEF FirstPass, NobodyAsked, Fresh, AtRequest
  <2>5. SecondPass(Q)'
    BY <1>2, <1>3, <2>2, <2>3 DEF SecondPass, AtRequest
  <2>6. Phases(Q)'
    BY <2>2, <2>4, <2>5 DEF Phases, Starting, Between, Approving
  <2>7. QED
    BY <1>2, <2>2, <2>6, RowsStay DEF IInv, Phases
<1>6. QED
  BY <1>4, <1>5

LEMMA DecideKeeps ==
    ASSUME NEW Q, IInv(Q), Decide, TInv'
    PROVE  IInv(Q)'
<1>1. /\ TypeOK /\ task.pc = "decide" /\ auth # "UNEXECUTED" /\ auth' = auth
      /\ request' = request /\ verdict' = verdict /\ Pending' = Pending
  BY DEF IInv, TInv, Decide, NothingYet, Pending
<1>2. \A d \in Domains : AtRequest(d) /\ Passed(d)
  BY <1>1 DEF IInv, FirstPass, SecondPass, InLoop, Passed
<1>3. CASE ~task.asking
  <2>1. ContinueWorkflows(TRUE) /\ flow' = flow
    BY <1>3 DEF Decide
  <2>2. task'.pc = "visit" /\ task'.at = 1 /\ task'.asking = TRUE
    BY <1>1, <2>1, TaskSteps
  <2>3. Phases(Q)'
    BY <1>2, <2>1, <2>2, AllVisitedAgain DEF AtRequest
  <2>4. QED
    BY <1>1, <2>1, <2>2, <2>3, RowsStay DEF IInv, Phases
<1>4. CASE task.asking /\ Pending # {}
  <2>1. task' = Idle /\ flow' = flow
    BY <1>4 DEF Decide
  <2>2. task'.pc = "idle"
    BY <1>1, <2>1, TaskSteps
  <2>3. Phases(Q)'
    BY <1>2, <2>1, <2>2, DoneForNow DEF AtRequest
  <2>4. QED
    BY <1>1, <2>1, <2>2, <2>3, RowsStay DEF IInv, Phases
<1>5. CASE task.asking /\ Pending = {} /\ auth = "WAITING"
  <2>1. Goto("approve") /\ flow' = flow
    BY <1>5 DEF Decide
  <2>2. task'.pc = "approve"
    BY <1>1, <2>1, TaskSteps DEF PCs
  <2>3. \A d \in Domains : flow[d] = NoFlow
    BY <1>1, <1>2, <1>5 DEF IInv, SecondPass, InLoop
  <2>4. flow = NoFlows
    BY <1>1, <2>3 DEF TypeOK, NoFlows
  <2>5. Phases(Q)'
    BY <1>1, <1>5, <2>1, <2>2, <2>4
       DEF Phases, Starting, FirstPass, SecondPass, Between, Approving, InLoop
  <2>6. QED
    BY <1>1, <2>1, <2>2, <2>5, RowsStay DEF IInv, Phases
<1>6. CASE task.asking /\ Pending = {} /\ auth # "WAITING"
  <2>1. task' = Idle /\ flow' = NoFlows
    BY <1>6 DEF Decide
  <2>2. task'.pc = "idle"
    BY <1>1, <2>1, TaskSteps
  <2>3. \A d \in Domains : flow'[d] = NoFlow /\ flow[d] = NoFlow
    BY <1>6, <2>1, DomainTypes DEF IInv, FlowsWait
  <2>4. Phases(Q)'
    BY <2>2, <2>3, DoneForNow DEF AtRequest
  <2>5. QED
    BY <1>1, <2>2, <2>3, <2>4, RowsStay DEF IInv, Phases
<1>7. QED
  BY <1>3, <1>4, <1>5, <1>6

LEMMA ApproveKeeps ==
    ASSUME NEW Q, IInv(Q), Approve, TInv'
    PROVE  IInv(Q)'
<1>1. /\ TypeOK /\ task.pc = "approve" /\ auth = "WAITING" /\ flow = NoFlows
      /\ auth' = "AUTHORIZED" /\ flow' = NoFlows /\ verdict' = verdict
      /\ task' = Idle
  BY DEF IInv, TInv, Approve, Approving
<1>2. task'.pc = "idle"
  BY <1>1, TaskSteps
<1>3. \A d \in Domains : flow[d] = NoFlow /\ flow'[d] = NoFlow
  BY <1>1, DomainTypes
<1>4. \A d \in Known : d \in Domains
  BY DomainTypes
<1>5. \A d \in Known : verdict[d] = {"AUTHORIZED"}
  BY <1>1, <1>3, <1>4 DEF IInv, InProgress
<1>6. AuthorizedByAll' /\ FlowsWait' /\ NothingYet' /\ InProgress'
  BY <1>1, <1>3, <1>5 DEF AuthorizedByAll, FlowsWait, NothingYet, InProgress
<1>7. Phases(Q)'
  BY <1>2, <1>3, DoneForNow DEF AtRequest
<1>8. QED
  BY <1>6, <1>7 DEF IInv, Phases

\* BpmFlow::execute has run for the last time in this domain.
LEMMA LoopEndKeeps ==
    ASSUME NEW Q, IInv(Q), TInv',
           NEW e \in Domains, e = task.at, Running, LoopEnds,
           \A d \in Domains \ {e} : flow'[d] = flow[d] \/ flow'[d] = NoFlow,
           AtRequest(e)',
           task.pc = "run" /\ ~task.asking => request' = request /\ Fresh(e)',
           task.pc = "run" /\ task.asking /\ auth' = "WAITING" /\ Pending' = {} =>
               auth = "WAITING" /\ Pending = {} /\ flow'[e] = NoFlow
    PROVE  Phases(Q)' /\ task'.pc \in {"visit", "next"}
<1>1. /\ task.pc = "respond" =>
            task'.pc = "visit" /\ task'.at = 1 /\ task'.asking = TRUE
      /\ task.pc = "run" =>
            task'.pc = "next" /\ task'.at = e /\ task'.asking = task.asking
  BY LoopEndTypes DEF IInv
<1>2. CASE task.pc = "respond"
  <2>1. \A d \in Domains : AtRequest(d)'
    BY <1>2 DEF IInv, Between, AtRequest
  <2>2. QED
    BY <1>1, <1>2, <2>1, AllVisitedAgain
<1>3. CASE task.pc = "run"
  <2>1. \A d \in Domains : Passed(d)' => d = e \/ Passed(d)
    BY <1>1, <1>3 DEF Passed
  <2>2. FirstPass'
    BY <1>1, <1>3, <2>1
       DEF IInv, FirstPass, InLoop, NobodyAsked, AtRequest, Fresh, FreshRow
  <2>3. ASSUME task.asking
        PROVE  /\ \A d \in Domains : AtRequest(d)'
               /\ auth' = "WAITING" /\ Pending' = {} =>
                     \A d \in Domains : Passed(d)' => flow'[d] = NoFlow
    <3>1. \A d \in Domains \ {e} : AtRequest(d)
      BY <1>3, <2>3 DEF IInv, SecondPass, InLoop
    <3>2. \A d \in Domains : AtRequest(d)'
      BY <3>1 DEF AtRequest
    <3>3. auth = "WAITING" /\ Pending = {} =>
              \A d \in Domains : Passed(d) => flow[d] = NoFlow
      BY <1>3, <2>3 DEF IInv, SecondPass, InLoop
    <3>4. QED
      BY <1>3, <2>1, <2>3, <3>2, <3>3
  <2>4. SecondPass(Q)'
    BY <1>1, <1>3, <2>3 DEF SecondPass
  <2>5. QED
    BY <1>1, <1>3, <2>2, <2>4 DEF Phases, Starting, Between, Approving
<1>4. QED
  BY <1>2, <1>3 DEF Running

\* BpmFlow::execute is called again.
LEMMA StillRunningKeeps ==
    ASSUME NEW Q, IInv(Q), TInv',
           NEW e \in Domains, e = task.at, Running, task' = task,
           auth' = auth, request' = request,
           \A d \in Domains \ {e} : flow'[d] = flow[d],
           task.pc = "run" /\ ~task.asking => FreshRow(flow'[e]),
           task.pc = "run" /\ task.asking => AsksRow(flow'[e], Q)
    PROVE  Phases(Q)'
<1>1. \A d \in Domains : task.pc = "run" => (Passed(d)' => d # e /\ Passed(d))
  BY DEF Passed, Domains
<1>2. FirstPass'
  BY <1>1 DEF IInv, FirstPass, InLoop, Running, NobodyAsked, AtRequest, Fresh
<1>3. SecondPass(Q)'
  <2>1. Pending' = Pending
    BY DEF Pending
  <2>2. QED
    BY <1>1, <2>1 DEF IInv, SecondPass, InLoop, Running, AtRequest, AsksNow
<1>4. Between'
  BY DEF IInv, Between, Running, AtRequest
<1>5. QED
  BY <1>2, <1>3, <1>4 DEF Phases, Starting, Approving, Running

\* What is known of the flow that runs.
LEMMA RunningRow ==
    ASSUME NEW Q, IInv(Q), Running
    PROVE  /\ TypeOK /\ auth # "UNEXECUTED" /\ task.pc # "start"
           /\ task.pc = "run" /\ ~task.asking => Fresh(task.at)
           /\ task.pc = "run" /\ task.asking => AsksNow(task.at, Q)
<1>1. task.at \in Domains
  BY RunningFlow DEF IInv
<1>2. QED
  BY <1>1 DEF IInv, TInv, NothingYet, Running, FirstPass, SecondPass, InLoop

LEMMA FilterKeeps ==
    ASSUME NEW Q, QuietNodes(Q), IInv(Q), Filter, TInv'
    PROVE  IInv(Q)'
<1>1. /\ Running /\ flow[task.at] # NoFlow /\ Kind[flow[task.at].node] = "filter"
      /\ auth' = auth /\ request' = request /\ verdict' = verdict /\ task' = task
  BY DEF Filter, At
<1>2. PICK e \in Domains : e = task.at
  BY <1>1, RunningFlow DEF IInv
<1>3. PICK status : MoveOn(task.at, status)
  BY DEF Filter
<1>4. PICK n \in Nodes : /\ n \in {Yes[flow[e].node], No[flow[e].node]}
                         /\ flow'[e] = Arrive(n)
                         /\ \A d \in Domains \ {e} : flow'[d] = flow[d]
  BY <1>1, <1>2, <1>3, MoveOnFlow DEF IInv
<1>5. flow[e] \in Flows
  BY <1>1, <1>2, RunningFlow DEF IInv
<1>6. flow[e].node \notin Requests
  BY <1>1, <1>2, <1>5, FlowRows
<1>7. PICK f : f = Arrive(n)
  OBVIOUS
<1>8. f # NoFlow /\ f.node = n /\ (n \in Requests => f.status = "WAITING")
  BY <1>7, FlowRows
<1>9. task.pc = "run" /\ task.asking => AsksRow(f, Q)
  <2>1. task.pc = "run" /\ task.asking => AsksRow(flow[e], Q)
    BY <1>1, <1>2, RunningRow DEF AsksNow
  <2>2. task.pc = "run" /\ task.asking => flow[e].node \in Q
    BY <1>1, <1>2, <1>6, <2>1 DEF AsksRow
  <2>3. QED
    BY <1>4, <1>8, <2>2 DEF AsksRow, QuietNodes
<1>10. Phases(Q)'
  BY <1>1, <1>2, <1>4, <1>7, <1>8, <1>9, StillRunningKeeps DEF FreshRow
<1>11. \A d \in Domains : flow'[d] = NoFlow <=> flow[d] = NoFlow
  BY <1>1, <1>2, <1>4, <1>7, <1>8
<1>12. auth # "UNEXECUTED" /\ task.pc # "start"
  BY <1>1, RunningRow
<1>13. QED
  BY <1>1, <1>10, <1>11, <1>12, RowsStay DEF IInv, Phases

LEMMA AnsweredKeeps ==
    ASSUME NEW Q, QuietNodes(Q), IInv(Q), Answered, TInv'
    PROVE  IInv(Q)'
<1>1. /\ Running /\ flow[task.at] # NoFlow
      /\ Kind[flow[task.at].node] \in {"user", "group"}
      /\ flow[task.at].status \in {"YES", "NO"}
      /\ MoveOn(task.at, flow[task.at].status)
      /\ auth' = auth /\ request' = request /\ verdict' = verdict /\ task' = task
  BY DEF Answered, At
<1>2. PICK e \in Domains : e = task.at
  BY <1>1, RunningFlow DEF IInv
<1>3. PICK n \in Nodes : /\ n = IF flow[e].status = "YES" THEN Yes[flow[e].node]
                                                          ELSE No[flow[e].node]
                         /\ flow'[e] = Arrive(n)
                         /\ \A d \in Domains \ {e} : flow'[d] = flow[d]
  BY <1>1, <1>2, MoveOnFlow DEF IInv
<1>4. flow[e] \in Flows
  BY <1>1, <1>2, RunningFlow DEF IInv
<1>5. flow[e].node \in Requests
  BY <1>1, <1>2, <1>4, FlowRows
<1>6. PICK f : f = Arrive(n)
  OBVIOUS
<1>7. f # NoFlow /\ f.node = n /\ (n \in Requests => f.status = "WAITING")
  BY <1>6, FlowRows
<1>8. task.pc = "run" /\ task.asking => AsksRow(f, Q)
  <2>1. task.pc = "run" /\ task.asking => AsksRow(flow[e], Q)
    BY <1>1, <1>2, RunningRow DEF AsksNow
  <2>2. task.pc = "run" /\ task.asking =>
            /\ flow[e].status = "YES" /\ Kind[flow[e].node] = "user"
            /\ Manager[flow[e].node] = Requester
    BY <1>1, <1>2, <1>5, <2>1 DEF AsksRow, QuietNodes
  <2>3. QED
    BY <1>3, <1>5, <1>7, <2>2 DEF AsksRow, QuietNodes
<1>9. Phases(Q)'
  BY <1>1, <1>2, <1>3, <1>6, <1>7, <1>8, StillRunningKeeps DEF FreshRow
<1>10. \A d \in Domains : flow'[d] = NoFlow <=> flow[d] = NoFlow
  BY <1>1, <1>2, <1>3, <1>6, <1>7
<1>11. auth # "UNEXECUTED" /\ task.pc # "start"
  BY <1>1, RunningRow
<1>12. QED
  BY <1>1, <1>9, <1>10, <1>11, RowsStay DEF IInv, Phases

LEMMA NotAskedYetKeeps ==
    ASSUME NEW Q, QuietNodes(Q), IInv(Q), NotAskedYet, TInv'
    PROVE  IInv(Q)'
<1>1. /\ Running /\ LoopEnds /\ flow[task.at] # NoFlow
      /\ Kind[flow[task.at].node] \in {"user", "group"}
      /\ flow[task.at].status = "WAITING"
      /\ auth' = auth /\ request' = request /\ verdict' = verdict /\ flow' = flow
  BY DEF NotAskedYet, At
<1>2. PICK e \in Domains : e = task.at
  BY <1>1, RunningFlow DEF IInv
<1>3. flow[e] \in Flows
  BY <1>1, <1>2, RunningFlow DEF IInv
<1>4. flow[e].node \in Requests
  BY <1>1, <1>2, <1>3, FlowRows
<1>5. ~(task.pc = "run" /\ task.asking)
  <2>1. task.pc = "run" /\ task.asking => AsksRow(flow[e], Q)
    BY <1>1, <1>2, RunningRow DEF AsksNow
  <2>2. QED
    BY <1>1, <1>2, <1>4, <2>1 DEF AsksRow, QuietNodes
<1>6. AtRequest(e)' /\ Fresh(e)'
  BY <1>1, <1>2, <1>4 DEF AtRequest, Fresh, FreshRow
<1>7. Phases(Q)' /\ task'.pc # "start"
  BY <1>1, <1>2, <1>5, <1>6, LoopEndKeeps
<1>8. auth # "UNEXECUTED" /\ task.pc # "start"
  BY <1>1, RunningRow
<1>9. QED
  BY <1>1, <1>7, <1>8, RowsStay DEF IInv, Phases

LEMMA AskKeeps ==
    ASSUME NEW Q, IInv(Q), Ask, TInv'
    PROVE  IInv(Q)'
<1>1. /\ Running /\ flow[task.at] # NoFlow
      /\ Kind[flow[task.at].node] \in {"user", "group"}
      /\ flow[task.at].status = "READY"
      /\ auth' = auth /\ verdict' = verdict
  BY DEF Ask, At
<1>2. PICK e \in Domains : e = task.at
  BY <1>1, RunningFlow DEF IInv
<1>3. PICK f \in Flows : f = flow[e]
  BY <1>1, <1>2, RunningFlow DEF IInv
<1>4. f # NoFlow /\ f.node \in Requests /\ f.status = "READY"
  BY <1>1, <1>2, <1>3, FlowRows
<1>5. ~(task.pc = "run" /\ ~task.asking)
  BY <1>1, <1>2, <1>3, <1>4, RunningRow DEF Fresh, FreshRow
<1>6. TypeOK /\ auth # "UNEXECUTED" /\ task.pc # "start"
  BY <1>1, RunningRow
<1>7. CASE flow' = flow /\ request' = request /\ task' = task
  BY <1>1, <1>7, NothingMoves
<1>8. CASE /\ Kind[f.node] = "user" /\ Manager[f.node] = Requester
           /\ flow' = [flow EXCEPT ![e].status = "YES"]
           /\ request' = request /\ task' = task
  <2>1. /\ flow'[e] = [f EXCEPT !.status = "YES"]
        /\ \A d \in Domains \ {e} : flow'[d] = flow[d]
    BY <1>3, <1>6, <1>8 DEF TypeOK
  <2>2. flow'[e] # NoFlow /\ flow'[e].node = f.node /\ flow'[e].status = "YES"
    <3>1. /\ [f EXCEPT !.status = "YES"] # NoFlow
          /\ [f EXCEPT !.status = "YES"].node = f.node
          /\ [f EXCEPT !.status = "YES"].status = "YES"
      BY <1>4, SetStatus
    <3>2. QED
      BY <2>1, <3>1
  <2>3. AsksRow(flow'[e], Q)
    BY <1>4, <1>8, <2>2 DEF AsksRow
  <2>4. Phases(Q)'
    BY <1>1, <1>2, <1>5, <1>8, <2>1, <2>3, StillRunningKeeps
  <2>5. \A d \in Domains : flow'[d] = NoFlow <=> flow[d] = NoFlow
    BY <1>3, <1>4, <2>1, <2>2
  <2>6. QED
    BY <1>1, <1>6, <1>8, <2>4, <2>5, RowsStay DEF IInv, Phases
<1>9. CASE /\ request' = [request EXCEPT ![<<e, Manager[f.node]>>] = "WAITING"]
           /\ LoopEnds /\ flow' = flow
  <2>1. <<e, Manager[f.node]>> \in Domains \X Managers
    BY <1>4 DEF Managers
  <2>2. request'[<<e, Manager[f.node]>>] = "WAITING"
    BY <1>6, <1>9, <2>1 DEF TypeOK
  <2>3. Pending' # {}
    BY <2>1, <2>2 DEF Pending
  <2>4. AtRequest(e)'
    BY <1>3, <1>4, <1>9 DEF AtRequest
  <2>5. Phases(Q)' /\ task'.pc # "start"
    BY <1>1, <1>2, <1>5, <1>9, <2>3, <2>4, LoopEndKeeps
  <2>6. QED
    BY <1>1, <1>6, <1>9, <2>5, RowsStay DEF IInv, Phases
<1>10. QED
  BY <1>2, <1>3, <1>7, <1>8, <1>9 DEF Ask

LEMMA AcceptKeeps ==
    ASSUME NEW Q, IInv(Q), Accept, TInv'
    PROVE  IInv(Q)'
<1>1. /\ Running /\ LoopEnds /\ flow[task.at] # NoFlow
      /\ auth' = auth /\ request' = request
  BY DEF Accept, At
<1>2. PICK e \in Domains : e = task.at
  BY <1>1, RunningFlow DEF IInv
<1>3. TypeOK /\ auth # "UNEXECUTED" /\ task.pc # "start" /\ Pending' = Pending
  BY <1>1, RunningRow DEF Pending
<1>4. /\ flow'[e] = NoFlow
      /\ \A d \in Domains \ {e} : flow'[d] = flow[d] /\ verdict'[d] = verdict[d]
      /\ verdict'[e] = verdict[e] \union {"AUTHORIZED"}
  BY <1>2, <1>3 DEF Accept, TypeOK
<1>5. e \in Known /\ auth = "WAITING"
  BY <1>1, <1>2 DEF IInv, FlowsWait
<1>6. AtRequest(e)' /\ Fresh(e)'
  BY <1>4 DEF AtRequest, Fresh, FreshRow
<1>7. Phases(Q)' /\ task'.pc # "start"
  BY <1>1, <1>2, <1>3, <1>4, <1>5, <1>6, LoopEndKeeps
<1>8. InProgress'
  <2>1. verdict'[e] = {"AUTHORIZED"}
    BY <1>1, <1>2, <1>3, <1>4, <1>5 DEF IInv, InProgress
  <2>2. \A d \in Known : d \in Domains
    BY DomainTypes
  <2>3. QED
    BY <1>3, <1>4, <1>5, <1>7, <2>1, <2>2 DEF IInv, InProgress
<1>9. FlowsWait' /\ NothingYet' /\ AuthorizedByAll'
  BY <1>1, <1>4, <1>5 DEF IInv, FlowsWait, NothingYet, AuthorizedByAll
<1>10. QED
  BY <1>7, <1>8, <1>9 DEF IInv, Phases

LEMMA DenyKeeps ==
    ASSUME NEW Q, IInv(Q), Deny, TInv'
    PROVE  IInv(Q)'
<1>1. /\ Running /\ LoopEnds /\ flow' = NoFlows /\ auth' = "DENIED"
      /\ request' = request
  BY DEF Deny, At
<1>2. PICK e \in Domains : e = task.at
  BY <1>1, RunningFlow DEF IInv
<1>3. /\ FlowsWait' /\ NothingYet' /\ InProgress' /\ AuthorizedByAll'
      /\ \A d \in Domains : AtRequest(d)' /\ Fresh(d)'
  BY <1>1, ClosedCircuit
<1>4. \A d \in Domains : flow'[d] = NoFlow
  BY <1>1, DomainTypes
<1>5. Phases(Q)'
  BY <1>1, <1>2, <1>3, <1>4, LoopEndKeeps
<1>6. QED
  BY <1>3, <1>5 DEF IInv, Phases

LEMMA AnswerKeeps ==
    ASSUME NEW Q, IInv(Q), NEW r \in Domains \X Managers,
           NEW answer \in Answers, Answer(r, answer), TInv'
    PROVE  IInv(Q)'
<1>1. PICK d \in Domains : d = r[1]
  OBVIOUS
<1>2. TypeOK /\ task.pc = "idle" /\ auth' = auth /\ verdict' = verdict
  BY DEF IInv, TInv, Answer
<1>3. auth # "UNEXECUTED"
  <2>1. request[r] # "none"
    BY DEF Answer
  <2>2. QED
    BY <2>1 DEF IInv, NothingYet, NobodyAsked
<1>4. \A c \in Domains : AtRequest(c)
  BY <1>2 DEF IInv, Between
<1>5. CASE flow[d] = NoFlow
  <2>1. flow' = flow /\ task' = task
    BY <1>1, <1>5 DEF Answer
  <2>2. Phases(Q)'
    BY <1>2, <1>4, <2>1, DoneForNow DEF AtRequest
  <2>3. QED
    BY <1>2, <1>3, <2>1, <2>2, RowsStay DEF IInv, Phases
<1>6. CASE flow[d] # NoFlow
  <2>1. PICK s \in {"YES", "NO"} : flow' = [flow EXCEPT ![d].status = s]
    BY <1>1, <1>6 DEF Answer
  <2>2. PICK f \in Flows : f = flow[d]
    BY <1>2 DEF TypeOK
  <2>3. flow'[d] = [f EXCEPT !.status = s] /\ \A c \in Domains \ {d} : flow'[c] = flow[c]
    BY <1>2, <2>1, <2>2 DEF TypeOK
  <2>4. flow'[d] # NoFlow
    BY <1>6, <2>2, <2>3, SetStatus
  <2>5. task'.pc = "respond" /\ task'.at = d
    <3>1. task' = [Idle EXCEPT !.pc = "respond", !.at = d]
      BY <1>1, <1>6 DEF Answer
    <3>2. task' = [Idle EXCEPT !.pc = "respond", !.at = d]
      BY <1>2, <3>1 DEF TypeOK
    <3>3. QED
      BY <3>2 DEF Idle
  <2>6. \A c \in Domains \ {d} : AtRequest(c)'
    BY <1>4, <2>3 DEF AtRequest
  <2>7. Phases(Q)'
    BY <2>5, <2>6
       DEF Phases, Starting, FirstPass, SecondPass, Between, Approving, InLoop
  <2>8. \A c \in Domains : flow'[c] = NoFlow <=> flow[c] = NoFlow
    BY <1>6, <2>3, <2>4
  <2>9. QED
    BY <1>2, <1>3, <2>5, <2>7, <2>8, RowsStay DEF IInv, Phases
<1>7. QED
  BY <1>5, <1>6

LEMMA CancelExpireKeeps ==
    ASSUME NEW Q, IInv(Q), Cancel \/ Expire, TInv'
    PROVE  IInv(Q)'
<1>1. verdict' = verdict /\ task' = task
  BY DEF Cancel, Expire
<1>2. CASE auth' = auth /\ flow' = flow /\ request' = request
  BY <1>1, <1>2, NothingMoves
<1>3. CASE Pending # {} /\ flow' = NoFlows /\ auth' = "EXPIRED"
  <2>1. ~NobodyAsked
    BY <1>3 DEF NobodyAsked, Pending
  <2>2. Starting' /\ FirstPass' /\ Approving'
    BY <1>1, <1>3, <2>1
       DEF IInv, Starting, FirstPass, Approving, InLoop
  <2>3. QED
    BY <1>3, <2>2, ClosedCircuit DEF IInv
<1>4. QED
  BY <1>2, <1>3 DEF Cancel, Expire

LEMMA DisableKeeps ==
    ASSUME NEW Q, IInv(Q), NEW d \in Domains, Disable(d), TInv'
    PROVE  IInv(Q)'
<1>1. TypeOK /\ task.pc = "idle"
  BY DEF IInv, TInv, Disable
<1>2. CASE flow[d] = NoFlow
  BY <1>2, NothingMoves DEF Disable
<1>3. CASE flow[d] # NoFlow
  <2>1. /\ StartFlow(d, [flow EXCEPT ![d] = NoFlow], [verdict EXCEPT ![d] = {}], active')
        /\ ContinueWorkflows(TRUE) /\ active' = active \ {d}
    BY <1>3 DEF Disable
  <2>2. task'.pc = "visit" /\ task'.at = 1 /\ task'.asking = TRUE
    BY <1>1, <2>1, TaskSteps
  <2>3. d \in Known /\ auth = "WAITING"
    BY <1>3 DEF IInv, FlowsWait
  <2>4. CASE /\ flow' = [flow EXCEPT ![d] = NoFlow] /\ auth' = auth
             /\ verdict' = [[verdict EXCEPT ![d] = {}] EXCEPT
                               ![d] = @ \union {"AUTHORIZED"}]
    <3>1. /\ flow'[d] = NoFlow /\ verdict'[d] = {"AUTHORIZED"}
          /\ \A c \in Domains \ {d} : flow'[c] = flow[c] /\ verdict'[c] = verdict[c]
      BY <1>1, <2>4 DEF TypeOK
    <3>2. \A c \in Domains : AtRequest(c)'
      BY <1>1, <3>1 DEF IInv, Between, AtRequest
    <3>3. Phases(Q)'
      BY <2>2, <3>2, AllVisitedAgain
    <3>4. \A c \in Known : c \in Domains
      BY DomainTypes
    <3>5. InProgress'
      BY <1>1, <2>2, <2>3, <3>1, <3>4 DEF IInv, InProgress
    <3>6. FlowsWait' /\ NothingYet' /\ AuthorizedByAll'
      BY <2>3, <2>4, <3>1 DEF IInv, FlowsWait, NothingYet, AuthorizedByAll
    <3>7. QED
      BY <3>3, <3>5, <3>6 DEF IInv, Phases
  <2>5. CASE flow' = NoFlows /\ auth' = "DENIED"
    <3>1. /\ FlowsWait' /\ NothingYet' /\ InProgress' /\ AuthorizedByAll'
          /\ \A c \in Domains : AtRequest(c)'
      BY <2>5, ClosedCircuit
    <3>2. Phases(Q)'
      BY <2>2, <3>1, AllVisitedAgain
    <3>3. QED
      BY <3>1, <3>2 DEF IInv, Phases
  <2>6. QED
    BY <2>1, <2>4, <2>5 DEF StartFlow
<1>4. QED
  BY <1>2, <1>3

LEMMA NextKeeps ==
    ASSUME NEW Q, QuietNodes(Q),
           IInv(Q), [Next]_vars
    PROVE  IInv(Q)'
<1>1. TInv'
  BY NextTypes DEF IInv
<1>2. CASE RequestAuthorization
  BY <1>1, <1>2, RequestAuthorizationKeeps
<1>3. CASE StartNext \/ Visit \/ NextDomain \/ Decide \/ Approve
  BY <1>1, <1>3, StartNextKeeps, VisitKeeps, NextDomainKeeps, DecideKeeps, ApproveKeeps
<1>4. CASE Execute
  BY <1>1, <1>4, FilterKeeps, AnsweredKeeps, NotAskedYetKeeps,
     AskKeeps, AcceptKeeps, DenyKeeps DEF Execute
<1>5. ASSUME NEW r \in Domains \X Managers, NEW answer \in Answers, Answer(r, answer)
      PROVE  IInv(Q)'
  BY <1>1, <1>5, AnswerKeeps
<1>6. ASSUME NEW d \in Domains, Disable(d)
      PROVE  IInv(Q)'
  BY <1>1, <1>6, DisableKeeps
<1>7. CASE Cancel \/ Expire
  BY <1>1, <1>7, CancelExpireKeeps
<1>8. CASE UNCHANGED vars
  BY <1>1, <1>8, NothingMoves DEF vars
<1>9. QED
  BY <1>2, <1>3, <1>4, <1>5, <1>6, <1>7, <1>8 DEF Next, Work

\* Connection::continueWorkflows saves a circuit as authorized only when every
\* domain that the topology still lists has given its verdict for it and none
\* against it: when requests are served one after the other and to their
\* end, and if no node behind the answer of the requester asks a manager.
THEOREM OnlyAllAuthorize ==
    ASSUME NEW Q, QuietNodes(Q)
    PROVE  Spec => []AuthorizedByAll
<1>1. Init => IInv(Q)
  BY InitInvariant
<1>2. IInv(Q) /\ [Next]_vars => IInv(Q)'
  BY NextKeeps
<1>3. IInv(Q) => AuthorizedByAll
  BY DEF IInv
<1>4. QED
  BY <1>1, <1>2, <1>3, PTL DEF Spec

\* Once the circuit is decided no row of its flows is left in the table, which
\* continueWorkflows, denyFlow and cancelConnAuthRequest each clear; under the
\* same assumptions.
THEOREM DecidedFlowsRemoved ==
    ASSUME NEW Q, QuietNodes(Q)
    PROVE  Spec => []DecidedLeavesNoFlow
<1>1. Init => IInv(Q)
  BY InitInvariant
<1>2. IInv(Q) /\ [Next]_vars => IInv(Q)'
  BY NextKeeps
<1>3. IInv(Q) => DecidedLeavesNoFlow
  <2> SUFFICES ASSUME IInv(Q), auth \in {"AUTHORIZED", "DENIED", "EXPIRED"}
               PROVE  flow = NoFlows
    BY DEF DecidedLeavesNoFlow
  <2>1. \A d \in Domains : flow[d] = NoFlow
    BY DEF IInv, FlowsWait
  <2>2. QED
    BY <2>1 DEF IInv, TInv, TypeOK, NoFlows
<1>4. QED
  BY <1>1, <1>2, <1>3, PTL DEF Spec

\* Nothing is provisioned before the decision, and the decision never returns
\* to WAITING.
ProvisionedLater == auth \in {"UNEXECUTED", "WAITING"} => provisions = 0

\* Approve may ask the provider for the circuit once at most, in the step that
\* turns its auth_status from WAITING to AUTHORIZED; under the same assumptions.
THEOREM ProvisionsOnce ==
    ASSUME NEW Q, QuietNodes(Q)
    PROVE  Spec => ProvisionedOnce
<1>1. Init => IInv(Q) /\ ProvisionedLater
  BY InitInvariant DEF Init, ProvisionedLater
<1>2. ASSUME IInv(Q), ProvisionedLater, [Next]_vars
      PROVE  ProvisionedLater'
  <2>1. CASE Approve
    BY <2>1 DEF Approve, ProvisionedLater
  <2>2. CASE ~Approve
    <3>1. provisions' = provisions
      BY <1>2, <2>2 DEF Next, vars, RequestAuthorization, Work, StartNext, Visit, NextDomain,
         Decide, Execute, Filter, Answered, NotAskedYet, Ask, Accept, Deny,
         Answer, Disable, Cancel, Expire
    <3>2. auth' = auth \/ auth = "UNEXECUTED" \/ auth' \in {"DENIED", "EXPIRED"}
      BY <1>2, <2>2 DEF Next, vars, RequestAuthorization, Work, StartNext, StartFlow, Visit,
         NextDomain, Decide, Execute, Filter, Answered, NotAskedYet, Ask,
         Accept, Deny, Answer, Disable, Cancel, Expire
    <3>3. QED
      BY <1>2, <3>1, <3>2 DEF ProvisionedLater
  <2>3. QED
    BY <2>1, <2>2
<1>3. ASSUME IInv(Q), ProvisionedLater, [Next]_vars, provisions' # provisions
      PROVE  provisions = 0 /\ auth = "WAITING" /\ auth' = "AUTHORIZED"
  <2>1. Approve
    BY <1>3 DEF Next, vars, RequestAuthorization, Work, StartNext, Visit, NextDomain,
       Decide, Execute, Filter, Answered, NotAskedYet, Ask, Accept, Deny,
       Answer, Disable, Cancel, Expire
  <2>2. QED
    BY <1>3, <2>1 DEF Approve, IInv, Approving, ProvisionedLater
<1>4. IInv(Q) /\ [Next]_vars => IInv(Q)'
  BY NextKeeps
<1>5. QED
  BY <1>1, <1>2, <1>3, <1>4, PTL DEF Spec, ProvisionedOnce
=============================================================================
