--------------------- MODULE AuthWorkflowPrompt_proofs ----------------------
(***************************************************************************)
(* Proofs about module AuthWorkflow when answers are prompt: the page's    *)
(* check that a question is open and the answer to it are one step, and no *)
(* workflow is disabled meanwhile.                                         *)
(***************************************************************************)
EXTENDS AuthWorkflow_proofs, FiniteSetTheorems

-----------------------------------------------------------------------------
(***************************************************************************)
(* Questions and answers.                                                  *)
(***************************************************************************)

\* Until the flows are created nobody is asked.
StartsAlone ==
    /\ auth = "UNEXECUTED" => NobodyAsked /\ task.pc = "idle"
    /\ task.pc = "start" => auth # "UNEXECUTED" /\ NobodyAsked

\* An open question is that of the node its flow is at.
AskedRow(f, m) ==
    f = NoFlow \/ (f.node \in Requests /\ Manager[f.node] = m /\ f.status = "READY")

OpenRows ==
    \A d \in Domains, m \in Managers :
        request[<<d, m>>] = "WAITING" => AskedRow(flow[d], m)

\* An answer in a flow is the one its manager gave.
AnswerOf(f, said) ==
    \/ f.status = "YES" /\ said = "AUTHORIZED"
    \/ f.status = "NO" /\ said = "DENIED"
    \/ /\ f.status = "YES" /\ said = "none"
       /\ Kind[f.node] = "user" /\ Manager[f.node] = Requester

TheirAnswers ==
    \A d \in Domains : flow[d].status \in {"YES", "NO"} =>
        /\ flow[d].node \in Requests
        /\ AnswerOf(flow[d], request[<<d, Manager[flow[d].node]>>])

AskedInv ==
    /\ TInv
    /\ StartsAlone
    /\ OpenRows
    /\ TheirAnswers

LEMMA AnswersAreTheirs == TInv /\ TheirAnswers => OnlyTheAskedAnswers
<1> SUFFICES ASSUME TInv, TheirAnswers, NEW d \in Domains,
                    flow[d].status \in {"YES", "NO"}
             PROVE  LET n == flow[d].node
                        said == IF n \in Requests THEN request[<<d, Manager[n]>>]
                                ELSE "nobody"
                    IN  \/ flow[d].status = "YES" /\ said = "AUTHORIZED"
                        \/ flow[d].status = "NO" /\ said = "DENIED"
                        \/ flow[d].status = "YES" /\ said = "none"
                               /\ Kind[n] = "user" /\ Manager[n] = Requester
  BY DEF OnlyTheAskedAnswers
<1>1. /\ flow[d].node \in Requests
      /\ AnswerOf(flow[d], request[<<d, Manager[flow[d].node]>>])
  BY DEF TheirAnswers
<1> QED
  BY <1>1 DEF AnswerOf

\* Nobody is asked or answers, and the flows stay, go, or are run again.
LEMMA RowsKeep ==
    ASSUME TInv, OpenRows, TheirAnswers, request' = request,
           \A d \in Domains :
              \/ flow'[d] = flow[d] \/ flow'[d] = NoFlow
              \/ /\ flow[d] # NoFlow
                 /\ flow'[d].node = flow[d].node /\ flow'[d].status = "READY"
    PROVE  OpenRows' /\ TheirAnswers'
<1>1. NoFlow.status = "none"
  BY DEF NoFlow
<1>2. OpenRows'
  BY DEF OpenRows, AskedRow
<1>3. ASSUME NEW d \in Domains, flow'[d].status \in {"YES", "NO"}
      PROVE  flow'[d] = flow[d]
  BY <1>1, <1>3
<1>4. TheirAnswers'
  BY <1>3 DEF TheirAnswers, AnswerOf
<1> QED
  BY <1>2, <1>4

\* A flow moves on from a node that asks nobody, or whose answer is there.
LEMMA MovedOn ==
    ASSUME TInv, OpenRows, TheirAnswers, NEW e \in Domains, NEW n \in Nodes,
           flow[e] # NoFlow,
           flow[e].node \notin Requests \/ flow[e].status \in {"YES", "NO"},
           request' = request, flow'[e] = Arrive(n),
           \A d \in Domains \ {e} : flow'[d] = flow[d]
    PROVE  OpenRows' /\ TheirAnswers'
<1>1. Arrive(n).status \in {"WAITING", "READY"}
  BY DEF Arrive
<1>2. \A m \in Managers : request[<<e, m>>] # "WAITING"
  BY DEF OpenRows, AskedRow
<1>3. OpenRows'
  BY <1>2 DEF OpenRows, AskedRow
<1>4. \A d \in Domains : flow'[d].status \in {"YES", "NO"} => flow'[d] = flow[d]
  BY <1>1
<1>5. TheirAnswers'
  BY <1>4 DEF TheirAnswers, AnswerOf
<1> QED
  BY <1>3, <1>5

LEMMA AskRows ==
    ASSUME TInv, OpenRows, TheirAnswers, Ask
    PROVE  OpenRows' /\ TheirAnswers'
<1>1. /\ Running /\ flow[task.at] # NoFlow
      /\ Kind[flow[task.at].node] \in {"user", "group"}
      /\ flow[task.at].status = "READY"
  BY DEF Ask, At
<1>2. PICK e \in Domains : e = task.at
  BY <1>1, RunningFlow
<1>3. PICK f \in Flows : f = flow[e]
  BY <1>1, <1>2, RunningFlow
<1>4. f # NoFlow /\ f.node \in Requests /\ f.status = "READY" /\ TypeOK
  BY <1>1, <1>2, <1>3, FlowRows DEF TInv
<1>5. PICK m \in Managers : m = Manager[f.node]
  BY <1>4, DomainTypes
<1>6. CASE flow' = flow /\ request' = request
  BY <1>6, RowsKeep
<1>7. CASE /\ request[<<e, m>>] = "none"
           /\ Kind[f.node] = "user" /\ m = Requester
           /\ flow' = [flow EXCEPT ![e].status = "YES"] /\ request' = request
  <2>1. /\ flow'[e] = [f EXCEPT !.status = "YES"]
        /\ \A d \in Domains \ {e} : flow'[d] = flow[d]
    BY <1>3, <1>4, <1>7 DEF TypeOK
  <2>2. flow'[e] # NoFlow /\ flow'[e].node = f.node /\ flow'[e].status = "YES"
    <3>1. /\ [f EXCEPT !.status = "YES"] # NoFlow
          /\ [f EXCEPT !.status = "YES"].node = f.node
          /\ [f EXCEPT !.status = "YES"].status = "YES"
      BY <1>4, SetStatus
    <3> QED
      BY <2>1, <3>1
  <2>3. \A o \in Managers : request[<<e, o>>] # "WAITING"
    BY <1>3, <1>4, <1>5, <1>7 DEF OpenRows, AskedRow
  <2>4. OpenRows'
    BY <1>7, <2>1, <2>3 DEF OpenRows, AskedRow
  <2>5. AnswerOf(flow'[e], request[<<e, m>>])
    BY <1>5, <1>7, <2>2 DEF AnswerOf
  <2>6. TheirAnswers'
    BY <1>4, <1>5, <1>7, <2>1, <2>2, <2>5 DEF TheirAnswers, AnswerOf
  <2> QED
    BY <2>4, <2>6
<1>8. CASE /\ request' = [request EXCEPT ![<<e, m>>] = "WAITING"] /\ flow' = flow
  <2>1. \A d \in Domains, o \in Managers :
           <<d, o>> # <<e, m>> => request'[<<d, o>>] = request[<<d, o>>]
    BY <1>4, <1>8 DEF TypeOK
  <2>2. OpenRows'
    BY <1>3, <1>4, <1>5, <1>8, <2>1 DEF OpenRows, AskedRow
  <2>3. \A d \in Domains : flow[d].status \in {"YES", "NO"} => d # e
    BY <1>3, <1>4
  <2>4. TheirAnswers'
    <3> SUFFICES ASSUME NEW d \in Domains, flow[d].status \in {"YES", "NO"}
                 PROVE  /\ flow[d].node \in Requests
                        /\ AnswerOf(flow[d], request'[<<d, Manager[flow[d].node]>>])
      BY <1>8 DEF TheirAnswers, AnswerOf
    <3>1. /\ flow[d].node \in Requests
          /\ AnswerOf(flow[d], request[<<d, Manager[flow[d].node]>>])
      BY DEF TheirAnswers
    <3>2. Manager[flow[d].node] \in Managers
      BY <3>1, DomainTypes
    <3>3. request'[<<d, Manager[flow[d].node]>>] = request[<<d, Manager[flow[d].node]>>]
      BY <2>1, <2>3, <3>2
    <3> QED
      BY <3>1, <3>3
  <2> QED
    BY <2>2, <2>4
<1> QED
  BY <1>2, <1>3, <1>5, <1>6, <1>7, <1>8 DEF Ask

\* The answer is that of the node the flow is at.
LEMMA AnswerRows ==
    ASSUME TInv, OpenRows, TheirAnswers, LateAnswers = FALSE,
           NEW r \in Domains \X Managers, NEW answer \in Answers, Answer(r, answer)
    PROVE  OpenRows' /\ TheirAnswers'
<1>1. PICK e \in Domains, m \in Managers : r = <<e, m>>
  OBVIOUS
<1>2. /\ TypeOK /\ request[<<e, m>>] = "WAITING"
      /\ request' = [request EXCEPT ![<<e, m>>] = answer]
  BY <1>1 DEF Answer, TInv
<1>3. /\ request'[<<e, m>>] = answer
      /\ \A d \in Domains, o \in Managers :
           <<d, o>> # <<e, m>> => request'[<<d, o>>] = request[<<d, o>>]
  BY <1>2 DEF TypeOK
<1>4. answer \in {"AUTHORIZED", "DENIED"}
  BY DEF Answers
<1>5. AskedRow(flow[e], m)
  BY <1>2 DEF OpenRows
<1>6. PICK f \in Flows : f = flow[e]
  BY <1>2 DEF TypeOK
<1>7. ASSUME NEW d \in Domains \ {e}, flow[d].status \in {"YES", "NO"}
      PROVE  /\ flow[d].node \in Requests
             /\ AnswerOf(flow[d], request'[<<d, Manager[flow[d].node]>>])
  <2>1. /\ flow[d].node \in Requests
        /\ AnswerOf(flow[d], request[<<d, Manager[flow[d].node]>>])
    BY <1>7 DEF TheirAnswers
  <2>2. Manager[flow[d].node] \in Managers
    BY <2>1, DomainTypes
  <2> QED
    BY <1>3, <2>1, <2>2
<1>8. CASE flow[e] = NoFlow
  <2>1. flow' = flow
    BY <1>1, <1>8 DEF Answer
  <2>2. flow[e].status \notin {"YES", "NO"}
    BY <1>8 DEF NoFlow
  <2>3. OpenRows'
    BY <1>3, <1>4, <2>1 DEF OpenRows, AskedRow
  <2>4. TheirAnswers'
    BY <1>7, <2>1, <2>2 DEF TheirAnswers, AnswerOf
  <2> QED
    BY <2>3, <2>4
<1>9. CASE flow[e] # NoFlow
  <2>1. PICK s \in {"YES", "NO"} :
           /\ s = IF answer = "AUTHORIZED" THEN "YES" ELSE "NO"
           /\ flow' = [flow EXCEPT ![e].status = s]
    BY <1>1, <1>9 DEF Answer
  <2>2. /\ flow'[e] = [f EXCEPT !.status = s]
        /\ \A d \in Domains \ {e} : flow'[d] = flow[d]
    BY <1>2, <1>6, <2>1 DEF TypeOK
  <2>3. f.node \in Requests /\ Manager[f.node] = m
    BY <1>5, <1>6, <1>9 DEF AskedRow
  <2>4. flow'[e].node = f.node /\ flow'[e].status = s
    <3>1. /\ [f EXCEPT !.status = s].node = f.node
          /\ [f EXCEPT !.status = s].status = s
      BY <1>6, <1>9, SetStatus
    <3> QED
      BY <2>2, <3>1
  <2>5. \A o \in Managers : request'[<<e, o>>] # "WAITING"
    <3> SUFFICES ASSUME NEW o \in Managers, o # m
                 PROVE  request'[<<e, o>>] # "WAITING"
      BY <1>3, <1>4
    <3>1. <<e, o>> # <<e, m>>
      OBVIOUS
    <3>2. request[<<e, o>>] # "WAITING"
      BY <1>6, <1>9, <2>3 DEF OpenRows, AskedRow
    <3> QED
      BY <1>3, <3>1, <3>2
  <2>6. OpenRows'
    BY <1>3, <2>2, <2>5 DEF OpenRows, AskedRow
  <2>7. AnswerOf(flow'[e], request'[<<e, m>>])
    BY <1>3, <1>4, <2>1, <2>4 DEF AnswerOf
  <2>8. TheirAnswers'
    <3> SUFFICES ASSUME NEW d \in Domains, flow'[d].status \in {"YES", "NO"}
                 PROVE  /\ flow'[d].node \in Requests
                        /\ AnswerOf(flow'[d], request'[<<d, Manager[flow'[d].node]>>])
      BY DEF TheirAnswers, AnswerOf
    <3>1. CASE d = e
      BY <2>3, <2>4, <2>7, <3>1
    <3>2. CASE d # e
      <4>1. flow'[d] = flow[d]
        BY <2>2, <3>2
      <4> QED
        BY <1>7, <3>2, <4>1
    <3> QED
      BY <3>1, <3>2
  <2> QED
    BY <2>6, <2>8
<1> QED
  BY <1>8, <1>9

\* Flows that are all removed, with questions that are closed.
LEMMA ClosedRows ==
    ASSUME TInv, flow' = NoFlows
    PROVE  OpenRows' /\ TheirAnswers'
<1>1. \A d \in Domains : flow'[d] = NoFlow
  BY DomainTypes
<1> QED
  BY <1>1 DEF OpenRows, AskedRow, TheirAnswers, NoFlow

\* The first rows of a domain, while nobody is asked.
LEMMA StartRows ==
    ASSUME TInv, StartsAlone, OpenRows, TheirAnswers, StartNext
    PROVE  OpenRows' /\ TheirAnswers'
<1>1. /\ TypeOK /\ task.at \in Domains /\ NobodyAsked /\ request' = request
  BY DEF StartNext, TInv, AtADomain, StartsAlone
<1>2. CASE flow' = NoFlows
  BY <1>2, ClosedRows
<1>3. CASE flow' = flow
  BY <1>1, <1>3, RowsKeep
<1>4. CASE flow' = [flow EXCEPT ![task.at] = Arrive(Start[task.at])]
  <2>1. /\ flow'[task.at] = Arrive(Start[task.at])
        /\ \A d \in Domains \ {task.at} : flow'[d] = flow[d]
    BY <1>1, <1>4 DEF TypeOK
  <2>2. Arrive(Start[task.at]).status \in {"WAITING", "READY"}
    BY DEF Arrive
  <2>3. OpenRows'
    BY <1>1 DEF OpenRows, NobodyAsked
  <2>4. \A d \in Domains : flow'[d].status \in {"YES", "NO"} => flow'[d] = flow[d]
    BY <2>1, <2>2
  <2>5. request' = request
    BY <1>1
  <2>6. TheirAnswers'
    BY <2>4, <2>5 DEF TheirAnswers, AnswerOf
  <2> QED
    BY <2>3, <2>6
<1> QED
  BY <1>2, <1>3, <1>4 DEF StartNext, StartFlow

LEMMA WorkRows ==
    ASSUME TInv, StartsAlone, OpenRows, TheirAnswers, Work
    PROVE  OpenRows' /\ TheirAnswers'
<1>1. CASE StartNext
  BY <1>1, StartRows
<1>2. CASE Visit
  <2>1. PICK e \in Domains : e = task.at
    BY <1>2 DEF Visit, TInv, AtADomain
  <2>2. request' = request
    BY <1>2 DEF Visit
  <2>3. CASE flow' = flow
    BY <2>2, <2>3, RowsKeep
  <2>4. CASE flow[e] # NoFlow /\ flow' = [flow EXCEPT ![e].status = "READY"]
    <3>1. PICK f \in Flows : f = flow[e]
      BY DEF TInv, TypeOK
    <3>2. /\ flow'[e] = [f EXCEPT !.status = "READY"]
          /\ \A d \in Domains \ {e} : flow'[d] = flow[d]
      BY <2>4, <3>1 DEF TInv, TypeOK
    <3>3. /\ [f EXCEPT !.status = "READY"].node = f.node
          /\ [f EXCEPT !.status = "READY"].status = "READY"
      BY <2>4, <3>1, SetStatus
    <3> QED
      BY <2>2, <2>4, <3>1, <3>2, <3>3, RowsKeep
  <2> QED
    BY <1>2, <2>1, <2>3, <2>4 DEF Visit
<1>3. CASE NextDomain \/ NotAskedYet
  <2>1. request' = request /\ flow' = flow
    BY <1>3 DEF NextDomain, NotAskedYet
  <2> QED
    BY <2>1, RowsKeep
<1>4. CASE Decide
  <2>1. request' = request /\ (flow' = flow \/ flow' = NoFlows)
    BY <1>4 DEF Decide
  <2> QED
    BY <2>1, RowsKeep, ClosedRows
<1>5. CASE Approve \/ Deny
  <2>1. flow' = NoFlows
    BY <1>5 DEF Approve, Deny
  <2> QED
    BY <2>1, ClosedRows
<1>6. CASE Filter \/ Answered
  <2>1. /\ Running /\ flow[task.at] # NoFlow /\ request' = request
        /\ \/ Kind[flow[task.at].node] = "filter"
           \/ flow[task.at].status \in {"YES", "NO"}
    BY <1>6 DEF Filter, Answered, At
  <2>2. PICK e \in Domains : e = task.at
    BY <2>1, RunningFlow
  <2>3. PICK status : MoveOn(task.at, status)
    BY <1>6 DEF Filter, Answered
  <2>4. PICK n \in Nodes : /\ flow'[e] = Arrive(n)
                           /\ \A d \in Domains \ {e} : flow'[d] = flow[d]
    BY <2>1, <2>2, <2>3, MoveOnFlow
  <2>5. flow[e] \in Flows
    BY <2>1, <2>2, RunningFlow
  <2>6. flow[e].node \notin Requests \/ flow[e].status \in {"YES", "NO"}
    BY <2>1, <2>2, <2>5, FlowRows
  <2> QED
    BY <2>1, <2>2, <2>4, <2>6, MovedOn
<1>7. CASE Ask
  BY <1>7, AskRows
<1>8. CASE Accept
  <2>1. PICK e \in Domains : e = task.at
    BY <1>8, RunningFlow DEF Accept, At
  <2>2. /\ request' = request /\ flow'[e] = NoFlow
        /\ \A d \in Domains \ {e} : flow'[d] = flow[d]
    BY <1>8, <2>1 DEF Accept, TInv, TypeOK
  <2> QED
    BY <2>2, RowsKeep
<1> QED
  BY <1>1, <1>2, <1>3, <1>4, <1>5, <1>6, <1>7, <1>8 DEF Work, Execute

\* A request that is served does not create the flows again.
LEMMA TaskStarts ==
    ASSUME TInv,
           \/ Work
           \/ \E r \in Domains \X Managers, answer \in Answers : Answer(r, answer)
    PROVE  /\ task'.pc = "start" => task.pc = "start"
           /\ auth' = "UNEXECUTED" => auth = "UNEXECUTED"
<1>0. TypeOK
  BY DEF TInv
<1>1. CASE StartNext
  BY <1>1 DEF StartNext, StartFlow
<1>2. CASE Visit \/ NextDomain
  <2>1. task'.pc \in {"decide", "run", "next", "visit"}
    BY <1>0, <1>2 DEF Visit, NextDomain, Goto, TypeOK, Tasks
  <2> QED
    BY <1>2, <2>1 DEF Visit, NextDomain
<1>3. CASE Decide \/ Approve
  <2>1. auth' \in {auth, "AUTHORIZED"}
    BY <1>3 DEF Decide, Approve
  <2>2. ContinueWorkflows(TRUE) \/ task' = Idle \/ Goto("approve")
    BY <1>3 DEF Decide, Approve
  <2>3. task'.pc \in {"visit", "approve", "idle"}
    BY <1>0, <2>2, TaskSteps DEF PCs
  <2> QED
    BY <2>1, <2>3
<1>4. CASE Execute
  <2>1. Running /\ auth' \in {auth, "DENIED"}
    BY <1>4 DEF Execute, Filter, Answered, NotAskedYet, Ask, Accept, Deny, At
  <2>2. task' = task \/ LoopEnds
    BY <1>4 DEF Execute, Filter, Answered, NotAskedYet, Ask, Accept, Deny
  <2>3. LoopEnds => task'.pc \in {"visit", "next"}
    BY <2>1, LoopEndTypes DEF Running
  <2> QED
    BY <2>1, <2>2, <2>3
<1>5. CASE \E r \in Domains \X Managers, answer \in Answers : Answer(r, answer)
  <2>1. auth' = auth
    BY <1>5 DEF Answer
  <2>2. PICK d : \/ task' = task
                 \/ task' = [Idle EXCEPT !.pc = "respond", !.at = d]
    BY <1>5 DEF Answer
  <2>3. [Idle EXCEPT !.pc = "respond", !.at = d].pc = "respond"
    BY DEF Idle
  <2> QED
    BY <2>1, <2>2, <2>3
<1> QED
  BY <1>1, <1>2, <1>3, <1>4, <1>5 DEF Work

LEMMA AloneStep ==
    ASSUME TInv, StartsAlone, LateAnswers = FALSE, MayDisable = FALSE, [Next]_vars
    PROVE  StartsAlone'
<1>1. CASE RequestAuthorization
  <2>1. auth = "UNEXECUTED" /\ auth' = "WAITING" /\ request' = request
    BY <1>1 DEF RequestAuthorization
  <2> QED
    BY <2>1 DEF StartsAlone, NobodyAsked
<1>2. CASE \/ Work
           \/ \E r \in Domains \X Managers, answer \in Answers : Answer(r, answer)
  <2>1. /\ task'.pc = "start" => task.pc = "start"
        /\ auth' = "UNEXECUTED" => auth = "UNEXECUTED"
    BY <1>2, TaskStarts
  <2>2. Work => task.pc # "idle"
    BY DEF Work, StartNext, Visit, NextDomain, Decide, Approve, Execute,
       Filter, Answered, NotAskedYet, Ask, Accept, Deny, At, Running
  <2>3. (\E r \in Domains \X Managers, answer \in Answers : Answer(r, answer))
            => ~NobodyAsked /\ task.pc = "idle"
    BY DEF Answer, NobodyAsked
  <2>4. auth # "UNEXECUTED" /\ auth' # "UNEXECUTED"
    BY <1>2, <2>1, <2>2, <2>3 DEF StartsAlone
  <2>5. task.pc = "start" => NobodyAsked /\ request' = request
    BY <1>2, <2>3 DEF StartsAlone, Work, StartNext, Visit, NextDomain, Decide, Approve,
       Execute, Filter, Answered, NotAskedYet, Ask, Accept, Deny, At, Running
  <2> QED
    BY <2>1, <2>4, <2>5 DEF StartsAlone, NobodyAsked
<1>3. CASE Cancel \/ Expire
  <2>1. task' = task /\ (NobodyAsked => request' = request /\ auth' = auth)
    BY <1>3 DEF Cancel, Expire, NobodyAsked, Pending
  <2>2. auth' = "UNEXECUTED" => auth = "UNEXECUTED"
    BY <1>3 DEF Cancel, Expire
  <2> QED
    BY <2>1, <2>2 DEF StartsAlone, NobodyAsked
<1>4. CASE UNCHANGED vars
  BY <1>4 DEF vars, StartsAlone, NobodyAsked
<1> QED
  BY <1>1, <1>2, <1>3, <1>4 DEF Next, Disable

LEMMA AskedInit == Init => AskedInv
<1> SUFFICES ASSUME Init PROVE AskedInv
  OBVIOUS
<1>1. TInv
  BY InitTypes
<1>2. task = Idle /\ task.pc = "idle"
  BY DEF Init, Idle
<1>3. \A d \in Domains : flow[d] = NoFlow /\ flow[d].status = "none"
  BY DomainTypes DEF Init, NoFlow
<1>4. NobodyAsked
  BY DEF Init, NobodyAsked
<1> QED
  BY <1>1, <1>2, <1>3, <1>4 DEF AskedInv, StartsAlone, OpenRows, AskedRow,
     TheirAnswers

LEMMA AskedStep ==
    ASSUME AskedInv, LateAnswers = FALSE, MayDisable = FALSE, [Next]_vars
    PROVE  AskedInv'
<1> USE DEF AskedInv
<1>1. TInv' /\ StartsAlone'
  BY NextTypes, AloneStep
<1>2. ASSUME Work
      PROVE  OpenRows' /\ TheirAnswers'
  BY <1>2, WorkRows
<1>3. ASSUME NEW r \in Domains \X Managers, NEW answer \in Answers,
             Answer(r, answer)
      PROVE  OpenRows' /\ TheirAnswers'
  BY <1>3, AnswerRows
<1>4. CASE RequestAuthorization \/ UNCHANGED vars
  <2>1. request' = request /\ flow' = flow
    BY <1>4 DEF RequestAuthorization, vars
  <2> QED
    BY <1>1, <2>1, RowsKeep
<1>5. CASE Cancel \/ Expire
  <2>1. flow' = NoFlows \/ (flow' = flow /\ request' = request)
    BY <1>5 DEF Cancel, Expire
  <2> QED
    BY <1>1, <2>1, RowsKeep, ClosedRows
<1> QED
  BY <1>1, <1>2, <1>3, <1>4, <1>5 DEF Next, Disable

\* createUserAuth, createGroupAuth and BpmFlow::response put an answer into a flow
\* only if it is the one of the manager whom its node asks, or of the requester,
\* who agrees: when requests are served one after the other, each to its end.
THEOREM AskedOnesAnswer ==
    ASSUME LateAnswers = FALSE, MayDisable = FALSE
    PROVE  Spec => []OnlyTheAskedAnswers
<1>1. AskedInv /\ [Next]_vars => AskedInv'
  BY AskedStep
<1>2. AskedInv => OnlyTheAskedAnswers
  BY AnswersAreTheirs DEF AskedInv
<1> QED
  BY <1>1, <1>2, AskedInit, PTL DEF Spec

-----------------------------------------------------------------------------
(***************************************************************************)
(* One question at a time.                                                 *)
(***************************************************************************)

\* The pass that may not ask finds the flows as they arrived.
NotAsking ==
    task.pc = "start" \/ (InLoop /\ ~task.asking) =>
        NobodyAsked /\ \A d \in Domains : Fresh(d)

\* A question that is open ends the loop.
EndsWithQuestion == task.pc \notin {"idle", "next", "decide"} => Pending = {}

\* What follows an answer is not asked before the next pass.
RespondingRow(f) == f # NoFlow /\ f.node \in Requests => f.status # "READY"
Responding == task.pc = "respond" => RespondingRow(flow[task.at])

OneOpen == \A r, s \in Pending : r = s
OpenWaits == \A r \in Pending : auth = "WAITING" /\ flow[r[1]] # NoFlow

PromptInv ==
    /\ FlowsWait
    /\ task.pc = "start" => auth = "WAITING"
    /\ NotAsking
    /\ EndsWithQuestion
    /\ Responding
    /\ OneOpen
    /\ OpenWaits

LEMMA NobodyOpen == NobodyAsked => Pending = {}
BY DEF NobodyAsked, Pending

\* Nothing is open: nothing is claimed of it.
LEMMA NoneOpen ==
    ASSUME Pending' = {}
    PROVE  OneOpen' /\ OpenWaits' /\ EndsWithQuestion'
BY DEF OneOpen, OpenWaits, EndsWithQuestion

LEMMA RequestAuthorizationPrompt ==
    ASSUME AskedInv, PromptInv, RequestAuthorization
    PROVE  PromptInv'
<1>1. /\ auth = "UNEXECUTED" /\ auth' = "WAITING"
      /\ flow' = flow /\ request' = request
      /\ task' = [Idle EXCEPT !.pc = "start", !.at = 1]
  BY DEF RequestAuthorization
<1>2. task'.pc = "start"
  BY <1>1 DEF AskedInv, TInv, TypeOK, Idle
<1>3. NobodyAsked' /\ \A d \in Domains : flow'[d] = NoFlow
  BY <1>1 DEF AskedInv, StartsAlone, NobodyAsked, PromptInv, FlowsWait
<1>4. Pending' = {}
  BY <1>3 DEF NobodyAsked, Pending
<1>5. FlowsWait' /\ NotAsking' /\ Responding'
  BY <1>2, <1>3 DEF FlowsWait, NotAsking, Responding, Fresh, FreshRow
<1> QED
  BY <1>1, <1>4, <1>5, NoneOpen DEF PromptInv

LEMMA StartNextPrompt ==
    ASSUME AskedInv, PromptInv, StartNext
    PROVE  PromptInv'
<1>1. /\ TypeOK /\ task.pc = "start" /\ task.at \in Domains
      /\ auth = "WAITING" /\ NobodyAsked /\ request' = request
      /\ \A d \in Domains : Fresh(d)
  BY DEF AskedInv, TInv, AtADomain, PromptInv, NotAsking, StartNext
<1>2. NobodyAsked' /\ Pending' = {}
  BY <1>1 DEF NobodyAsked, Pending
<1>3. FlowsWait' /\ \A d \in Domains : Fresh(d)'
  <2>1. CASE flow' = NoFlows
    BY <2>1, DomainTypes DEF FlowsWait, Fresh, FreshRow
  <2>2. CASE flow' = flow /\ auth' = auth
    BY <1>1, <2>2 DEF PromptInv, FlowsWait, Fresh
  <2>3. CASE /\ task.at \in Known /\ auth' = auth
             /\ flow' = [flow EXCEPT ![task.at] = Arrive(Start[task.at])]
    <3>1. PICK n \in Nodes : n = Start[task.at]
      BY <1>1, WorkflowAssumption
    <3>2. /\ flow'[task.at] = Arrive(n)
          /\ \A d \in Domains \ {task.at} : flow'[d] = flow[d]
      BY <1>1, <2>3, <3>1 DEF TypeOK
    <3>3. FreshRow(Arrive(n))
      BY FlowRows DEF FreshRow
    <3> QED
      BY <1>1, <2>3, <3>2, <3>3 DEF PromptInv, FlowsWait, Fresh
  <2> QED
    BY <1>1, <2>1, <2>2, <2>3 DEF StartNext, StartFlow
<1>4. /\ task'.pc \in {"start", "visit"}
      /\ task'.pc = "start" => auth' = "WAITING"
  <2>1. CASE auth' = "WAITING" /\ task' = [task EXCEPT !.at = @ + 1]
    BY <1>1, <2>1 DEF TypeOK, Tasks
  <2>2. CASE ContinueWorkflows(FALSE)
    BY <1>1, <2>2, TaskSteps
  <2> QED
    BY <2>1, <2>2 DEF StartNext
<1> QED
  BY <1>2, <1>3, <1>4, NoneOpen DEF PromptInv, NotAsking, Responding

LEMMA LoopPrompt ==
    ASSUME AskedInv, PromptInv,
           Visit \/ NextDomain \/ Decide \/ Approve
    PROVE  PromptInv'
<1>0. /\ TypeOK
      /\ request' = request /\ Pending' = Pending /\ (NobodyAsked => NobodyAsked')
  BY DEF AskedInv, TInv, Visit, NextDomain, Decide, Approve, Pending, NobodyAsked
<1>1. CASE Visit
  <2>1. PICK e \in Domains : e = task.at
    BY <1>1 DEF Visit, AskedInv, TInv, AtADomain
  <2>2. Pending = {} /\ auth' = auth
    BY <1>1 DEF Visit, PromptInv, EndsWithQuestion
  <2>3. /\ task'.pc \in {"decide", "run", "next"}
        /\ task'.asking = task.asking
    <3>1. PICK pc \in {"decide", "run", "next"} : Goto(pc)
      BY <1>1 DEF Visit
    <3> QED
      BY <1>0, <3>1, TaskSteps DEF PCs
  <2>4. \/ flow' = flow
        \/ task.asking /\ flow[e] # NoFlow
               /\ \A d \in Domains \ {e} : flow'[d] = flow[d]
    BY <1>0, <1>1, <2>1 DEF Visit, TypeOK
  <2>5. FlowsWait'
    BY <2>2, <2>4 DEF PromptInv, FlowsWait
  <2>6. NotAsking'
    BY <1>0, <1>1, <2>3, <2>4 DEF Visit, PromptInv, NotAsking, InLoop, Fresh
  <2> QED
    BY <1>0, <2>2, <2>3, <2>5, <2>6, NoneOpen DEF PromptInv, Responding
<1>2. CASE NextDomain
  <2>1. auth' = auth /\ flow' = flow
    BY <1>2 DEF NextDomain
  <2>2. /\ task'.asking = task.asking
        /\ task'.pc = "decide" \/ (task'.pc = "visit" /\ Pending = {})
    <3>1. CASE Goto("decide")
      BY <1>0, <3>1, TaskSteps DEF PCs
    <3>2. CASE /\ task' = [task EXCEPT !.pc = "visit", !.at = @ + 1]
               /\ Pending = {}
      BY <1>0, <3>2 DEF TypeOK, Tasks
    <3> QED
      BY <1>2, <3>1, <3>2 DEF NextDomain
  <2>3. FlowsWait' /\ OneOpen' /\ OpenWaits'
    BY <1>0, <2>1 DEF PromptInv, FlowsWait, OneOpen, OpenWaits
  <2>4. NotAsking'
    BY <1>0, <1>2, <2>1, <2>2 DEF NextDomain, PromptInv, NotAsking, InLoop, Fresh
  <2> QED
    BY <1>0, <2>2, <2>3, <2>4 DEF PromptInv, EndsWithQuestion, Responding
<1>3. CASE Decide
  <2>1. auth' = auth
    BY <1>3 DEF Decide
  <2>2. CASE ~task.asking
    <3>1. ContinueWorkflows(TRUE) /\ flow' = flow
      BY <1>3, <2>2 DEF Decide
    <3>2. task'.pc = "visit" /\ task'.asking = TRUE
      BY <1>0, <3>1, TaskSteps
    <3>3. Pending = {}
      BY <1>3, <2>2, NobodyOpen DEF Decide, PromptInv, NotAsking, InLoop
    <3>4. FlowsWait'
      BY <2>1, <3>1 DEF PromptInv, FlowsWait
    <3> QED
      BY <1>0, <3>2, <3>3, <3>4, NoneOpen DEF PromptInv, NotAsking, Responding
  <2>3. CASE task' = Idle /\ flow' = flow
    <3>1. task'.pc = "idle"
      BY <1>0, <2>3, TaskSteps
    <3>2. FlowsWait' /\ OneOpen' /\ OpenWaits'
      BY <1>0, <2>1, <2>3 DEF PromptInv, FlowsWait, OneOpen, OpenWaits
    <3> QED
      BY <3>1, <3>2 DEF PromptInv, NotAsking, InLoop, EndsWithQuestion, Responding
  <2>4. CASE /\ Pending = {} /\ flow' = flow
             /\ Goto("approve")
    <3>1. task'.pc = "approve"
      BY <1>0, <2>4, TaskSteps DEF PCs
    <3>2. FlowsWait'
      BY <2>1, <2>4 DEF PromptInv, FlowsWait
    <3> QED
      BY <1>0, <2>4, <3>1, <3>2, NoneOpen DEF PromptInv, NotAsking, InLoop, Responding
  <2>5. CASE Pending = {} /\ flow' = NoFlows /\ task' = Idle
    <3>1. task'.pc = "idle"
      BY <1>0, <2>5, TaskSteps
    <3>2. FlowsWait'
      BY <2>5, DomainTypes DEF FlowsWait
    <3> QED
      BY <1>0, <2>5, <3>1, <3>2, NoneOpen DEF PromptInv, NotAsking, InLoop, Responding
  <2> QED
    BY <1>3, <2>2, <2>3, <2>4, <2>5 DEF Decide
<1>4. CASE Approve
  <2>1. Pending = {} /\ flow' = NoFlows /\ task' = Idle
    BY <1>4 DEF Approve, PromptInv, EndsWithQuestion
  <2>2. task'.pc = "idle"
    BY <1>0, <2>1, TaskSteps
  <2>3. FlowsWait'
    BY <2>1, DomainTypes DEF FlowsWait
  <2> QED
    BY <1>0, <2>1, <2>2, <2>3, NoneOpen DEF PromptInv, NotAsking, InLoop, Responding
<1> QED
  BY <1>1, <1>2, <1>3, <1>4

\* BpmFlow::execute has run for the last time in this domain.
LEMMA LoopEndPrompt ==
    ASSUME AskedInv, PromptInv, Running, LoopEnds,
           task.pc = "respond" => Pending' = {},
           task.pc = "run" /\ ~task.asking =>
               NobodyAsked' /\ \A d \in Domains : Fresh(d)'
    PROVE  /\ task'.pc \in {"visit", "next"}
           /\ NotAsking' /\ EndsWithQuestion' /\ Responding'
<1>1. /\ task.pc = "respond" => task'.pc = "visit" /\ task'.asking = TRUE
      /\ task.pc = "run" =>
            task'.pc = "next" /\ task'.asking = task.asking
  BY LoopEndTypes DEF AskedInv
<1> QED
  BY <1>1 DEF Running, NotAsking, InLoop, EndsWithQuestion, Responding

\* What is known of the flow that runs.
LEMMA RunningPrompt ==
    ASSUME AskedInv, PromptInv, Running
    PROVE  /\ TypeOK /\ task.at \in Domains
           /\ flow[task.at] \in Flows
           /\ Pending = {}
           /\ task.pc = "respond" => RespondingRow(flow[task.at])
           /\ task.pc = "run" /\ ~task.asking =>
                 NobodyAsked /\ \A d \in Domains : Fresh(d)
           /\ flow[task.at] # NoFlow => task.at \in Known /\ auth = "WAITING"
<1>1. TInv /\ task.at \in Domains /\ flow[task.at] \in Flows
  BY RunningFlow DEF AskedInv
<1> QED
  BY <1>1 DEF TInv, PromptInv, FlowsWait, NotAsking, InLoop, EndsWithQuestion,
     Responding, Running

\* The loop ends: nothing was asked, and no flow is new.
LEMMA EndPrompt ==
    ASSUME AskedInv, PromptInv,
           NotAskedYet \/ Accept \/ Deny
    PROVE  PromptInv'
<1>1. /\ Running /\ LoopEnds
      /\ request' = request /\ Pending' = Pending /\ (NobodyAsked => NobodyAsked')
  BY DEF NotAskedYet, Accept, Deny, At, Pending, NobodyAsked
<1>2. TypeOK /\ task.at \in Domains /\ Pending = {}
  BY <1>1, RunningPrompt
<1>3. \/ auth' = auth /\ \A d \in Domains : flow'[d] \in {flow[d], NoFlow}
      \/ \A d \in Domains : flow'[d] = NoFlow
  BY <1>2, DomainTypes DEF NotAskedYet, Accept, Deny, TypeOK
<1>4. FlowsWait'
  BY <1>3 DEF PromptInv, FlowsWait
<1>5. \A d \in Domains : Fresh(d) => Fresh(d)'
  BY <1>3 DEF Fresh, FreshRow
<1>6. task'.pc \in {"visit", "next"} /\ NotAsking' /\ Responding'
  <2>1. task.pc = "run" /\ ~task.asking =>
            NobodyAsked' /\ \A d \in Domains : Fresh(d)'
    BY <1>1, <1>5, RunningPrompt
  <2> QED
    BY <1>1, <1>2, <2>1, LoopEndPrompt
<1> QED
  BY <1>1, <1>2, <1>4, <1>6, NoneOpen DEF PromptInv

\* The flow of one domain changes its row, and the loop goes on.
LEMMA RunsOnPrompt ==
    ASSUME AskedInv, PromptInv, Running,
           flow[task.at] # NoFlow,
           auth' = auth, request' = request, task' = task,
           \A d \in Domains \ {task.at} : flow'[d] = flow[d],
           task.pc = "respond" => RespondingRow(flow'[task.at]),
           task.pc = "run" /\ ~task.asking => FreshRow(flow'[task.at])
    PROVE  PromptInv'
<1>1. /\ task.at \in Domains /\ Pending = {} /\ Pending' = {}
      /\ (NobodyAsked => NobodyAsked')
  BY RunningPrompt DEF Pending, NobodyAsked
<1>2. FlowsWait'
  BY <1>1 DEF PromptInv, FlowsWait
<1>3. NotAsking'
  BY <1>1 DEF PromptInv, NotAsking, InLoop, Running, Fresh
<1> QED
  BY <1>1, <1>2, <1>3, NoneOpen DEF PromptInv, Responding, Running

LEMMA MovesOnPrompt ==
    ASSUME AskedInv, PromptInv, Filter \/ Answered
    PROVE  PromptInv'
<1>1. /\ Running /\ flow[task.at] # NoFlow
      /\ auth' = auth /\ request' = request /\ task' = task
  BY DEF Filter, Answered, At
<1>2. PICK status : MoveOn(task.at, status)
  BY DEF Filter, Answered
<1>3. PICK n \in Nodes : /\ flow'[task.at] = Arrive(n)
                         /\ \A d \in Domains \ {task.at} : flow'[d] = flow[d]
  BY <1>1, <1>2, MoveOnFlow DEF AskedInv
<1>4. FreshRow(Arrive(n)) /\ RespondingRow(Arrive(n))
  BY FlowRows DEF FreshRow, RespondingRow
<1> QED
  BY <1>1, <1>3, <1>4, RunsOnPrompt

LEMMA AskPrompt ==
    ASSUME AskedInv, PromptInv, Ask
    PROVE  PromptInv'
<1>1. /\ Running /\ flow[task.at] # NoFlow
      /\ Kind[flow[task.at].node] \in {"user", "group"}
      /\ flow[task.at].status = "READY"
      /\ auth' = auth
  BY DEF Ask, At
<1>2. /\ TypeOK /\ Pending = {} /\ auth = "WAITING"
  BY <1>1, RunningPrompt
<1>3. PICK e \in Domains, f \in Flows : e = task.at /\ f = flow[e]
  BY <1>1, RunningPrompt
<1>4. f # NoFlow /\ f.node \in Requests /\ f.status = "READY"
  BY <1>1, <1>3, FlowRows
<1>5. task.pc = "run" /\ task.asking
  BY <1>1, <1>3, <1>4, RunningPrompt DEF Running, RespondingRow, Fresh, FreshRow
<1>6. CASE flow' = flow /\ request' = request /\ task' = task
  BY <1>1, <1>5, <1>6, RunsOnPrompt
<1>7. CASE flow' = [flow EXCEPT ![e].status = "YES"] /\ request' = request /\ task' = task
  <2>1. \A d \in Domains \ {e} : flow'[d] = flow[d]
    BY <1>2, <1>7 DEF TypeOK
  <2> QED
    BY <1>1, <1>3, <1>5, <1>7, <2>1, RunsOnPrompt
<1>8. CASE /\ request' = [request EXCEPT ![<<e, Manager[f.node]>>] = "WAITING"]
           /\ LoopEnds /\ flow' = flow
  <2>1. Pending' \subseteq {<<e, Manager[f.node]>>}
    BY <1>2, <1>8 DEF Pending, TypeOK
  <2>2. OneOpen' /\ OpenWaits'
    BY <1>1, <1>2, <1>3, <1>4, <1>8, <2>1 DEF OneOpen, OpenWaits
  <2>3. FlowsWait'
    BY <1>1, <1>8 DEF PromptInv, FlowsWait
  <2>4. /\ task'.pc \in {"visit", "next"}
        /\ NotAsking' /\ EndsWithQuestion' /\ Responding'
    BY <1>1, <1>5, <1>8, LoopEndPrompt
  <2> QED
    BY <2>2, <2>3, <2>4 DEF PromptInv
<1> QED
  BY <1>3, <1>6, <1>7, <1>8 DEF Ask

LEMMA AnswerPrompt ==
    ASSUME AskedInv, PromptInv, LateAnswers = FALSE,
           NEW r \in Domains \X Managers, NEW answer \in Answers, Answer(r, answer)
    PROVE  PromptInv' /\ task'.pc = "respond"
<1>1. /\ TypeOK /\ task.pc = "idle" /\ r \in Pending /\ auth' = auth
      /\ request' = [request EXCEPT ![r] = answer]
  BY DEF AskedInv, TInv, Answer, Pending
<1>2. PICK e \in Domains : e = r[1]
  OBVIOUS
<1>3. Pending' = {}
  BY <1>1 DEF PromptInv, OneOpen, Pending, TypeOK, Answers
<1>4. flow[e] # NoFlow
  BY <1>1, <1>2 DEF PromptInv, OpenWaits
<1>5. PICK s \in {"YES", "NO"} : flow' = [flow EXCEPT ![e].status = s]
  BY <1>2, <1>4 DEF Answer
<1>6. task'.pc = "respond" /\ task'.at = e
  <2>1. task' = [Idle EXCEPT !.pc = "respond", !.at = e]
    BY <1>2, <1>4 DEF Answer
  <2>2. task' = [Idle EXCEPT !.pc = "respond", !.at = e]
    BY <1>1, <2>1 DEF TypeOK
  <2> QED
    BY <2>2 DEF Idle
<1>7. flow'[e].status = s /\ \A d \in Domains \ {e} : flow'[d] = flow[d]
  BY <1>1, <1>5, SetStatus, <1>4 DEF TypeOK
<1>8. FlowsWait'
  BY <1>1, <1>4, <1>7 DEF PromptInv, FlowsWait
<1>9. NotAsking' /\ Responding'
  BY <1>6, <1>7 DEF NotAsking, InLoop, Responding, RespondingRow
<1> QED
  BY <1>3, <1>6, <1>8, <1>9, NoneOpen DEF PromptInv

\* A step that changes nothing of the circuit.
LEMMA StutterPrompt ==
    ASSUME PromptInv, auth' = auth, flow' = flow, request' = request,
           task' = task \/ task'.pc = "idle"
    PROVE  PromptInv'
<1>1. FlowsWait' /\ OneOpen' /\ OpenWaits'
  BY DEF PromptInv, FlowsWait, OneOpen, OpenWaits, Pending
<1>2. NotAsking' /\ EndsWithQuestion' /\ Responding'
  BY DEF PromptInv, NotAsking, InLoop, NobodyAsked, Fresh, EndsWithQuestion, Pending,
     Responding
<1> QED
  BY <1>1, <1>2 DEF PromptInv

LEMMA ClosingPrompt ==
    ASSUME AskedInv, PromptInv, Cancel \/ Expire
    PROVE  /\ PromptInv' /\ task' = task
           /\ \/ auth' = auth /\ flow' = flow /\ request' = request
              \/ auth = "WAITING" /\ auth' = "EXPIRED"
<1>0. TypeOK /\ task' = task
  BY DEF AskedInv, TInv, Cancel, Expire
<1>1. CASE auth' = auth /\ flow' = flow /\ request' = request
  BY <1>0, <1>1, StutterPrompt
<1>2. CASE Pending # {} /\ auth' = "EXPIRED" /\ flow' = NoFlows
  <2>1. Pending' = {}
    <3>1. CASE Expire
      <4>1. \A r \in Domains \X Managers :
               request'[r] = IF r \in Pending THEN "EXPIRED" ELSE request[r]
        BY <1>0, <3>1 DEF Expire, TypeOK
      <4>2. \A r \in Domains \X Managers : r \in Pending <=> request[r] = "WAITING"
        BY DEF Pending
      <4>3. \A r \in Domains \X Managers : request'[r] # "WAITING"
        BY <4>1, <4>2
      <4> QED
        BY <4>3 DEF Pending
    <3>2. CASE Cancel
      <4>1. PICK r \in Pending : request' = [request EXCEPT ![r] = "EXPIRED"]
        BY <1>2, <3>2 DEF Cancel
      <4>2. \A s \in Domains \X Managers : s # r => request'[s] = request[s]
        BY <1>0, <4>1 DEF TypeOK
      <4>3. request'[r] = "EXPIRED"
        BY <1>0, <4>1 DEF TypeOK, Pending
      <4> QED
        BY <4>2, <4>3 DEF PromptInv, OneOpen, Pending
    <3> QED
      BY <3>1, <3>2
  <2>2. task.pc \in {"idle", "next", "decide"} /\ auth = "WAITING"
    BY <1>2 DEF PromptInv, EndsWithQuestion, OpenWaits
  <2>3. \A d \in Domains : flow'[d] = NoFlow
    BY <1>2, DomainTypes
  <2>4. NotAsking' /\ Responding' /\ FlowsWait'
    <3>1. ~NobodyAsked
      BY <1>2, NobodyOpen
    <3>2. ~(InLoop /\ ~task.asking)
      BY <3>1 DEF PromptInv, NotAsking
    <3> QED
      BY <1>0, <2>2, <2>3, <3>2 DEF NotAsking, InLoop, Responding, FlowsWait
  <2> QED
    BY <1>0, <1>2, <2>1, <2>2, <2>4, NoneOpen DEF PromptInv
<1> QED
  BY <1>1, <1>2 DEF Cancel, Expire

LEMMA PromptStep ==
    ASSUME LateAnswers = FALSE, MayDisable = FALSE,
           AskedInv, PromptInv, [Next]_vars
    PROVE  PromptInv'
<1>1. CASE RequestAuthorization
  BY <1>1, RequestAuthorizationPrompt
<1>2. CASE Work
  BY <1>2, StartNextPrompt, LoopPrompt, EndPrompt, MovesOnPrompt, AskPrompt
     DEF Work, Execute
<1>3. ASSUME NEW r \in Domains \X Managers, NEW answer \in Answers, Answer(r, answer)
      PROVE  PromptInv'
  BY <1>3, AnswerPrompt
<1>5. CASE Cancel \/ Expire
  BY <1>5, ClosingPrompt
<1>6. CASE UNCHANGED vars
  BY <1>6, StutterPrompt DEF vars
<1> QED
  BY <1>1, <1>2, <1>3, <1>5, <1>6 DEF Next, Disable

LEMMA PromptInit ==
    ASSUME Init
    PROVE  AskedInv /\ PromptInv /\ task.pc = "idle" /\ auth = "UNEXECUTED"
<1>1. task = Idle /\ task.pc = "idle"
  BY DEF Init, Idle
<1>2. Pending = {} /\ \A d \in Domains : flow[d] = NoFlow
  BY DomainTypes DEF Init, Pending
<1>3. PromptInv
  BY <1>1, <1>2 DEF PromptInv, FlowsWait, NotAsking, InLoop, EndsWithQuestion,
     Responding, OneOpen, OpenWaits
<1> QED
  BY <1>1, <1>3, AskedInit DEF Init

\* createUserAuth and createGroupAuth ask a manager only while nobody else is
\* asked: when requests are served one after the other, each to its end.
THEOREM AskedOneByOne ==
    ASSUME LateAnswers = FALSE, MayDisable = FALSE
    PROVE  Spec => []OneQuestion
<1>1. Init => AskedInv /\ PromptInv
  BY PromptInit
<1>2. AskedInv /\ PromptInv /\ [Next]_vars => (AskedInv /\ PromptInv)'
  BY AskedStep, PromptStep
<1>3. PromptInv => OneQuestion
  <2> SUFFICES ASSUME PromptInv PROVE Cardinality(Pending) <= 1
    BY DEF OneQuestion
  <2>1. CASE Pending = {}
    BY <2>1, FS_EmptySet
  <2>2. CASE Pending # {}
    <3>1. PICK r \in Pending : TRUE
      BY <2>2
    <3>2. Pending = {r}
      BY DEF PromptInv, OneOpen
    <3>3. Cardinality(Pending) = 1
      BY <3>2, FS_Singleton, Zenon
    <3> QED
      BY <3>3
  <2> QED
    BY <2>1, <2>2
<1> QED
  BY <1>1, <1>2, <1>3, PTL DEF Spec

\* A request that came to its end while the circuit waits left a question open.
Awaited == task.pc = "idle" /\ auth = "WAITING" => Pending # {}

LEMMA AwaitedStep ==
    ASSUME LateAnswers = FALSE, MayDisable = FALSE, AskedInv, PromptInv, Awaited, [Next]_vars
    PROVE  Awaited'
<1>0. TypeOK
  BY DEF AskedInv, TInv
<1>1. CASE RequestAuthorization
  <2>1. task'.pc = "start"
    BY <1>0, <1>1 DEF RequestAuthorization, TypeOK, Idle
  <2> QED
    BY <2>1 DEF Awaited
<1>2. CASE StartNext
  <2>1. CASE ContinueWorkflows(FALSE)
    BY <1>0, <2>1, TaskSteps DEF Awaited
  <2>2. CASE task' = [task EXCEPT !.at = @ + 1]
    BY <1>0, <1>2, <2>2 DEF StartNext, TypeOK, Tasks, Awaited
  <2> QED
    BY <1>2, <2>1, <2>2 DEF StartNext
<1>3. CASE Visit \/ NextDomain
  <2>1. \/ \E pc \in {"decide", "run", "next"} : Goto(pc)
        \/ task' = [task EXCEPT !.pc = "visit", !.at = @ + 1]
    BY <1>3 DEF Visit, NextDomain
  <2>2. task'.pc # "idle"
    BY <1>0, <2>1 DEF Goto, TypeOK, Tasks
  <2> QED
    BY <2>2 DEF Awaited
<1>4. CASE Decide
  <2>1. CASE ContinueWorkflows(TRUE)
    BY <1>0, <2>1, TaskSteps DEF Awaited
  <2>2. CASE Goto("approve")
    BY <1>0, <2>2, TaskSteps DEF PCs, Awaited
  <2>3. CASE auth' = auth /\ request' = request /\ (Pending # {} \/ auth # "WAITING")
    BY <2>3 DEF Awaited, Pending
  <2> QED
    BY <1>4, <2>1, <2>2, <2>3 DEF Decide
<1>5. CASE Approve
  BY <1>5 DEF Approve, Awaited
<1>6. CASE Execute
  <2>1. Running /\ (task' = task \/ LoopEnds)
    BY <1>6 DEF Execute, Filter, Answered, NotAskedYet, Ask, Accept, Deny, At
  <2>2. task'.pc # "idle"
    BY <2>1, LoopEndTypes DEF AskedInv, Running
  <2> QED
    BY <2>2 DEF Awaited
<1>7. ASSUME NEW r \in Domains \X Managers, NEW answer \in Answers, Answer(r, answer)
      PROVE  Awaited'
  BY <1>7, AnswerPrompt DEF Awaited
<1>8. CASE Cancel \/ Expire
  BY <1>8, ClosingPrompt DEF Awaited, Pending
<1>9. CASE UNCHANGED vars
  BY <1>9 DEF vars, Awaited, Pending
<1> QED
  BY <1>1, <1>2, <1>3, <1>4, <1>5, <1>6, <1>7, <1>8, <1>9 DEF Next, Work, Disable

\* A circuit that waits while no request is served waits for a manager, and for
\* the one whose answer its flow will take: continueWorkflows leaves no circuit
\* waiting for nobody, if requests are served one after the other, to their end.
THEOREM WaitsForSomebody ==
    ASSUME LateAnswers = FALSE, MayDisable = FALSE
    PROVE  Spec => []WaitingIsAsked
<1> DEFINE Inv == AskedInv /\ PromptInv /\ Awaited
<1>1. Init => Inv
  BY PromptInit DEF Awaited
<1>2. Inv /\ [Next]_vars => Inv'
  BY AskedStep, PromptStep, AwaitedStep
<1>3. Inv => WaitingIsAsked
  <2> SUFFICES ASSUME Inv, task.pc = "idle", auth = "WAITING"
               PROVE  \E r \in Pending : /\ flow[r[1]].node \in Requests
                                         /\ Manager[flow[r[1]].node] = r[2]
    BY DEF WaitingIsAsked
  <2>1. PICK r \in Pending : TRUE
    BY DEF Awaited
  <2>2. PICK d \in Domains, m \in Managers : r = <<d, m>>
    BY DEF Pending
  <2>3. request[<<d, m>>] = "WAITING" /\ flow[d] # NoFlow
    BY <2>1, <2>2 DEF Pending, PromptInv, OpenWaits
  <2>4. flow[d].node \in Requests /\ Manager[flow[d].node] = m
    BY <2>3 DEF AskedInv, OpenRows, AskedRow
  <2> QED
    BY <2>1, <2>2, <2>4
<1> QED
  BY <1>1, <1>2, <1>3, PTL DEF Spec

-----------------------------------------------------------------------------
(***************************************************************************)
(* The promise.                                                            *)
(***************************************************************************)

\* Every step is one of AuthPromise, or changes none of its variables.
LEMMA PromiseStep ==
    ASSUME LateAnswers = FALSE, MayDisable = FALSE, NEW Q, AskedInv, PromptInv, IInv(Q), [Next]_vars
    PROVE  [Promise!Next]_(Promise!vars)
<1>0. TypeOK /\ Known \subseteq Domains
  BY DomainTypes DEF AskedInv, TInv
<1>1. CASE RequestAuthorization
  BY <1>1 DEF RequestAuthorization, Promise!Next, Promise!Begin
<1>2. CASE StartNext
  <2>1. PICK d \in Domains : d = task.at
    BY <1>2 DEF StartNext, AskedInv, TInv, AtADomain
  <2>2. auth = "WAITING"
    BY <1>2 DEF StartNext, PromptInv
  <2>3. CASE auth' = auth /\ verdict' = verdict
    BY <2>3 DEF Promise!vars
  <2>4. CASE d \in Known
    <3>1. verdict[d] = {}
      BY <1>2, <2>1, <2>2, <2>4, <1>0 DEF StartNext, IInv, InProgress, Domains
    <3>2. CASE auth' = auth /\ verdict' = [verdict EXCEPT ![d] = @ \union {"AUTHORIZED"}]
      <4>1. /\ verdict'[d] = {"AUTHORIZED"}
            /\ \A e \in Domains \ {d} : verdict'[e] = verdict[e]
        BY <1>0, <3>1, <3>2 DEF TypeOK
      <4> QED
        BY <1>0, <2>2, <2>4, <3>2, <4>1 DEF Promise!Next, Promise!Review
    <3>3. CASE auth' = "DENIED" /\ verdict' = [verdict EXCEPT ![d] = @ \union {"DENIED"}]
      <4>1. /\ "DENIED" \in verdict'[d]
            /\ \A e \in Domains \ {d} : verdict'[e] = verdict[e]
        BY <1>0, <3>3 DEF TypeOK
      <4> QED
        BY <1>0, <2>2, <2>4, <3>3, <4>1 DEF Promise!Next, Promise!Reject
    <3> QED
      BY <1>2, <2>1, <2>3, <2>4, <3>2, <3>3 DEF StartNext, StartFlow
  <2> QED
    BY <1>2, <2>1, <2>3, <2>4 DEF StartNext
<1>3. CASE Visit \/ NextDomain \/ Decide
  BY <1>3 DEF Visit, NextDomain, Decide, Promise!vars
<1>4. CASE Approve
  <2>1. auth = "WAITING" /\ flow = NoFlows /\ task.pc = "approve"
    BY <1>4 DEF Approve, IInv, Approving
  <2>2. \A d \in Known : verdict[d] = {"AUTHORIZED"}
    BY <1>0, <2>1, DomainTypes DEF IInv, InProgress
  <2> QED
    BY <1>4, <2>1, <2>2 DEF Approve, Promise!Next, Promise!Authorize
<1>5. CASE Execute
  <2>1. CASE Filter \/ Answered \/ NotAskedYet \/ Ask
    BY <2>1 DEF Filter, Answered, NotAskedYet, Ask, Promise!vars
  <2>2. CASE Accept \/ Deny
    <3>1. Running /\ flow[task.at] # NoFlow
      BY <2>2 DEF Accept, Deny, At
    <3>2. PICK d \in Known : d = task.at
      BY <3>1, RunningPrompt
    <3>3. auth = "WAITING" /\ flow[d] # NoFlow /\ task.pc # "start"
      BY <3>1, <3>2, RunningPrompt DEF Running
    <3>4. verdict[d] = {}
      BY <3>3 DEF IInv, InProgress
    <3>5. CASE Accept
      <4>1. /\ verdict'[d] = {"AUTHORIZED"} /\ auth' = auth
            /\ \A e \in Domains \ {d} : verdict'[e] = verdict[e]
        BY <1>0, <3>2, <3>4, <3>5 DEF Accept, TypeOK
      <4> QED
        BY <1>0, <3>3, <4>1 DEF Promise!Next, Promise!Review
    <3>6. CASE Deny
      <4>1. /\ "DENIED" \in verdict'[d] /\ auth' = "DENIED"
            /\ \A e \in Domains \ {d} : verdict'[e] = verdict[e]
        BY <1>0, <3>2, <3>6 DEF Deny, TypeOK
      <4> QED
        BY <1>0, <3>3, <4>1 DEF Promise!Next, Promise!Reject
    <3> QED
      BY <2>2, <3>5, <3>6
  <2> QED
    BY <1>5, <2>1, <2>2 DEF Execute
<1>6. ASSUME NEW r \in Domains \X Managers, NEW answer \in Answers, Answer(r, answer)
      PROVE  [Promise!Next]_(Promise!vars)
  BY <1>6 DEF Answer, Promise!vars
<1>7. CASE Cancel \/ Expire
  <2>1. verdict' = verdict
    BY <1>7 DEF Cancel, Expire
  <2>2. auth' = auth \/ (auth = "WAITING" /\ auth' = "EXPIRED")
    BY <1>7, ClosingPrompt
  <2> QED
    BY <2>1, <2>2 DEF Promise!Next, Promise!Expire, Promise!vars
<1>8. CASE UNCHANGED vars
  BY <1>8 DEF vars, Promise!vars
<1> QED
  BY <1>1, <1>2, <1>3, <1>4, <1>5, <1>6, <1>7, <1>8 DEF Next, Work, Disable

\* The authorization implements AuthPromise: the domains of the path give their
\* verdicts while the circuit waits, one decision follows from them, and neither
\* continueWorkflows nor a cancellation or an expiry takes it back.  Requests are
\* served one after the other, to their end, answers are prompt, and no node
\* behind the answer of the requester asks a manager.
THEOREM KeepsThePromise ==
    ASSUME LateAnswers = FALSE, MayDisable = FALSE, NEW Q, QuietNodes(Q)
    PROVE  Spec => PromiseKept
<1> DEFINE Inv == AskedInv /\ PromptInv /\ IInv(Q)
<1>1. Init => Inv
  BY PromptInit, InitInvariant
<1>2. Inv /\ [Next]_vars => Inv'
  BY AskedStep, PromptStep, NextKeeps
<1>3. Init => Promise!Init
  BY DomainTypes DEF Init, Promise!Init
<1>4. Inv /\ [Next]_vars => [Promise!Next]_(Promise!vars)
  BY PromiseStep
<1> QED
  BY <1>1, <1>2, <1>3, <1>4, PTL DEF Spec, PromiseKept, Promise!Spec
=============================================================================
