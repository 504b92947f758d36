------------------------ MODULE AuthOverlap_proofs -------------------------
(***************************************************************************)
(* Proof about module AuthOverlap: a workflow gives no verdict that nobody *)
(* gave, however many requests overlap and wherever they are killed.       *)
(*                                                                         *)
(* The invariant follows one verdict that the workflow of a domain leaves  *)
(* to its managers, along a set Q of nodes that only an answer leads out   *)
(* of: until there is one, every row of the domain and every copy that a   *)
(* worker holds of one, however old, is at a node of Q and will go to one. *)
(***************************************************************************)
EXTENDS AuthOverlap, TLAPS

Statuses == {"WAITING", "READY", "YES", "NO"}
Verdicts == {"UNEXECUTED", "WAITING", "AUTHORIZED", "DENIED", "EXPIRED"}
Rows == [id : Ids, domain : Domains, node : Nodes, status : Statuses]
Questions ==
    [id : Ids, domain : Domains, manager : {Manager[n] : n \in Nodes},
     status : Answers \union {"WAITING", "EXPIRED"}]

Backs == {"continue", "next", "started", "end", "expire_read", "expire_save"}
Telling == {"accept", "tell_yes"}
Denying == {"deny", "deny_count", "deny_all", "deny_read", "deny_save", "deny_tell"}
Replying == {"reply", "respond", "respond_save"}
Looping == {"foreach", "insert", "delete"}
Plain ==
    {"idle", "begin", "begin_save", "start", "visit", "count", "find", "mark", "decide",
     "read_circuit", "approve", "provision", "remove", "removing", "execute", "ask",
     "question", "cancel", "late", "expire", "disabled", "redo", "forget"}
    \union Backs
Pcs == Plain \union Telling \union Denying \union Replying \union Looping
         \union {"insert_first", "say_yes"}

Tasks ==
    [pc : Pcs, at : Nat, asking : BOOLEAN, back : Backs, value : Verdicts \union {"none"},
     sawCancel : BOOLEAN, todo : SUBSET Rows, copy : SUBSET Rows, left : SUBSET Rows,
     asked : SUBSET Questions]

Types ==
    /\ auth \in Verdicts
    /\ cancelled \in BOOLEAN
    /\ flow \subseteq Rows
    /\ request \subseteq Questions
    /\ verdict \in [Domains -> SUBSET Answers]
    /\ task \in [Workers -> Tasks]

\* Rows and copies with one key are versions of one row: a status may differ.
Same(r, s) == r.id = s.id => r.domain = s.domain /\ r.node = s.node
Copies(t) == t.todo \union t.copy
Versions ==
    /\ \A r, s \in flow : Same(r, s)
    /\ \A r \in flow : \A w \in Workers : \A s \in Copies(task[w]) : Same(r, s)

\* What a worker knows where it is, of the answers that were sent.
Knows(t, answers) ==
    /\ t.pc = "insert_first" => t.at \in Domains
    /\ t.pc \in Replying => t.value \in Answers /\ <<t.at, t.value>> \in answers
    /\ t.pc \in Looping => \A f \in t.todo : f.domain = t.at
    /\ t.pc = "respond_save" => \A f \in t.copy : f.domain = t.at
    /\ t.pc = "say_yes" => \A f \in t.copy : Kind[f.node] = "user" /\ Manager[f.node] = Requester

\* A row or a copy that stays in Q, and a worker that keeps domain d there.
Stays(f, Q) ==
    /\ f.node \in Q
    /\ f.status = "YES" => Yes[f.node] \in Q
    /\ f.status = "NO" => No[f.node] \in Q
Spares(t, d, a, Q) ==
    /\ \A f \in Copies(t) : f.domain = d => Stays(f, Q)
    /\ t.pc = "insert" =>
          \A f \in t.copy : f.domain = d =>
              (IF f.status = "YES" THEN Yes[f.node] ELSE No[f.node]) \in Q
    /\ t.pc \in Telling /\ t.at = d => a # "AUTHORIZED"
    /\ t.pc \in Denying /\ t.at = d => a # "DENIED"

\* Nobody gave the verdict yet, and Q shows that somebody has to.
Open(d, a, Q) ==
    /\ d \in active /\ <<d, a>> \notin said
    /\ Start[d] \in Q /\ LeftTo(a, Q)
Unsaid(d, a, Q) ==
    Open(d, a, Q) =>
        /\ a \notin verdict[d]
        /\ \A f \in flow : f.domain = d => Stays(f, Q)
        /\ \A w \in Workers : Spares(task[w], d, a, Q)

Tracks(d, a, Q) ==
    /\ Types /\ active \subseteq Domains /\ Versions
    /\ \A w \in Workers : Knows(task[w], said)
    /\ Unsaid(d, a, Q)

-----------------------------------------------------------------------------
(***************************************************************************)
(* A step of one worker.                                                   *)
(***************************************************************************)

\* What a worker goes on with, t, is in order.
Proper(t, d, a, Q) ==
    /\ t \in Tasks
    /\ Knows(t, said')
    /\ Open(d, a, Q)' => Spares(t, d, a, Q)

LEMMA OneWorker ==
  ASSUME NEW d \in Domains, NEW a \in Answers, NEW Q, Tracks(d, a, Q),
         NEW w \in Workers, NEW t, Put(w, t), Proper(t, d, a, Q),
         auth' \in Verdicts, cancelled' \in BOOLEAN, flow' \subseteq Rows,
         request' \subseteq Questions, verdict' \in [Domains -> SUBSET Answers],
         active' \subseteq active, said \subseteq said', Versions',
         Open(d, a, Q)' => a \notin verdict'[d],
         Open(d, a, Q)' => \A f \in flow' : f.domain = d => Stays(f, Q)
  PROVE  Tracks(d, a, Q)'
<1>1. /\ t \in Tasks
      /\ task \in [Workers -> Tasks]
      /\ task' = [task EXCEPT ![w] = t]
  BY DEF Proper, Put, Tracks, Types
<1>2. task' \in [Workers -> Tasks]
  BY <1>1
<1>3. \A v \in Workers : task'[v] = IF v = w THEN t ELSE task[v]
  BY <1>1
<1>4. Types' /\ (active \subseteq Domains)'
  BY <1>2 DEF Types, Tracks
<1>5. \A v \in Workers : Knows(task'[v], said')
  <2>1. \A v \in Workers : Knows(task[v], said)
    BY DEF Tracks
  <2>2. \A v \in Workers : Knows(task[v], said')
    BY <2>1 DEF Knows
  <2>3. Knows(t, said')
    BY DEF Proper
  <2>4. QED
    BY <1>3, <2>2, <2>3
<1>6. Open(d, a, Q)' => Open(d, a, Q)
  BY DEF Open
<1>7. Open(d, a, Q)' => \A v \in Workers : Spares(task'[v], d, a, Q)
  BY <1>3, <1>6 DEF Proper, Tracks, Unsaid
<1>8. Unsaid(d, a, Q)'
  BY <1>7 DEF Unsaid
<1>9. QED
  BY <1>4, <1>5, <1>8 DEF Tracks

\* Versions of rows and copies that there are already.
LEMMA OldRows ==
  ASSUME Types, Versions, NEW w \in Workers, NEW t \in Tasks, Put(w, t),
         \A r \in flow' : \E q \in flow : r.id = q.id /\ r.domain = q.domain /\ r.node = q.node,
         \A s \in Copies(t) : \E q \in flow \union Copies(task[w]) :
             s.id = q.id /\ s.domain = q.domain /\ s.node = q.node
  PROVE  Versions'
<1>1. task' = [task EXCEPT ![w] = t] /\ task \in [Workers -> Tasks]
  BY DEF Put, Types
<1>2. \A v \in Workers : task'[v] = IF v = w THEN t ELSE task[v]
  BY <1>1
<1>3. \A r, s \in flow' : Same(r, s)
  BY DEF Versions, Same
<1>4. ASSUME NEW r \in flow', NEW v \in Workers, NEW s \in Copies(task'[v])
      PROVE  Same(r, s)
  <2>1. PICK q \in flow : r.id = q.id /\ r.domain = q.domain /\ r.node = q.node
    OBVIOUS
  <2>2. CASE v # w
    <3>1. s \in Copies(task[v])
      BY <1>2, <1>4, <2>2
    <3>2. Same(q, s)
      BY <3>1 DEF Versions
    <3>3. QED
      BY <2>1, <3>2 DEF Same
  <2>3. CASE v = w
    <3>1. s \in Copies(t)
      BY <1>2, <1>4, <2>3
    <3>2. PICK p \in flow \union Copies(task[w]) :
              s.id = p.id /\ s.domain = p.domain /\ s.node = p.node
      BY <3>1
    <3>3. Same(q, p)
      BY <3>2 DEF Versions
    <3>4. QED
      BY <2>1, <3>2, <3>3 DEF Same
  <2>4. QED
    BY <2>2, <2>3
<1>5. QED
  BY <1>3, <1>4 DEF Versions

\* A row with a key that was free.
LEMMA NewRow ==
  ASSUME Types, Versions, NEW w \in Workers, NEW t \in Tasks, Put(w, t),
         NEW n, n.id \in FreeFlowIds, flow' = flow \union {n},
         Copies(t) \subseteq flow \union Copies(task[w])
  PROVE  Versions'
<1>1. task' = [task EXCEPT ![w] = t] /\ task \in [Workers -> Tasks]
  BY DEF Put, Types
<1>2. \A v \in Workers : task'[v] = IF v = w THEN t ELSE task[v]
  BY <1>1
<1>3. \A r \in flow : n.id # r.id
  BY DEF FreeFlowIds
<1>4. \A v \in Workers : \A s \in Copies(task[v]) : n.id # s.id
  BY DEF FreeFlowIds, Copies
<1>5. \A v \in Workers : Copies(task'[v]) \subseteq flow \union Copies(task[v])
  BY <1>2
<1>6. \A r, s \in flow' : Same(r, s)
  BY <1>3 DEF Versions, Same
<1>7. \A r \in flow' : \A v \in Workers : \A s \in Copies(task'[v]) : Same(r, s)
  BY <1>3, <1>4, <1>5 DEF Versions, Same
<1>8. QED
  BY <1>6, <1>7 DEF Versions

\* A worker that goes on with nothing to know about but copies it has, or takes.
Moves(w) ==
    \E t \in Tasks :
        Put(w, t) /\ t.pc \in Plain /\ Copies(t) \subseteq flow \union Copies(task[w])

LEMMA MovesIsProper ==
  ASSUME NEW d \in Domains, NEW a \in Answers, NEW Q, Tracks(d, a, Q), NEW w \in Workers,
         NEW t \in Tasks, t.pc \in Plain, Copies(t) \subseteq flow \union Copies(task[w]),
         active' \subseteq active, said \subseteq said'
  PROVE  Proper(t, d, a, Q)
<1>1. /\ t.pc # "insert_first" /\ t.pc \notin Replying /\ t.pc \notin Looping
      /\ t.pc # "respond_save" /\ t.pc # "say_yes" /\ t.pc # "insert"
      /\ t.pc \notin Telling /\ t.pc \notin Denying
  BY DEF Plain, Backs, Replying, Looping, Telling, Denying
<1>2. Knows(t, said')
  BY <1>1 DEF Knows
<1>3. ASSUME Open(d, a, Q)' PROVE Spares(t, d, a, Q)
  <2>1. Open(d, a, Q)
    BY <1>3 DEF Open
  <2>2. \A f \in flow \union Copies(task[w]) : f.domain = d => Stays(f, Q)
    BY <2>1 DEF Tracks, Unsaid, Spares
  <2>3. QED
    BY <1>1, <2>2 DEF Spares
<1>4. QED
  BY <1>2, <1>3 DEF Proper

\* A step that changes no row of a flow.
LEMMA SameRows ==
  ASSUME NEW d \in Domains, NEW a \in Answers, NEW Q, Tracks(d, a, Q), NEW w \in Workers,
         NEW t, Put(w, t), Proper(t, d, a, Q),
         Copies(t) \subseteq flow \union Copies(task[w]) \/ Copies(t) = {},
         auth' \in Verdicts, cancelled' \in BOOLEAN, request' \subseteq Questions,
         active' \subseteq active, said \subseteq said', UNCHANGED <<flow, verdict>>
  PROVE  Tracks(d, a, Q)'
<1>1. t \in Tasks /\ Types /\ Versions
  BY DEF Proper, Tracks
<1>2. Versions'
  BY <1>1, OldRows
<1>3. Open(d, a, Q)' => Open(d, a, Q)
  BY DEF Open
<1>4. flow' \subseteq Rows /\ verdict' \in [Domains -> SUBSET Answers]
  BY <1>1 DEF Types
<1>5. /\ Open(d, a, Q)' => a \notin verdict'[d]
      /\ Open(d, a, Q)' => \A f \in flow' : f.domain = d => Stays(f, Q)
  BY <1>3 DEF Tracks, Unsaid
<1>6. QED
  BY <1>2, <1>4, <1>5, OneWorker

LEMMA MovesAndReads ==
  ASSUME NEW d \in Domains, NEW a \in Answers, NEW Q, Tracks(d, a, Q), NEW w \in Workers,
         Moves(w), auth' \in Verdicts, cancelled' \in BOOLEAN, request' \subseteq Questions,
         active' \subseteq active, said \subseteq said', UNCHANGED <<flow, verdict>>
  PROVE  Tracks(d, a, Q)'
<1>1. PICK t \in Tasks :
          Put(w, t) /\ t.pc \in Plain /\ Copies(t) \subseteq flow \union Copies(task[w])
  BY DEF Moves
<1>2. Proper(t, d, a, Q)
  BY <1>1, MovesIsProper
<1>3. QED
  BY <1>1, <1>2, SameRows

\* The ways of going on that many steps share.
LEMMA Calls ==
  ASSUME Types, NEW w \in Workers
  PROVE  /\ \A pc \in Plain : Goto(w, pc) => Moves(w)
         /\ \A asking \in BOOLEAN : Continue(w, asking) => Moves(w)
         /\ End(w) => Moves(w)
         /\ Return(w) => Moves(w)
         /\ Put(w, Idle) => Moves(w)
<1>1. task[w] \in Tasks
  BY DEF Types
<1> DEFINE t == task[w]
<1>2. ASSUME NEW pc \in Plain, Goto(w, pc) PROVE Moves(w)
  <2> DEFINE n == [t EXCEPT !.pc = pc, !.copy = {}]
  <2>1. pc \in Pcs
    BY DEF Pcs
  <2>2. n \in Tasks /\ n.pc = pc /\ n.todo = t.todo /\ n.copy = {}
    BY <1>1, <2>1 DEF Tasks
  <2>3. Put(w, n)
    BY <1>2 DEF Goto
  <2>4. QED
    BY <2>2, <2>3 DEF Moves, Copies
<1>3. ASSUME NEW asking \in BOOLEAN, Continue(w, asking) PROVE Moves(w)
  <2> DEFINE n == [Idle EXCEPT !.pc = "visit", !.at = 1, !.asking = asking, !.left = t.left]
  <2>1. "visit" \in Pcs /\ "idle" \in Pcs /\ "visit" \in Plain
    BY DEF Pcs, Plain
  <2>2. n \in Tasks /\ n.pc = "visit" /\ n.todo = {} /\ n.copy = {}
    BY <1>1, <2>1 DEF Tasks, Idle, Backs
  <2>3. Put(w, n)
    BY <1>3 DEF Continue
  <2>4. QED
    BY <2>1, <2>2, <2>3 DEF Moves, Copies
<1>4. ASSUME Put(w, Idle) PROVE Moves(w)
  <2>1. "idle" \in Pcs /\ "idle" \in Plain
    BY DEF Pcs, Plain
  <2>2. Idle \in Tasks /\ Idle.pc = "idle" /\ Idle.todo = {} /\ Idle.copy = {}
    BY <2>1 DEF Tasks, Idle, Backs
  <2>3. QED
    BY <1>4, <2>1, <2>2 DEF Moves, Copies
<1>5. ASSUME End(w) PROVE Moves(w)
  <2> DEFINE n == [Idle EXCEPT !.pc = "redo", !.left = t.left]
  <2>1. "redo" \in Pcs /\ "idle" \in Pcs /\ "redo" \in Plain
    BY DEF Pcs, Plain
  <2>2. n \in Tasks /\ n.pc = "redo" /\ n.todo = {} /\ n.copy = {}
    BY <1>1, <2>1 DEF Tasks, Idle, Backs
  <2>3. CASE Put(w, n)
    BY <2>1, <2>2, <2>3 DEF Moves, Copies
  <2>4. QED
    BY <1>4, <1>5, <2>3 DEF End
<1>6. ASSUME Return(w) PROVE Moves(w)
  <2> DEFINE n == [t EXCEPT !.pc = t.back, !.value = "none", !.todo = {}, !.copy = {}]
  <2>1. t.back \in Backs
    BY <1>1 DEF Tasks
  <2>2. t.back \in Pcs /\ t.back \in Plain
    BY <2>1 DEF Pcs, Plain
  <2>3. n \in Tasks /\ n.pc = t.back /\ n.todo = {} /\ n.copy = {}
    BY <1>1, <2>2 DEF Tasks
  <2>4. CASE Put(w, n)
    BY <2>2, <2>3, <2>4 DEF Moves, Copies
  <2>5. QED
    BY <1>3, <1>6, <2>4 DEF Return
<1>7. QED
  BY <1>2, <1>3, <1>4, <1>5, <1>6

-----------------------------------------------------------------------------
(***************************************************************************)
(* Requests that come in, and statements that change no row of a flow and  *)
(* leave nothing to know.                                                  *)
(***************************************************************************)

LEMMA BeginsAreSound ==
  ASSUME NEW d \in Domains, NEW a \in Answers, NEW Q, Tracks(d, a, Q), NEW w \in Workers,
         \/ RequestAuthorization(w) \/ Cancel(w) \/ Expire(w) \/ Abort(w)
         \/ \E e \in Domains : Disable(w, e)
  PROVE  Tracks(d, a, Q)'
<1> USE DEF Begin, OnlyReads, tables
<1>1. Types /\ active \subseteq Domains
  BY DEF Tracks
<1>2. /\ auth \in Verdicts /\ cancelled \in BOOLEAN /\ request \subseteq Questions
      /\ Domains \subseteq Nat
  BY <1>1, OverlapAssumption DEF Types, Domains
<1>3. CASE RequestAuthorization(w)
  <2> DEFINE n == [Idle EXCEPT !.pc = "begin"]
  <2>1. n \in Tasks /\ n.pc \in Plain /\ Copies(n) = {} /\ Put(w, n)
    BY <1>3 DEF RequestAuthorization, Tasks, Idle, Backs, Pcs, Plain, Copies
  <2>2. Moves(w)
    BY <2>1 DEF Moves
  <2>3. QED
    BY <1>2, <1>3, <2>2, MovesAndReads DEF RequestAuthorization
<1>4. CASE Cancel(w)
  <2> DEFINE n == [Idle EXCEPT !.pc = "cancel", !.sawCancel = cancelled]
  <2>1. n \in Tasks /\ n.pc \in Plain /\ Copies(n) = {} /\ Put(w, n)
    BY <1>2, <1>4 DEF Cancel, Tasks, Idle, Backs, Pcs, Plain, Copies
  <2>2. Moves(w)
    BY <2>1 DEF Moves
  <2>3. QED
    BY <1>2, <1>4, <2>2, MovesAndReads DEF Cancel
<1>5. CASE Expire(w)
  <2> DEFINE n == [Idle EXCEPT !.pc = "late", !.value = auth]
  <2>1. n \in Tasks /\ n.pc \in Plain /\ Copies(n) = {} /\ Put(w, n)
    BY <1>2, <1>5 DEF Expire, Tasks, Idle, Backs, Pcs, Plain, Copies
  <2>2. Moves(w)
    BY <2>1 DEF Moves
  <2>3. QED
    BY <1>2, <1>5, <2>2, MovesAndReads DEF Expire
<1>6. CASE Abort(w)
  <2>1. Moves(w)
    BY <1>1, <1>6, Calls DEF Abort
  <2>2. QED
    BY <1>2, <1>6, <2>1, MovesAndReads DEF Abort
<1>7. ASSUME NEW e \in Domains, Disable(w, e) PROVE Tracks(d, a, Q)'
  <2> DEFINE n == [Idle EXCEPT !.pc = "disabled", !.at = e]
  <2>1. n \in Tasks /\ n.pc \in Plain /\ Copies(n) = {} /\ Put(w, n)
    BY <1>2, <1>7 DEF Disable, Tasks, Idle, Backs, Pcs, Plain, Copies
  <2>2. Moves(w)
    BY <2>1 DEF Moves
  <2>3. active' \subseteq active
    BY <1>7 DEF Disable
  <2>4. QED
    BY <1>2, <1>7, <2>2, <2>3, MovesAndReads DEF Disable
<1>8. QED
  BY <1>3, <1>4, <1>5, <1>6, <1>7

\* Statements that only read.
PlainReading(w) ==
    \/ BeginRead(w) \/ Started(w) \/ Visit(w) \/ CountFlows(w) \/ FindFlow(w)
    \/ NextDomain(w) \/ Decide(w) \/ ReadCircuit(w) \/ RemoveFlows(w)
    \/ FindPending(w) \/ ReadPending(w) \/ ExpireRead(w) \/ ReadFlows(w)

LEMMA PlainReadings ==
  ASSUME Types, NEW w \in Workers, PlainReading(w)
  PROVE  Moves(w)
<1> USE DEF OnlyReads, tables
<1> DEFINE t == task[w]
<1>1. /\ t \in Tasks /\ auth \in Verdicts /\ cancelled \in BOOLEAN
      /\ flow \subseteq Rows /\ request \subseteq Questions
  BY DEF Types
<1>2. t.at \in Nat /\ t.at + 1 \in Nat /\ t.copy \subseteq Copies(t) /\ t.todo \subseteq Copies(t)
  BY <1>1 DEF Tasks, Copies
<1>3. CASE BeginRead(w)
  <2> DEFINE n == [t EXCEPT !.pc = "begin_save", !.value = auth]
  <2>1. n \in Tasks /\ n.pc \in Plain /\ Copies(n) = Copies(t) /\ Put(w, n)
    BY <1>1, <1>3 DEF BeginRead, Tasks, Pcs, Plain, Copies
  <2>2. QED
    BY <2>1 DEF Moves
<1>4. CASE Started(w)
  <2> DEFINE n == [t EXCEPT !.pc = "start", !.at = @ + 1]
  <2>1. n \in Tasks /\ n.pc \in Plain /\ Copies(n) = Copies(t)
    BY <1>1, <1>2 DEF Tasks, Pcs, Plain, Copies
  <2>2. CASE Put(w, n)
    BY <2>1, <2>2 DEF Moves
  <2>3. QED
    BY <1>4, <2>2, Calls DEF Started
<1>5. CASE Visit(w)
  <2>1. {"decide", "count", "next"} \subseteq Plain
    BY DEF Plain, Backs
  <2>2. QED
    BY <1>5, <2>1, Calls DEF Visit
<1>6. CASE CountFlows(w)
  <2>1. {"next", "find"} \subseteq Plain
    BY DEF Plain, Backs
  <2>2. QED
    BY <1>6, <2>1, Calls DEF CountFlows
<1>7. CASE FindFlow(w)
  <2> DEFINE run == [t EXCEPT !.pc = "execute", !.back = "next"]
             mark(f) == [run EXCEPT !.pc = "mark", !.copy = {f}]
  <2>1. run \in Tasks /\ run.pc \in Plain /\ Copies(run) = Copies(t)
    BY <1>1 DEF Tasks, Pcs, Plain, Backs, Copies
  <2>2. CASE Put(w, run)
    BY <2>1, <2>2 DEF Moves
  <2>3. ASSUME NEW f \in FlowsOf(t.at), Put(w, mark(f)) PROVE Moves(w)
    <3>1. f \in flow /\ f \in Rows
      BY <1>1 DEF FlowsOf
    <3>2. mark(f) \in Tasks /\ mark(f).pc = "mark" /\ mark(f).copy = {f} /\ mark(f).todo = t.todo
      BY <1>1, <2>1, <3>1 DEF Tasks, Pcs, Plain, Backs
    <3>3. "mark" \in Plain
      BY DEF Plain
    <3>4. QED
      BY <2>3, <3>1, <3>2, <3>3 DEF Moves, Copies
  <2>4. CASE Put(w, Idle)
    BY <2>4, Calls
  <2>5. QED
    BY <1>7, <2>2, <2>3, <2>4 DEF FindFlow
<1>8. CASE NextDomain(w)
  <2> DEFINE n == [t EXCEPT !.pc = "visit", !.at = @ + 1]
  <2>1. n \in Tasks /\ n.pc \in Plain /\ Copies(n) = Copies(t) /\ "decide" \in Plain
    BY <1>1, <1>2 DEF Tasks, Pcs, Plain, Copies
  <2>2. CASE Put(w, n)
    BY <2>1, <2>2 DEF Moves
  <2>3. QED
    BY <1>8, <2>1, <2>2, Calls DEF NextDomain
<1>9. CASE Decide(w)
  <2>1. "read_circuit" \in Plain
    BY DEF Plain
  <2>2. QED
    BY <1>9, <2>1, Calls DEF Decide
<1>10. CASE ReadCircuit(w)
  <2> DEFINE n == [t EXCEPT !.pc = "approve", !.sawCancel = cancelled]
             m == [t EXCEPT !.pc = "remove", !.back = "end"]
  <2>1. n \in Tasks /\ n.pc \in Plain /\ Copies(n) = Copies(t)
    BY <1>1 DEF Tasks, Pcs, Plain, Copies
  <2>2. m \in Tasks /\ m.pc \in Plain /\ Copies(m) = Copies(t)
    BY <1>1 DEF Tasks, Pcs, Plain, Backs, Copies
  <2>3. QED
    BY <1>10, <2>1, <2>2 DEF ReadCircuit, Moves
<1>11. CASE RemoveFlows(w)
  <2> DEFINE n == [t EXCEPT !.pc = "removing", !.todo = flow]
  <2>1. n \in Tasks /\ n.pc \in Plain /\ Copies(n) = flow \union t.copy /\ Put(w, n)
    BY <1>1, <1>11 DEF RemoveFlows, Tasks, Pcs, Plain, Copies
  <2>2. QED
    BY <1>2, <2>1 DEF Moves
<1>12. CASE FindPending(w)
  <2>1. ASSUME NEW q \in Pending,
               Put(w, [Idle EXCEPT !.pc = "expire", !.asked = {q}, !.back = "expire_read"])
        PROVE  Moves(w)
    <3> DEFINE n == [Idle EXCEPT !.pc = "expire", !.asked = {q}, !.back = "expire_read"]
    <3>1. q \in Questions
      BY <1>1 DEF Pending
    <3>2. n \in Tasks /\ n.pc \in Plain /\ Copies(n) = {}
      BY <3>1 DEF Tasks, Idle, Pcs, Plain, Backs, Copies
    <3>3. QED
      BY <2>1, <3>2 DEF Moves
  <2>2. QED
    BY <1>12, <2>1, Calls DEF FindPending
<1>13. CASE ReadPending(w)
  <2> DEFINE n == [t EXCEPT !.pc = "expire", !.asked = Pending, !.back = "expire_save"]
  <2>1. Pending \subseteq Questions
    BY <1>1 DEF Pending
  <2>2. n \in Tasks /\ n.pc \in Plain /\ Copies(n) = Copies(t)
    BY <1>1, <2>1 DEF Tasks, Pcs, Plain, Backs, Copies
  <2>3. CASE Put(w, n)
    BY <2>2, <2>3 DEF Moves
  <2>4. QED
    BY <1>13, <2>3, Calls DEF ReadPending
<1>14. CASE ExpireRead(w)
  <2> DEFINE n == [t EXCEPT !.pc = "expire_save", !.value = auth]
  <2>1. n \in Tasks /\ n.pc \in Plain /\ Copies(n) = Copies(t) /\ Put(w, n)
    BY <1>1, <1>14 DEF ExpireRead, Tasks, Pcs, Plain, Backs, Copies
  <2>2. QED
    BY <2>1 DEF Moves
<1>15. CASE ReadFlows(w)
  <2> DEFINE n == [t EXCEPT !.pc = "redo", !.left = FlowsOf(t.at)]
  <2>1. FlowsOf(t.at) \subseteq Rows
    BY <1>1 DEF FlowsOf
  <2>2. n \in Tasks /\ n.pc \in Plain /\ Copies(n) = Copies(t)
    BY <1>1, <2>1 DEF Tasks, Pcs, Plain, Copies
  <2>3. CASE Put(w, n)
    BY <2>2, <2>3 DEF Moves
  <2>4. QED
    BY <1>15, <2>3, Calls DEF ReadFlows
<1>16. QED
  BY <1>3, <1>4, <1>5, <1>6, <1>7, <1>8, <1>9, <1>10, <1>11, <1>12, <1>13, <1>14, <1>15
     DEF PlainReading

LEMMA ReadsAreSound ==
  ASSUME NEW d \in Domains, NEW a \in Answers, NEW Q, Tracks(d, a, Q), NEW w \in Workers,
         PlainReading(w), UNCHANGED history
  PROVE  Tracks(d, a, Q)'
<1>1. Types
  BY DEF Tracks
<1>2. Moves(w)
  BY <1>1, PlainReadings
<1>3. UNCHANGED tables
  BY DEF PlainReading, OnlyReads, BeginRead, Started, Visit, CountFlows, FindFlow, NextDomain,
         Decide, ReadCircuit, RemoveFlows, FindPending, ReadPending, ExpireRead, ReadFlows
<1>4. QED
  BY <1>1, <1>2, <1>3, MovesAndReads DEF tables, history, Types

\* Statements that write the circuit or a question.
PlainWriting(w) ==
    \/ BeginSave(w) \/ Approve(w) \/ Provision(w) \/ InsertQuestion(w)
    \/ ExpireQuestion(w) \/ ExpireSave(w)

LEMMA PlainWritings ==
  ASSUME Types, NEW w \in Workers, PlainWriting(w)
  PROVE  /\ Moves(w) /\ auth' \in Verdicts /\ request' \subseteq Questions
         /\ UNCHANGED <<cancelled, active, flow, verdict>>
<1> USE DEF OnlyAuth, OnlyRequest, SaveAuth
<1> DEFINE t == task[w]
<1>1. /\ t \in Tasks /\ auth \in Verdicts /\ request \subseteq Questions
      /\ {"WAITING", "AUTHORIZED", "EXPIRED"} \subseteq Verdicts
  BY DEF Types, Verdicts
<1>2. t.copy \subseteq Rows /\ t.asked \subseteq Questions
  BY <1>1 DEF Tasks
<1>3. CASE BeginSave(w)
  <2> DEFINE n == [Idle EXCEPT !.pc = "start", !.at = 1, !.back = "started"]
  <2>1. n \in Tasks /\ n.pc \in Plain /\ Copies(n) = {}
    BY DEF Tasks, Idle, Pcs, Plain, Backs, Copies
  <2>2. Moves(w)
    BY <1>3, <2>1 DEF BeginSave, Moves
  <2>3. QED
    BY <1>1, <1>3, <2>2 DEF BeginSave
<1>4. CASE Approve(w)
  <2> DEFINE n == [t EXCEPT !.pc = IF t.sawCancel THEN "remove" ELSE "provision", !.back = "end"]
  <2>1. n \in Tasks /\ n.pc \in Plain /\ Copies(n) = Copies(t)
    BY <1>1 DEF Tasks, Pcs, Plain, Backs, Copies
  <2>2. Moves(w)
    BY <1>4, <2>1 DEF Approve, Moves
  <2>3. QED
    BY <1>1, <1>4, <2>2 DEF Approve
<1>5. CASE Provision(w)
  <2>1. "remove" \in Plain
    BY DEF Plain
  <2>2. QED
    BY <1>1, <1>5, <2>1, Calls DEF Provision
<1>6. CASE InsertQuestion(w)
  <2>1. PICK f \in t.copy, i \in FreeRequestIds :
            request' = request \union
              {[id |-> i, domain |-> f.domain, manager |-> Manager[f.node], status |-> "WAITING"]}
    BY <1>6 DEF InsertQuestion
  <2>2. f \in Rows /\ i \in Ids
    BY <1>2 DEF FreeRequestIds
  <2>3. request' \subseteq Questions
    BY <1>1, <2>1, <2>2 DEF Rows, Questions
  <2>4. QED
    BY <1>1, <1>6, <2>3, Calls DEF InsertQuestion
<1>7. CASE ExpireQuestion(w)
  <2>1. PICK q \in t.asked :
          /\ request' = Saved(request, q, "EXPIRED")
          /\ Put(w, [t EXCEPT !.pc = "remove", !.asked = @ \ {q}])
    BY <1>7 DEF ExpireQuestion
  <2> DEFINE n == [t EXCEPT !.pc = "remove", !.asked = @ \ {q}]
  <2>2. n \in Tasks /\ n.pc \in Plain /\ Copies(n) = Copies(t)
    BY <1>1 DEF Tasks, Pcs, Plain, Copies
  <2>3. \A r \in Questions : [r EXCEPT !.status = "EXPIRED"] \in Questions
    BY DEF Questions
  <2>4. request' \subseteq Questions
    BY <1>1, <2>1, <2>3 DEF Saved
  <2>5. QED
    BY <1>1, <1>7, <2>1, <2>2, <2>4 DEF ExpireQuestion, Moves
<1>8. CASE ExpireSave(w)
  <2> DEFINE n == [t EXCEPT !.pc = "expire", !.value = "EXPIRED"]
  <2>1. n \in Tasks /\ n.pc \in Plain /\ Copies(n) = Copies(t)
    BY <1>1 DEF Tasks, Pcs, Plain, Copies, Verdicts
  <2>2. CASE Put(w, n)
    BY <1>1, <1>8, <2>1, <2>2 DEF ExpireSave, Moves
  <2>3. QED
    BY <1>1, <1>8, <2>2, Calls DEF ExpireSave
<1>9. QED
  BY <1>3, <1>4, <1>5, <1>6, <1>7, <1>8 DEF PlainWriting

LEMMA WritesAreSound ==
  ASSUME NEW d \in Domains, NEW a \in Answers, NEW Q, Tracks(d, a, Q), NEW w \in Workers,
         PlainWriting(w), UNCHANGED history
  PROVE  Tracks(d, a, Q)'
<1>1. Types
  BY DEF Tracks
<1>2. QED
  BY <1>1, PlainWritings, MovesAndReads DEF history, Types

-----------------------------------------------------------------------------
(***************************************************************************)
(* Statements that write rows and leave nothing to know.                   *)
(***************************************************************************)

\* Rows that are deleted.
LEMMA FewerRows ==
  ASSUME NEW d \in Domains, NEW a \in Answers, NEW Q, Tracks(d, a, Q), NEW w \in Workers,
         NEW t, Put(w, t), Proper(t, d, a, Q),
         Copies(t) \subseteq flow \union Copies(task[w]),
         UNCHANGED <<auth, cancelled, active, request, verdict, said>>, flow' \subseteq flow
  PROVE  Tracks(d, a, Q)'
<1>1. t \in Tasks /\ Types /\ Versions
  BY DEF Proper, Tracks
<1>2. Versions'
  BY <1>1, OldRows
<1>3. Open(d, a, Q)' => Open(d, a, Q)
  BY DEF Open
<1>4. /\ flow' \subseteq Rows /\ verdict' \in [Domains -> SUBSET Answers]
      /\ auth' \in Verdicts /\ cancelled' \in BOOLEAN /\ request' \subseteq Questions
  BY <1>1 DEF Types
<1>5. /\ Open(d, a, Q)' => a \notin verdict'[d]
      /\ Open(d, a, Q)' => \A f \in flow' : f.domain = d => Stays(f, Q)
  BY <1>3 DEF Tracks, Unsaid
<1>6. QED
  BY <1>2, <1>4, <1>5, OneWorker

\* A row whose status a worker saves from its copy.
LEMMA SavedRows ==
  ASSUME NEW d \in Domains, NEW a \in Answers, NEW Q, Tracks(d, a, Q), NEW w \in Workers,
         NEW f \in task[w].copy, NEW status \in Statuses, flow' = Saved(flow, f, status),
         Moves(w), OnlyFlow, UNCHANGED history,
         Open(d, a, Q) /\ f.domain = d /\ f.node \in Q =>
             /\ status = "YES" => Yes[f.node] \in Q
             /\ status = "NO" => No[f.node] \in Q
  PROVE  Tracks(d, a, Q)'
<1>1. Types /\ Versions
  BY DEF Tracks
<1>2. task[w] \in Tasks /\ f \in Copies(task[w]) /\ flow \subseteq Rows
  BY <1>1 DEF Types, Copies
<1>3. \A r \in flow :
          /\ [r EXCEPT !.status = status] \in Rows
          /\ [r EXCEPT !.status = status].id = r.id
          /\ [r EXCEPT !.status = status].domain = r.domain
          /\ [r EXCEPT !.status = status].node = r.node
          /\ [r EXCEPT !.status = status].status = status
  BY <1>2 DEF Rows
<1>4. \A r \in flow' : \/ r \in flow
                       \/ \E q \in flow : r = [q EXCEPT !.status = status] /\ q.id = f.id
  BY DEF Saved
<1>5. PICK t \in Tasks :
          Put(w, t) /\ t.pc \in Plain /\ Copies(t) \subseteq flow \union Copies(task[w])
  BY DEF Moves
<1>6. /\ flow' \subseteq Rows
      /\ \A r \in flow' : \E q \in flow : r.id = q.id /\ r.domain = q.domain /\ r.node = q.node
  <2>1. \A r \in flow' : r \in Rows
    BY <1>2, <1>3, <1>4
  <2>2. ASSUME NEW r \in flow'
        PROVE  \E q \in flow : r.id = q.id /\ r.domain = q.domain /\ r.node = q.node
    <3>1. CASE r \in flow
      BY <3>1
    <3>2. ASSUME NEW q \in flow, r = [q EXCEPT !.status = status]
          PROVE  r.id = q.id /\ r.domain = q.domain /\ r.node = q.node
      BY <1>3, <3>2
    <3>3. QED
      BY <1>4, <3>1, <3>2
  <2>3. QED
    BY <2>1, <2>2
<1>7. Versions'
  BY <1>1, <1>5, <1>6, OldRows
<1>8. Open(d, a, Q)' <=> Open(d, a, Q)
  BY DEF Open, OnlyFlow, history
<1>9. ASSUME Open(d, a, Q), NEW r \in flow', r.domain = d PROVE Stays(r, Q)
  <2>1. CASE r \in flow
    BY <1>9, <2>1 DEF Tracks, Unsaid
  <2>2. ASSUME NEW q \in flow, r = [q EXCEPT !.status = status], q.id = f.id
        PROVE  Stays(r, Q)
    <3>1. Same(q, f)
      BY <1>1, <1>2 DEF Versions
    <3>2. q.domain = f.domain /\ q.node = f.node
      BY <2>2, <3>1 DEF Same
    <3>3. r.domain = q.domain /\ r.node = q.node /\ r.status = status
      BY <1>3, <2>2
    <3>4. Stays(q, Q)
      BY <1>9, <3>3 DEF Tracks, Unsaid
    <3>5. f.node \in Q /\ f.domain = d
      BY <1>9, <3>2, <3>3, <3>4 DEF Stays
    <3>6. QED
      BY <1>9, <3>2, <3>3, <3>5 DEF Stays
  <2>3. QED
    BY <1>4, <2>1, <2>2
<1>10. Open(d, a, Q) => a \notin verdict'[d]
  BY DEF Tracks, Unsaid, OnlyFlow
<1>11. Proper(t, d, a, Q)
  BY <1>5, MovesIsProper DEF OnlyFlow, history
<1>12. QED
  BY <1>1, <1>5, <1>6, <1>7, <1>8, <1>9, <1>10, <1>11, OneWorker DEF OnlyFlow, history, Types

\* A row that is new, at a node that the answers so far can lead to.
LEMMA MoreRows ==
  ASSUME NEW d \in Domains, NEW a \in Answers, NEW Q, Tracks(d, a, Q), NEW w \in Workers,
         NEW t, Put(w, t), Proper(t, d, a, Q),
         Copies(t) \subseteq flow \union Copies(task[w]),
         OnlyFlow, UNCHANGED history,
         NEW i \in FreeFlowIds, NEW e \in Domains, NEW n \in Nodes,
         flow' = flow \union {Arrive(i, e, n)},
         Open(d, a, Q) /\ e = d => n \in Q
  PROVE  Tracks(d, a, Q)'
<1> DEFINE r == Arrive(i, e, n)
<1>1. t \in Tasks /\ Types /\ Versions
  BY DEF Proper, Tracks
<1>2. i \in Ids /\ r \in Rows /\ r.id = i
  BY DEF FreeFlowIds, Arrive, Rows, Statuses
<1>3. r.domain = e /\ r.node = n /\ r.status # "YES" /\ r.status # "NO"
  BY DEF Arrive
<1>4. Versions'
  BY <1>1, <1>2, NewRow
<1>5. Open(d, a, Q)' <=> Open(d, a, Q)
  BY DEF Open, OnlyFlow, history
<1>6. Open(d, a, Q) => a \notin verdict'[d]
  BY DEF Tracks, Unsaid, OnlyFlow
<1>7. ASSUME Open(d, a, Q), NEW f \in flow', f.domain = d PROVE Stays(f, Q)
  <2>1. CASE f \in flow
    BY <1>7, <2>1 DEF Tracks, Unsaid
  <2>2. CASE f = r
    BY <1>3, <1>7, <2>2 DEF Stays
  <2>3. QED
    BY <2>1, <2>2
<1>8. flow' \subseteq Rows
  BY <1>1, <1>2 DEF Types
<1>9. QED
  BY <1>1, <1>4, <1>5, <1>6, <1>7, <1>8, OneWorker DEF OnlyFlow, history, Types

PlainRows(w) ==
    \/ InsertFirst(w) \/ Mark(w) \/ RemoveNext(w) \/ SayYes(w) \/ RespondSave(w)
    \/ DeleteFlow(w)

LEMMA RowsAreSound ==
  ASSUME NEW d \in Domains, NEW a \in Answers, NEW Q, Tracks(d, a, Q), NEW w \in Workers, PlainRows(w), UNCHANGED history
  PROVE  Tracks(d, a, Q)'
<1> USE DEF At
<1> DEFINE t == task[w]
<1>1. Types /\ Knows(t, said) /\ t \in Tasks
  BY DEF Tracks, Types
<1>2. t.copy \subseteq Rows /\ t.todo \subseteq Rows /\ t.back \in Backs /\ t.copy \subseteq Copies(t)
  BY <1>1 DEF Tasks, Copies
<1>3. CASE InsertFirst(w)
  <2>1. OnlyFlow /\ Return(w) /\ t.at \in Domains
    BY <1>1, <1>3 DEF InsertFirst, Knows
  <2>2. PICK i \in FreeFlowIds : flow' = flow \union {Arrive(i, t.at, Start[t.at])}
    BY <1>3 DEF InsertFirst
  <2>3. PICK n \in Tasks :
            Put(w, n) /\ n.pc \in Plain /\ Copies(n) \subseteq flow \union Copies(task[w])
    BY <1>1, <2>1, Calls DEF Moves
  <2>4. Proper(n, d, a, Q)
    BY <2>1, <2>3, MovesIsProper DEF OnlyFlow, history
  <2>5. /\ Start[t.at] \in Nodes
        /\ Open(d, a, Q) /\ t.at = d => Start[t.at] \in Q
    BY <2>1, OverlapAssumption DEF Open
  <2>6. QED
    BY <2>1, <2>2, <2>3, <2>4, <2>5, MoreRows
<1>4. CASE Mark(w)
  <2>1. PICK f \in t.copy : flow' = Saved(flow, f, "READY")
    BY <1>4 DEF Mark
  <2>2. "READY" \in Statuses /\ "execute" \in Plain
    BY DEF Statuses, Plain
  <2>3. Moves(w) /\ OnlyFlow
    BY <1>1, <1>4, <2>2, Calls DEF Mark
  <2>4. QED
    BY <2>1, <2>2, <2>3, SavedRows
<1>5. CASE RemoveNext(w)
  <2>1. OnlyFlow
    BY <1>5 DEF RemoveNext
  <2>2. CASE t.todo = {} /\ UNCHANGED flow
    <3>1. Backs \subseteq Plain
      BY DEF Plain
    <3>2. Moves(w) \/ \E f \in t.todo : TRUE
      BY <1>1, <1>2, <1>5, <3>1, Calls DEF RemoveNext
    <3>3. Moves(w)
      BY <2>2, <3>2
    <3>4. QED
      BY <1>1, <2>1, <2>2, <3>3, MovesAndReads DEF OnlyFlow, history, Types
  <2>3. ASSUME NEW f \in t.todo, flow' = Deleted(flow, f), Put(w, [t EXCEPT !.todo = @ \ {f}])
        PROVE  Tracks(d, a, Q)'
    <3> DEFINE n == [t EXCEPT !.todo = @ \ {f}]
    <3>1. n \in Tasks /\ n.pc = "removing" /\ Copies(n) \subseteq Copies(t)
      BY <1>1, <1>5 DEF RemoveNext, Tasks, Copies
    <3>2. "removing" \in Plain
      BY DEF Plain
    <3>3. flow' \subseteq flow
      BY <2>3 DEF Deleted
    <3>4. Proper(n, d, a, Q)
      BY <2>1, <3>1, <3>2, MovesIsProper DEF OnlyFlow, history
    <3>5. QED
      BY <2>1, <2>3, <3>1, <3>3, <3>4, FewerRows DEF OnlyFlow, history
  <2>4. QED
    BY <1>5, <2>2, <2>3 DEF RemoveNext
<1>6. CASE SayYes(w)
  <2>1. PICK f \in t.copy : flow' = Saved(flow, f, "YES")
    BY <1>6 DEF SayYes
  <2>2. "YES" \in Statuses /\ "execute" \in Plain
    BY DEF Statuses, Plain
  <2>3. Moves(w) /\ OnlyFlow
    BY <1>1, <1>6, <2>2, Calls DEF SayYes
  <2>4. Kind[f.node] = "user" /\ Manager[f.node] = Requester
    BY <1>1, <1>6 DEF SayYes, Knows
  <2>5. ASSUME Open(d, a, Q), f.node \in Q PROVE Yes[f.node] \in Q
    <3>1. Without(a, f.node) \subseteq Q
      BY <2>5 DEF Open, LeftTo
    <3>2. Yes[f.node] \in Without(a, f.node)
      BY <2>4 DEF Without
    <3>3. QED
      BY <3>1, <3>2
  <2>6. QED
    BY <2>1, <2>2, <2>3, <2>5, SavedRows
<1>7. CASE RespondSave(w)
  <2> DEFINE status == IF t.value = "AUTHORIZED" THEN "YES" ELSE "NO"
             n == [t EXCEPT !.pc = "execute", !.back = "continue", !.value = "none", !.copy = {}]
  <2>1. PICK f \in t.copy : flow' = Saved(flow, f, status)
    BY <1>7 DEF RespondSave
  <2>2. status \in Statuses /\ "execute" \in Plain
    BY DEF Statuses, Plain
  <2>3. OnlyFlow /\ Put(w, n) /\ t.pc = "respond_save"
    BY <1>7 DEF RespondSave
  <2>4. n \in Tasks /\ n.pc \in Plain /\ Copies(n) \subseteq Copies(t)
    BY <1>1 DEF Tasks, Pcs, Plain, Backs, Copies
  <2>5. Moves(w)
    BY <2>3, <2>4 DEF Moves
  <2>6. t.value \in Answers /\ <<t.at, t.value>> \in said /\ f.domain = t.at
    BY <1>1, <2>3 DEF Knows, Replying
  <2>7. ASSUME Open(d, a, Q), f.domain = d, f.node \in Q
        PROVE  /\ status = "YES" => Yes[f.node] \in Q
               /\ status = "NO" => No[f.node] \in Q
    <3>1. t.value # a
      BY <2>6, <2>7 DEF Open
    <3>2. a = IF status = "YES" THEN "DENIED" ELSE "AUTHORIZED"
      BY <2>6, <3>1 DEF Answers
    <3>3. Without(a, f.node) \subseteq Q
      BY <2>7 DEF Open, LeftTo
    <3>4. status = "YES" => Yes[f.node] \in Without(a, f.node)
      BY <3>2 DEF Without
    <3>5. status = "NO" => No[f.node] \in Without(a, f.node)
      BY <3>2 DEF Without
    <3>6. QED
      BY <3>3, <3>4, <3>5
  <2>8. QED
    BY <2>1, <2>2, <2>3, <2>5, <2>7, SavedRows
<1>8. CASE DeleteFlow(w)
  <2>1. PICK f \in t.left :
            /\ flow' = Deleted(flow, f)
            /\ Put(w, [t EXCEPT !.pc = "forget", !.at = f.domain, !.left = @ \ {f}])
    BY <1>8 DEF DeleteFlow
  <2> DEFINE n == [t EXCEPT !.pc = "forget", !.at = f.domain, !.left = @ \ {f}]
  <2>2. OnlyFlow /\ flow' \subseteq flow
    BY <1>8, <2>1 DEF DeleteFlow, Deleted
  <2>3. f \in Rows /\ f.domain \in Nat
    BY <1>1, OverlapAssumption DEF Tasks, Rows, Domains
  <2>4. n \in Tasks /\ n.pc = "forget" /\ Copies(n) = Copies(t)
    BY <1>1, <2>3 DEF Tasks, Pcs, Plain, Copies
  <2>5. "forget" \in Plain
    BY DEF Plain
  <2>6. Proper(n, d, a, Q)
    BY <2>2, <2>4, <2>5, MovesIsProper DEF OnlyFlow, history
  <2>7. QED
    BY <2>1, <2>2, <2>4, <2>6, FewerRows DEF OnlyFlow, history
<1>9. QED
  BY <1>3, <1>4, <1>5, <1>6, <1>7, <1>8 DEF PlainRows

-----------------------------------------------------------------------------
(***************************************************************************)
(* Statements that tell a verdict, or forget one.                          *)
(***************************************************************************)

LEMMA VerdictsAreSound ==
  ASSUME NEW d \in Domains, NEW a \in Answers, NEW Q, Tracks(d, a, Q), NEW w \in Workers,
         TellYes(w) \/ DenyTell(w) \/ ForgetAnswers(w), UNCHANGED history
  PROVE  Tracks(d, a, Q)'
<1> USE DEF At
<1> DEFINE t == task[w]
<1>1. Types /\ Versions /\ t \in Tasks
  BY DEF Tracks, Types
<1>2. /\ verdict \in [Domains -> SUBSET Answers] /\ "AUTHORIZED" \in Answers /\ "DENIED" \in Answers
      /\ auth \in Verdicts /\ cancelled \in BOOLEAN /\ flow \subseteq Rows
      /\ request \subseteq Questions
  BY <1>1 DEF Types, Answers
<1>3. Moves(w)
  <2>1. CASE TellYes(w) \/ DenyTell(w)
    BY <1>1, <2>1, Calls DEF TellYes, DenyTell
  <2>2. CASE ForgetAnswers(w)
    <3> DEFINE n == [t EXCEPT !.pc = "start", !.back = "continue"]
    <3>1. n \in Tasks /\ n.pc \in Plain /\ Copies(n) = Copies(t) /\ Put(w, n)
      BY <1>1, <2>2 DEF ForgetAnswers, Tasks, Pcs, Plain, Backs, Copies
    <3>2. QED
      BY <3>1 DEF Moves
  <2>3. QED
    BY <2>1, <2>2
<1>4. /\ UNCHANGED <<auth, cancelled, active, flow, said>>
      /\ request' \subseteq Questions /\ verdict' \in [Domains -> SUBSET Answers]
  BY <1>2 DEF TellYes, DenyTell, ForgetAnswers, OnlyVerdict, history
<1>5. ASSUME Open(d, a, Q) PROVE a \notin verdict'[d]
  <2>1. a \notin verdict[d] /\ Spares(t, d, a, Q)
    BY <1>5 DEF Tracks, Unsaid
  <2>2. CASE TellYes(w)
    <3>1. t.at = d => a # "AUTHORIZED"
      BY <2>1, <2>2 DEF TellYes, Spares, Telling
    <3>2. QED
      BY <1>2, <2>1, <2>2, <3>1 DEF TellYes
  <2>3. CASE DenyTell(w)
    <3>1. t.at = d => a # "DENIED"
      BY <2>1, <2>3 DEF DenyTell, Spares, Denying
    <3>2. QED
      BY <1>2, <2>1, <2>3, <3>1 DEF DenyTell
  <2>4. CASE ForgetAnswers(w)
    BY <1>2, <2>1, <2>4 DEF ForgetAnswers
  <2>5. QED
    BY <2>2, <2>3, <2>4
<1>6. PICK n \in Tasks :
          Put(w, n) /\ n.pc \in Plain /\ Copies(n) \subseteq flow \union Copies(task[w])
  BY <1>3 DEF Moves
<1>7. Proper(n, d, a, Q)
  BY <1>4, <1>6, MovesIsProper
<1>8. Versions'
  BY <1>1, <1>4, <1>6, OldRows
<1>9. Open(d, a, Q)' => Open(d, a, Q) /\ \A f \in flow' : f.domain = d => Stays(f, Q)
  BY <1>4 DEF Open, Tracks, Unsaid
<1>10. QED
  BY <1>2, <1>4, <1>5, <1>6, <1>7, <1>8, <1>9, OneWorker

-----------------------------------------------------------------------------
(***************************************************************************)
(* Statements that leave the worker something to know.                     *)
(***************************************************************************)

\* Such a statement that changes no row.
LEMMA KnowingIsSound ==
  ASSUME NEW d \in Domains, NEW a \in Answers, NEW Q, Tracks(d, a, Q), NEW w \in Workers,
         NEW t \in Tasks, Put(w, t), Knows(t, said), Open(d, a, Q) => Spares(t, d, a, Q),
         Copies(t) \subseteq flow \union Copies(task[w]), OnlyReads, UNCHANGED history
  PROVE  Tracks(d, a, Q)'
<1>1. Open(d, a, Q)' => Open(d, a, Q)
  BY DEF Open, OnlyReads, tables, history
<1>2. Proper(t, d, a, Q)
  BY <1>1 DEF Proper, history
<1>3. QED
  BY <1>2, SameRows DEF OnlyReads, tables, history, Tracks, Types

LEMMA StartFlowIsSound ==
  ASSUME NEW d \in Domains, NEW a \in Answers, NEW Q, Tracks(d, a, Q), NEW w \in Workers,
         StartFlow(w), UNCHANGED history
  PROVE  Tracks(d, a, Q)'
<1> USE DEF At
<1> DEFINE t == task[w]
           n(pc) == [t EXCEPT !.pc = pc, !.copy = {}]
<1>1. Types /\ t \in Tasks /\ OnlyReads
  BY DEF Tracks, Types, StartFlow
<1>2. ASSUME NEW pc \in {"insert_first", "tell_yes", "deny_all"}
      PROVE  /\ n(pc) \in Tasks /\ n(pc).pc = pc /\ n(pc).at = t.at
             /\ n(pc).todo = t.todo /\ n(pc).copy = {} /\ Copies(n(pc)) \subseteq Copies(t)
  <2>1. pc \in Pcs
    BY DEF Pcs, Telling, Denying
  <2>2. QED
    BY <1>1, <2>1 DEF Tasks, Copies
<1>3. ASSUME Open(d, a, Q) PROVE \A f \in Copies(t) : f.domain = d => Stays(f, Q)
  BY <1>3 DEF Tracks, Unsaid, Spares
<1>4. CASE Goto(w, "started")
  <2>1. "started" \in Plain
    BY DEF Plain, Backs
  <2>2. QED
    BY <1>1, <1>4, <2>1, Calls, MovesAndReads DEF OnlyReads, tables, history, Types
<1>5. CASE t.at \in Known /\ Goto(w, "insert_first")
  <2>1. t.at \in Domains
    BY <1>5, OverlapAssumption
  <2>2. Knows(n("insert_first"), said)
    BY <1>2, <2>1 DEF Knows, Replying, Looping
  <2>3. Open(d, a, Q) => Spares(n("insert_first"), d, a, Q)
    BY <1>2, <1>3 DEF Spares, Telling, Denying
  <2>4. QED
    BY <1>1, <1>2, <1>5, <2>2, <2>3, KnowingIsSound DEF Goto
<1>6. ASSUME NEW pc \in {"tell_yes", "deny_all"}, t.at \notin active, Goto(w, pc)
      PROVE  Tracks(d, a, Q)'
  <2>1. n(pc).pc \in {"tell_yes", "deny_all"}
    BY <1>2
  <2>2. Knows(n(pc), said)
    BY <2>1 DEF Knows, Replying, Looping
  <2>3. Open(d, a, Q) => t.at # d
    BY <1>6 DEF Open
  <2>4. Open(d, a, Q) => Spares(n(pc), d, a, Q)
    BY <1>2, <1>3, <2>1, <2>3 DEF Spares
  <2>5. QED
    BY <1>1, <1>2, <1>6, <2>2, <2>4, KnowingIsSound DEF Goto
<1>7. QED
  BY <1>4, <1>5, <1>6 DEF StartFlow

\* On the way to the verdict nothing else is to know.
LEMMA OnTheWay ==
  ASSUME NEW d, NEW a, NEW Q, NEW t, NEW n, NEW answers,
         \/ t.pc \in Telling /\ n.pc \in Telling
         \/ t.pc \in Denying /\ n.pc \in Denying,
         n.at = t.at, Copies(n) \subseteq Copies(t)
  PROVE  Knows(n, answers) /\ (Spares(t, d, a, Q) => Spares(n, d, a, Q))
BY DEF Knows, Spares, Telling, Denying, Replying, Looping

LEMMA VerdictStepsAreSound ==
  ASSUME NEW d \in Domains, NEW a \in Answers, NEW Q, Tracks(d, a, Q), NEW w \in Workers,
         \/ Accept(w) \/ Deny(w) \/ CountDenied(w)
         \/ DenyAll(w) \/ DenyRead(w) \/ DenySave(w),
         UNCHANGED history
  PROVE  Tracks(d, a, Q)'
<1> USE DEF At
<1> DEFINE t == task[w]
           n(pc) == [t EXCEPT !.pc = pc, !.copy = {}]
           r == [t EXCEPT !.pc = "deny_save", !.value = auth]
<1>1. Types /\ t \in Tasks /\ auth \in Verdicts
  BY DEF Tracks, Types
<1>2. /\ Telling \union Denying \subseteq Pcs
      /\ {"tell_yes"} \subseteq Telling
      /\ {"deny_count", "deny_all", "deny_read", "deny_save", "deny_tell"} \subseteq Denying
  BY DEF Pcs, Telling, Denying
<1>3. ASSUME NEW pc \in Telling \union Denying
      PROVE  /\ n(pc) \in Tasks /\ n(pc).pc = pc /\ n(pc).at = t.at
             /\ Copies(n(pc)) \subseteq Copies(t)
  BY <1>1, <1>2, <1>3 DEF Tasks, Copies
<1>4. r \in Tasks /\ r.pc = "deny_save" /\ r.at = t.at /\ Copies(r) = Copies(t)
  BY <1>1, <1>2 DEF Tasks, Copies
<1>5. Open(d, a, Q) => Spares(t, d, a, Q)
  BY DEF Tracks, Unsaid
<1> HIDE DEF n, r
<1>6. CASE Accept(w) \/ Deny(w) \/ DenyAll(w)
  <2>1. PICK pc \in Telling \union Denying :
            /\ Goto(w, pc)
            /\ \/ t.pc \in Telling /\ pc \in Telling
               \/ t.pc \in Denying /\ pc \in Denying
    BY <1>2, <1>6 DEF Accept, Deny, DenyAll, Telling, Denying
  <2>2. flow' \subseteq flow /\ OnlyFlow
    BY <1>6 DEF Accept, Deny, DenyAll, Deleted
  <2>3. Knows(n(pc), said) /\ (Spares(t, d, a, Q) => Spares(n(pc), d, a, Q))
    BY <1>3, <2>1, OnTheWay
  <2>4. Proper(n(pc), d, a, Q)
    BY <1>3, <1>5, <2>2, <2>3 DEF Proper, Open, OnlyFlow, history
  <2>5. QED
    BY <1>3, <2>1, <2>2, <2>4, FewerRows DEF n, Goto, OnlyFlow, history
<1>7. CASE DenyRead(w)
  <2>1. Knows(r, said) /\ (Spares(t, d, a, Q) => Spares(r, d, a, Q))
    BY <1>4, <1>7, OnTheWay DEF DenyRead, Denying
  <2>2. QED
    BY <1>4, <1>5, <1>7, <2>1, KnowingIsSound DEF r, DenyRead
<1>8. CASE CountDenied(w)
  <2>1. CASE Return(w)
    BY <1>1, <1>8, <2>1, Calls, MovesAndReads DEF CountDenied, OnlyReads, tables, history, Types
  <2>2. CASE Goto(w, "deny_all")
    <3>1. /\ Knows(n("deny_all"), said)
          /\ Spares(t, d, a, Q) => Spares(n("deny_all"), d, a, Q)
      <4>1. t.pc \in Denying /\ "deny_all" \in Denying
        BY <1>2, <1>8 DEF CountDenied
      <4>2. QED
        BY <1>3, <4>1, OnTheWay
    <3>2. QED
      BY <1>2, <1>3, <1>5, <1>8, <2>2, <3>1, KnowingIsSound DEF n, CountDenied, Goto
  <2>3. QED
    BY <1>8, <2>1, <2>2 DEF CountDenied
<1>9. CASE DenySave(w)
  <2>1. /\ Knows(n("deny_tell"), said)
        /\ Spares(t, d, a, Q) => Spares(n("deny_tell"), d, a, Q)
    <3>1. t.pc \in Denying /\ "deny_tell" \in Denying
      BY <1>2, <1>9 DEF DenySave
    <3>2. QED
      BY <1>3, <3>1, OnTheWay
  <2>2. auth' \in Verdicts
    BY <1>1, <1>9 DEF DenySave, SaveAuth, Verdicts
  <2>3. Proper(n("deny_tell"), d, a, Q)
    BY <1>2, <1>3, <1>5, <1>9, <2>1 DEF Proper, Open, DenySave, OnlyAuth, history
  <2>4. QED
    BY <1>1, <1>2, <1>3, <1>9, <2>2, <2>3, SameRows DEF n, DenySave, Goto, OnlyAuth, history, Types
<1>10. QED
  BY <1>6, <1>7, <1>8, <1>9

\* An answer that comes in, and what response does with it.
LEMMA AnswersAreSound ==
  ASSUME NEW d \in Domains, NEW a \in Answers, NEW Q, Tracks(d, a, Q), NEW w \in Workers,
         \/ \E q \in request, answer \in Answers : Answer(w, q, answer)
         \/ (SaveAnswer(w) \/ Respond(w)) /\ UNCHANGED history
  PROVE  Tracks(d, a, Q)'
<1> USE DEF At
<1> DEFINE t == task[w]
<1>1. Types /\ t \in Tasks /\ request \subseteq Questions /\ flow \subseteq Rows /\ Knows(t, said)
  BY DEF Tracks, Types
<1>2. {"reply", "respond", "respond_save"} \subseteq Pcs /\ Answers \subseteq Verdicts
      /\ Domains \subseteq Nat
  BY OverlapAssumption DEF Pcs, Replying, Answers, Verdicts, Domains
<1>3. Open(d, a, Q) => Spares(t, d, a, Q) /\ \A f \in flow : f.domain = d => Stays(f, Q)
  BY DEF Tracks, Unsaid
<1>4. ASSUME NEW q \in request, NEW answer \in Answers, Answer(w, q, answer)
      PROVE  Tracks(d, a, Q)'
  <2> DEFINE n == [Idle EXCEPT !.pc = "reply", !.at = q.domain, !.asked = {q}, !.value = answer]
  <2>1. q \in Questions /\ q.domain \in Nat
    BY <1>1, <1>2 DEF Questions
  <2>2. /\ n \in Tasks /\ n.pc = "reply" /\ n.at = q.domain /\ n.value = answer
        /\ Copies(n) = {}
    BY <1>2, <2>1 DEF Tasks, Idle, Backs, Copies
  <2>3. said' = said \union {<<q.domain, answer>>} /\ Put(w, n) /\ OnlyReads
    BY <1>4 DEF Answer, Begin
  <2>4. Knows(n, said')
    BY <2>2, <2>3 DEF Knows, Replying, Looping
  <2>5. Spares(n, d, a, Q)
    BY <2>2 DEF Spares, Telling, Denying
  <2>6. Proper(n, d, a, Q)
    BY <2>2, <2>4, <2>5 DEF Proper
  <2>7. QED
    BY <1>1, <2>2, <2>3, <2>6, SameRows DEF OnlyReads, tables, Types
<1>5. CASE SaveAnswer(w) /\ UNCHANGED history
  <2> DEFINE n == [t EXCEPT !.pc = "respond", !.asked = {}]
  <2>1. /\ n \in Tasks /\ n.pc = "respond" /\ n.at = t.at /\ n.value = t.value
        /\ Copies(n) = Copies(t)
    BY <1>1, <1>2 DEF Tasks, Copies
  <2>2. /\ OnlyRequest /\ Put(w, n) /\ t.pc = "reply"
        /\ \E q \in t.asked : request' = Saved(request, q, t.value)
    BY <1>5 DEF SaveAnswer
  <2>3. t.value \in Answers /\ <<t.at, t.value>> \in said
    BY <1>1, <2>2 DEF Knows, Replying
  <2>4. \A q \in Questions : [q EXCEPT !.status = t.value] \in Questions
    BY <2>3 DEF Questions
  <2>5. request' \subseteq Questions
    BY <1>1, <2>2, <2>4 DEF Saved
  <2>6. Knows(n, said)
    BY <2>1, <2>3 DEF Knows, Replying, Looping
  <2>7. Open(d, a, Q) => Spares(n, d, a, Q)
    BY <1>3, <2>1 DEF Spares, Telling, Denying
  <2>8. Proper(n, d, a, Q)
    BY <1>5, <2>1, <2>2, <2>6, <2>7 DEF Proper, Open, OnlyRequest, history
  <2>9. QED
    BY <1>1, <1>5, <2>1, <2>2, <2>5, <2>8, SameRows DEF OnlyRequest, history, Types
<1>6. CASE Respond(w) /\ UNCHANGED history
  <2>1. CASE End(w)
    BY <1>1, <1>6, <2>1, Calls, MovesAndReads DEF Respond, OnlyReads, tables, history, Types
  <2>2. ASSUME NEW f \in FlowsOf(t.at), Put(w, [t EXCEPT !.pc = "respond_save", !.copy = {f}])
        PROVE  Tracks(d, a, Q)'
    <3> DEFINE n == [t EXCEPT !.pc = "respond_save", !.copy = {f}]
    <3>1. f \in flow /\ f \in Rows /\ f.domain = t.at
      BY <1>1 DEF FlowsOf
    <3>2. /\ n \in Tasks /\ n.pc = "respond_save" /\ n.at = t.at /\ n.value = t.value
          /\ n.copy = {f} /\ n.todo = t.todo
      BY <1>1, <1>2, <3>1 DEF Tasks
    <3>3. t.value \in Answers /\ <<t.at, t.value>> \in said
      BY <1>1, <1>6 DEF Respond, Knows, Replying
    <3>4. Knows(n, said)
      BY <3>1, <3>2, <3>3 DEF Knows, Replying, Looping
    <3>5. Open(d, a, Q) => Spares(n, d, a, Q)
      BY <1>3, <3>1, <3>2 DEF Spares, Copies, Telling, Denying
    <3>6. Copies(n) \subseteq flow \union Copies(t)
      BY <3>1, <3>2 DEF Copies
    <3>7. QED
      BY <1>6, <2>2, <3>2, <3>4, <3>5, <3>6, KnowingIsSound DEF Respond
  <2>3. QED
    BY <1>6, <2>1, <2>2 DEF Respond
<1>7. QED
  BY <1>4, <1>5, <1>6

-----------------------------------------------------------------------------
(***************************************************************************)
(* Statements of execute.                                                  *)
(***************************************************************************)

LEMMA ExecuteIsSound ==
  ASSUME NEW d \in Domains, NEW a \in Answers, NEW Q, Tracks(d, a, Q), NEW w \in Workers,
         Execute(w), UNCHANGED history
  PROVE  Tracks(d, a, Q)'
<1> DEFINE t == task[w]
           n == [t EXCEPT !.pc = "foreach", !.todo = FlowsOf(t.at)]
<1>1. Types /\ t \in Tasks /\ flow \subseteq Rows
  BY DEF Tracks, Types
<1>2. CASE Return(w)
  BY <1>1, <1>2, Calls, MovesAndReads DEF Execute, OnlyReads, tables, history, Types
<1>3. CASE Put(w, n)
  <2>1. FlowsOf(t.at) \subseteq flow /\ \A f \in FlowsOf(t.at) : f.domain = t.at
    BY DEF FlowsOf
  <2>2. "foreach" \in Pcs
    BY DEF Pcs, Looping
  <2>3. /\ n \in Tasks /\ n.pc = "foreach" /\ n.at = t.at /\ n.copy = t.copy
        /\ n.todo = FlowsOf(t.at)
    BY <1>1, <2>1, <2>2 DEF Tasks
  <2>4. Knows(n, said)
    BY <2>1, <2>3 DEF Knows, Replying
  <2>5. Open(d, a, Q) => \A f \in flow \union Copies(t) : f.domain = d => Stays(f, Q)
    BY DEF Tracks, Unsaid, Spares
  <2>6. Open(d, a, Q) => Spares(n, d, a, Q)
    BY <2>1, <2>3, <2>5 DEF Spares, Copies, Telling, Denying
  <2>7. Copies(n) \subseteq flow \union Copies(t)
    BY <2>1, <2>3 DEF Copies
  <2>8. QED
    BY <1>3, <2>3, <2>4, <2>6, <2>7, KnowingIsSound DEF Execute
<1>4. QED
  BY <1>2, <1>3 DEF Execute

\* The copy that foreach takes may have the status that a filter gives it.
LEMMA TakesACopy ==
  ASSUME NEW d \in Domains, NEW a \in Answers, NEW Q, Tracks(d, a, Q), NEW w \in Workers, At(w, "foreach"),
         NEW f \in task[w].todo, NEW c \in Rows,
         c.id = f.id, c.domain = f.domain, c.node = f.node,
         c = f \/ Kind[f.node] = "filter",
         NEW pc \in {"insert", "ask", "accept", "deny"},
         pc = "insert" => Kind[f.node] = "filter" \/ f.status \in {"YES", "NO"},
         pc \in {"accept", "deny"} => pc = Kind[f.node],
         Put(w, [task[w] EXCEPT !.pc = pc, !.todo = @ \ {f}, !.copy = {c}]),
         OnlyReads, UNCHANGED history
  PROVE  Tracks(d, a, Q)'
<1> DEFINE t == task[w]
           n == [t EXCEPT !.pc = pc, !.todo = @ \ {f}, !.copy = {c}]
<1>1. Types /\ Versions /\ t \in Tasks /\ Knows(t, said) /\ t.pc = "foreach"
  BY DEF Tracks, Types, At
<1>2. pc \in Pcs
  BY DEF Pcs, Plain, Looping, Telling, Denying
<1>3. /\ n \in Tasks /\ n.pc = pc /\ n.at = t.at /\ n.copy = {c} /\ n.todo = t.todo \ {f}
  BY <1>1, <1>2 DEF Tasks
<1>4. f \in Copies(t) /\ f.domain = t.at /\ f \in Rows
  BY <1>1 DEF Copies, Knows, Looping, Tasks
<1>5. Knows(n, said)
  BY <1>1, <1>3 DEF Knows, Replying, Looping
<1>6. ASSUME Open(d, a, Q) PROVE Spares(n, d, a, Q)
  <2>1. \A g \in Copies(t) : g.domain = d => Stays(g, Q)
    BY <1>6 DEF Tracks, Unsaid, Spares
  <2>2. ASSUME f.domain = d
        PROVE  /\ f.node \in Q
               /\ Kind[f.node] = "filter" => Yes[f.node] \in Q /\ No[f.node] \in Q
    <3>1. f.node \in Q
      BY <1>4, <2>1, <2>2 DEF Stays
    <3>2. Without(a, f.node) \subseteq Q
      BY <1>6, <3>1 DEF Open, LeftTo
    <3>3. Kind[f.node] = "filter" => f.node \notin Requests
      BY DEF Requests
    <3>4. QED
      BY <3>1, <3>2, <3>3 DEF Without
  <2>3. c.domain = d => Stays(c, Q)
    BY <1>4, <2>1, <2>2 DEF Stays
  <2>4. \A g \in Copies(n) : g.domain = d => Stays(g, Q)
    BY <1>3, <2>1, <2>3 DEF Copies
  <2>5. pc = "insert" /\ c.domain = d =>
            (IF c.status = "YES" THEN Yes[c.node] ELSE No[c.node]) \in Q
    BY <2>2, <2>3 DEF Stays
  <2>6. pc \in {"accept", "deny"} /\ t.at = d => a # IF pc = "accept" THEN "AUTHORIZED" ELSE "DENIED"
    <3>1. SUFFICES ASSUME pc \in {"accept", "deny"}, t.at = d
                   PROVE  a # IF pc = "accept" THEN "AUTHORIZED" ELSE "DENIED"
      OBVIOUS
    <3>2. Kind[f.node] # IF a = "AUTHORIZED" THEN "accept" ELSE "deny"
      BY <1>4, <1>6, <2>2, <3>1 DEF Open, LeftTo
    <3>3. QED
      BY <3>1, <3>2 DEF Answers
  <2>7. /\ n.pc = "insert" =>
            \A g \in n.copy : g.domain = d =>
                (IF g.status = "YES" THEN Yes[g.node] ELSE No[g.node]) \in Q
        /\ n.pc \in Telling /\ n.at = d => a # "AUTHORIZED"
        /\ n.pc \in Denying /\ n.at = d => a # "DENIED"
    BY <1>3, <2>5, <2>6 DEF Telling, Denying
  <2>8. QED
    BY <2>4, <2>7 DEF Spares
<1>7. Versions'
  <2>1. \A s \in Copies(n) : \E q \in flow \union Copies(t) :
            s.id = q.id /\ s.domain = q.domain /\ s.node = q.node
    <3>1. \A s \in Copies(n) : s \in Copies(t) \/ s = c
      BY <1>3 DEF Copies
    <3>2. QED
      BY <1>4, <3>1
  <2>2. \A r \in flow' : \E q \in flow : r.id = q.id /\ r.domain = q.domain /\ r.node = q.node
    BY DEF OnlyReads, tables
  <2>3. QED
    BY <1>1, <1>3, <2>1, <2>2, OldRows
<1>8. Open(d, a, Q)' <=> Open(d, a, Q)
  BY DEF Open, OnlyReads, tables, history
<1>9. Proper(n, d, a, Q)
  BY <1>3, <1>5, <1>6, <1>8 DEF Proper, history
<1>10. /\ Open(d, a, Q)' => a \notin verdict'[d]
       /\ Open(d, a, Q)' => \A g \in flow' : g.domain = d => Stays(g, Q)
  BY <1>8 DEF Tracks, Unsaid, OnlyReads, tables
<1>11. QED
  BY <1>1, <1>7, <1>9, <1>10, OneWorker DEF OnlyReads, tables, history, Types

LEMMA NextFlowIsSound ==
  ASSUME NEW d \in Domains, NEW a \in Answers, NEW Q, Tracks(d, a, Q), NEW w \in Workers, NextFlow(w), UNCHANGED history
  PROVE  Tracks(d, a, Q)'
<1> DEFINE t == task[w]
           do(f, pc, c) == Put(w, [t EXCEPT !.pc = pc, !.todo = @ \ {f}, !.copy = {c}])
<1>1. Types /\ t \in Tasks /\ At(w, "foreach") /\ OnlyReads
  BY DEF Tracks, Types, NextFlow
<1>2. t.todo \subseteq Rows
  BY <1>1 DEF Tasks
<1>3. ASSUME Goto(w, "execute") \/ Return(w) PROVE Tracks(d, a, Q)'
  <2>1. "execute" \in Plain
    BY DEF Plain
  <2>2. QED
    BY <1>1, <1>3, <2>1, Calls, MovesAndReads DEF OnlyReads, tables, history, Types
<1>4. ASSUME NEW f \in t.todo,
             Kind[f.node] = "filter",
             NEW status \in {"YES", "NO"}, do(f, "insert", [f EXCEPT !.status = status])
      PROVE  Tracks(d, a, Q)'
  <2> DEFINE c == [f EXCEPT !.status = status]
  <2>1. f \in Rows
    BY <1>2
  <2>2. c \in Rows /\ c.id = f.id /\ c.domain = f.domain /\ c.node = f.node
    BY <2>1 DEF Rows, Statuses
  <2> HIDE DEF c
  <2>3. do(f, "insert", c)
    BY <1>4 DEF c
  <2>4. QED
    BY <1>1, <1>4, <2>2, <2>3, TakesACopy
<1>5. ASSUME NEW f \in t.todo,
             NEW pc \in {"insert", "ask", "accept", "deny"},
             pc = "insert" => Kind[f.node] = "filter" \/ f.status \in {"YES", "NO"},
             pc \in {"accept", "deny"} => pc = Kind[f.node],
             do(f, pc, f)
      PROVE  Tracks(d, a, Q)'
  BY <1>1, <1>2, <1>5, TakesACopy
<1> HIDE DEF do
<1>6. \/ Goto(w, "execute") \/ Return(w)
      \/ \E f \in t.todo :
            \/ /\ Kind[f.node] = "filter"
               /\ \E status \in {"YES", "NO"} : do(f, "insert", [f EXCEPT !.status = status])
            \/ Kind[f.node] = "filter" /\ do(f, "insert", f)
            \/ do(f, "ask", f)
            \/ f.status \in {"YES", "NO"} /\ do(f, "insert", f)
            \/ Kind[f.node] \in {"accept", "deny"} /\ do(f, Kind[f.node], f)
  BY DEF NextFlow, do
<1>7. QED
  BY <1>3, <1>4, <1>5, <1>6

LEMMA InsertNextIsSound ==
  ASSUME NEW d \in Domains, NEW a \in Answers, NEW Q, Tracks(d, a, Q), NEW w \in Workers,
         InsertNext(w), UNCHANGED history
  PROVE  Tracks(d, a, Q)'
<1> DEFINE t == task[w]
           n == [t EXCEPT !.pc = "delete"]
           next(f) == IF f.status = "YES" THEN Yes[f.node] ELSE No[f.node]
<1>1. Types /\ t \in Tasks /\ Knows(t, said) /\ t.pc = "insert" /\ OnlyFlow /\ Put(w, n)
  BY DEF Tracks, Types, InsertNext, At
<1>2. PICK f \in t.copy, i \in FreeFlowIds :
          flow' = flow \union {Arrive(i, f.domain, next(f))}
  BY DEF InsertNext
<1>3. f \in Rows /\ f.node \in Nodes /\ f.domain \in Domains
  BY <1>1 DEF Tasks, Rows
<1>4. next(f) \in Nodes
  BY <1>3, OverlapAssumption
<1>5. "delete" \in Pcs
  BY DEF Pcs, Looping
<1>6. /\ n \in Tasks /\ n.pc = "delete" /\ n.at = t.at /\ n.todo = t.todo /\ n.copy = t.copy
  BY <1>1, <1>5 DEF Tasks
<1>7. Knows(n, said)
  BY <1>1, <1>6 DEF Knows, Replying, Looping
<1>8. Open(d, a, Q) => Spares(t, d, a, Q)
  BY DEF Tracks, Unsaid
<1>9. Open(d, a, Q) => Spares(n, d, a, Q)
  BY <1>6, <1>8 DEF Spares, Copies, Telling, Denying
<1>10. Open(d, a, Q) /\ f.domain = d => next(f) \in Q
  BY <1>1, <1>8 DEF Spares
<1>11. Proper(n, d, a, Q)
  BY <1>1, <1>6, <1>7, <1>9 DEF Proper, Open, OnlyFlow, history
<1>12. Copies(n) \subseteq flow \union Copies(t)
  BY <1>6 DEF Copies
<1> HIDE DEF n, next
<1>13. QED
  BY <1>1, <1>2, <1>3, <1>4, <1>10, <1>11, <1>12, MoreRows

LEMMA DeleteOldIsSound ==
  ASSUME NEW d \in Domains, NEW a \in Answers, NEW Q, Tracks(d, a, Q), NEW w \in Workers,
         DeleteOld(w), UNCHANGED history
  PROVE  Tracks(d, a, Q)'
<1> DEFINE t == task[w]
           n == [t EXCEPT !.pc = "foreach", !.copy = {}]
<1>1. Types /\ t \in Tasks /\ Knows(t, said) /\ t.pc = "delete" /\ OnlyFlow /\ Put(w, n)
  BY DEF Tracks, Types, DeleteOld, At, Goto
<1>2. flow' \subseteq flow
  BY DEF DeleteOld, Deleted
<1>3. "foreach" \in Pcs
  BY DEF Pcs, Looping
<1>4. /\ n \in Tasks /\ n.pc = "foreach" /\ n.at = t.at /\ n.todo = t.todo /\ n.copy = {}
  BY <1>1, <1>3 DEF Tasks
<1>5. Knows(n, said)
  BY <1>1, <1>4 DEF Knows, Replying, Looping
<1>6. Open(d, a, Q) => Spares(t, d, a, Q)
  BY DEF Tracks, Unsaid
<1>7. Open(d, a, Q) => Spares(n, d, a, Q)
  BY <1>4, <1>6 DEF Spares, Copies, Telling, Denying
<1>8. Proper(n, d, a, Q)
  BY <1>1, <1>4, <1>5, <1>7 DEF Proper, Open, OnlyFlow, history
<1>9. Copies(n) \subseteq flow \union Copies(t)
  BY <1>4 DEF Copies
<1>10. QED
  BY <1>1, <1>2, <1>8, <1>9, FewerRows DEF OnlyFlow, history

LEMMA FindQuestionIsSound ==
  ASSUME NEW d \in Domains, NEW a \in Answers, NEW Q, Tracks(d, a, Q), NEW w \in Workers,
         FindQuestion(w), UNCHANGED history
  PROVE  Tracks(d, a, Q)'
<1> DEFINE t == task[w]
           n(f, pc) == [t EXCEPT !.pc = pc, !.todo = {},
                         !.copy = IF pc = "execute" THEN {} ELSE {f}]
<1>1. Types /\ t \in Tasks /\ OnlyReads
  BY DEF Tracks, Types, FindQuestion
<1>2. {"execute", "question"} \subseteq Plain /\ {"execute", "question", "say_yes"} \subseteq Pcs
  BY DEF Plain, Pcs
<1>3. ASSUME NEW f \in t.copy, NEW pc \in {"execute", "question", "say_yes"}
      PROVE  /\ n(f, pc) \in Tasks /\ n(f, pc).pc = pc /\ n(f, pc).todo = {}
             /\ n(f, pc).copy \subseteq {f} /\ Copies(n(f, pc)) \subseteq Copies(t)
  BY <1>1, <1>2 DEF Tasks, Copies
<1> HIDE DEF n
<1>4. PICK f \in t.copy :
          \/ Put(w, n(f, "execute")) \/ Put(w, n(f, "question"))
          \/ Put(w, n(f, "say_yes")) /\ Kind[f.node] = "user" /\ Manager[f.node] = Requester
  BY DEF FindQuestion, n
<1>5. ASSUME NEW pc \in {"execute", "question"}, Put(w, n(f, pc)) PROVE Tracks(d, a, Q)'
  <2>1. Moves(w)
    BY <1>2, <1>3, <1>5 DEF Moves
  <2>2. QED
    BY <1>1, <2>1, MovesAndReads DEF OnlyReads, tables, history, Types
<1>6. CASE Put(w, n(f, "say_yes")) /\ Kind[f.node] = "user" /\ Manager[f.node] = Requester
  <2>1. Knows(n(f, "say_yes"), said)
    BY <1>3, <1>6 DEF Knows, Replying, Looping
  <2>2. Open(d, a, Q) => Spares(t, d, a, Q)
    BY DEF Tracks, Unsaid
  <2>3. Open(d, a, Q) => Spares(n(f, "say_yes"), d, a, Q)
    BY <1>3, <2>2 DEF Spares, Telling, Denying
  <2>4. QED
    BY <1>1, <1>3, <1>6, <2>1, <2>3, KnowingIsSound
<1>7. QED
  BY <1>4, <1>5, <1>6

-----------------------------------------------------------------------------

Answered == \A d \in Domains, a \in Answers : \A Q : Tracks(d, a, Q)

LEMMA InitTracks ==
  ASSUME NEW d \in Domains, NEW a \in Answers, NEW Q, Init
  PROVE  Tracks(d, a, Q)
<1>1. Idle \in Tasks /\ Idle.pc = "idle" /\ Copies(Idle) = {}
  BY DEF Idle, Tasks, Pcs, Plain, Backs, Copies
<1>2. \A w \in Workers : task[w] = Idle
  BY DEF Init
<1>3. Types /\ active \subseteq Domains
  BY <1>1, OverlapAssumption DEF Init, Types, Verdicts
<1>4. Versions
  BY DEF Init, Versions
<1>5. Knows(Idle, said)
  BY <1>1 DEF Knows, Replying, Looping
<1>6. Spares(Idle, d, a, Q)
  BY <1>1 DEF Spares, Telling, Denying
<1>7. Unsaid(d, a, Q)
  BY <1>2, <1>6 DEF Init, Unsaid
<1>8. QED
  BY <1>2, <1>3, <1>4, <1>5, <1>7 DEF Tracks

LEMMA NextTracks ==
  ASSUME NEW d \in Domains, NEW a \in Answers, NEW Q, Tracks(d, a, Q), [Next]_vars
  PROVE  Tracks(d, a, Q)'
<1>1. CASE UNCHANGED vars
  <2>1. \A w \in Workers : task'[w] = task[w]
    BY <1>1 DEF vars
  <2>2. Types' /\ (active \subseteq Domains)' /\ Versions'
    BY <1>1 DEF vars, Tracks, Types, Versions
  <2>3. \A w \in Workers : Knows(task'[w], said')
    BY <1>1 DEF vars, Tracks
  <2>4. Unsaid(d, a, Q)'
    BY <1>1 DEF vars, Tracks, Unsaid, Open
  <2>5. QED
    BY <2>2, <2>3, <2>4 DEF Tracks
<1>2. ASSUME NEW w \in Workers,
             \/ RequestAuthorization(w) \/ Cancel(w) \/ Expire(w) \/ Abort(w)
             \/ \E e \in Domains : Disable(w, e)
      PROVE  Tracks(d, a, Q)'
  BY <1>2, BeginsAreSound
<1>3. ASSUME NEW w \in Workers, \E q \in request, answer \in Answers : Answer(w, q, answer)
      PROVE  Tracks(d, a, Q)'
  BY <1>3, AnswersAreSound
<1>4. ASSUME NEW w \in Workers, Statement(w) PROVE Tracks(d, a, Q)'
  <2>1. UNCHANGED history
    BY <1>4 DEF Statement
  <2>2. CASE PlainReading(w)
    BY <2>1, <2>2, ReadsAreSound
  <2>3. CASE PlainWriting(w)
    BY <2>1, <2>3, WritesAreSound
  <2>4. CASE PlainRows(w)
    BY <2>1, <2>4, RowsAreSound
  <2>5. CASE TellYes(w) \/ DenyTell(w) \/ ForgetAnswers(w)
    BY <2>1, <2>5, VerdictsAreSound
  <2>6. CASE Accept(w) \/ Deny(w) \/ CountDenied(w) \/ DenyAll(w) \/ DenyRead(w) \/ DenySave(w)
    BY <2>1, <2>6, VerdictStepsAreSound
  <2>7. CASE SaveAnswer(w) \/ Respond(w)
    BY <2>1, <2>7, AnswersAreSound
  <2>8. CASE StartFlow(w)
    BY <2>1, <2>8, StartFlowIsSound
  <2>9. CASE Execute(w)
    BY <2>1, <2>9, ExecuteIsSound
  <2>10. CASE NextFlow(w)
    BY <2>1, <2>10, NextFlowIsSound
  <2>11. CASE InsertNext(w)
    BY <2>1, <2>11, InsertNextIsSound
  <2>12. CASE DeleteOld(w)
    BY <2>1, <2>12, DeleteOldIsSound
  <2>13. CASE FindQuestion(w)
    BY <2>1, <2>13, FindQuestionIsSound
  <2>14. \/ PlainReading(w) \/ PlainWriting(w) \/ PlainRows(w)
         \/ TellYes(w) \/ DenyTell(w) \/ ForgetAnswers(w)
         \/ Accept(w) \/ Deny(w) \/ CountDenied(w) \/ DenyAll(w) \/ DenyRead(w) \/ DenySave(w)
         \/ SaveAnswer(w) \/ Respond(w) \/ StartFlow(w) \/ Execute(w) \/ NextFlow(w)
         \/ InsertNext(w) \/ DeleteOld(w) \/ FindQuestion(w)
    BY <1>4 DEF Statement, PlainReading, PlainWriting, PlainRows
  <2>15. QED
    BY <2>2, <2>3, <2>4, <2>5, <2>6, <2>7, <2>8, <2>9, <2>10, <2>11, <2>12, <2>13, <2>14
<1>5. QED
  BY <1>1, <1>2, <1>3, <1>4 DEF Next

\* No verdict is given that the workflow of a domain leaves to its managers and
\* none of them gave: for any workflows, any number of workers and of requests,
\* with every statement of BpmFlow.php and Connection.php a step of its own and
\* requests that are killed between any two.
THEOREM NobodySpeaksForTheManagers == Spec => []VerdictIsAnswered
<1>1. Init => Answered
  BY InitTracks DEF Answered
<1>2. Answered /\ [Next]_vars => Answered'
  BY NextTracks DEF Answered
<1>3. Answered => VerdictIsAnswered
  <2>1. SUFFICES ASSUME Answered, NEW d \in active, NEW a \in verdict[d], LeftToManagers(d, a),
                        <<d, a>> \notin said
                 PROVE  FALSE
    BY DEF VerdictIsAnswered
  <2>2. PICK Q \in SUBSET Nodes : Start[d] \in Q /\ LeftTo(a, Q)
    BY <2>1 DEF LeftToManagers
  <2>3. 1 \in Domains /\ "DENIED" \in Answers
    BY OverlapAssumption DEF Domains, Answers
  <2>4. Tracks(1, "DENIED", Q)
    BY <2>1, <2>3 DEF Answered
  <2>5. d \in Domains /\ a \in Answers
    BY <2>4 DEF Tracks, Types
  <2>6. Tracks(d, a, Q)
    BY <2>1, <2>5 DEF Answered
  <2>7. QED
    BY <2>1, <2>2, <2>6 DEF Tracks, Unsaid, Open
<1>4. QED
  BY <1>1, <1>2, <1>3, PTL DEF Spec
=============================================================================
