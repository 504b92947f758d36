----------------------------- MODULE Discovery ------------------------------
(***************************************************************************)
(* The discovery of the topology of a domain (DiscoveryService.php,        *)
(* DiscoveryTask.php, Change.php) and the page of a task, from which what  *)
(* it has found is applied (task.js).                                      *)
(*                                                                         *)
(* A task reads the description a provider publishes, compares it with the *)
(* database and stores what differs as changes; these are applied one by   *)
(* one at a click, or all together.  Requests run at the same time: a step *)
(* here is a search, or the application of one change.                     *)
(*                                                                         *)
(* Networks, devices and bidirectional ports of an NSI topology are in the *)
(* model.  A network is part of the URN of its ports, a device is not: a   *)
(* port may move.  A row counts by its identity: gen tells how often what  *)
(* has its name was deleted, and a deletion is of the row that was found.  *)
(***************************************************************************)
EXTENDS WebPage

CONSTANTS
    Nets, Nodes,   \* the networks, and the devices by their node names
    NetOf,         \* NetOf[p]: the network of port p
    Known,         \* the databases to start with
    MaxTasks,      \* bound on the tasks
    MaxEdited      \* bound on the edits by hand

\* Maps from some of the ports to devices.
Placements == UNION {[P -> Nodes] : P \in SUBSET DOMAIN NetOf}

\* What a database may hold.
Databases ==
    [domain : BOOLEAN, nets : SUBSET Nets, devs : SUBSET Nodes, ports : Placements]

ASSUME DiscoveryAssumption ==
    /\ Known \subseteq Databases /\ None \notin Databases
    /\ (Nets \union DOMAIN NetOf) \intersect Nodes = {}
    /\ \A p \in DOMAIN NetOf : NetOf[p] \in Nets
    /\ MaxTasks \in Nat /\ MaxEdited \in Nat

VARIABLES
    stored,      \* [domain, nets, devs, ports]: the database, ports a map to devices
    gen,         \* deletions of a device or port, by name
    tasks,       \* the tasks: [phase, changes, quiet, settled, of, moved]; changes
                 \* tells which were applied, and not which failed
    applying,    \* requests that apply changes: [task, all, types, batch]
    taskPage,    \* the overlay covers the grid with the changes
    edited       \* edits by hand, counted against MaxEdited

discoveryVars == <<stored, gen, tasks, applying, taskPage, edited>>

BiPorts == DOMAIN NetOf

PortsIn(ports, u) == {p \in DOMAIN ports : NetOf[p] = u}
DevicesIn(ports, u) == {ports[p] : p \in PortsIn(ports, u)}

CountEdit == edited < MaxEdited /\ edited' = edited + 1

-----------------------------------------------------------------------------
(***************************************************************************)
(* Changes.                                                                *)
(***************************************************************************)

\* Their order when all are applied.
Types == <<"domain", "network", "device", "biport">>

\* Mutant: ports come before devices.
TypesByName == <<"biport", "device", "domain", "network">>

TypesInOrder == Types

Change(item, type, of, with) ==
    [item |-> item, type |-> type, of |-> of, with |-> with]

BuildDomainChanges ==
    IF stored.domain THEN {} ELSE {Change("domain", "CREATE", None, None)}

ImportNetworks(d) ==
    {Change("network", "CREATE", u, None) : u \in d.nets \ stored.nets}

\* A device with ports in two networks is found twice.  In a network that is
\* known, and has a port still, the ports that are not described are invalid.
ImportDevices(d, u) ==
    LET new == PortsIn(d.ports, u)
        old == PortsIn(stored.ports, u)
    IN  IF new = {} THEN {}
        ELSE {Change("device", "CREATE", n, u) :
                 n \in DevicesIn(d.ports, u) \ stored.devs}
             \union {Change("biport", "CREATE", p, d.ports[p]) : p \in new \ DOMAIN stored.ports}
             \union IF u \notin stored.nets THEN {}
                    ELSE {Change("biport", "DELETE", p, gen[p]) : p \in old \ new}

\* The devices of a known domain that no network has are invalid.
InvalidDevices(d) ==
    IF ~stored.domain \/ d.nets = {} THEN {}
    ELSE {Change("device", "DELETE", n, gen[n]) :
             n \in stored.devs \ UNION {DevicesIn(d.ports, u) : u \in Nets}}

SearchChanges(d) ==
    IF d.nets = {} THEN {}
    ELSE BuildDomainChanges \union ImportNetworks(d) \union InvalidDevices(d)
            \union UNION {ImportDevices(d, u) : u \in d.nets}

\* What a change does to the database, or None when it fails.
Without(ports, P) == [p \in DOMAIN ports \ P |-> ports[p]]
With(ports, p, n) == [q \in DOMAIN ports \union {p} |-> IF q = p THEN n ELSE ports[q]]

Applied(c, t) ==
    CASE c.item = "domain" ->
            IF t.domain THEN None ELSE [t EXCEPT !.domain = TRUE]
      [] c.item = "network" ->
            IF t.domain /\ c.of \notin t.nets
            THEN [t EXCEPT !.nets = @ \union {c.of}] ELSE None
      [] c.item = "device" /\ c.type = "CREATE" ->
            IF t.domain /\ c.of \notin t.devs
            THEN [t EXCEPT !.devs = @ \union {c.of}] ELSE None
      [] c.item = "device" /\ c.type = "DELETE" ->
            IF c.of \in t.devs /\ c.with = gen[c.of]
            THEN [t EXCEPT !.devs = @ \ {c.of},
                     !.ports = Without(@, {p \in DOMAIN t.ports : t.ports[p] = c.of})]
            ELSE None
      [] c.item = "biport" /\ c.type = "CREATE" ->
            IF c.with \in t.devs /\ c.of \notin DOMAIN t.ports
            THEN [t EXCEPT !.ports = With(@, c.of, c.with)] ELSE None
      [] c.item = "biport" /\ c.type = "DELETE" ->
            IF c.of \in DOMAIN t.ports /\ c.with = gen[c.of]
            THEN [t EXCEPT !.ports = Without(@, {c.of})] ELSE None

\* Every row that is gone takes its identity with it.
Deleted(old, new) ==
    [x \in DOMAIN gen |->
        IF x \in (old.devs \ new.devs) \union (DOMAIN old.ports \ DOMAIN new.ports)
        THEN gen[x] + 1 ELSE gen[x]]

\* The tasks whose findings somebody else has overtaken.
Disturbed(but) ==
    [k \in DOMAIN tasks |->
        IF k = but THEN tasks[k]
        ELSE [tasks[k] EXCEPT !.quiet = FALSE, !.of = None, !.moved = {}]]

-----------------------------------------------------------------------------
(***************************************************************************)
(* Tasks.                                                                  *)
(***************************************************************************)

\* A provider publishes what it likes: [nets, ports], alike.
Descriptions ==
    {d \in [nets : SUBSET Nets, ports : Placements] :
        \A p \in DOMAIN d.ports : NetOf[p] \in d.nets}

NewTask ==
    Append(tasks, [phase |-> "INPROGRESS", changes |-> <<>>, quiet |-> FALSE,
                   settled |-> FALSE, of |-> None, moved |-> {}])

\* A user, a schedule or a notification of the provider starts a discovery.
ActionExecute ==
    /\ Len(tasks) < MaxTasks
    /\ tasks' = NewTask
    /\ UNCHANGED <<stored, gen, applying, taskPage, edited>>

\* A port is added, moved or deleted by hand.
EditPorts ==
    /\ CountEdit
    /\ \E p \in BiPorts :
          LET after ==
                {[stored EXCEPT !.ports = With(@, p, n)] : n \in stored.devs}
                \union {[stored EXCEPT !.ports = Without(@, {p})]}
          IN  \E new \in after \ {stored} : stored' = new /\ gen' = Deleted(stored, new)
    /\ tasks' = Disturbed(0)
    /\ UNCHANGED <<applying, taskPage>>

\* The description cannot be read.  taskFailed overwrites the task with its status
\* before it saves it, and stops there: the row stays in progress.
TaskFailed(k) ==
    /\ tasks[k].phase = "INPROGRESS"
    /\ tasks' = [tasks EXCEPT ![k].phase = "stuck"]
    /\ UNCHANGED <<stored, gen, applying, taskPage, edited>>

ApplyChanges(k) == [task |-> k, all |-> TRUE, types |-> TypesInOrder, batch |-> {}]

\* The search stores its changes; a rule may be one whose changes are applied at once.
Execute(k, auto, d) ==
    /\ tasks[k].phase = "INPROGRESS"
    /\ tasks' = [tasks EXCEPT ![k] =
          [phase |-> "SUCCESS",
           changes |-> [c \in SearchChanges(d) |-> FALSE],
           quiet |-> TRUE, settled |-> FALSE, of |-> d,
           moved |-> {p \in DOMAIN d.ports \intersect DOMAIN stored.ports :
                         d.ports[p] # stored.ports[p]}]]
    /\ applying' = IF auto THEN applying \union {ApplyChanges(k)} ELSE applying
    /\ UNCHANGED <<stored, gen, taskPage, edited>>

\* Of each type those are applied that are not applied when their turn comes, in
\* the order of the rows: that of the description, which may be any.
ApplyChangesByType(a) ==
    /\ a.batch = {} /\ a.types # <<>>
    /\ applying' = (applying \ {a}) \union
          {[a EXCEPT !.types = Tail(@),
                     !.batch = {c \in DOMAIN tasks[a.task].changes :
                                   c.item = Head(a.types) /\ ~tasks[a.task].changes[c]}]}
    /\ UNCHANGED <<stored, gen, tasks, taskPage, edited>>

\* apply does not look at the status of the change.
Apply(a, c) ==
    LET after == Applied(c, stored)
        k == a.task
    IN  /\ applying' = (applying \ {a}) \union {[a EXCEPT !.batch = @ \ {c}]}
        /\ IF after = None
           THEN /\ tasks' = IF c \notin DOMAIN tasks[k].changes THEN tasks
                            ELSE [tasks EXCEPT ![k].changes[c] = FALSE]
                /\ UNCHANGED <<stored, gen>>
           ELSE /\ stored' = after
                /\ gen' = Deleted(stored, after)
                /\ tasks' = IF c \notin DOMAIN tasks[k].changes THEN Disturbed(k)
                            ELSE [Disturbed(k) EXCEPT ![k].changes[c] = TRUE]
        /\ UNCHANGED <<taskPage, edited>>

\* The request has answered; the page of the task is reloaded.
ApplyEnds(a) ==
    /\ a.batch = {} /\ a.types = <<>>
    /\ applying' = applying \ {a}
    /\ tasks' = [tasks EXCEPT ![a.task].settled = @ \/ a.all]
    /\ taskPage' = FALSE
    /\ UNCHANGED <<stored, gen, edited>>

-----------------------------------------------------------------------------
(***************************************************************************)
(* The page of a task.                                                     *)
(***************************************************************************)

\* The grid may be older than the changes: any of them can be clicked.
ApplyClick(k, c) ==
    /\ ~taskPage /\ Cardinality(applying) < 2
    /\ taskPage' = TRUE
    /\ applying' = applying \union
          {[task |-> k, all |-> FALSE, types |-> <<>>, batch |-> {c}]}
    /\ UNCHANGED <<stored, gen, tasks, edited>>

ApplyAll(k) ==
    /\ ~taskPage /\ Cardinality(applying) < 2
    /\ tasks[k].phase = "SUCCESS"
    /\ taskPage' = TRUE
    /\ applying' = applying \union {ApplyChanges(k)}
    /\ UNCHANGED <<stored, gen, tasks, edited>>

\* A filter reloads the grid, too, and uncovers it.
ChangesReloaded ==
    /\ taskPage
    /\ taskPage' = FALSE
    /\ UNCHANGED <<stored, gen, tasks, applying, edited>>

-----------------------------------------------------------------------------
DiscoveryInit ==
    /\ stored \in Known
    /\ gen = [x \in Nodes \union BiPorts |-> 0]
    /\ tasks = <<>> /\ applying = {}
    /\ taskPage = FALSE /\ edited = 0

DiscoveryNext ==
    \/ ActionExecute \/ EditPorts
    \/ \E k \in DOMAIN tasks :
          \/ TaskFailed(k) \/ (\E auto \in BOOLEAN, d \in Descriptions : Execute(k, auto, d))
          \/ ApplyAll(k) \/ \E c \in DOMAIN tasks[k].changes : ApplyClick(k, c)
    \/ \E a \in applying :
          ApplyChangesByType(a) \/ (\E c \in a.batch : Apply(a, c)) \/ ApplyEnds(a)
    \/ ChangesReloaded

DiscoverySpec == DiscoveryInit /\ [][DiscoveryNext]_discoveryVars

-----------------------------------------------------------------------------
\* When all changes of a task were applied once, and nobody else has changed the
\* topology since its search, everything that was described then is there and in
\* its place, however clicks on single changes, in any order, came in between;
\* except a port that had moved to another device.  (It is lost when the device it
\* had left is deleted: an update of a port is never found.)
DescribedIsThere ==
    \A k \in DOMAIN tasks : LET t == tasks[k] IN
       t.settled /\ t.quiet /\ t.of.nets # {} =>
          /\ stored.domain /\ t.of.nets \subseteq stored.nets
          /\ \A p \in DOMAIN t.of.ports \ t.moved :
                p \in DOMAIN stored.ports /\ stored.ports[p] = t.of.ports[p]
=============================================================================
