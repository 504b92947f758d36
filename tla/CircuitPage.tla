---------------------------- MODULE CircuitPage -----------------------------
(***************************************************************************)
(* The page of a circuit (view2.js): its status block is reloaded every    *)
(* half minute, its path is drawn on a map once the devices have been      *)
(* answered one by one, and a graph shows the traffic of its first leg.    *)
(*                                                                         *)
(* The dialogs of the page are the module CircuitDialogs; what it posts to *)
(* cancel and edit the circuit is the module Connection's.                 *)
(***************************************************************************)
EXTENDS WebPage, LMap

CONSTANTS
    CircuitPath,  \* the devices of the ports on the path, in order
    MaxLoads      \* bound on how often the graph is loaded

ASSUME CircuitPageAssumption ==
    CircuitPath \in Seq(STRING) /\ Len(CircuitPath) > 1 /\ MaxLoads \in Nat

VARIABLES
    circuit,     \* [authorized, active]: the circuit at the server
    block,       \* the same, as the status block of the page shows it
    known,       \* the same, as the script took it from the block
    circuitMap,  \* the map of the path
    grid,        \* the rows of the path under the map
    doms,        \* the domains are [known], or have been [missed] before
    drawing,     \* requests of the path and its devices, and who polls for them
    graph,       \* [loads, wanted, loading, data, shown]: the traffic graph
    reload       \* the block that pjax is reloading, or None

circuitVars == <<circuit, block, known, circuitMap, grid, doms, drawing,
                 graph, reload>>

Color(active) == IF active THEN "green" ELSE "blue"

\* The path the server answers with: the end points only until it is authorized.
OrderedPath == IF circuit.authorized THEN CircuitPath
               ELSE <<Head(CircuitPath), Last(CircuitPath)>>

-----------------------------------------------------------------------------
(***************************************************************************)
(* The circuit changes, and blocks of the page are reloaded.  A reload     *)
(* ends the one under way.                                                 *)
(***************************************************************************)

CircuitChanges ==
    /\ \/ circuit' = [circuit EXCEPT !.authorized = TRUE]
       \/ circuit' = [circuit EXCEPT !.active = ~@]
    /\ UNCHANGED <<block, known, circuitMap, grid, doms, drawing, graph,
                   reload>>

\* refreshAll and requestRefresh; the block of the history, like that of the
\* details, holds nothing that the script reads.
RefreshPjax(container) ==
    /\ reload' = container
    /\ UNCHANGED <<circuit, block, known, circuitMap, grid, doms,
                   drawing, graph>>

\* Mutant: nothing is coloured again.
ColorStays(m, active) == m

\* updateCircuitColor, which the script calls when the data plane has changed.
UpdateCircuitColor(m, active) == SetLinksColor(m, Color(active))

\* An approval draws the circuit anew, a change of the data plane colours it.
PjaxSuccess ==
    /\ reload # None
    /\ reload' = None
    /\ block' = IF reload = "status-pjax" THEN circuit ELSE block
    /\ known' = block'
    /\ drawing' = IF block'.authorized /\ ~known.authorized
                  THEN [drawing EXCEPT !.paths = @ + 1] ELSE drawing
    /\ circuitMap' = IF block'.active # known.active
                     THEN UpdateCircuitColor(circuitMap, block'.active)
                     ELSE circuitMap
    /\ UNCHANGED <<circuit, grid, doms, graph>>

-----------------------------------------------------------------------------
(***************************************************************************)
(* Drawing the circuit.                                                    *)
(***************************************************************************)

CircuitDomains ==
    /\ ~doms.known
    /\ doms' = [doms EXCEPT !.known = TRUE]
    /\ UNCHANGED <<circuit, block, known, circuitMap, grid, drawing, graph,
                   reload>>

\* updatePathInfo: the first row takes the first point, the others are appended.
UpdatePathInfo(rows, path) == <<Head(path)>> \o Tail(rows) \o Tail(path)

\* Mutant: way points are not asked for.
EndsAsked(path) == {1, Len(path)}

\* The points that addSource, addDestin and addWayPoint ask for.
Asked(path) == DOMAIN path

\* drawCircuit: each point is asked for, and a timer polls for all of them.
DrawCircuit ==
    /\ drawing.paths > 0
    /\ LET path == OrderedPath
       IN  /\ drawing' = [drawing EXCEPT
                 !.paths = @ - 1,
                 !.stps = [d \in ToSet(CircuitPath) |-> drawing.stps[d]
                     + Cardinality({i \in Asked(path) : path[i] = d})],
                 !.polls = @ \union {[path |-> path, draw |-> known.authorized]}]
           /\ grid' = IF known.authorized THEN UpdatePathInfo(grid, path)
                      ELSE grid
    /\ UNCHANGED <<circuit, block, known, circuitMap, doms, graph, reload>>

\* A device gets one marker; without the domains the handler fails.
AddMarker(m, d) == IF HasNode(m, d) THEN m ELSE AddNodes(m, {d}, "dev")

StpAnswered(d) ==
    /\ drawing.stps[d] > 0
    /\ drawing' = [drawing EXCEPT !.stps[d] = @ - 1]
    /\ circuitMap' = IF doms.known THEN AddMarker(circuitMap, d) ELSE circuitMap
    /\ doms' = [doms EXCEPT !.missed =
                   @ \/ (~doms.known /\ ~HasNode(circuitMap, d))]
    /\ UNCHANGED <<circuit, block, known, grid, graph, reload>>

AreMarkersReady(path) == \A i \in DOMAIN path : HasNode(circuitMap, path[i])

\* loadStats, with or without a link.
LoadStats(g) == [g EXCEPT !.loads = @ + 1, !.loading = TRUE,
                          !.wanted = @ \union {[load |-> g.loads + 1, dir |-> dir] :
                                               dir \in {"in", "out"}}]

\* drawCircuitWhenReady and setMapBoundsMarkersWhenReady, when all is there.
DrawWhenReady(p) ==
    /\ p \in drawing.polls /\ AreMarkersReady(p.path)
    /\ drawing' = [drawing EXCEPT !.polls = @ \ {p}]
    /\ IF p.draw
       THEN /\ circuitMap' = AddLinks(circuitMap,
                 {<<p.path[i], p.path[i + 1]>> : i \in 1..(Len(p.path) - 1)},
                 "dev", Color(known.active))
            /\ graph' = LoadStats(graph)
       ELSE UNCHANGED <<circuitMap, graph>>
    /\ UNCHANGED <<circuit, block, known, grid, doms, reload>>

-----------------------------------------------------------------------------
(***************************************************************************)
(* The graph.                                                              *)
(***************************************************************************)

\* The refresh button; before the first load there is no link, and it fails
\* after it has said that the graph is loading.
RefreshStats ==
    /\ graph.loads < MaxLoads
    /\ graph' = IF graph.loads = 0 THEN [graph EXCEPT !.loading = TRUE]
                ELSE LoadStats(graph)
    /\ UNCHANGED <<circuit, block, known, circuitMap, grid, doms, drawing,
                   reload>>

\* What is shown once r is answered: each load has its own data.
Shown(g, r) == {s \in g.data : s.load = r.load} \union {r}

\* loadTrafficHistory: the answers of the two directions, in any order.
TrafficHistory(r) ==
    /\ r \in graph.wanted
    /\ graph' = [graph EXCEPT !.wanted = @ \ {r}, !.data = @ \union {r},
                              !.shown = Shown(graph, r),
                              !.loading = @ /\ r.dir # "in"]
    /\ UNCHANGED <<circuit, block, known, circuitMap, grid, doms, drawing,
                   reload>>

-----------------------------------------------------------------------------
CircuitInit ==
    /\ circuit \in [authorized : BOOLEAN, active : BOOLEAN]
    /\ block = circuit
    /\ known = circuit
    /\ circuitMap = ShowMapOf(EmptyMap, "dev")
    /\ grid = <<None>>
    /\ doms = [known |-> FALSE, missed |-> FALSE]
    /\ drawing = [paths |-> 1, stps |-> [d \in ToSet(CircuitPath) |-> 0],
                  polls |-> {}]
    /\ graph = [loads |-> 0, wanted |-> {}, loading |-> FALSE, data |-> {},
                shown |-> {}]
    /\ reload = None

CircuitNext ==
    \/ CircuitChanges
    \/ \E c \in {"status-pjax", "details-pjax"} : RefreshPjax(c)
    \/ PjaxSuccess
    \/ CircuitDomains \/ DrawCircuit
    \/ \E d \in ToSet(CircuitPath) : StpAnswered(d)
    \/ \E p \in drawing.polls : DrawWhenReady(p)
    \/ RefreshStats
    \/ \E r \in graph.wanted : TrafficHistory(r)

CircuitSpec == CircuitInit /\ [][CircuitNext]_circuitVars

-----------------------------------------------------------------------------
(***************************************************************************)
(* Properties.                                                             *)
(***************************************************************************)

\* Every leg on the map has the colour of the data plane that the status block
\* shows, in whatever order the block is reloaded and the circuit drawn.
LinksShowDataPlane ==
    \A l \in circuitMap.links : l.color = Color(block.active)

\* Who polls for markers has them, or waits for an answer that will come, unless
\* an answer came before the domains: then it polls for ever.
PollsForAnAnswer ==
    \A p \in drawing.polls : \A d \in ToSet(p.path) :
       HasNode(circuitMap, d) \/ drawing.stps[d] > 0 \/ doms.missed
=============================================================================
