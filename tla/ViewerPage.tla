----------------------------- MODULE ViewerPage -----------------------------
(***************************************************************************)
(* The topology viewer (viewer2.js): domains, devices and the links between *)
(* them come in answers of their own and are put on a map and on a graph,  *)
(* of which the user shows one at a time.                                  *)
(*                                                                         *)
(* The page offers no choice of the type of nodes: it is "dev".  Nobody    *)
(* calls loadProviders and loadNetworks.                                   *)
(***************************************************************************)
EXTENDS WebPage, LMap, VGraph

CONSTANTS
    DomainOf,     \* DomainOf[d]: the domain of device d
    DeviceLinks   \* the pairs of devices that are linked

ASSUME ViewerAssumption ==
    DeviceLinks \subseteq (DOMAIN DomainOf) \X (DOMAIN DomainOf)

VARIABLES
    viewing,      \* "map" or "graph", what the canvas shows
    viewerMap,
    viewerGraph,
    viewerAsked,  \* requests that are not answered yet
    positions     \* the nodes whose positions were posted last

viewerVars == <<viewing, viewerMap, viewerGraph, viewerAsked, positions>>

Devices == DOMAIN DomainOf
Domains == {DomainOf[d] : d \in Devices}
DomainLinks ==
    {<<DomainOf[p[1]], DomainOf[p[2]]>> : p \in DeviceLinks} \ {<<d, d>> : d \in Domains}

-----------------------------------------------------------------------------
\* The radio buttons.  What was shown is hidden and keeps its popup.
ShowGraph ==
    /\ viewing = "map"
    /\ viewing' = "graph"
    /\ viewerMap' = HideMap(viewerMap)
    /\ viewerGraph' = ShowGraphOf(viewerGraph, "dev")
    /\ UNCHANGED <<viewerAsked, positions>>

ShowMap ==
    /\ viewing = "graph"
    /\ viewing' = "map"
    /\ viewerGraph' = HideGraph(viewerGraph)
    /\ viewerMap' = ShowMapOf(viewerMap, "dev")
    /\ UNCHANGED <<viewerAsked, positions>>

\* A click on a node opens its popup, and one beside the nodes closes it.
MapNodeClick(n) ==
    /\ viewerMap.visible /\ n.shown
    /\ viewerMap' = OpenNodePopup(viewerMap, n.id)
    /\ UNCHANGED <<viewing, viewerGraph, viewerAsked, positions>>

GraphNodeClick(n) ==
    /\ viewerGraph.visible /\ ~n.hidden
    /\ viewerGraph' = ShowPopup(viewerGraph, n.id)
    /\ UNCHANGED <<viewing, viewerMap, viewerAsked, positions>>

ClickBeside ==
    /\ viewerMap' = IF viewerMap.visible THEN ClosePopups(viewerMap) ELSE viewerMap
    /\ viewerGraph' = IF viewerGraph.visible THEN ClosePopup(viewerGraph) ELSE viewerGraph
    /\ UNCHANGED <<viewing, viewerAsked, positions>>

\* Only a graph that has been built can tell where its nodes are.
SavePositions ==
    /\ viewerGraph.built
    /\ positions' = {n.id : n \in {k \in viewerGraph.nodes : k.type = "dev"}}
    /\ UNCHANGED <<viewing, viewerMap, viewerGraph, viewerAsked>>

-----------------------------------------------------------------------------
\* Mutant: the links of the devices are asked for with the devices.
AllAtOnce == {"domain links", "devices", "device links"}

\* What loadDomains asks for next.
AfterDomains == {"domain links", "devices"}

LoadViewerDomains ==
    /\ "domains" \in viewerAsked
    /\ viewerAsked' = (viewerAsked \ {"domains"}) \union AfterDomains
    /\ viewerGraph' = AddGraphNodes(viewerGraph, Domains, "dom")
    /\ UNCHANGED <<viewing, viewerMap, positions>>

LoadDomainLinks ==
    /\ "domain links" \in viewerAsked
    /\ viewerAsked' = viewerAsked \ {"domain links"}
    /\ viewerGraph' = AddGraphLinks(viewerGraph, DomainLinks, "dom")
    /\ UNCHANGED <<viewing, viewerMap, positions>>

LoadViewerDevices ==
    /\ "devices" \in viewerAsked
    /\ viewerAsked' = (viewerAsked \ {"devices"}) \union {"device links"}
    /\ viewerGraph' = AddGraphNodes(viewerGraph, Devices, "dev")
    /\ viewerMap' = AddNodes(viewerMap, Devices, "dev")
    /\ UNCHANGED <<viewing, positions>>

LoadDeviceLinks ==
    /\ "device links" \in viewerAsked
    /\ viewerAsked' = viewerAsked \ {"device links"}
    /\ viewerGraph' = AddGraphLinks(viewerGraph, DeviceLinks, "dev")
    /\ viewerMap' = AddLinks(viewerMap, DeviceLinks, "dev", "gray")
    /\ UNCHANGED <<viewing, positions>>

-----------------------------------------------------------------------------
ViewerInit ==
    /\ viewing = "map"
    /\ viewerMap = ShowMapOf(EmptyMap, "dev")
    /\ viewerGraph = NewGraph
    /\ viewerAsked = {"domains"}
    /\ positions = {}

ViewerNext ==
    \/ ShowGraph \/ ShowMap \/ SavePositions \/ ClickBeside
    \/ \E n \in viewerMap.nodes : MapNodeClick(n)
    \/ \E n \in viewerGraph.nodes : GraphNodeClick(n)
    \/ LoadViewerDomains \/ LoadDomainLinks
    \/ LoadViewerDevices \/ LoadDeviceLinks

ViewerSpec == ViewerInit /\ [][ViewerNext]_viewerVars

-----------------------------------------------------------------------------
(***************************************************************************)
(* Properties.                                                             *)
(***************************************************************************)

\* In whatever order the answers come and the views are switched, map and graph
\* hold the same links of devices, and no link before the nodes at its ends: on
\* the map such a link would be lost, as addLink draws none to a missing node.
MapAndGraphAgree ==
    /\ \A l \in viewerGraph.links :
          \A end \in {l.from, l.to} :
             \E n \in viewerGraph.nodes : n.id = end /\ n.type = l.type
    /\ {<<l.from, l.to>> : l \in viewerMap.links} =
          {<<l.from, l.to>> : l \in {k \in viewerGraph.links : k.type = "dev"}}
=============================================================================
