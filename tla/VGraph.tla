------------------------------- MODULE VGraph -------------------------------
(***************************************************************************)
(* The graph the topology viewer draws the network on: class VGraph, over  *)
(* the data sets and the network of vis.js.  A graph is a value; places,   *)
(* physics and colours are left out.                                       *)
(***************************************************************************)
EXTENDS Naturals, FiniteSets

\* The data sets; the network that draws them comes when the graph is first shown.
NewGraph ==
    [nodes |-> {}, links |-> {}, type |-> "none",
     built |-> FALSE, visible |-> FALSE, popup |-> "none"]

\* The network, with one popup for all nodes, which is closed.
Build(g) == [g EXCEPT !.built = TRUE, !.popup = "none"]

\* New nodes and links are visible, whatever type is chosen.
AddGraphNodes(g, ids, type) ==
    [g EXCEPT !.nodes = @ \union
        {[id |-> id, type |-> type, hidden |-> FALSE] : id \in ids}]

AddGraphLinks(g, pairs, type) ==
    [g EXCEPT !.links = @ \union
        {[from |-> p[1], to |-> p[2], type |-> type, hidden |-> FALSE] :
            p \in pairs}]

\* Hides what is not of the type, unless the type was chosen already.
SetGraphNodeType(g, type) ==
    IF g.type = type THEN g
    ELSE [g EXCEPT !.type = type,
                   !.nodes = {[n EXCEPT !.hidden = n.type # type] : n \in @},
                   !.links = {[l EXCEPT !.hidden = l.type # type] : l \in @}]

ShowGraphOf(g, type) ==
    SetGraphNodeType([(IF g.built THEN g ELSE Build(g)) EXCEPT !.visible = TRUE], type)

\* The graph keeps what it shows, its popup too.
HideGraph(g) == [g EXCEPT !.visible = FALSE]

ShowPopup(g, id) == [g EXCEPT !.popup = id]

\* A click beside the nodes, a drag or a zoom.
ClosePopup(g) == [g EXCEPT !.popup = "none"]
=============================================================================
