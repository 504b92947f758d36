-------------------------------- MODULE LMap --------------------------------
(***************************************************************************)
(* The map the pages draw the network on: class LMap, over Leaflet.  A map *)
(* is a value; every method that changes the widget is an operator from a  *)
(* map to a map.  Icons, labels and tiles are left out.                    *)
(***************************************************************************)
EXTENDS Naturals, FiniteSets

\* The object that a page creates: no widget yet, and no type chosen.
EmptyMap ==
    [nodes |-> {}, links |-> {}, type |-> "none",
     built |-> FALSE, visible |-> FALSE, popup |-> "none"]

BuildMap(m) == [m EXCEPT !.built = TRUE]

HasNode(m, id) == \E n \in m.nodes : n.id = id

\* New nodes are shown whatever type the map is showing, beside those that have
\* their place already: where that is makes no difference to a page.
AddNodes(m, ids, type) ==
    [m EXCEPT !.nodes = @ \union {[id |-> id, type |-> type, shown |-> TRUE] : id \in ids}]

\* A link is drawn between two nodes of the map, or not at all.
AddLinks(m, pairs, type, color) ==
    [m EXCEPT !.links = @ \union
        {[from |-> p[1], to |-> p[2], type |-> type, color |-> color, shown |-> TRUE] :
            p \in {q \in pairs : HasNode(m, q[1]) /\ HasNode(m, q[2])}}]

\* The polylines leave the screen; no page looks at the objects again.
RemoveLinks(m) == [m EXCEPT !.links = {}]

\* Shows the nodes and the links of one type only, unless it is the current one.
SetNodeType(m, type) ==
    IF m.type = type THEN m
    ELSE [m EXCEPT !.type  = type,
                   !.nodes = {[n EXCEPT !.shown = n.type = type] : n \in @},
                   !.links = {[l EXCEPT !.shown = l.type = type] : l \in @}]

\* The widget is built when it is first shown; a page need not choose a type.
ShowMapOf(m, type) ==
    LET shown == [(IF m.built THEN m ELSE BuildMap(m)) EXCEPT !.visible = TRUE]
    IN  IF type = "none" THEN shown ELSE SetNodeType(shown, type)

HideMap(m) == [m EXCEPT !.visible = FALSE]

\* One popup is open at a time.
OpenNodePopup(m, id) == [m EXCEPT !.popup = id]
ClosePopups(m) == [m EXCEPT !.popup = "none"]

SetLinksColor(m, color) ==
    [m EXCEPT !.links = {[l EXCEPT !.color = color] : l \in @}]
=============================================================================
