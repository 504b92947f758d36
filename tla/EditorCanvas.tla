---------------------------- MODULE EditorCanvas ----------------------------
(***************************************************************************)
(* What the editor of the workflows draws: containers at places of the     *)
(* layer, and wires as arrows on canvas elements of their own, which stay  *)
(* where they were drawn until they are drawn again (WireIt).  The rules   *)
(* for wires are those of WorkflowEditor; here a wire joins the output of  *)
(* one container with the input of another, and each end takes one wire.   *)
(*                                                                         *)
(* A place is one in the layer, and the layer may be scrolled: what a      *)
(* handler reads of an element is the place on the page.                   *)
(***************************************************************************)
EXTENDS WebPage, Integers

CONSTANTS
    Boxes,       \* the containers
    MaxPlace,    \* places are numbers up to it
    MaxDrags     \* bound on what the mouse begins

ASSUME CanvasAssumption == MaxPlace \in Nat /\ MaxDrags \in Nat

VARIABLES
    place,      \* place[b]: where container b is, or None
    arrows,     \* the wires, a map from <<from, to>> to where they are drawn
    held,       \* what the mouse holds: None, [box |-> b], or a wire that is
                \* being drawn, [from |-> b, drawn |-> where]
    invited,    \* the containers whose input invites to drop
    focus,      \* [layer, shown]: focusedContainer, and who shows the focus
    scrolled,   \* how far the layer is scrolled
    pipe,       \* [config, wires]: what was saved, or None
    drags       \* counted against MaxDrags

canvasVars == <<place, arrows, held, invited, focus, scrolled, pipe, drags>>

Places == 0..MaxPlace

\* Where an arrow is drawn, and the wires that the mouse may hold.
Arrows == [region : [left : Int, width : Int], from : Int, to : Int]
HeldWires == [from : Boxes, drawn : Arrows \union {None}]

ASSUME HeldAssumption == None \notin HeldWires

OnCanvas == {b \in Boxes : place[b] # None}

CountDrag == drags < MaxDrags /\ drags' = drags + 1

-----------------------------------------------------------------------------
(***************************************************************************)
(* Containers.                                                             *)
(***************************************************************************)

\* The place on the page, and the place in the layer of what is there.
OnPage(p) == p - scrolled
InLayer(x) == x + scrolled

\* A terminal is at a fixed distance from its container; getXY adds up the way to
\* the layer.
GetXY(b, at) == at[b]

\* The canvas of a wire is moved and sized anew, and what it showed is gone.
SetCanvasRegion(min, max) == [left |-> min, width |-> max - min]

\* The canvas is to hold both ends; the arrow is drawn on it from one to the other.
DrawArrows(p1, p2) ==
    LET min == IF p1 < p2 THEN p1 ELSE p2
        max == IF p1 < p2 THEN p2 ELSE p1
    IN  [region |-> SetCanvasRegion(min, max), from |-> p1 - min, to |-> p2 - min]

Redraw(w, at) == DrawArrows(GetXY(w[1], at), GetXY(w[2], at))

\* A container is dropped from the list, rendered where it was dropped.
AddModuleAt(b, x) ==
    /\ held = None /\ place[b] = None /\ CountDrag
    /\ InLayer(x) \in Places
    /\ place' = [place EXCEPT ![b] = InLayer(x)]
    /\ UNCHANGED <<arrows, held, invited, focus, scrolled, pipe>>

\* The mouse takes a container, which gets the focus.
OnMouseDown(b) ==
    /\ held = None /\ b \in OnCanvas /\ CountDrag
    /\ held' = [box |-> b]
    /\ focus' = [layer |-> b,
                 shown |-> (focus.shown \ IF focus.layer = b THEN {} ELSE {focus.layer})
                              \union {b}]
    /\ UNCHANGED <<place, arrows, invited, scrolled, pipe>>

HoldsBox == held # None /\ "box" \in DOMAIN held

\* Mutant: only the wires that lead away follow.
DragWithOutput(p) ==
    /\ HoldsBox
    /\ place' = [place EXCEPT ![held.box] = p]
    /\ arrows' = [w \in DOMAIN arrows |->
                     IF w[1] = held.box THEN Redraw(w, place') ELSE arrows[w]]
    /\ UNCHANGED <<held, invited, focus, scrolled, pipe, drags>>

\* The container follows the mouse, and the wires of its terminals follow it.
OnDrag(p) ==
    /\ HoldsBox
    /\ place' = [place EXCEPT ![held.box] = p]
    /\ arrows' = [w \in DOMAIN arrows |->
                     IF held.box \in {w[1], w[2]} THEN Redraw(w, place') ELSE arrows[w]]
    /\ UNCHANGED <<held, invited, focus, scrolled, pipe, drags>>

Kept(W) == [w \in DOMAIN arrows \ W |-> arrows[w]]
WiresOf(b) == {w \in DOMAIN arrows : b \in {w[1], w[2]}}

\* The close button: the container goes, and its wires; the layer goes on to keep
\* it as the one with the focus.
CloseContainer(b) ==
    /\ held = None /\ b \in OnCanvas
    /\ place' = [place EXCEPT ![b] = None]
    /\ arrows' = Kept(WiresOf(b))
    /\ focus' = [focus EXCEPT !.shown = @ \ {b}]
    /\ UNCHANGED <<held, invited, scrolled, pipe, drags>>

-----------------------------------------------------------------------------
(***************************************************************************)
(* Wires.                                                                  *)
(***************************************************************************)

\* The mouse takes the output of b: a wire that is there goes, another is begun.
HoldWire(b) ==
    /\ held = None /\ b \in OnCanvas /\ CountDrag
    /\ held' = [from |-> b, drawn |-> None]
    /\ arrows' = Kept({w \in DOMAIN arrows : w[1] = b})
    /\ UNCHANGED <<place, invited, focus, scrolled, pipe>>

HoldsWire == held # None /\ "from" \in DOMAIN held

\* The wire follows the mouse.
DragWire(p) ==
    /\ HoldsWire
    /\ held' = [held EXCEPT !.drawn = DrawArrows(GetXY(held.from, place), p)]
    /\ UNCHANGED <<place, arrows, invited, focus, scrolled, pipe, drags>>

\* The mouse comes to an input, which invites when it takes the wire, or leaves it.
SetDropInvitation(b) ==
    /\ HoldsWire /\ b \in OnCanvas \ {held.from}
    /\ invited' = SymDiff(invited, {b})
    /\ UNCHANGED <<place, arrows, held, focus, scrolled, pipe, drags>>

\* The wire is dropped on the input of b, if that invites.  It replaces the one
\* that was there.
DropWire(b) ==
    /\ HoldsWire /\ b \in invited
    /\ LET wire == <<held.from, b>>
           kept == Kept({w \in DOMAIN arrows : w[2] = b})
       IN  arrows' = [w \in DOMAIN kept \union {wire} |->
                         IF w = wire THEN Redraw(wire, place) ELSE kept[w]]
    /\ held' = None /\ invited' = {}
    /\ UNCHANGED <<place, focus, scrolled, pipe, drags>>

\* The mouse lets go: of a container, or of a wire anywhere else.
EndDrag ==
    /\ held # None /\ invited = {}
    /\ held' = None
    /\ UNCHANGED <<place, arrows, invited, focus, scrolled, pipe, drags>>

-----------------------------------------------------------------------------
(***************************************************************************)
(* Scrolling, saving and loading.                                          *)
(***************************************************************************)

ScrollLayer ==
    /\ scrolled' = 1 - scrolled
    /\ UNCHANGED <<place, arrows, held, invited, focus, pipe, drags>>

\* The place of a container in the layer, computed from those on the page.
GetConfig(b) == InLayer(OnPage(place[b]))

SavePipe ==
    /\ held = None
    /\ pipe' = [config |-> [b \in OnCanvas |-> GetConfig(b)], wires |-> DOMAIN arrows]
    /\ UNCHANGED <<place, arrows, held, invited, focus, scrolled, drags>>

\* Containers are rendered at the places of their configurations.
RenderedAt(config) == [b \in Boxes |-> IF b \in DOMAIN config THEN config[b] ELSE None]

\* The layer is cleared; containers and wires are made anew, in this order.
LoadPipeAt ==
    /\ held = None /\ pipe # None
    /\ place' = RenderedAt(pipe.config)
    /\ arrows' = [w \in pipe.wires |-> Redraw(w, place')]
    /\ focus' = [focus EXCEPT !.shown = {}]
    /\ UNCHANGED <<held, invited, scrolled, pipe, drags>>

-----------------------------------------------------------------------------
CanvasInit ==
    /\ place = [b \in Boxes |-> None]
    /\ arrows = <<>>
    /\ held = None /\ invited = {}
    /\ focus = [layer |-> None, shown |-> {}]
    /\ scrolled = 0 /\ pipe = None /\ drags = 0

CanvasNext ==
    \/ \E b \in Boxes :
          \/ (\E x \in -1..MaxPlace : AddModuleAt(b, x)) \/ OnMouseDown(b)
          \/ CloseContainer(b) \/ HoldWire(b) \/ SetDropInvitation(b) \/ DropWire(b)
    \/ \E p \in Places : OnDrag(p) \/ DragWire(p)
    \/ EndDrag \/ ScrollLayer \/ SavePipe \/ LoadPipeAt

CanvasSpec == CanvasInit /\ [][CanvasNext]_canvasVars

-----------------------------------------------------------------------------
\* Whatever was dragged, scrolled, closed or loaded since it was drawn, an arrow
\* leads from where its first container is to where its second is, and the canvas
\* it is drawn on is no larger than that.  A container that shows the focus is the
\* one the layer will take it from.
CanvasShowsTheLayer ==
    /\ \A w \in DOMAIN arrows :
          LET a == arrows[w] IN
          /\ {w[1], w[2]} \subseteq OnCanvas
          /\ a.region.left + a.from = place[w[1]]
          /\ a.region.left + a.to = place[w[2]]
          /\ a.region.width \in {a.from, a.to}
    /\ focus.shown \subseteq {focus.layer}
=============================================================================
