------------------------ MODULE WorkflowEditor_proofs ------------------------
(***************************************************************************)
(* Proofs about module WorkflowEditor: the lists of wires agree, wires     *)
(* lead from outputs to inputs, and what is saved is whole and comes back  *)
(* as it was, for all kinds of modules and any number of them.             *)
(***************************************************************************)
EXTENDS WorkflowEditor, TLAPS

(***************************************************************************)
(* The lists of wires are those of one set.                                *)
(***************************************************************************)

Wires == [terminal1 : Terminals \union {Mouse}, terminal2 : Terminals \union {Mouse}]

\* The lists that go with a set of wires on the layer.
Listing(W) ==
    [layer |-> W,
     containers |-> [c \in Ids |-> {w \in W : \E t \in Ends(w) : t.module = c}],
     terminals |-> [t \in Terminals |-> {w \in W : t \in Ends(w)}]]

LEMMA NoWiresListing == NoWires = Listing({})
<1>1. [c \in Ids |-> {}] = [c \in Ids |-> {w \in {} : \E t \in Ends(w) : t.module = c}]
  OBVIOUS
<1>2. [t \in Terminals |-> {}] = [t \in Terminals |-> {w \in {} : t \in Ends(w)}]
  OBVIOUS
<1> QED
  BY <1>1, <1>2 DEF NoWires, Listing

\* Attaching and removing wires keep the lists in step.
LEMMA AttachListing ==
    ASSUME NEW W, NEW V
    PROVE  AttachWires(Listing(W), V) = Listing(W \union V)
<1>1. ContainerOnAddWires(Listing(W).containers, V) = Listing(W \union V).containers
  BY DEF Listing, ContainerOnAddWires
<1>2. TerminalAddWires(Listing(W).terminals, V) = Listing(W \union V).terminals
  BY DEF Listing, TerminalAddWires
<1> QED
  BY <1>1, <1>2 DEF Listing, AttachWires, LayerOnAddWires

LEMMA RemoveListing ==
    ASSUME NEW W, NEW V
    PROVE  RemoveWires(Listing(W), V) = Listing(W \ V)
<1>1. ContainerOnRemoveWires(Listing(W).containers, V) = Listing(W \ V).containers
  BY DEF Listing, ContainerOnRemoveWires
<1>2. TerminalRemoveWires(Listing(W).terminals, V) = Listing(W \ V).terminals
  BY DEF Listing, TerminalRemoveWires
<1> QED
  BY <1>1, <1>2 DEF Listing, RemoveWires, LayerOnRemoveWires

\* removeAllWires of the terminals T leaves the wires with no end there.
LEMMA RemoveAllListing ==
    ASSUME NEW W, NEW T, T \subseteq Terminals
    PROVE  RemoveAllWires(Listing(W), T) = Listing({w \in W : Ends(w) \cap T = {}})
<1>1. UNION {Listing(W).terminals[t] : t \in T} = {w \in W : Ends(w) \cap T # {}}
  <2>1. \A t \in T : Listing(W).terminals[t] = {w \in W : t \in Ends(w)}
    BY DEF Listing
  <2> QED
    BY <2>1
<1>2. W \ {w \in W : Ends(w) \cap T # {}} = {w \in W : Ends(w) \cap T = {}}
  OBVIOUS
<1> QED
  BY <1>1, <1>2, RemoveListing DEF RemoveAllWires

LEMMA ListingAgrees ==
    ASSUME wiring = Listing(wiring.layer)
    PROVE  ListsAgree
<1>1. \A t \in Terminals : wiring.terminals[t] = {w \in wiring.layer : t \in Ends(w)}
  BY DEF Listing
<1>2. \A c \in Ids : wiring.containers[c] =
                        {w \in wiring.layer : \E t \in Ends(w) : t.module = c}
  BY DEF Listing
<1> QED
  BY <1>1, <1>2 DEF ListsAgree

-----------------------------------------------------------------------------
(***************************************************************************)
(* The invariant.                                                          *)
(***************************************************************************)

Modules == [id : Ids, name : Kinds, filled : BOOLEAN]

\* No two modules of the layer are the same.
Distinct ==
    \A i, j \in DOMAIN containers : containers[i].id = containers[j].id => i = j

\* A wire that is not being dragged.
WholeWire(w) ==
    /\ w.terminal1.name \in Outputs /\ w.terminal2.name \in Inputs
    /\ w.terminal1.module # w.terminal2.module
    /\ OnLayer(w.terminal1) /\ OnLayer(w.terminal2)

LayerInv ==
    /\ containers \in Seq(Modules) /\ Distinct
    /\ wiring = Listing(wiring.layer) /\ wiring.layer \subseteq Wires
    /\ \A w \in wiring.layer :
          WholeWire(w) \/ (drag # None /\ w = Oriented(drag, Mouse))
    /\ drag \in Terminals \union {None}
    /\ drag # None => OnLayer(drag)

\* What is sent and saved.
SavedEnds == [module : Nat, name : TerminalNames \union {"mouse"}]
Values == [modules : Seq([name : Kinds, filled : BOOLEAN]),
           wires : SUBSET [src : SavedEnds, tgt : SavedEnds]]

SavedTerminal(v, t) ==
    /\ t.module \in DOMAIN v.modules
    /\ t.name \in modulesByName[v.modules[t.module].name].terminals

\* A wire between two modules of the value v, as WholeWire is one of the layer.
SavedWire(v, w) ==
    /\ w.src.name \in Outputs /\ w.tgt.name \in Inputs
    /\ w.src.module # w.tgt.module
    /\ SavedTerminal(v, w.src) /\ SavedTerminal(v, w.tgt)

RequestInv ==
    /\ post # None /\ "modules" \in DOMAIN post =>
          /\ post \in Values
          /\ \A w \in post.wires :
                SavedWire(post, w) \/ 0 \in {w.src.module, w.tgt.module}
    /\ server = [saved |-> server.saved, active |-> server.active]
    /\ server.saved # None =>
          /\ server.saved \in Values
          /\ \A w \in server.saved.wires : SavedWire(server.saved, w)
    /\ loading => page = "update" /\ server.saved # None

IInv == LayerInv /\ RequestInv

-----------------------------------------------------------------------------
(***************************************************************************)
(* Drawing keeps the layer.                                                *)
(***************************************************************************)

LEMMA MouseIsNoTerminal == Mouse \notin Terminals
BY EditorAssumption DEF Mouse, Terminals

LEMMA OrientedIsWire ==
    ASSUME NEW t1 \in Terminals, NEW t2 \in Terminals \union {Mouse}
    PROVE  Oriented(t1, t2) \in Wires
BY DEF Oriented, Wires

LEMMA DraggedWire ==
    ASSUME NEW t
    PROVE  Oriented(t, Mouse) = [terminal1 |-> t, terminal2 |-> Mouse]
BY DEF Oriented

\* A wire stays whole as long as its modules stay on the layer.
LEMMA StaysWhole ==
    ASSUME NEW w, WholeWire(w), \A t \in Ends(w) : OnLayer(t) => OnLayer(t)'
    PROVE  WholeWire(w)'
BY DEF WholeWire, Ends

LEMMA AddModuleKeeps ==
    ASSUME LayerInv, NEW kind \in Kinds, AddModule(kind)
    PROVE  LayerInv'
<1>1. PICK id \in Ids \ {c.id : c \in ToSet(containers)} :
         containers' = Append(containers, NewContainer(id, kind))
  BY DEF AddModule, AddContainer
<1> DEFINE c == NewContainer(id, kind)
<1>2. c \in Modules /\ c.id = id
  BY DEF NewContainer, Modules
<1>3. /\ containers' \in Seq(Modules)
      /\ DOMAIN containers' = 1..(Len(containers) + 1)
      /\ Len(containers) \in Nat
      /\ DOMAIN containers = 1..Len(containers)
      /\ \A i \in DOMAIN containers : containers'[i] = containers[i]
      /\ containers'[Len(containers) + 1] = c
  BY <1>1, <1>2 DEF LayerInv
<1>4. Distinct'
  <2>1. \A i \in DOMAIN containers : containers[i].id # id
    BY <1>1 DEF ToSet
  <2> QED
    BY <1>2, <1>3, <2>1 DEF Distinct, LayerInv
<1>5. ASSUME NEW t, OnLayer(t) PROVE OnLayer(t)'
  <2>1. PICK i \in DOMAIN containers :
           /\ containers[i].id = t.module
           /\ t.name \in modulesByName[containers[i].name].terminals
    BY <1>5 DEF OnLayer, ToSet
  <2>2. i \in DOMAIN containers' /\ containers'[i] = containers[i]
    BY <1>3
  <2> QED
    BY <2>1, <2>2 DEF OnLayer, ToSet
<1>6. UNCHANGED <<wiring, drag>> /\ drag = None
  BY DEF AddModule, Idle
<1>7. \A w \in wiring'.layer : WholeWire(w)'
  BY <1>5, <1>6, StaysWhole DEF LayerInv
<1> QED
  BY <1>3, <1>4, <1>6, <1>7 DEF LayerInv

LEMMA FillFormKeeps ==
    ASSUME LayerInv, NEW i \in DOMAIN containers, FillForm(i)
    PROVE  LayerInv'
<1>1. containers' = [containers EXCEPT ![i].filled = TRUE]
  BY DEF FillForm
<1>2. /\ containers' \in Seq(Modules)
      /\ DOMAIN containers' = DOMAIN containers
      /\ \A j \in DOMAIN containers : /\ containers'[j].id = containers[j].id
                                      /\ containers'[j].name = containers[j].name
  <2>1. /\ Len(containers) \in Nat /\ DOMAIN containers = 1..Len(containers)
        /\ \A j \in DOMAIN containers : containers[j] \in Modules
    BY DEF LayerInv
  <2> DEFINE c == [containers[i] EXCEPT !.filled = TRUE]
  <2>2. c \in Modules /\ c.id = containers[i].id /\ c.name = containers[i].name
    BY <2>1 DEF Modules
  <2> HIDE DEF c
  <2>3. containers' = [j \in 1..Len(containers) |-> IF j = i THEN c ELSE containers[j]]
    BY <1>1, <2>1 DEF c, LayerInv
  <2> QED
    BY <2>1, <2>2, <2>3
<1>3. Distinct'
  BY <1>2 DEF Distinct, LayerInv
<1>4. ASSUME NEW t, OnLayer(t) PROVE OnLayer(t)'
  <2>1. PICK j \in DOMAIN containers :
           /\ containers[j].id = t.module
           /\ t.name \in modulesByName[containers[j].name].terminals
    BY <1>4 DEF OnLayer, ToSet
  <2>2. /\ j \in DOMAIN containers'
        /\ containers'[j].id = t.module
        /\ t.name \in modulesByName[containers'[j].name].terminals
    BY <1>2, <2>1
  <2> QED
    BY <2>2 DEF OnLayer, ToSet
<1>5. UNCHANGED <<wiring, drag>> /\ drag = None
  BY DEF FillForm, Idle
<1>6. \A w \in wiring'.layer : WholeWire(w)'
  BY <1>4, <1>5, StaysWhole DEF LayerInv
<1> QED
  BY <1>2, <1>3, <1>5, <1>6 DEF LayerInv

\* What is left of a sequence of modules when its i-th is taken out.
LEMMA RemoveAtModules ==
    ASSUME NEW s \in Seq(Modules), NEW i \in DOMAIN s
    PROVE  /\ RemoveAt(s, i) \in Seq(Modules)
           /\ DOMAIN RemoveAt(s, i) = 1..(Len(s) - 1)
           /\ \A j \in 1..(Len(s) - 1) :
                 RemoveAt(s, i)[j] = IF j < i THEN s[j] ELSE s[j + 1]
<1>0. i \in 1..Len(s) /\ Len(s) \in Nat
  OBVIOUS
<1>1. /\ SubSeq(s, 1, i-1) \in Seq(Modules)
      /\ Len(SubSeq(s, 1, i-1)) = i - 1
      /\ \A j \in 1..(i-1) : SubSeq(s, 1, i-1)[j] = s[j]
  BY <1>0
<1>2. /\ SubSeq(s, i+1, Len(s)) \in Seq(Modules)
      /\ Len(SubSeq(s, i+1, Len(s))) = Len(s) - i
      /\ \A j \in 1..(Len(s) - i) : SubSeq(s, i+1, Len(s))[j] = s[i+j]
  BY <1>0
<1>3. ASSUME NEW p \in Seq(Modules), NEW q \in Seq(Modules), Len(p) = i - 1,
             Len(q) = Len(s) - i, \A j \in 1..(i-1) : p[j] = s[j],
             \A j \in 1..(Len(s) - i) : q[j] = s[i+j]
      PROVE  /\ p \o q \in Seq(Modules)
             /\ DOMAIN (p \o q) = 1..(Len(s) - 1)
             /\ \A j \in 1..(Len(s) - 1) :
                   (p \o q)[j] = IF j < i THEN s[j] ELSE s[j+1]
  <2>1. p \o q \in Seq(Modules) /\ Len(p \o q) = Len(s) - 1
    BY <1>0, <1>3
  <2>2. ASSUME NEW j \in 1..(Len(s) - 1)
        PROVE  (p \o q)[j] = IF j < i THEN s[j] ELSE s[j+1]
    <3>1. CASE j < i
      BY <1>0, <1>3, <3>1
    <3>2. CASE ~(j < i)
      <4>1. (p \o q)[j] = q[j - (i - 1)] /\ j - (i - 1) \in 1..(Len(s) - i)
        BY <1>0, <1>3, <3>2
      <4>2. q[j - (i - 1)] = s[i + (j - (i - 1))] /\ i + (j - (i - 1)) = j + 1
        BY <1>0, <1>3, <4>1
      <4> QED
        BY <3>2, <4>1, <4>2
    <3> QED
      BY <3>1, <3>2
  <2> QED
    BY <2>1, <2>2
<1> HIDE <1>0
<1> QED
  BY <1>1, <1>2, <1>3 DEF RemoveAt

LEMMA RemoveModuleKeeps ==
    ASSUME LayerInv, NEW i \in DOMAIN containers, RemoveModule(i)
    PROVE  LayerInv'
<1> DEFINE T == {t \in Terminals : t.module = containers[i].id}
           W == {w \in wiring.layer : Ends(w) \cap T = {}}
<1>1. /\ containers' = RemoveAt(containers, i)
      /\ wiring' = RemoveAllWires(wiring, T)
      /\ drag = None /\ drag' = None
  BY DEF RemoveModule, RemoveContainer, RemoveAllTerminals, Idle
<1>2. wiring' = Listing(W) /\ wiring'.layer = W
  <2>1. wiring = Listing(wiring.layer) /\ T \subseteq Terminals
    BY DEF LayerInv
  <2>2. RemoveAllWires(Listing(wiring.layer), T) = Listing(W)
    BY <2>1, RemoveAllListing
  <2>3. wiring' = Listing(W)
    <3> HIDE DEF T, W
    <3> QED
      BY <1>1, <2>1, <2>2
  <2> QED
    BY <2>3 DEF Listing
<1>3. /\ containers' \in Seq(Modules)
      /\ DOMAIN containers' = 1..(Len(containers) - 1)
      /\ \A j \in 1..(Len(containers) - 1) :
            containers'[j] = IF j < i THEN containers[j] ELSE containers[j + 1]
  BY <1>1, RemoveAtModules DEF LayerInv
<1>4. DOMAIN containers = 1..Len(containers) /\ Len(containers) \in Nat
  BY DEF LayerInv
<1>5. Distinct'
  <2> SUFFICES ASSUME NEW j \in DOMAIN containers', NEW k \in DOMAIN containers',
                      containers'[j].id = containers'[k].id
               PROVE  j = k
    BY DEF Distinct
  <2>1. ASSUME NEW l \in DOMAIN containers'
        PROVE  LET m == IF l < i THEN l ELSE l + 1
               IN  m \in DOMAIN containers /\ containers'[l] = containers[m]
    BY <1>3, <1>4
  <2> QED
    BY <1>3, <1>4, <2>1 DEF Distinct, LayerInv
<1>6. ASSUME NEW t \in Terminals, t \notin T, OnLayer(t) PROVE OnLayer(t)'
  <2>1. PICK j \in DOMAIN containers :
           /\ containers[j].id = t.module
           /\ t.name \in modulesByName[containers[j].name].terminals
    BY <1>6 DEF OnLayer, ToSet
  <2>2. j # i
    BY <1>6, <2>1
  <2>3. PICK k \in DOMAIN containers' : containers'[k] = containers[j]
    <3>1. CASE j < i
      BY <1>3, <1>4, <3>1
    <3>2. CASE j > i
      BY <1>3, <1>4, <3>2, j - 1 \in 1..(Len(containers) - 1), ~(j - 1 < i), (j - 1) + 1 = j
    <3> QED
      BY <1>4, <2>2, <3>1, <3>2
  <2> QED
    BY <2>1, <2>3 DEF OnLayer, ToSet
<1>7. ASSUME NEW w \in W PROVE WholeWire(w)'
  <2>1. WholeWire(w) /\ w \in Wires
    BY <1>1 DEF LayerInv
  <2>2. Ends(w) \subseteq Terminals
    BY <2>1, MouseIsNoTerminal DEF WholeWire, Ends, Wires, Mouse, Inputs, Outputs
  <2> QED
    BY <1>6, <2>1, <2>2, StaysWhole
<1> QED
  BY <1>1, <1>2, <1>3, <1>5, <1>7 DEF LayerInv

LEMMA ScissorClickKeeps ==
    ASSUME LayerInv, NEW t \in Terminals, ScissorClick(t)
    PROVE  LayerInv'
<1> DEFINE W == {w \in wiring.layer : Ends(w) \cap {t} = {}}
<1>1. wiring' = Listing(W) /\ wiring'.layer = W
  <2>1. wiring' = Listing(W)
    BY RemoveAllListing DEF LayerInv, ScissorClick
  <2> QED
    BY <2>1 DEF Listing
<1>2. UNCHANGED <<containers, drag>>
  BY DEF ScissorClick
<1>3. \A w : WholeWire(w) => WholeWire(w)'
  BY <1>2 DEF WholeWire, OnLayer
<1> QED
  BY <1>1, <1>2, <1>3 DEF LayerInv, Distinct, OnLayer

\* Taking the wires of t away leaves a part of the layer.
LEMMA RoomAt ==
    ASSUME NEW W, NEW t \in Terminals
    PROVE  \E V \in SUBSET W : RemoveAllWires(Listing(W), {t}) = Listing(V)
<1>1. {w \in W : Ends(w) \cap {t} = {}} \in SUBSET W
  OBVIOUS
<1>2. RemoveAllWires(Listing(W), {t}) = Listing({w \in W : Ends(w) \cap {t} = {}})
  BY RemoveAllListing
<1> QED
  BY <1>1, <1>2

LEMMA StartDragKeeps ==
    ASSUME LayerInv, NEW t \in Terminals, StartDrag(t)
    PROVE  LayerInv'
<1> DEFINE w0 == Oriented(t, Mouse)
<1>1. /\ drag = None /\ drag' = t /\ OnLayer(t) /\ containers' = containers
      /\ wiring' = AttachWires(
            IF AtMostOne(t) THEN RemoveAllWires(wiring, {t}) ELSE wiring, {w0})
  BY DEF StartDrag, Idle
<1>2. PICK V \in SUBSET wiring.layer : wiring' = AttachWires(Listing(V), {w0})
  <2>1. wiring = Listing(wiring.layer)
    BY DEF LayerInv
  <2>2. CASE AtMostOne(t)
    <3>1. PICK V \in SUBSET wiring.layer :
             RemoveAllWires(Listing(wiring.layer), {t}) = Listing(V)
      BY RoomAt
    <3>2. wiring' = AttachWires(RemoveAllWires(wiring, {t}), {w0})
      BY <1>1, <2>2
    <3> HIDE DEF w0
    <3> QED
      BY <2>1, <3>1, <3>2
  <2>3. CASE ~AtMostOne(t)
    <3>1. wiring' = AttachWires(wiring, {w0})
      BY <1>1, <2>3
    <3> HIDE DEF w0
    <3> QED
      BY <2>1, <3>1, wiring.layer \in SUBSET wiring.layer
  <2> QED
    BY <2>2, <2>3
<1>3. wiring' = Listing(V \union {w0}) /\ wiring'.layer = V \union {w0}
  <2>1. wiring' = Listing(V \union {w0})
    BY <1>2, AttachListing
  <2> QED
    BY <2>1 DEF Listing
<1>4. w0 \in Wires
  BY OrientedIsWire
<1>5. \A w : WholeWire(w) => WholeWire(w)'
  BY <1>1 DEF WholeWire, OnLayer
<1>6. t # None
  BY NoneAssumption
<1>7. Distinct' /\ OnLayer(t)'
  BY <1>1 DEF LayerInv, Distinct, OnLayer
<1> HIDE DEF w0
<1>8. \A w \in wiring'.layer : WholeWire(w)' \/ w = w0
  BY <1>1, <1>2, <1>3, <1>5 DEF LayerInv
<1>9. w0 = Oriented(drag, Mouse)'
  BY <1>1 DEF w0, Oriented, Mouse
<1> QED
  BY <1>1, <1>2, <1>3, <1>4, <1>6, <1>7, <1>8, <1>9 DEF LayerInv

\* Once the wire that is being dragged is gone, all wires are whole.
LEMMA DropKeeps ==
    ASSUME LayerInv, NEW W, NEW V, drag' = None, containers' = containers,
           W = wiring.layer \ {Oriented(drag, Mouse)},
           V \subseteq Wires, wiring' = Listing(V), \A w \in V \ W : WholeWire(w)
    PROVE  LayerInv'
<1>1. wiring'.layer = V
  BY DEF Listing
<1>2. \A w : WholeWire(w) => WholeWire(w)'
  BY DEF WholeWire, OnLayer
<1>3. \A w \in V : WholeWire(w)
  BY DEF LayerInv
<1> QED
  BY <1>1, <1>2, <1>3 DEF LayerInv, Distinct

LEMMA EndDragKeeps ==
    ASSUME LayerInv, EndDrag
    PROVE  LayerInv'
<1> DEFINE W == wiring.layer \ {Oriented(drag, Mouse)}
<1>1. wiring' = Listing(W) /\ W \subseteq Wires
  BY RemoveListing DEF EndDrag, LayerInv
<1>2. drag' = None /\ containers' = containers
  BY DEF EndDrag
<1> QED
  BY <1>1, <1>2, DropKeeps

LEMMA OnDragDropKeeps ==
    ASSUME LayerInv, NEW target \in Terminals, OnDragDrop(target)
    PROVE  LayerInv'
<1> DEFINE W == wiring.layer \ {Oriented(drag, Mouse)}
           w1 == Oriented(drag, target)
           g == RemoveWires(wiring, {Oriented(drag, Mouse)})
           room == IF AtMostOne(target) THEN RemoveAllWires(g, {target}) ELSE g
<1>1. g = Listing(W) /\ W \subseteq Wires
  BY RemoveListing DEF LayerInv
<1>2. /\ drag' = None /\ containers' = containers /\ drag \in Terminals
      /\ IsValidWireTerminal(drag, target)
      /\ wiring' = IF GetConnected(g, drag, target) THEN g
                   ELSE AttachWires(room, {w1})
  BY DEF OnDragDrop, LayerInv
<1>3. w1 \in Wires
  BY <1>2, OrientedIsWire
<1>4. WholeWire(w1)
  <2>1. OnLayer(drag) /\ OnLayer(target) /\ drag.module # target.module
        /\ (drag.name \in Inputs) # (target.name \in Inputs)
    BY <1>2, NoneAssumption DEF LayerInv, IsValidWireTerminal
  <2>2. /\ drag.name \in Inputs \union Outputs
        /\ target.name \in Inputs \union Outputs
        /\ target # Mouse
    BY <1>2, MouseIsNoTerminal DEF Terminals, TerminalNames
  <2> QED
    BY <2>1, <2>2 DEF WholeWire, Oriented
<1>5. PICK V \in SUBSET W : room = Listing(V)
  <2>1. CASE AtMostOne(target)
    <3>1. room = RemoveAllWires(Listing(W), {target})
      BY <1>1, <2>1
    <3> HIDE DEF W, room
    <3> QED
      BY <3>1, RoomAt
  <2>2. CASE ~AtMostOne(target)
    BY <1>1, <2>2, W \in SUBSET W
  <2> QED
    BY <2>1, <2>2
<1> HIDE DEF W, w1, g, room
<1>6. CASE GetConnected(g, drag, target)
  BY <1>1, <1>2, <1>6, DropKeeps DEF W
<1>7. CASE ~GetConnected(g, drag, target)
  <2>1. wiring' = Listing(V \union {w1})
    BY <1>2, <1>5, <1>7, AttachListing
  <2> QED
    BY <1>1, <1>2, <1>3, <1>4, <1>5, <2>1, DropKeeps DEF W
<1> QED
  BY <1>6, <1>7

-----------------------------------------------------------------------------
(***************************************************************************)
(* Saving and loading.                                                     *)
(***************************************************************************)

\* The end of a wire as GetValue writes it.
End(t) == [module |-> IndexOf(t.module), name |-> t.name]

\* indexOf finds the module of a terminal on the layer.
LEMMA IndexOfTerminal ==
    ASSUME LayerInv, NEW t \in Terminals, OnLayer(t)
    PROVE  /\ IndexOf(t.module) \in DOMAIN containers
           /\ containers[IndexOf(t.module)].id = t.module
           /\ t.name \in modulesByName[containers[IndexOf(t.module)].name].terminals
<1>1. PICK i \in DOMAIN containers :
         /\ containers[i].id = t.module
         /\ t.name \in modulesByName[containers[i].name].terminals
  BY DEF OnLayer, ToSet
<1>2. t.module # None
  BY EditorAssumption DEF Terminals
<1>3. IndexOf(t.module) = CHOOSE j \in DOMAIN containers : containers[j].id = t.module
  BY <1>2 DEF IndexOf
<1>4. /\ IndexOf(t.module) \in DOMAIN containers
      /\ containers[IndexOf(t.module)].id = t.module
  BY <1>1, <1>3
<1>5. IndexOf(t.module) = i
  BY <1>1, <1>4 DEF LayerInv, Distinct
<1> QED
  BY <1>1, <1>4, <1>5

\* What getValue returns is a value whose wires are whole, but for the one that is
\* being dragged, which has no module at its second end.
LEMMA ValueOfLayer ==
    ASSUME LayerInv
    PROVE  /\ GetValue \in Values
           /\ \A s \in GetValue.wires :
                 SavedWire(GetValue, s) \/ 0 \in {s.src.module, s.tgt.module}
<1> DEFINE M == [i \in DOMAIN containers |->
                   [name |-> containers[i].name, filled |-> containers[i].filled]]
           S(w) == [src |-> End(w.terminal1), tgt |-> End(w.terminal2)]
           V == {S(w) : w \in wiring.layer}
<1>1. GetValue = [modules |-> M, wires |-> V]
  BY DEF GetValue, End
<1>2. /\ M \in Seq([name : Kinds, filled : BOOLEAN])
      /\ DOMAIN M = DOMAIN containers
      /\ \A i \in DOMAIN containers : M[i].name = containers[i].name
  <2>1. /\ Len(containers) \in Nat /\ DOMAIN containers = 1..Len(containers)
        /\ \A i \in DOMAIN containers : containers[i] \in Modules
    BY DEF LayerInv
  <2>2. \A i \in DOMAIN containers : M[i] \in [name : Kinds, filled : BOOLEAN]
    BY <2>1 DEF Modules
  <2>3. M \in [1..Len(containers) -> [name : Kinds, filled : BOOLEAN]]
    BY <2>1, <2>2
  <2> QED
    BY <2>1, <2>3
<1>3. DOMAIN containers \subseteq Nat \ {0}
  BY DEF LayerInv
<1>4. ASSUME NEW w \in wiring.layer
      PROVE  /\ S(w) \in [src : SavedEnds, tgt : SavedEnds]
             /\ SavedWire([modules |-> M, wires |-> V], S(w))
                  \/ 0 \in {S(w).src.module, S(w).tgt.module}
  <2>1. CASE WholeWire(w)
    <3>1. /\ w.terminal1 \in Terminals /\ w.terminal2 \in Terminals
          /\ OnLayer(w.terminal1) /\ OnLayer(w.terminal2)
          /\ w.terminal1.module # w.terminal2.module
          /\ w.terminal1.name \in Outputs /\ w.terminal2.name \in Inputs
      BY <2>1 DEF LayerInv, WholeWire, Wires, Mouse, Inputs, Outputs
    <3>2. ASSUME NEW t \in Terminals, OnLayer(t)
          PROVE  /\ End(t) \in SavedEnds
                 /\ End(t).name = t.name
                 /\ containers[End(t).module].id = t.module
                 /\ SavedTerminal([modules |-> M, wires |-> V], End(t))
      <4>1. /\ IndexOf(t.module) \in DOMAIN containers
            /\ containers[IndexOf(t.module)].id = t.module
            /\ t.name \in modulesByName[containers[IndexOf(t.module)].name].terminals
        BY <3>2, IndexOfTerminal
      <4>2. t.name \in TerminalNames
        BY DEF Terminals
      <4> HIDE DEF M, V
      <4> QED
        BY <1>2, <1>3, <4>1, <4>2 DEF End, SavedEnds, SavedTerminal
    <3>3. End(w.terminal1).module # End(w.terminal2).module
      BY <3>1, <3>2
    <3> HIDE DEF M, V
    <3> QED
      BY <3>1, <3>2, <3>3 DEF SavedWire
  <2>2. CASE drag # None /\ w = Oriented(drag, Mouse)
    <3>1. w = [terminal1 |-> drag, terminal2 |-> Mouse] /\ drag \in Terminals /\ OnLayer(drag)
      BY <2>2, DraggedWire DEF LayerInv
    <3>2. End(Mouse) = [module |-> 0, name |-> "mouse"]
      BY DEF End, IndexOf, Mouse
    <3>3. End(drag) \in SavedEnds
      <4>1. IndexOf(drag.module) \in DOMAIN containers /\ drag.name \in TerminalNames
        BY <3>1, IndexOfTerminal DEF Terminals
      <4> QED
        BY <1>3, <4>1 DEF End, SavedEnds
    <3>4. S(w) = [src |-> End(drag), tgt |-> [module |-> 0, name |-> "mouse"]]
      BY <3>1, <3>2
    <3> HIDE DEF S
    <3> QED
      BY <3>3, <3>4 DEF SavedEnds
  <2> QED
    BY <2>1, <2>2 DEF LayerInv
<1>5. \A s \in V : \E w \in wiring.layer : s = S(w)
  OBVIOUS
<1> HIDE DEF M, S, V
<1>6. V \subseteq [src : SavedEnds, tgt : SavedEnds]
  BY <1>4, <1>5
<1>7. [modules |-> M, wires |-> V] \in Values
  BY <1>2, <1>6 DEF Values
<1> QED
  BY <1>1, <1>4, <1>5, <1>7

LEMMA ElementsOf ==
    ASSUME NEW S, NEW s \in Seq(S)
    PROVE  \A i \in DOMAIN s : s[i] \in S
OBVIOUS

\* Loading a value whose wires are whole gives a layer in order, and of that
\* layer getValue returns the value again.
LEMMA LoadPipeRestores ==
    ASSUME NEW v \in Values, \A s \in v.wires : SavedWire(v, s),
           LoadPipe(v), drag' = None
    PROVE  LayerInv' /\ GetValue' = v
<1>1. PICK id \in [DOMAIN v.modules -> Ids] :
         /\ IsInjective(id)
         /\ containers' = [i \in DOMAIN id |->
               [NewContainer(id[i], v.modules[i].name) EXCEPT
                   !.filled = v.modules[i].filled]]
         /\ wiring' = AttachWires(NoWires, {AddWire(id, s) : s \in v.wires})
  BY DEF LoadPipe
<1> DEFINE T(e) == [module |-> id[e.module], name |-> e.name]
           A(s) == [terminal1 |-> T(s.src), terminal2 |-> T(s.tgt)]
           W == {A(s) : s \in v.wires}
<1> HIDE DEF T, A, W
<1>2. /\ v.modules \in Seq([name : Kinds, filled : BOOLEAN])
      /\ Len(v.modules) \in Nat /\ DOMAIN v.modules = 1..Len(v.modules)
      /\ DOMAIN id = DOMAIN v.modules
      /\ v.wires \in SUBSET [src : SavedEnds, tgt : SavedEnds]
      /\ v = [modules |-> v.modules, wires |-> v.wires]
  BY DEF Values
<1>3. /\ containers' \in Seq(Modules)
      /\ DOMAIN containers' = DOMAIN v.modules
      /\ \A i \in DOMAIN v.modules :
            containers'[i] = [id |-> id[i], name |-> v.modules[i].name,
                              filled |-> v.modules[i].filled]
  <2>1. \A i \in DOMAIN v.modules :
           containers'[i] = [id |-> id[i], name |-> v.modules[i].name,
                             filled |-> v.modules[i].filled]
    BY <1>1, <1>2 DEF NewContainer
  <2>2. DOMAIN containers' = DOMAIN v.modules
    BY <1>1, <1>2
  <2>3. \A i \in DOMAIN v.modules : containers'[i] \in Modules
    <3> SUFFICES ASSUME NEW i \in DOMAIN v.modules PROVE containers'[i] \in Modules
      OBVIOUS
    <3>1. id[i] \in Ids /\ v.modules[i] \in [name : Kinds, filled : BOOLEAN]
      BY <1>1, <1>2, ElementsOf
    <3>2. v.modules[i].name \in Kinds /\ v.modules[i].filled \in BOOLEAN
      BY <3>1
    <3> DEFINE k == id[i]
               n == v.modules[i].name
               f == v.modules[i].filled
    <3>3. containers'[i] = [id |-> k, name |-> n, filled |-> f]
      BY <2>1
    <3>4. k \in Ids /\ n \in Kinds /\ f \in BOOLEAN
      BY <3>1, <3>2
    <3> HIDE DEF k, n, f
    <3> QED
      BY <3>3, <3>4 DEF Modules
  <2>4. containers' = [i \in 1..Len(v.modules) |-> containers'[i]]
    BY <1>1, <1>2
  <2> QED
    BY <1>2, <2>1, <2>2, <2>3, <2>4
<1>3a. \A i \in DOMAIN v.modules :
          /\ containers'[i].id = id[i]
          /\ containers'[i].name = v.modules[i].name
          /\ containers'[i].filled = v.modules[i].filled
  <2> SUFFICES ASSUME NEW i \in DOMAIN v.modules
               PROVE  /\ containers'[i].id = id[i]
                      /\ containers'[i].name = v.modules[i].name
                      /\ containers'[i].filled = v.modules[i].filled
    OBVIOUS
  <2> DEFINE n == v.modules[i].name
             f == v.modules[i].filled
  <2>1. containers'[i] = [id |-> id[i], name |-> n, filled |-> f]
    BY <1>3
  <2> HIDE DEF n, f
  <2>2. /\ containers'[i].id = id[i]
        /\ containers'[i].name = n
        /\ containers'[i].filled = f
    BY <2>1
  <2> QED
    BY <2>2 DEF n, f
<1>4. \A i, j \in DOMAIN v.modules : id[i] = id[j] => i = j
  BY <1>1, <1>2 DEF IsInjective
<1>5. Distinct'
  BY <1>3, <1>3a, <1>4 DEF Distinct
<1>6. ASSUME NEW e, SavedTerminal(v, e)
      PROVE  OnLayer(T(e))' /\ id[e.module] \in Ids
  <2>1. e.module \in DOMAIN v.modules /\ containers'[e.module].id = id[e.module]
        /\ e.name \in modulesByName[containers'[e.module].name].terminals
    BY <1>3a, <1>6 DEF SavedTerminal
  <2>2. T(e).module = id[e.module] /\ T(e).name = e.name
    BY DEF T
  <2> QED
    BY <1>1, <1>3, <2>1, <2>2 DEF OnLayer, ToSet
<1>7. ASSUME NEW s \in v.wires
      PROVE  /\ AddWire(id, s) = A(s) /\ A(s) \in Wires
             /\ WholeWire(A(s))'
  <2>1. /\ SavedWire(v, s) /\ s.src.name \in Outputs /\ s.tgt.name \in Inputs
        /\ SavedTerminal(v, s.src) /\ SavedTerminal(v, s.tgt)
        /\ s.src.module # s.tgt.module
    BY DEF SavedWire
  <2>2. AddWire(id, s) = A(s)
    BY <2>1 DEF AddWire, Oriented, Inputs, Outputs, A, T
  <2>3. T(s.src) \in Terminals /\ T(s.tgt) \in Terminals
    BY <1>6, <2>1 DEF Terminals, TerminalNames, T
  <2>4. id[s.src.module] # id[s.tgt.module]
    BY <1>4, <2>1 DEF SavedTerminal
  <2>5. OnLayer(T(s.src))' /\ OnLayer(T(s.tgt))'
    BY <1>6, <2>1
  <2>6. WholeWire(A(s))'
    BY <2>1, <2>4, <2>5 DEF WholeWire, A, T
  <2> QED
    BY <2>2, <2>3, <2>6 DEF Wires, A
<1>8. wiring' = Listing(W) /\ wiring'.layer = W
  <2>1. {AddWire(id, s) : s \in v.wires} = W
    BY <1>7 DEF W
  <2>2. wiring' = Listing({} \union W)
    BY <1>1, <2>1, NoWiresListing, AttachListing
  <2>3. {} \union W = W
    OBVIOUS
  <2> QED
    BY <2>2, <2>3 DEF Listing
<1>9. LayerInv'
  <2>1. W \subseteq Wires /\ \A w \in W : WholeWire(w)'
    BY <1>7 DEF W
  <2> QED
    BY <1>3, <1>5, <1>8, <2>1 DEF LayerInv
<1>10. ASSUME NEW e \in SavedEnds, SavedTerminal(v, e)
       PROVE  End(T(e))' = e
  <2>1. e.module \in DOMAIN containers' /\ containers'[e.module].id = id[e.module]
    BY <1>3, <1>3a, <1>10 DEF SavedTerminal
  <2>2. id[e.module] # None
    BY <1>6, <1>10, EditorAssumption
  <2>3. IndexOf(id[e.module])' =
           CHOOSE j \in DOMAIN containers' : containers'[j].id = id[e.module]
    BY <2>2 DEF IndexOf
  <2>4. IndexOf(id[e.module])' = e.module
    BY <1>5, <2>1, <2>3 DEF Distinct
  <2>5. e = [module |-> e.module, name |-> e.name]
    BY DEF SavedEnds
  <2> QED
    BY <2>4, <2>5 DEF End, T
<1>11. GetValue' = v
  <2>1. GetValue' = [modules |-> [i \in DOMAIN containers' |->
                          [name |-> containers'[i].name, filled |-> containers'[i].filled]],
                     wires |-> {[src |-> End(w.terminal1)', tgt |-> End(w.terminal2)'] :
                                   w \in W}]
    BY <1>8 DEF GetValue, End
  <2>2. [i \in DOMAIN containers' |->
           [name |-> containers'[i].name, filled |-> containers'[i].filled]] = v.modules
    <3>1. \A i \in DOMAIN v.modules :
             v.modules[i] = [name |-> v.modules[i].name, filled |-> v.modules[i].filled]
      <4> SUFFICES ASSUME NEW i \in DOMAIN v.modules
                   PROVE  v.modules[i] = [name |-> v.modules[i].name,
                                          filled |-> v.modules[i].filled]
        OBVIOUS
      <4>1. v.modules[i] \in [name : Kinds, filled : BOOLEAN]
        BY <1>2, ElementsOf
      <4> QED
        BY <4>1
    <3>2. v.modules = [i \in 1..Len(v.modules) |-> v.modules[i]]
      BY <1>2
    <3> DEFINE G(i) == [name |-> containers'[i].name, filled |-> containers'[i].filled]
    <3>3. \A i \in DOMAIN v.modules : G(i) = v.modules[i]
      BY <1>3a, <3>1
    <3>4. DOMAIN containers' = 1..Len(v.modules) /\ DOMAIN v.modules = 1..Len(v.modules)
      BY <1>2, <1>3
    <3> HIDE DEF G
    <3>5. [i \in DOMAIN containers' |-> G(i)] = v.modules
      BY <3>2, <3>3, <3>4
    <3> QED
      BY <3>5 DEF G
  <2>3. ASSUME NEW s \in v.wires
        PROVE  [src |-> End(T(s.src))', tgt |-> End(T(s.tgt))'] = s
    <3>1. End(T(s.src))' = s.src /\ End(T(s.tgt))' = s.tgt
      BY <1>2, <1>10 DEF SavedWire
    <3>2. s = [src |-> s.src, tgt |-> s.tgt]
      BY <1>2
    <3> QED
      BY <3>1, <3>2
  <2>4. {[src |-> End(w.terminal1)', tgt |-> End(w.terminal2)'] : w \in W} = v.wires
    <3>1. \A s : A(s).terminal1 = T(s.src) /\ A(s).terminal2 = T(s.tgt)
      BY DEF A
    <3> DEFINE F(w) == [src |-> End(w.terminal1)', tgt |-> End(w.terminal2)']
    <3>2. \A s \in v.wires : F(A(s)) = s
      BY <2>3, <3>1
    <3> HIDE DEF F
    <3>3. {F(w) : w \in W} = v.wires
      BY <3>2 DEF W
    <3> QED
      BY <3>3 DEF F
  <2> QED
    BY <1>2, <2>1, <2>2, <2>4
<1> QED
  BY <1>9, <1>11

-----------------------------------------------------------------------------
(***************************************************************************)
(* The invariant is kept, and the theorems.                                *)
(***************************************************************************)

LEMMA DrawingKeepsLayer ==
    ASSUME LayerInv, UNCHANGED layerVars
    PROVE  LayerInv'
<1>1. \A t : OnLayer(t) <=> OnLayer(t)'
  BY DEF OnLayer, layerVars
<1>2. \A w : WholeWire(w) <=> WholeWire(w)'
  BY <1>1 DEF WholeWire
<1> QED
  BY <1>1, <1>2 DEF LayerInv, Distinct, layerVars

\* An empty layer: the page was left.
LEMMA ClearKeeps ==
    ASSUME Clear, drag' = None
    PROVE  LayerInv'
<1>1. containers' = <<>> /\ wiring' = Listing({}) /\ wiring'.layer = {}
  BY NoWiresListing DEF Clear, NoWires
<1>2. <<>> \in Seq(Modules) /\ \A i \in DOMAIN <<>> : FALSE
  OBVIOUS
<1>3. containers' \in Seq(Modules) /\ Distinct'
  BY <1>1, <1>2, Zenon DEF Distinct
<1> QED
  BY <1>1, <1>3 DEF LayerInv

LEMMA RequestsKept ==
    ASSUME RequestInv, UNCHANGED <<loading, post, server>>,
           page' = page \/ ~loading
    PROVE  RequestInv'
BY DEF RequestInv, SavedWire, SavedTerminal

\* What the server stores was sent by the page, and is whole.
LEMMA SaveWorkflowKeeps ==
    ASSUME RequestInv, SaveWorkflow
    PROVE  RequestInv'
<1>1. /\ post # None /\ "modules" \in DOMAIN post
      /\ UNCHANGED <<page, loading>>
  BY DEF SaveWorkflow
<1>2. CASE /\ Whole(post)
           /\ server' = [saved |-> post, active |-> FALSE]
           /\ post' = [reply |-> "saved"]
  <2>1. \A w \in post.wires : SavedWire(post, w)
    BY <1>1, <1>2 DEF RequestInv, Whole
  <2>2. server'.saved = post /\ server' = [saved |-> server'.saved, active |-> server'.active]
    BY <1>2
  <2>3. "modules" \notin DOMAIN post'
    BY <1>2
  <2> QED
    BY <1>1, <2>1, <2>2, <2>3 DEF RequestInv
<1>3. CASE post' = [reply |-> "error"] /\ UNCHANGED server
  BY <1>1, <1>3 DEF RequestInv
<1>4. CASE post' = None /\ UNCHANGED server
  BY <1>1, <1>4 DEF RequestInv
<1> QED
  BY <1>2, <1>3, <1>4 DEF SaveWorkflow

\* The page sends what is drawn.
LEMMA PostKept ==
    ASSUME IInv, post' = GetValue \/ UNCHANGED post,
           UNCHANGED <<page, loading, server>>
    PROVE  RequestInv'
<1>1. CASE post' = GetValue
  BY <1>1, ValueOfLayer DEF IInv, RequestInv
<1>2. CASE UNCHANGED post
  BY <1>2, RequestsKept DEF IInv
<1> QED
  BY <1>1, <1>2

LEMMA OnLoadSuccessKeeps ==
    ASSUME IInv, OnLoadSuccess
    PROVE  IInv' /\ GetValue' = server.saved
<1>1. /\ server.saved \in Values
      /\ \A s \in server.saved.wires : SavedWire(server.saved, s)
  BY DEF IInv, RequestInv, OnLoadSuccess
<1>2. LayerInv' /\ GetValue' = server.saved
  BY <1>1, LoadPipeRestores DEF OnLoadSuccess
<1>3. RequestInv'
  BY DEF IInv, RequestInv, OnLoadSuccess
<1> QED
  BY <1>2, <1>3 DEF IInv

\* The drawing actions, which leave the requests and the page alone.
LEMMA DrawingKeeps ==
    ASSUME IInv,
           \/ \E kind \in Kinds : AddModule(kind)
           \/ \E i \in DOMAIN containers : FillForm(i) \/ RemoveModule(i)
           \/ \E t \in Terminals : ScissorClick(t) \/ StartDrag(t) \/ OnDragDrop(t)
           \/ EndDrag
    PROVE  IInv' /\ UNCHANGED <<page, loading, post, server>>
<1>1. LayerInv /\ RequestInv
  BY DEF IInv
<1>2. LayerInv'
  BY <1>1, AddModuleKeeps, FillFormKeeps, RemoveModuleKeeps, ScissorClickKeeps,
     StartDragKeeps, OnDragDropKeeps, EndDragKeeps
<1>3. UNCHANGED <<page, loading, post, server>>
  BY DEF AddModule, FillForm, RemoveModule, ScissorClick, StartDrag, OnDragDrop,
         EndDrag, requestVars
<1> QED
  BY <1>1, <1>2, <1>3, RequestsKept DEF IInv

LEMMA StepKeeps ==
    ASSUME IInv, [EditorNext]_editorVars
    PROVE  IInv' /\ (loading /\ ~loading' /\ page' = "update" => GetValue' = server.saved)
<1> USE DEF requestVars
<1>0. LayerInv /\ RequestInv
  BY DEF IInv
<1>1. CASE \/ \E kind \in Kinds : AddModule(kind)
           \/ \E i \in DOMAIN containers : FillForm(i) \/ RemoveModule(i)
           \/ \E t \in Terminals : ScissorClick(t) \/ StartDrag(t) \/ OnDragDrop(t)
           \/ EndDrag
  BY <1>1, DrawingKeeps
<1>2. CASE OpenCreate
  <2>1. RequestInv'
    BY <1>0, <1>2, RequestsKept DEF OpenCreate, RequestInv
  <2> QED
    BY <1>0, <1>2, <2>1, DrawingKeepsLayer DEF OpenCreate, IInv
<1>3. CASE OpenUpdate
  <2>1. RequestInv'
    BY <1>0, <1>3 DEF OpenUpdate, RequestInv
  <2> QED
    BY <1>0, <1>3, <2>1, DrawingKeepsLayer DEF OpenUpdate, IInv
<1>4. CASE OnLoadSuccess
  BY <1>4, OnLoadSuccessKeeps
<1>5. CASE SaveClick \/ IsActiveAnswered
  <2>1. UNCHANGED <<page, loading, server>> /\ UNCHANGED layerVars
        /\ (post' = GetValue \/ UNCHANGED post)
    BY <1>5 DEF SaveClick, IsActiveAnswered
  <2>2. RequestInv'
    BY <2>1, PostKept
  <2> QED
    BY <1>0, <2>1, <2>2, DrawingKeepsLayer DEF IInv
<1>6. CASE IsActive
  BY <1>0, <1>6, RequestsKept, DrawingKeepsLayer DEF IsActive, IInv
<1>7. CASE SaveWorkflow
  BY <1>0, <1>7, SaveWorkflowKeeps, DrawingKeepsLayer DEF SaveWorkflow, IInv
<1>8. CASE SaveAnswered
  <2>1. CASE post.reply = "saved"
    <3>1. /\ Clear /\ drag' = None /\ loading' = FALSE /\ page' = "index"
          /\ post' = None /\ server' = server
      BY <1>8, <2>1 DEF SaveAnswered
    <3>2. RequestInv'
      BY <1>0, <3>1 DEF RequestInv
    <3> QED
      BY <3>1, <3>2, ClearKeeps DEF IInv
  <2>2. CASE post.reply # "saved"
    <3>1. /\ UNCHANGED <<page, layerVars, loading, server>>
          /\ post' = None
      BY <1>8, <2>2 DEF SaveAnswered
    <3>2. RequestInv'
      BY <1>0, <3>1 DEF RequestInv
    <3> QED
      BY <1>0, <3>1, <3>2, DrawingKeepsLayer DEF IInv
  <2> QED
    BY <2>1, <2>2
<1>9. CASE CancelClick
  <2>1. /\ Clear /\ drag' = None /\ loading' = FALSE /\ page' = "index"
        /\ UNCHANGED <<post, server>>
    BY <1>9 DEF CancelClick, Idle
  <2>2. RequestInv'
    BY <1>0, <2>1 DEF RequestInv
  <2> QED
    BY <2>1, <2>2, ClearKeeps DEF IInv
<1>10. CASE Toggle
  <2>1. /\ UNCHANGED <<page, layerVars, loading, post>>
        /\ server' = [server EXCEPT !.active = ~@]
    BY <1>10 DEF Toggle
  <2>2. /\ server'.saved = server.saved
        /\ server' = [saved |-> server'.saved, active |-> server'.active]
    BY <1>0, <2>1 DEF RequestInv
  <2>3. RequestInv'
    BY <1>0, <2>1, <2>2 DEF RequestInv
  <2> QED
    BY <1>0, <2>1, <2>3, DrawingKeepsLayer DEF IInv
<1>11. CASE UNCHANGED editorVars
  BY <1>0, <1>11, RequestsKept, DrawingKeepsLayer DEF editorVars, IInv
<1> QED
  BY <1>1, <1>2, <1>3, <1>4, <1>5, <1>6, <1>7, <1>8, <1>9, <1>10, <1>11 DEF EditorNext

LEMMA InitHolds ==
    ASSUME EditorInit
    PROVE  IInv
<1>1. wiring = Listing({}) /\ wiring.layer = {}
  BY NoWiresListing DEF EditorInit, NoWires
<1>2. <<>> \in Seq(Modules) /\ \A i \in DOMAIN <<>> : FALSE
  OBVIOUS
<1>3. containers \in Seq(Modules) /\ Distinct
  BY <1>2, Zenon DEF Distinct, EditorInit
<1>4. LayerInv
  BY <1>1, <1>3 DEF EditorInit, LayerInv
<1>5. RequestInv
  BY DEF EditorInit, RequestInv
<1> QED
  BY <1>4, <1>5 DEF IInv

LEMMA IInvHolds == EditorSpec => []IInv
<1>1. EditorInit => IInv
  BY InitHolds
<1>2. IInv /\ [EditorNext]_editorVars => IInv'
  BY StepKeeps
<1> QED
  BY <1>1, <1>2, PTL DEF EditorSpec

\* A wire is kept by the layer, two containers and two terminals, each of which
\* learns of it by its own handler (Wire.js, Terminal.js, Container.js, Layer.js):
\* for all modules and any number of them, the lists agree.
THEOREM WiresListed == EditorSpec => []ListsAgree
<1>1. IInv => ListsAgree
  BY ListingAgrees DEF IInv, LayerInv
<1> QED
  BY <1>1, IInvHolds, PTL

\* The wires of the layer lead from outputs to inputs of other modules that are
\* there, whatever was dragged, dropped, removed and loaded before
\* (MeicanContainer.onAddWire, Terminal.isValidWireTerminal).
THEOREM WiresLeadToInputs == EditorSpec => []OutputToInput
<1>1. IInv => OutputToInput
  BY DEF IInv, LayerInv, WholeWire, OutputToInput
<1> QED
  BY <1>1, IInvHolds, PTL

\* The server never stores a workflow with a wire to a module it does not have
\* (WiringEditor.getValue, BpmWorkflow::saveWorkflow).
THEOREM StoredIsWhole == EditorSpec => []SavedIsWhole
<1>1. IInv => SavedIsWhole
  <2> SUFFICES ASSUME IInv, server.saved # None, NEW w \in server.saved.wires
               PROVE  {w.src.module, w.tgt.module} \subseteq DOMAIN server.saved.modules
    BY DEF SavedIsWhole
  <2> QED
    BY DEF IInv, RequestInv, SavedWire, SavedTerminal
<1> QED
  BY <1>1, IInvHolds, PTL

\* A workflow that is loaded is the one that was saved: its modules in their
\* order, and its wires (WiringEditor.loadPipe after getValue).
THEOREM LoadedAsSaved == EditorSpec => LoadRestores
<1>1. IInv /\ [EditorNext]_editorVars =>
         [loading /\ ~loading' /\ page' = "update" => GetValue' = server.saved]_editorVars
  BY StepKeeps
<1> QED
  BY <1>1, IInvHolds, PTL DEF EditorSpec, LoadRestores

-----------------------------------------------------------------------------
(***************************************************************************)
(* Workflows come to an end.  The engine needs that no way comes back to a *)
(* module it has passed; what the editor sees to is that an input takes    *)
(* one wire, but for those of the final modules, which have no output.     *)
(***************************************************************************)

\* An input that takes one wire has one at most.
OneEntry ==
    \A v, w \in wiring.layer :
       v.terminal2 = w.terminal2 /\ v.terminal2 # Mouse /\ AtMostOne(v.terminal2) => v = w

\* The same of a value that is sent or saved.
SavedEntries(v) ==
    \A s, r \in v.wires :
       s.tgt = r.tgt /\ s.tgt.module # 0 /\ v.modules[s.tgt.module].name \notin Finals
          => s = r

\* A wire that is dragged from an input has made room there.
DragHasRoom ==
    drag # None /\ drag.name \in Inputs /\ AtMostOne(drag) =>
       \A w \in wiring.layer : w.terminal2 # drag

EntryInv ==
    /\ OneEntry
    /\ DragHasRoom
    /\ post # None /\ "modules" \in DOMAIN post => SavedEntries(post)
    /\ server.saved # None => SavedEntries(server.saved)

LEMMA ContainerIs ==
    ASSUME LayerInv, NEW i \in DOMAIN containers
    PROVE  Container(containers[i].id) = containers[i]
<1>1. containers[i] \in ToSet(containers)
  BY DEF ToSet
<1>2. /\ Container(containers[i].id) \in ToSet(containers)
      /\ Container(containers[i].id).id = containers[i].id
  BY <1>1 DEF Container
<1>3. PICK j \in DOMAIN containers : Container(containers[i].id) = containers[j]
  BY <1>2 DEF ToSet
<1> QED
  BY <1>2, <1>3 DEF LayerInv, Distinct

\* A wire with a terminal at its second end is whole, and what that terminal takes
\* is a question of the kind of its module.
EndedWires ==
    \A w \in wiring.layer : w.terminal2 # Mouse =>
       /\ WholeWire(w) /\ w.terminal1 \in Terminals /\ w.terminal2 \in Terminals
       /\ \E i \in DOMAIN containers :
             /\ containers[i].id = w.terminal2.module
             /\ w.terminal2.name \in modulesByName[containers[i].name].terminals
             /\ AtMostOne(w.terminal2) <=> containers[i].name \notin Finals

LEMMA EndedIsWhole == LayerInv => EndedWires
<1> SUFFICES ASSUME LayerInv, NEW w \in wiring.layer, w.terminal2 # Mouse
             PROVE  /\ WholeWire(w) /\ w.terminal1 \in Terminals /\ w.terminal2 \in Terminals
                    /\ \E i \in DOMAIN containers :
                          /\ containers[i].id = w.terminal2.module
                          /\ w.terminal2.name \in modulesByName[containers[i].name].terminals
                          /\ AtMostOne(w.terminal2) <=> containers[i].name \notin Finals
  BY DEF EndedWires
<1>1. WholeWire(w)
  BY DraggedWire DEF LayerInv
<1>2. w \in Wires
  BY DEF LayerInv
<1>3. w.terminal1 \in Terminals /\ w.terminal2 \in Terminals
  BY <1>1, <1>2 DEF WholeWire, Wires, Mouse, Inputs, Outputs
<1>4. PICK i \in DOMAIN containers :
         /\ containers[i].id = w.terminal2.module
         /\ w.terminal2.name \in modulesByName[containers[i].name].terminals
  BY <1>1 DEF WholeWire, OnLayer, ToSet
<1>5. AtMostOne(w.terminal2) <=> containers[i].name \notin Finals
  BY <1>4, ContainerIs DEF AtMostOne
<1> QED
  BY <1>1, <1>3, <1>4, <1>5

\* Wires that stay keep their only entry, while the modules keep their kinds.
LEMMA EntriesStay ==
    ASSUME LayerInv, LayerInv', OneEntry,
           \A w \in wiring'.layer : w.terminal2 # Mouse => w \in wiring.layer,
           \A i \in DOMAIN containers, j \in DOMAIN containers' :
              containers'[j].id = containers[i].id => containers'[j].name = containers[i].name
    PROVE  OneEntry'
<1>1. EndedWires /\ EndedWires'
  BY EndedIsWhole, PTL
<1> SUFFICES ASSUME NEW v \in wiring'.layer, NEW w \in wiring'.layer,
                    v.terminal2 = w.terminal2, v.terminal2 # Mouse,
                    AtMostOne(v.terminal2)'
             PROVE  v = w
  BY DEF OneEntry, Mouse
<1>2. v \in wiring.layer /\ w \in wiring.layer
  OBVIOUS
<1>3. PICK i \in DOMAIN containers :
         /\ containers[i].id = v.terminal2.module
         /\ AtMostOne(v.terminal2) <=> containers[i].name \notin Finals
  BY <1>1, <1>2 DEF EndedWires
<1>4. PICK j \in DOMAIN containers' :
         /\ containers'[j].id = v.terminal2.module
         /\ AtMostOne(v.terminal2)' <=> containers'[j].name \notin Finals
  BY <1>1 DEF EndedWires, Mouse
<1> QED
  BY <1>2, <1>3, <1>4 DEF OneEntry

\* A layer of which each input has one entry, and the value that getValue makes of
\* it, say the same of their wires.
ValueEntries == OneEntry <=> SavedEntries(GetValue)

LEMMA EntriesOfValue == LayerInv => ValueEntries
<1> SUFFICES ASSUME LayerInv PROVE OneEntry <=> SavedEntries(GetValue)
  BY DEF ValueEntries
<1> DEFINE S(w) == [src |-> End(w.terminal1), tgt |-> End(w.terminal2)]
<1>1. /\ GetValue.wires = {S(w) : w \in wiring.layer}
      /\ \A i \in DOMAIN containers : GetValue.modules[i].name = containers[i].name
  BY DEF GetValue, End
<1>2. EndedWires
  BY EndedIsWhole
<1>3. ASSUME NEW t \in Terminals, OnLayer(t)
      PROVE  /\ End(t).module \in DOMAIN containers /\ End(t).module # 0
             /\ End(t).name = t.name
             /\ containers[End(t).module].id = t.module
             /\ AtMostOne(t) <=> GetValue.modules[End(t).module].name \notin Finals
  <2>1. /\ IndexOf(t.module) \in DOMAIN containers
        /\ containers[IndexOf(t.module)].id = t.module
    BY <1>3, IndexOfTerminal
  <2>2. DOMAIN containers \subseteq Nat \ {0}
    BY DEF LayerInv
  <2>3. AtMostOne(t) <=> containers[IndexOf(t.module)].name \notin Finals
    BY <2>1, ContainerIs DEF AtMostOne
  <2> QED
    BY <1>1, <2>1, <2>2, <2>3 DEF End
<1>4. ASSUME NEW t \in Terminals, NEW u \in Terminals, OnLayer(t), OnLayer(u),
             End(t) = End(u)
      PROVE  t = u
  <2>1. t.module = u.module /\ t.name = u.name
    BY <1>3, <1>4
  <2> QED
    BY <2>1 DEF Terminals
<1>5. End(Mouse).module = 0
  BY DEF End, IndexOf, Mouse
<1>6. ASSUME OneEntry, NEW v \in wiring.layer, NEW w \in wiring.layer,
             S(v).tgt = S(w).tgt, S(v).tgt.module # 0,
             GetValue.modules[S(v).tgt.module].name \notin Finals
      PROVE  S(v) = S(w)
  <2>1. v.terminal2 # Mouse /\ w.terminal2 # Mouse
    BY <1>5, <1>6
  <2>2. /\ v.terminal2 \in Terminals /\ OnLayer(v.terminal2)
        /\ w.terminal2 \in Terminals /\ OnLayer(w.terminal2)
    BY <1>2, <2>1 DEF EndedWires, WholeWire
  <2>3. v.terminal2 = w.terminal2
    BY <1>4, <1>6, <2>2
  <2>4. AtMostOne(v.terminal2)
    BY <1>3, <1>6, <2>2
  <2> QED
    BY <1>6, <2>1, <2>3, <2>4 DEF OneEntry
<1>7. ASSUME SavedEntries(GetValue), NEW v \in wiring.layer, NEW w \in wiring.layer,
             v.terminal2 = w.terminal2, v.terminal2 # Mouse, AtMostOne(v.terminal2)
      PROVE  v = w
  <2>1. /\ v.terminal1 \in Terminals /\ OnLayer(v.terminal1)
        /\ v.terminal2 \in Terminals /\ OnLayer(v.terminal2)
        /\ w.terminal1 \in Terminals /\ OnLayer(w.terminal1)
        /\ v \in Wires /\ w \in Wires
    BY <1>2, <1>7 DEF EndedWires, WholeWire, LayerInv
  <2>2. S(v) \in GetValue.wires /\ S(w) \in GetValue.wires
    BY <1>1
  <2>3. S(v).tgt = S(w).tgt /\ S(v).tgt.module # 0
        /\ GetValue.modules[S(v).tgt.module].name \notin Finals
    BY <1>3, <1>7, <2>1
  <2>4. S(v) = S(w)
    BY <1>7, <2>2, <2>3 DEF SavedEntries
  <2>5. End(v.terminal1) = End(w.terminal1)
    BY <2>4
  <2>6. v.terminal1 = w.terminal1
    BY <1>4, <2>1, <2>5
  <2> QED
    BY <1>7, <2>1, <2>6 DEF Wires
<1> HIDE DEF S
<1> QED
  BY <1>1, <1>6, <1>7 DEF OneEntry, SavedEntries
-----------------------------------------------------------------------------
(***************************************************************************)
(* Every input keeps its only entry.                                       *)
(***************************************************************************)

\* Whatever leaves the wires alone, or takes some away, keeps the entries, while
\* the modules that stay keep their kinds.
KindsStay ==
    \A j \in DOMAIN containers' :
       \/ \A i \in DOMAIN containers : containers[i].id # containers'[j].id
       \/ \E i \in DOMAIN containers : /\ containers'[j].id = containers[i].id
                                       /\ containers'[j].name = containers[i].name

LEMMA LessStays ==
    ASSUME LayerInv, LayerInv', EntryInv, KindsStay, drag' = None,
           \A w \in wiring'.layer : w.terminal2 # Mouse => w \in wiring.layer
    PROVE  OneEntry' /\ DragHasRoom'
<1>1. \A i \in DOMAIN containers, j \in DOMAIN containers' :
         containers'[j].id = containers[i].id => containers'[j].name = containers[i].name
  BY DEF KindsStay, LayerInv, Distinct
<1>2. OneEntry'
  BY <1>1, EntriesStay DEF EntryInv
<1>3. DragHasRoom'
  BY DEF DragHasRoom
<1> QED
  BY <1>2, <1>3

LEMMA AddModuleEntries ==
    ASSUME IInv, IInv', EntryInv, NEW kind \in Kinds, AddModule(kind)
    PROVE  OneEntry' /\ DragHasRoom'
<1>1. PICK id \in Ids \ {c.id : c \in ToSet(containers)} :
         containers' = Append(containers, NewContainer(id, kind))
  BY DEF AddModule, AddContainer
<1>2. \A i \in DOMAIN containers : containers[i].id # id
  BY <1>1 DEF ToSet
<1>3. containers \in Seq(Modules)
  BY DEF IInv, LayerInv
<1>4. \A j \in DOMAIN containers' :
         \/ j \in DOMAIN containers /\ containers'[j] = containers[j]
         \/ containers'[j] = NewContainer(id, kind)
  BY <1>1, <1>3
<1>5. KindsStay
  BY <1>2, <1>4 DEF KindsStay, NewContainer
<1>6. UNCHANGED wiring /\ drag' = None
  BY DEF AddModule, Idle
<1> QED
  BY <1>5, <1>6, LessStays DEF IInv

LEMMA FillFormEntries ==
    ASSUME IInv, IInv', EntryInv, NEW i \in DOMAIN containers, FillForm(i)
    PROVE  OneEntry' /\ DragHasRoom'
<1>1. containers' = [containers EXCEPT ![i].filled = TRUE]
  BY DEF FillForm
<1>2. containers[i] \in Modules
  BY DEF IInv, LayerInv
<1>3. \A j \in DOMAIN containers' :
         /\ j \in DOMAIN containers
         /\ containers'[j].id = containers[j].id
         /\ containers'[j].name = containers[j].name
  BY <1>1, <1>2 DEF Modules
<1>4. KindsStay
  BY <1>3 DEF KindsStay
<1>5. UNCHANGED wiring /\ drag' = None
  BY DEF FillForm, Idle
<1> QED
  BY <1>4, <1>5, LessStays DEF IInv

LEMMA RemoveModuleEntries ==
    ASSUME IInv, IInv', EntryInv, NEW i \in DOMAIN containers, RemoveModule(i)
    PROVE  OneEntry' /\ DragHasRoom'
<1> DEFINE T == {t \in Terminals : t.module = containers[i].id}
<1>1. /\ containers' = RemoveAt(containers, i)
      /\ wiring' = RemoveAllWires(wiring, T) /\ drag' = None
  BY DEF RemoveModule, RemoveContainer, RemoveAllTerminals, Idle
<1>2. containers \in Seq(Modules) /\ wiring = Listing(wiring.layer)
  BY DEF IInv, LayerInv
<1>3. KindsStay
  <2>1. \A j \in DOMAIN containers' : \E m \in DOMAIN containers : containers'[j] = containers[m]
    <3> SUFFICES ASSUME NEW j \in DOMAIN containers'
                 PROVE  \E m \in DOMAIN containers : containers'[j] = containers[m]
      OBVIOUS
    <3>1. /\ j \in 1..(Len(containers) - 1)
          /\ containers'[j] = IF j < i THEN containers[j] ELSE containers[j + 1]
      BY <1>1, <1>2, RemoveAtModules
    <3>2. Len(containers) \in Nat /\ DOMAIN containers = 1..Len(containers)
      BY <1>2
    <3> QED
      BY <3>1, <3>2
  <2> QED
    BY <2>1 DEF KindsStay
<1>4. wiring'.layer \subseteq wiring.layer
  <2> DEFINE W == {w \in wiring.layer : Ends(w) \cap T = {}}
  <2>1. RemoveAllWires(Listing(wiring.layer), T) = Listing(W)
    BY T \subseteq Terminals, RemoveAllListing
  <2>2. W \subseteq wiring.layer
    OBVIOUS
  <2> HIDE DEF T, W
  <2>3. wiring' = Listing(W)
    BY <1>1, <1>2, <2>1
  <2> QED
    BY <2>2, <2>3 DEF Listing
<1> QED
  BY <1>1, <1>3, <1>4, LessStays DEF IInv

LEMMA ScissorClickEntries ==
    ASSUME IInv, IInv', EntryInv, NEW t \in Terminals, ScissorClick(t)
    PROVE  OneEntry' /\ DragHasRoom'
<1>1. /\ wiring' = RemoveAllWires(wiring, {t}) /\ containers' = containers
      /\ drag' = None /\ wiring = Listing(wiring.layer)
  BY DEF ScissorClick, Idle, IInv, LayerInv
<1>2. wiring' = Listing({w \in wiring.layer : Ends(w) \cap {t} = {}})
  BY <1>1, RemoveAllListing
<1>3. wiring'.layer \subseteq wiring.layer
  BY <1>2 DEF Listing
<1>4. KindsStay
  BY <1>1 DEF KindsStay
<1> QED
  BY <1>1, <1>3, <1>4, LessStays DEF IInv

LEMMA EndDragEntries ==
    ASSUME IInv, IInv', EntryInv, EndDrag
    PROVE  OneEntry' /\ DragHasRoom'
<1>1. wiring' = Listing(wiring.layer \ {Oriented(drag, Mouse)})
  BY RemoveListing DEF EndDrag, IInv, LayerInv
<1>2. wiring'.layer \subseteq wiring.layer
  BY <1>1 DEF Listing
<1>3. KindsStay /\ drag' = None
  BY DEF KindsStay, EndDrag
<1> QED
  BY <1>2, <1>3, LessStays DEF IInv

LEMMA ClearEntries ==
    ASSUME IInv, IInv', EntryInv, Clear, drag' = None
    PROVE  OneEntry' /\ DragHasRoom'
<1>1. wiring'.layer = {}
  BY DEF Clear, NoWires
<1>2. KindsStay
  BY DEF Clear, KindsStay
<1> QED
  BY <1>1, <1>2, LessStays DEF IInv

\* A drag leaves the terminal it starts at with the wire it drags and no other.
LEMMA StartDragEntries ==
    ASSUME IInv, IInv', EntryInv, NEW t \in Terminals, StartDrag(t)
    PROVE  OneEntry' /\ DragHasRoom'
<1> DEFINE w0 == Oriented(t, Mouse)
           V == {w \in wiring.layer : AtMostOne(t) => Ends(w) \cap {t} = {}}
<1>1. /\ drag' = t /\ containers' = containers /\ wiring = Listing(wiring.layer)
      /\ wiring' = AttachWires(
            IF AtMostOne(t) THEN RemoveAllWires(wiring, {t}) ELSE wiring, {w0})
  BY DEF StartDrag, IInv, LayerInv
<1>2. (IF AtMostOne(t) THEN RemoveAllWires(wiring, {t}) ELSE wiring) = Listing(V)
  <2>1. CASE AtMostOne(t)
    <3>1. V = {w \in wiring.layer : Ends(w) \cap {t} = {}}
      BY <2>1
    <3>2. RemoveAllWires(Listing(wiring.layer), {t}) = Listing(V)
      BY <3>1, RemoveAllListing
    <3> HIDE DEF V
    <3> QED
      BY <1>1, <2>1, <3>2
  <2>2. CASE ~AtMostOne(t)
    BY <1>1, <2>2, V = wiring.layer
  <2> QED
    BY <2>1, <2>2
<1>3. wiring'.layer = V \union {w0}
  <2>1. wiring' = Listing(V \union {w0})
    BY <1>1, <1>2, AttachListing
  <2> HIDE DEF V, w0
  <2> QED
    BY <2>1 DEF Listing
<1>4. w0.terminal2 = Mouse
  BY DraggedWire
<1>5. OneEntry'
  <2>1. \A u : AtMostOne(u)' <=> AtMostOne(u)
    BY <1>1 DEF AtMostOne, Container
  <2>2. \A w \in wiring'.layer : w.terminal2 # Mouse => w \in wiring.layer
    BY <1>3, <1>4
  <2> QED
    BY <2>1, <2>2, Zenon DEF OneEntry, EntryInv, Mouse
<1>6. DragHasRoom'
  <2> SUFFICES ASSUME AtMostOne(t)', NEW w \in wiring'.layer
               PROVE  w.terminal2 # t
    BY <1>1 DEF DragHasRoom
  <2>1. AtMostOne(t)
    BY <1>1 DEF AtMostOne, Container
  <2>2. CASE w \in V
    BY <2>1, <2>2 DEF Ends
  <2>3. CASE w = w0
    BY <1>4, <2>3, MouseIsNoTerminal
  <2> QED
    BY <1>3, <2>2, <2>3
<1> QED
  BY <1>5, <1>6

\* Dropped, a wire finds no other at its input: the target has let go of its wire,
\* and a drag from an input has made room when it began.
LEMMA OnDragDropEntries ==
    ASSUME IInv, IInv', EntryInv, NEW target \in Terminals, OnDragDrop(target)
    PROVE  OneEntry' /\ DragHasRoom'
<1> DEFINE W == wiring.layer \ {Oriented(drag, Mouse)}
           w1 == Oriented(drag, target)
           g == RemoveWires(wiring, {Oriented(drag, Mouse)})
           room == IF AtMostOne(target) THEN RemoveAllWires(g, {target}) ELSE g
           V == {w \in W : AtMostOne(target) => Ends(w) \cap {target} = {}}
<1>1. g = Listing(W)
  BY RemoveListing DEF IInv, LayerInv
<1>2. /\ drag' = None /\ containers' = containers /\ drag \in Terminals /\ drag # None
      /\ IsValidWireTerminal(drag, target)
      /\ wiring' = IF GetConnected(g, drag, target) THEN g
                   ELSE AttachWires(room, {w1})
  BY DEF OnDragDrop, IInv, LayerInv
<1>3. room = Listing(V)
  <2>1. CASE AtMostOne(target)
    <3>1. V = {w \in W : Ends(w) \cap {target} = {}}
      BY <2>1
    <3>2. RemoveAllWires(Listing(W), {target}) = Listing(V)
      BY <3>1, RemoveAllListing
    <3>3. room = RemoveAllWires(Listing(W), {target})
      BY <1>1, <2>1
    <3> QED
      BY <3>2, <3>3
  <2>2. CASE ~AtMostOne(target)
    BY <1>1, <2>2, V = W
  <2> QED
    BY <2>1, <2>2
<1>4. V \subseteq wiring.layer /\ W \subseteq wiring.layer
  OBVIOUS
<1>5. \A u : AtMostOne(u)' <=> AtMostOne(u)
  BY <1>2 DEF AtMostOne, Container
<1>6. DragHasRoom'
  BY <1>2 DEF DragHasRoom
<1>7. ASSUME AtMostOne(w1.terminal2), NEW w \in V
      PROVE  w.terminal2 # w1.terminal2
  <2>1. CASE drag.name \in Inputs
    <3>1. w1.terminal2 = drag
      BY <1>2, <2>1, MouseIsNoTerminal DEF Oriented
    <3> QED
      BY <1>2, <1>4, <1>7, <2>1, <3>1 DEF EntryInv, DragHasRoom
  <2>2. CASE drag.name \notin Inputs
    <3>1. w1.terminal2 = target
      BY <2>2 DEF Oriented
    <3> QED
      BY <1>7, <3>1 DEF Ends
  <2> QED
    BY <2>1, <2>2
<1> HIDE DEF W, w1, g, room, V
<1>8. OneEntry'
  <2>1. CASE GetConnected(g, drag, target)
    <3>1. wiring'.layer = W
      BY <1>1, <1>2, <2>1 DEF Listing
    <3> QED
      BY <1>4, <1>5, <3>1, Zenon DEF OneEntry, EntryInv, Mouse
  <2>2. CASE ~GetConnected(g, drag, target)
    <3>1. wiring'.layer = V \union {w1}
      <4>1. wiring' = Listing(V \union {w1})
        BY <1>2, <1>3, <2>2, AttachListing
      <4> QED
        BY <4>1 DEF Listing
    <3> SUFFICES ASSUME NEW v \in V \union {w1}, NEW w \in V \union {w1},
                        v.terminal2 = w.terminal2, v.terminal2 # Mouse,
                        AtMostOne(v.terminal2)
                 PROVE  v = w
      BY <1>5, <3>1 DEF OneEntry, Mouse
    <3>2. CASE v \in V /\ w \in V
      BY <1>4, <3>2 DEF EntryInv, OneEntry
    <3>3. CASE v = w1 \/ w = w1
      BY <1>7, <3>3
    <3> QED
      BY <3>2, <3>3
  <2> QED
    BY <2>1, <2>2
<1> QED
  BY <1>6, <1>8

\* Loading makes of a saved value a layer of which getValue is that value again.
LEMMA OnLoadSuccessEntries ==
    ASSUME IInv, IInv', EntryInv, OnLoadSuccess
    PROVE  OneEntry' /\ DragHasRoom'
<1>1. GetValue' = server.saved /\ server.saved # None
  BY OnLoadSuccessKeeps DEF OnLoadSuccess, IInv, RequestInv
<1>2. SavedEntries(GetValue')
  BY <1>1 DEF EntryInv
<1>3. ValueEntries'
  BY EntriesOfValue, PTL DEF IInv
<1>4. OneEntry'
  BY <1>2, <1>3 DEF ValueEntries, SavedEntries
<1>5. DragHasRoom'
  BY DEF OnLoadSuccess, DragHasRoom
<1> QED
  BY <1>4, <1>5

LEMMA LayerEntries ==
    ASSUME EntryInv, UNCHANGED layerVars
    PROVE  OneEntry' /\ DragHasRoom'
BY DEF EntryInv, OneEntry, DragHasRoom, AtMostOne, Container, layerVars

LEMMA EntriesKept ==
    ASSUME IInv, IInv', EntryInv, [EditorNext]_editorVars
    PROVE  EntryInv'
<1> USE DEF requestVars
<1> DEFINE Posted == /\ post # None /\ "modules" \in DOMAIN post => SavedEntries(post)
                     /\ server.saved # None => SavedEntries(server.saved)
<1>0. UNCHANGED <<post, server>> => Posted'
  BY DEF EntryInv, SavedEntries
<1>1. CASE \/ \E kind \in Kinds : AddModule(kind)
           \/ \E i \in DOMAIN containers : FillForm(i) \/ RemoveModule(i)
           \/ \E t \in Terminals : ScissorClick(t) \/ StartDrag(t) \/ OnDragDrop(t)
           \/ EndDrag
  <2>1. OneEntry' /\ DragHasRoom'
    BY <1>1, AddModuleEntries, FillFormEntries, RemoveModuleEntries, ScissorClickEntries,
       StartDragEntries, OnDragDropEntries, EndDragEntries
  <2>2. UNCHANGED <<post, server>>
    BY <1>1, DrawingKeeps
  <2> QED
    BY <1>0, <2>1, <2>2 DEF EntryInv
<1>2. CASE OpenCreate \/ OpenUpdate \/ IsActive \/ UNCHANGED editorVars
  <2>1. UNCHANGED layerVars /\ UNCHANGED <<post, server>>
    BY <1>2 DEF OpenCreate, OpenUpdate, IsActive, editorVars
  <2> QED
    BY <1>0, <2>1, LayerEntries DEF EntryInv
<1>3. CASE OnLoadSuccess
  <2>1. UNCHANGED <<post, server>>
    BY <1>3 DEF OnLoadSuccess
  <2> QED
    BY <1>0, <1>3, <2>1, OnLoadSuccessEntries DEF EntryInv
<1>4. CASE SaveClick \/ IsActiveAnswered
  <2>1. UNCHANGED layerVars /\ UNCHANGED server /\ (post' = GetValue \/ UNCHANGED post)
    BY <1>4 DEF SaveClick, IsActiveAnswered
  <2>2. SavedEntries(GetValue)
    BY EntriesOfValue DEF ValueEntries, IInv, EntryInv
  <2>3. Posted'
    BY <2>1, <2>2 DEF EntryInv, SavedEntries
  <2> QED
    BY <2>1, <2>3, LayerEntries DEF EntryInv
<1>5. CASE SaveWorkflow
  <2>1. UNCHANGED layerVars /\ post # None /\ "modules" \in DOMAIN post
    BY <1>5 DEF SaveWorkflow
  <2>2. \/ server'.saved = post /\ post' = [reply |-> "saved"]
        \/ UNCHANGED server /\ post' \in {[reply |-> "error"], None}
    BY <1>5 DEF SaveWorkflow
  <2>3. Posted'
    BY <2>1, <2>2 DEF EntryInv, SavedEntries
  <2> QED
    BY <2>1, <2>3, LayerEntries DEF EntryInv
<1>6. CASE SaveAnswered
  <2>1. post' = None /\ UNCHANGED server
    BY <1>6 DEF SaveAnswered
  <2>2. Posted'
    BY <2>1 DEF EntryInv, SavedEntries
  <2>3. UNCHANGED layerVars \/ (Clear /\ drag' = None)
    BY <1>6 DEF SaveAnswered
  <2> QED
    BY <2>2, <2>3, LayerEntries, ClearEntries DEF EntryInv
<1>7. CASE CancelClick
  <2>1. Clear /\ drag' = None /\ UNCHANGED <<post, server>>
    BY <1>7 DEF CancelClick, Idle
  <2> QED
    BY <1>0, <2>1, ClearEntries DEF EntryInv
<1>8. CASE Toggle
  <2>1. UNCHANGED layerVars /\ UNCHANGED post /\ server'.saved = server.saved
    BY <1>8 DEF Toggle, IInv, RequestInv
  <2>2. Posted'
    BY <2>1 DEF EntryInv, SavedEntries
  <2> QED
    BY <2>1, <2>2, LayerEntries DEF EntryInv
<1> QED
  BY <1>1, <1>2, <1>3, <1>4, <1>5, <1>6, <1>7, <1>8 DEF EditorNext

LEMMA EntryInvHolds == EditorSpec => []EntryInv
<1>1. EditorInit => EntryInv
  BY DEF EditorInit, EntryInv, OneEntry, DragHasRoom, NoWires
<1>2. IInv /\ IInv' /\ EntryInv /\ [EditorNext]_editorVars => EntryInv'
  BY EntriesKept
<1> QED
  BY <1>1, <1>2, IInvHolds, PTL DEF EditorSpec
-----------------------------------------------------------------------------
(***************************************************************************)
(* Where wires lead.                                                       *)
(***************************************************************************)

\* Wires end at modules or at the mouse, and none begins at the mouse.
EndsAreModules ==
    \A w \in wiring.layer : /\ w.terminal1.module \in Ids
                            /\ w.terminal2.module \in Ids \union {None}
                            /\ w.terminal2.module # None => w.terminal2 # Mouse

LEMMA EndModules ==
    ASSUME LayerInv
    PROVE  EndsAreModules
<1> SUFFICES ASSUME NEW w \in wiring.layer
             PROVE  /\ w.terminal1.module \in Ids
                    /\ w.terminal2.module \in Ids \union {None}
                    /\ w.terminal2.module # None => w.terminal2 # Mouse
  BY DEF EndsAreModules
<1>1. CASE w.terminal2 # Mouse
  BY <1>1, EndedIsWhole DEF EndedWires, Terminals
<1>2. CASE w.terminal2 = Mouse
  <2>1. ~WholeWire(w)
    BY <1>2 DEF WholeWire, Mouse, Inputs
  <2>2. w = [terminal1 |-> drag, terminal2 |-> Mouse] /\ drag \in Terminals
    BY <2>1, DraggedWire DEF LayerInv
  <2> QED
    BY <1>2, <2>2 DEF Terminals, Mouse
<1> QED
  BY <1>1, <1>2

\* What is reached is in every set of modules that wires do not leave, and wires
\* do not leave what is reached.
LEMMA ReachIsLeast ==
    ASSUME NEW id, NEW T \in SUBSET (Ids \union {None}),
           \A w \in wiring.layer :
              w.terminal1.module \in T \union {id} => w.terminal2.module \in T
    PROVE  Reach(id) \subseteq T
BY DEF Reach

LEMMA ReachIsClosed ==
    ASSUME LayerInv, NEW id, NEW w \in wiring.layer,
           w.terminal1.module \in Reach(id) \union {id}
    PROVE  w.terminal2.module \in Reach(id)
<1>1. w.terminal2.module \in Ids \union {None}
  BY EndModules DEF EndsAreModules
<1> QED
  BY <1>1 DEF Reach

\* Reaching is transitive.
LEMMA ReachGoesOn ==
    ASSUME LayerInv, NEW x, NEW y \in Reach(x)
    PROVE  Reach(y) \subseteq Reach(x)
<1>1. Reach(x) \in SUBSET (Ids \union {None})
  BY DEF Reach
<1>2. \A w \in wiring.layer :
         w.terminal1.module \in Reach(x) \union {y} => w.terminal2.module \in Reach(x)
  BY ReachIsClosed
<1> QED
  BY <1>1, <1>2, ReachIsLeast

\* A module that is reached from itself has a wire in, from one it reaches.
LEMMA CycleComesIn ==
    ASSUME LayerInv, NEW y, y \in Reach(y)
    PROVE  \E w \in wiring.layer :
              w.terminal2.module = y /\ w.terminal1.module \in Reach(y)
<1> SUFFICES ASSUME \A w \in wiring.layer :
                       w.terminal2.module = y => w.terminal1.module \notin Reach(y)
             PROVE  FALSE
  OBVIOUS
<1> DEFINE T == Reach(y) \ {y}
<1>1. T \in SUBSET (Ids \union {None})
  BY DEF Reach
<1>2. \A w \in wiring.layer :
         w.terminal1.module \in T \union {y} => w.terminal2.module \in T
  BY ReachIsClosed
<1> HIDE DEF T
<1>3. Reach(y) \subseteq T
  BY <1>1, <1>2, ReachIsLeast
<1> QED
  BY <1>3 DEF T

\* And a wire out, to a module.
LEMMA CycleGoesOut ==
    ASSUME LayerInv, NEW y, y \in Reach(y)
    PROVE  \E w \in wiring.layer : w.terminal1.module = y /\ w.terminal2.module # None
<1> SUFFICES ASSUME \A w \in wiring.layer :
                       w.terminal1.module = y => w.terminal2.module = None
             PROVE  FALSE
  OBVIOUS
<1>1. \A w \in wiring.layer : w.terminal1.module # None
  BY EndModules, EditorAssumption DEF EndsAreModules
<1>2. \A w \in wiring.layer :
         w.terminal1.module \in {None} \union {y} => w.terminal2.module \in {None}
  BY <1>1
<1>3. Reach(y) \subseteq {None}
  BY <1>2, {None} \in SUBSET (Ids \union {None}), ReachIsLeast
<1>4. y = None
  BY <1>3
<1>5. \A w \in wiring.layer :
         w.terminal1.module \in {} \union {y} => w.terminal2.module \in {}
  BY <1>1, <1>4
<1>6. Reach(y) \subseteq {}
  BY <1>5, {} \in SUBSET (Ids \union {None}), ReachIsLeast
<1> QED
  BY <1>6

\* So it has an input that takes one wire, and the wire in is the only one.
LEMMA CycleIsClosed ==
    ASSUME LayerInv, OneEntry, NEW w \in wiring.layer,
           w.terminal2.module \in Reach(w.terminal2.module)
    PROVE  w.terminal1.module \in Reach(w.terminal1.module)
<1> DEFINE x == w.terminal1.module
           y == w.terminal2.module
<1>1. PICK v \in wiring.layer : v.terminal2.module = y /\ v.terminal1.module \in Reach(y)
  BY CycleComesIn
<1>2. PICK u \in wiring.layer : u.terminal1.module = y /\ u.terminal2.module # None
  BY CycleGoesOut
<1>3. /\ v.terminal2 # Mouse /\ w.terminal2 # Mouse /\ u.terminal2 # Mouse
  BY <1>1, <1>2, EndModules, EditorAssumption DEF EndsAreModules, Mouse
<1>4. /\ WholeWire(u) /\ WholeWire(v) /\ WholeWire(w)
      /\ v.terminal2 \in Terminals /\ w.terminal2 \in Terminals
  BY <1>3, EndedIsWhole DEF EndedWires
<1>5. v.terminal2 = w.terminal2
  BY <1>1, <1>4 DEF WholeWire, Inputs, Terminals
<1>6. AtMostOne(w.terminal2)
  <2>1. PICK i \in DOMAIN containers :
           /\ containers[i].id = w.terminal2.module
           /\ AtMostOne(w.terminal2) <=> containers[i].name \notin Finals
    BY <1>3, EndedIsWhole DEF EndedWires
  <2>2. PICK j \in DOMAIN containers :
           /\ containers[j].id = u.terminal1.module
           /\ u.terminal1.name \in modulesByName[containers[j].name].terminals
    BY <1>4 DEF WholeWire, OnLayer, ToSet
  <2>3. i = j
    BY <1>2, <2>1, <2>2 DEF LayerInv, Distinct
  <2>4. u.terminal1.name # "_INPUT"
    BY <1>4 DEF WholeWire, Outputs
  <2>5. containers[j].name \notin Finals
    BY <2>2, <2>4 DEF Finals, modulesByName, Accept_Automatically, Deny_Automatically, Final
  <2> QED
    BY <2>1, <2>3, <2>5
<1>7. v = w
  BY <1>3, <1>5, <1>6 DEF OneEntry
<1>8. x \in Reach(y)
  BY <1>1, <1>7
<1>9. y \in Reach(x)
  BY ReachIsClosed
<1> QED
  BY <1>8, <1>9, ReachGoesOn

\* A workflow that is drawn has no way from a New_Request back to a module it has
\* passed, so the engine that follows its wires comes to an end: an input takes one
\* wire (nMaxWires of workflowLanguage.js, Terminal.js), one of a final module,
\* which leads no further, takes any number.
THEOREM WorkflowsComeToAnEnd == EditorSpec => []WorkflowsEnd
<1>1. IInv /\ EntryInv => WorkflowsEnd
  <2> SUFFICES ASSUME LayerInv, OneEntry, NEW i \in DOMAIN containers,
                      containers[i].name = "New_Request",
                      NEW id \in Reach(containers[i].id) \union {containers[i].id},
                      id \in Reach(id)
               PROVE  FALSE
    BY DEF WorkflowsEnd, ToSet, IInv, EntryInv
  <2> DEFINE c == containers[i].id
             T == {x \in Ids \union {None} : x \notin Reach(x)}
  <2>1. c \in Ids
    <3>1. containers[i] \in Modules
      BY ElementsOf DEF LayerInv
    <3> QED
      BY <3>1 DEF Modules
  <2>2. c \notin Reach(c)
    <3> SUFFICES ASSUME c \in Reach(c) PROVE FALSE
      OBVIOUS
    <3>1. PICK w \in wiring.layer : w.terminal2.module = c
      BY CycleComesIn
    <3>2. w.terminal2 # Mouse
      BY <2>1, <3>1, EditorAssumption DEF Mouse
    <3>3. PICK j \in DOMAIN containers :
             /\ containers[j].id = w.terminal2.module
             /\ w.terminal2.name \in modulesByName[containers[j].name].terminals
      BY <3>2, EndedIsWhole DEF EndedWires
    <3>4. w.terminal2.name = "_INPUT"
      BY <3>2, EndedIsWhole DEF EndedWires, WholeWire, Inputs
    <3>5. j = i
      BY <3>1, <3>3 DEF LayerInv, Distinct
    <3> QED
      BY <3>3, <3>4, <3>5 DEF modulesByName, New_Request
  <2>3. \A w \in wiring.layer :
           w.terminal1.module \in T \union {c} => w.terminal2.module \in T
    BY <2>1, <2>2, CycleIsClosed, EndModules DEF EndsAreModules
  <2>4. T \in SUBSET (Ids \union {None})
    OBVIOUS
  <2> HIDE DEF T
  <2>5. Reach(c) \subseteq T
    BY <2>3, <2>4, ReachIsLeast
  <2> QED
    BY <2>1, <2>2, <2>5 DEF T
<1> QED
  BY <1>1, IInvHolds, EntryInvHolds, PTL
=============================================================================
