------------------------ MODULE NetworkPages_proofs -------------------------
(***************************************************************************)
(* Proofs about the pages that draw the network, the reservation, the      *)
(* circuit and the viewer of the topology, whose maps are those of module  *)
(* LMap: the first lemmas are about its methods. Then the page of the      *)
(* traffic with its sums and its plots. Last, the discovery that writes    *)
(* the topology they draw.                                                 *)
(***************************************************************************)
EXTENDS ReservationPage, CircuitPage, ViewerPage, TrafficPage, TrafficHistory,
        Discovery, FiniteSetTheorems, TLAPS

(***************************************************************************)
(* The maps: what the methods of LMap make of a map's nodes and links.     *)
(***************************************************************************)

IsMap(m) ==
    m = [nodes |-> m.nodes, links |-> m.links, type |-> m.type,
         built |-> m.built, visible |-> m.visible, popup |-> m.popup]

LEMMA AddNodesFields ==
    ASSUME NEW m, IsMap(m), NEW ids, NEW type
    PROVE  /\ IsMap(AddNodes(m, ids, type))
           /\ AddNodes(m, ids, type).links = m.links
           /\ AddNodes(m, ids, type).nodes =
                 m.nodes \union {[id |-> id, type |-> type, shown |-> TRUE] : id \in ids}
BY DEF AddNodes, IsMap

\* Every node is there still, and has its place.
LEMMA AddNodesKeeps ==
    ASSUME NEW m, IsMap(m), NEW ids, NEW type, NEW d
    PROVE  HasNode(AddNodes(m, ids, type), d) <=> HasNode(m, d) \/ d \in ids
<1> DEFINE new == {[id |-> id, type |-> type, shown |-> TRUE] : id \in ids}
<1>1. AddNodes(m, ids, type).nodes = m.nodes \union new
  BY AddNodesFields
<1>2. \A n : n \in new <=> \E id \in ids : n = [id |-> id, type |-> type, shown |-> TRUE]
  OBVIOUS
<1>3. ASSUME d \in ids PROVE \E n \in new : n.id = d
  <2>1. [id |-> d, type |-> type, shown |-> TRUE] \in new
    BY <1>2, <1>3
  <2> HIDE DEF new
  <2> QED
    BY <2>1
<1>4. ASSUME NEW n \in new, n.id = d PROVE d \in ids
  BY <1>2, <1>4
<1> HIDE DEF new
<1> QED
  BY <1>1, <1>3, <1>4 DEF HasNode

LEMMA AddLinksFields ==
    ASSUME NEW m, IsMap(m), NEW pairs, NEW type, NEW color
    PROVE  /\ IsMap(AddLinks(m, pairs, type, color))
           /\ AddLinks(m, pairs, type, color).nodes = m.nodes
           /\ AddLinks(m, pairs, type, color).links = m.links \union
                 {[from |-> p[1], to |-> p[2], type |-> type, color |-> color, shown |-> TRUE] :
                     p \in {q \in pairs : HasNode(m, q[1]) /\ HasNode(m, q[2])}}
BY DEF AddLinks, IsMap

LEMMA RemoveLinksFields ==
    ASSUME NEW m, IsMap(m)
    PROVE  IsMap(RemoveLinks(m)) /\ RemoveLinks(m).nodes = m.nodes /\ RemoveLinks(m).links = {}
BY DEF RemoveLinks, IsMap

LEMMA ColoredFields ==
    ASSUME NEW m, IsMap(m), NEW color
    PROVE  /\ IsMap(SetLinksColor(m, color))
           /\ SetLinksColor(m, color).nodes = m.nodes
           /\ SetLinksColor(m, color).links = {[l EXCEPT !.color = color] : l \in m.links}
<1> DEFINE colored == {[l EXCEPT !.color = color] : l \in m.links}
<1>1. SetLinksColor(m, color) = [m EXCEPT !.links = colored]
  BY DEF SetLinksColor
<1> HIDE DEF colored
<1>2. /\ IsMap([m EXCEPT !.links = colored])
      /\ [m EXCEPT !.links = colored].nodes = m.nodes
      /\ [m EXCEPT !.links = colored].links = colored
  BY DEF IsMap
<1> QED
  BY <1>1, <1>2 DEF colored

\* A choice of the type of nodes shows or hides them, and keeps what they are.
LEMMA NodeTypeFields ==
    ASSUME NEW m, IsMap(m), NEW type
    PROVE  /\ IsMap(SetNodeType(m, type))
           /\ \/ /\ SetNodeType(m, type).nodes = m.nodes
                 /\ SetNodeType(m, type).links = m.links
              \/ /\ SetNodeType(m, type).nodes = {[n EXCEPT !.shown = n.type = type] : n \in m.nodes}
                 /\ SetNodeType(m, type).links = {[l EXCEPT !.shown = l.type = type] : l \in m.links}
BY DEF SetNodeType, IsMap

LEMMA FirstMap ==
    /\ IsMap(ShowMapOf(EmptyMap, "dev"))
    /\ ShowMapOf(EmptyMap, "dev").nodes = {}
    /\ ShowMapOf(EmptyMap, "dev").links = {}
<1> DEFINE shown == [BuildMap(EmptyMap) EXCEPT !.visible = TRUE]
<1>1. IsMap(shown) /\ shown.nodes = {} /\ shown.links = {}
  <2>1. PICK e : e = EmptyMap
    OBVIOUS
  <2>2. IsMap(e) /\ e.nodes = {} /\ e.links = {}
    BY <2>1 DEF EmptyMap, IsMap
  <2>3. shown = [[e EXCEPT !.built = TRUE] EXCEPT !.visible = TRUE]
    BY <2>1 DEF BuildMap
  <2> HIDE DEF shown
  <2> QED
    BY <2>2, <2>3 DEF IsMap
<1>2. ShowMapOf(EmptyMap, "dev") = SetNodeType(shown, "dev")
  BY DEF ShowMapOf, EmptyMap
<1> HIDE DEF shown
<1> QED
  BY <1>1, <1>2, NodeTypeFields

-----------------------------------------------------------------------------
(***************************************************************************)
(* The page that draws up a reservation: the types of what it holds.       *)
(***************************************************************************)

Modes == {"normal", "advanced"}
Named == Sites \union {None}
Vlans == Named \union {"typed"}

HeldPoints ==
    [mode : Modes, dom : Named, dev : Named, port : Named, vlan : Vlans, urn : BOOLEAN]

\* A point has a device and a port when it has a domain.
PathPoints ==
    {p \in HeldPoints :
        (p.dom = None <=> p.dev = None) /\ (p.dev = None <=> p.port = None)}
ListStates == [of : Named, value : Named]
Orders == [select : Selects, of : Sites, preset : Vlans, newest : BOOLEAN]
PointDialogs ==
    [open : BOOLEAN, order : Nat, tab : Modes, dom : Named,
     lists : [Selects -> ListStates], urn : BOOLEAN, typed : BOOLEAN, mixed : BOOLEAN]

PathType ==
    /\ points \in Seq(PathPoints) /\ Len(points) > 1
    /\ IsMap(resMap)

DialogType ==
    /\ dialog \in PointDialogs
    /\ asked \in SUBSET Orders
    /\ saving \in BOOLEAN
    /\ topo \in [map : {"domains", "devices", "loaded"}, options : BOOLEAN]

LEMMA BlankPoint == BuildPoint \in PathPoints
BY DEF BuildPoint, PathPoints, HeldPoints, Modes, Named, Vlans

LEMMA ClosedDialogType == ClosedDialog \in PointDialogs
<1>1. PICK one \in Nat : one = 1
  OBVIOUS
<1>2. [s \in Selects |-> Disabled] \in [Selects -> ListStates]
  BY DEF Disabled, ListStates, Named
<1>3. ClosedDialog = [open |-> FALSE, order |-> one, tab |-> "normal", dom |-> None,
                      lists |-> [s \in Selects |-> Disabled],
                      urn |-> FALSE, typed |-> FALSE, mixed |-> FALSE]
  BY <1>1, Zenon DEF ClosedDialog
<1> QED
  BY <1>2, <1>3 DEF PointDialogs, Named, Modes

\* What is left of a sequence when its i-th element is taken out.
LEMMA ElementRemoved ==
    ASSUME NEW S, NEW s \in Seq(S), NEW i \in 1..Len(s)
    PROVE  RemoveAt(s, i) \in Seq(S) /\ Len(RemoveAt(s, i)) = Len(s) - 1
<1>1. SubSeq(s, 1, i - 1) \in Seq(S) /\ Len(SubSeq(s, 1, i - 1)) = i - 1
  OBVIOUS
<1>2. SubSeq(s, i + 1, Len(s)) \in Seq(S) /\ Len(SubSeq(s, i + 1, Len(s))) = Len(s) - i
  OBVIOUS
<1>3. ASSUME NEW p \in Seq(S), NEW q \in Seq(S), Len(p) = i - 1, Len(q) = Len(s) - i
      PROVE  p \o q \in Seq(S) /\ Len(p \o q) = Len(s) - 1
  BY <1>3
<1> QED
  BY <1>1, <1>2, <1>3, Zenon DEF RemoveAt

LEMMA ElementAppended ==
    ASSUME NEW S, NEW s \in Seq(S), NEW e \in S
    PROVE  /\ Append(s, e) \in Seq(S) /\ Len(Append(s, e)) = Len(s) + 1
           /\ \A k \in 1..Len(s) : Append(s, e)[k] = s[k]
           /\ Append(s, e)[Len(s) + 1] = e
OBVIOUS

\* An element that is put before the last of a sequence.
LEMMA ElementInserted ==
    ASSUME NEW S, NEW s \in Seq(S), Len(s) > 1, NEW e \in S
    PROVE  LET t == InsertAt(s, Len(s), e)
               n == Len(s)
           IN  /\ t \in Seq(S) /\ Len(t) = n + 1
               /\ \A k \in 1..(n - 1) : t[k] = s[k]
               /\ t[n] = e /\ t[n + 1] = s[n]
<1> DEFINE n == Len(s)
<1>1. n \in Nat /\ n > 1
  OBVIOUS
<1>2. PICK a : a = SubSeq(s, 1, n - 1)
  OBVIOUS
<1>3. a \in Seq(S) /\ Len(a) = n - 1 /\ \A k \in 1..(n - 1) : a[k] = s[k]
  BY <1>1, <1>2
<1>4. s[n] \in S /\ SubSeq(s, n, n) = <<s[n]>>
  <2>1. s[n] \in S
    BY <1>1
  <2>2. /\ SubSeq(s, n, n) \in Seq(S)
        /\ Len(SubSeq(s, n, n)) = 1
        /\ SubSeq(s, n, n)[1] = s[n]
    BY <1>1
  <2>3. \A b \in Seq(S) : Len(b) = 1 => b = <<b[1]>>
    OBVIOUS
  <2> QED
    BY <2>1, <2>2, <2>3, Zenon
<1>5. PICK c : c = Append(a, e)
  OBVIOUS
<1>6. /\ c \in Seq(S) /\ Len(c) = n
      /\ \A k \in 1..(n - 1) : c[k] = s[k]
      /\ c[n] = e
  BY <1>1, <1>3, <1>5, ElementAppended
<1>7. InsertAt(s, n, e) = (a \o <<e>>) \o <<s[n]>>
  BY <1>2, <1>4, Zenon DEF InsertAt
<1>8. \A u \in Seq(S) : \A x \in S : u \o <<x>> = Append(u, x)
  OBVIOUS
<1>9. InsertAt(s, n, e) = Append(c, s[n])
  BY <1>3, <1>4, <1>5, <1>6, <1>7, <1>8, Zenon
<1> HIDE DEF n
<1>10. /\ Append(c, s[n]) \in Seq(S) /\ Len(Append(c, s[n])) = n + 1
       /\ \A k \in 1..n : Append(c, s[n])[k] = c[k]
       /\ Append(c, s[n])[n + 1] = s[n]
  BY <1>4, <1>6, ElementAppended
<1>11. \A k \in 1..(n - 1) : k \in 1..n
  BY <1>1
<1>12. /\ \A k \in 1..(n - 1) : Append(c, s[n])[k] = s[k]
       /\ Append(c, s[n])[n] = e
  BY <1>1, <1>6, <1>10, <1>11
<1> QED
  BY <1>9, <1>10, <1>12, Zenon DEF n

LEMMA DrawnMap ==
    ASSUME NEW m, IsMap(m), NEW pts
    PROVE  /\ IsMap(DrawPath(m, pts))
           /\ \A l \in DrawPath(m, pts).links :
                 \E e \in LegEnds(pts) : l.from = pts[e[1]].dev /\ l.to = pts[e[2]].dev
<1> DEFINE pairs == {<<pts[e[1]].dev, pts[e[2]].dev>> : e \in LegEnds(pts)}
           r == RemoveLinks(m)
<1>1. IsMap(r) /\ r.links = {}
  BY RemoveLinksFields
<1>2. DrawPath(m, pts) = AddLinks(r, pairs, "path", "gray")
  BY DEF DrawPath
<1>3. \A p \in pairs : \E e \in LegEnds(pts) : p = <<pts[e[1]].dev, pts[e[2]].dev>>
  OBVIOUS
<1> HIDE DEF pairs, r
<1>4. IsMap(AddLinks(r, pairs, "path", "gray"))
  BY <1>1, AddLinksFields
<1>5. AddLinks(r, pairs, "path", "gray").links = {} \union
         {[from |-> p[1], to |-> p[2], type |-> "path", color |-> "gray", shown |-> TRUE] :
             p \in {q \in pairs : HasNode(r, q[1]) /\ HasNode(r, q[2])}}
  BY <1>1, AddLinksFields
<1>6. ASSUME NEW l \in AddLinks(r, pairs, "path", "gray").links
      PROVE  \E p \in pairs : l.from = p[1] /\ l.to = p[2]
  BY <1>5, <1>6
<1> QED
  BY <1>2, <1>3, <1>4, <1>6

\* The legs of a drawn path follow the path.
Follow(links, pts) ==
    \A l \in links :
       \E i, j \in DOMAIN pts :
          /\ i < j /\ pts[i].dev = l.from /\ pts[j].dev = l.to
          /\ \A k \in (i + 1)..(j - 1) : pts[k].mode = "advanced" \/ pts[k].dev = None

LEMMA DrawnLegsFollow ==
    ASSUME NEW m, IsMap(m), NEW pts \in Seq(PathPoints)
    PROVE  IsMap(DrawPath(m, pts)) /\ Follow(DrawPath(m, pts).links, pts)
<1>1. ASSUME NEW l \in DrawPath(m, pts).links
      PROVE  \E i, j \in DOMAIN pts :
                /\ i < j /\ pts[i].dev = l.from /\ pts[j].dev = l.to
                /\ \A k \in (i + 1)..(j - 1) : pts[k].mode = "advanced" \/ pts[k].dev = None
  <2>1. PICK e \in LegEnds(pts) : l.from = pts[e[1]].dev /\ l.to = pts[e[2]].dev
    BY <1>1, DrawnMap
  <2>2. PICK i \in DOMAIN pts, j \in DOMAIN pts :
           /\ i = e[1] /\ j = e[2] /\ i < j
           /\ \A k \in (i + 1)..(j - 1) : ~IsNormal(pts[k])
    BY DEF LegEnds
  <2>3. ASSUME NEW k \in (i + 1)..(j - 1)
        PROVE  pts[k].mode = "advanced"
    <3>1. pts[k] \in PathPoints
      <4>1. i \in 1..Len(pts) /\ j \in 1..Len(pts) /\ Len(pts) \in Nat
        OBVIOUS
      <4>2. k \in 1..Len(pts)
        BY <4>1
      <4> QED
        BY <4>2
    <3> QED
      BY <2>2, <3>1 DEF IsNormal, PathPoints, HeldPoints, Modes
  <2> QED
    BY <2>1, <2>2, <2>3
<1> QED
  BY <1>1, DrawnMap DEF Follow

\* The dialog makes a point of a point.
LEMMA SetPointType ==
    ASSUME NEW p \in PathPoints, DialogType, ~HasError
    PROVE  SetPoint(p) \in PathPoints
<1>1. dialog \in PointDialogs
  BY DEF DialogType
<1>2. dialog.dom \in Named /\ \A s \in Selects : dialog.lists[s] \in ListStates
  BY <1>1 DEF PointDialogs
<1>3. Value("device") \in Named /\ Value("port") \in Named /\ Value("vlan") \in Named
  BY <1>2 DEF Value, ListStates, Selects
<1>4. CASE dialog.tab = "normal"
  <2>1. None \notin {dialog.dom, Value("device"), Value("port"), Value("vlan")}
    BY <1>4 DEF HasError
  <2> QED
    BY <1>2, <1>3, <1>4, <2>1 DEF SetPoint, PathPoints, HeldPoints, Modes, Vlans
<1>5. CASE dialog.tab # "normal"
  BY <1>5 DEF SetPoint, PathPoints, HeldPoints, Modes, Vlans
<1> QED
  BY <1>4, <1>5

\* What the page holds of the path, and its map, after a step.
PathInv ==
    /\ PathType
    /\ Follow(resMap.links, points)

LEMMA PathRedrawn ==
    ASSUME PathInv, NEW pts \in Seq(PathPoints), Len(pts) > 1,
           points' = pts, resMap' = DrawPath(resMap, pts)
    PROVE  PathInv'
<1>1. IsMap(resMap)
  BY DEF PathInv, PathType
<1>2. IsMap(DrawPath(resMap, pts)) /\ Follow(DrawPath(resMap, pts).links, pts)
  BY <1>1, DrawnLegsFollow
<1>3. IsMap(resMap)' /\ Follow(resMap.links, points)'
  BY <1>2
<1> QED
  BY <1>3 DEF PathInv, PathType

LEMMA ElementReplaced ==
    ASSUME NEW S, NEW s \in Seq(S), NEW i \in DOMAIN s, NEW e \in S
    PROVE  /\ [s EXCEPT ![i] = e] \in Seq(S) /\ Len([s EXCEPT ![i] = e]) = Len(s)
           /\ DOMAIN [s EXCEPT ![i] = e] = DOMAIN s
OBVIOUS

LEMMA MoveKeepsPath ==
    ASSUME PathInv, NEW i \in DOMAIN points, NEW j, MovePoint(i, j)
    PROVE  PathInv'
<1> DEFINE pts == IF j \in DOMAIN points
                  THEN [points EXCEPT ![i] = points[j], ![j] = points[i]]
                  ELSE points
<1>1. points' = pts /\ resMap' = DrawPath(resMap, pts)
  BY DEF MovePoint
<1>2. points \in Seq(PathPoints) /\ Len(points) > 1
  BY DEF PathInv, PathType
<1>3. pts \in Seq(PathPoints) /\ Len(pts) > 1
  <2>1. CASE j \in DOMAIN points
    <3>1. points[i] \in PathPoints /\ points[j] \in PathPoints
      BY <1>2, <2>1
    <3>2. PICK q : q = [points EXCEPT ![i] = points[j]]
      OBVIOUS
    <3>3. q \in Seq(PathPoints) /\ Len(q) = Len(points) /\ j \in DOMAIN q
      BY <1>2, <2>1, <3>1, <3>2, ElementReplaced
    <3>4. [q EXCEPT ![j] = points[i]] \in Seq(PathPoints)
          /\ Len([q EXCEPT ![j] = points[i]]) = Len(q)
      BY <3>1, <3>3, ElementReplaced
    <3> QED
      BY <1>2, <2>1, <3>2, <3>3, <3>4
  <2> QED
    BY <1>2, <2>1
<1> HIDE DEF pts
<1> QED
  BY <1>1, <1>3, PathRedrawn

\* A point that is added, or one that is put in before the last, keeps the ends
\* of every leg in their order, and is not filled in.
LEMMA AppendKeepsPath ==
    ASSUME PathInv, AddPoint
    PROVE  PathInv'
<1>1. points \in Seq(PathPoints) /\ Len(points) > 1 /\ IsMap(resMap)
      /\ Follow(resMap.links, points)
  BY DEF PathInv, PathType
<1>2. points' = Append(points, BuildPoint) /\ resMap' = resMap
  BY DEF AddPoint, dialogVars, orderVars
<1>3. /\ points' \in Seq(PathPoints) /\ Len(points') = Len(points) + 1
      /\ \A k \in 1..Len(points) : points'[k] = points[k]
  BY <1>1, <1>2, BlankPoint, ElementAppended
<1>4. Follow(resMap.links, points')
  <2> SUFFICES ASSUME NEW l \in resMap.links
               PROVE  \E i, j \in DOMAIN points' :
                         /\ i < j /\ points'[i].dev = l.from /\ points'[j].dev = l.to
                         /\ \A k \in (i + 1)..(j - 1) :
                               points'[k].mode = "advanced" \/ points'[k].dev = None
    BY DEF Follow
  <2>1. PICK i \in DOMAIN points, j \in DOMAIN points :
           /\ i < j /\ points[i].dev = l.from /\ points[j].dev = l.to
           /\ \A k \in (i + 1)..(j - 1) : points[k].mode = "advanced" \/ points[k].dev = None
    BY <1>1 DEF Follow
  <2>2. /\ i \in 1..Len(points) /\ j \in 1..Len(points)
        /\ Len(points) \in Nat /\ DOMAIN points' = 1..(Len(points) + 1)
    BY <1>1, <1>3
  <2>3. i \in DOMAIN points' /\ j \in DOMAIN points'
    BY <2>2
  <2>4. \A k \in (i + 1)..(j - 1) : k \in 1..Len(points)
    BY <2>2
  <2> QED
    BY <1>3, <2>1, <2>2, <2>3, <2>4
<1> QED
  BY <1>1, <1>2, <1>3, <1>4 DEF PathInv, PathType

LEMMA InsertKeepsPath ==
    ASSUME PathInv, NEW s, AddWayPoint(s)
    PROVE  PathInv'
<1> DEFINE n == Len(points)
<1>1. points \in Seq(PathPoints) /\ n > 1 /\ IsMap(resMap)
      /\ Follow(resMap.links, points)
  BY DEF PathInv, PathType
<1>2. points' = InsertAt(points, Len(points), BuildPoint) /\ resMap' = resMap
  BY DEF AddWayPoint, dialogVars, orderVars
<1>3. /\ points' \in Seq(PathPoints) /\ Len(points') = n + 1
      /\ \A k \in 1..(n - 1) : points'[k] = points[k]
      /\ points'[n] = BuildPoint /\ points'[n + 1] = points[n]
  BY <1>1, <1>2, BlankPoint, ElementInserted
<1>4. n \in Nat /\ DOMAIN points = 1..n /\ DOMAIN points' = 1..(n + 1)
  BY <1>1, <1>3
<1>5. Follow(resMap.links, points')
  <2> SUFFICES ASSUME NEW l \in resMap.links
               PROVE  \E i, j \in DOMAIN points' :
                         /\ i < j /\ points'[i].dev = l.from /\ points'[j].dev = l.to
                         /\ \A k \in (i + 1)..(j - 1) :
                               points'[k].mode = "advanced" \/ points'[k].dev = None
    BY DEF Follow
  <2>1. PICK i \in DOMAIN points, j \in DOMAIN points :
           /\ i < j /\ points[i].dev = l.from /\ points[j].dev = l.to
           /\ \A k \in (i + 1)..(j - 1) : points[k].mode = "advanced" \/ points[k].dev = None
    BY <1>1 DEF Follow
  <2> HIDE DEF n
  <2>2. i \in 1..(n - 1) /\ j \in 1..n /\ i \in DOMAIN points'
    BY <1>4, <2>1
  <2>3. \A k \in (i + 1)..(j - 1) : k \in 1..(n - 1)
    BY <1>4, <2>2
  <2>4. CASE j < n
    <3>1. j \in 1..(n - 1) /\ j \in DOMAIN points'
      BY <1>4, <2>2, <2>4
    <3> QED
      BY <1>3, <2>1, <2>2, <2>3, <3>1
  <2>5. CASE j = n
    <3>1. n + 1 \in DOMAIN points' /\ i < n + 1 /\ points'[n + 1].dev = l.to
      BY <1>3, <1>4, <2>1, <2>2, <2>5
    <3>2. ASSUME NEW k \in (i + 1)..((n + 1) - 1)
          PROVE  points'[k].mode = "advanced" \/ points'[k].dev = None
      <4>1. CASE k = n
        BY <1>3, <4>1 DEF BuildPoint
      <4>2. CASE k # n
        <5>1. k \in (i + 1)..(j - 1) /\ k \in 1..(n - 1)
          BY <1>4, <2>2, <2>5, <4>2
        <5> QED
          BY <1>3, <2>1, <5>1
      <4> QED
        BY <4>1, <4>2
    <3>3. points'[i].dev = l.from
      BY <1>3, <2>1, <2>2
    <3> QED
      BY <2>2, <3>1, <3>2, <3>3
  <2> QED
    BY <1>4, <2>2, <2>4, <2>5
<1> QED
  BY <1>1, <1>2, <1>3, <1>5 DEF PathInv, PathType

(***************************************************************************)
(* The dialog of a point.  Unless it is mixed, each list is that of the    *)
(* choice made before it, or of the one that the request on its way makes. *)
(***************************************************************************)

\* v is what the select s has chosen, or will have when its request is answered.
ChoiceToBe(s, v) ==
    \/ dialog.lists[s].value = v
    \/ \E q \in asked : q.newest /\ q.select = s /\ q.of = v /\ q.preset = v

\* The select of r is empty, and r is for the list of the choice before it.
Awaited(r) ==
    /\ dialog.lists[r.select] = Disabled
    /\ r.select = "device" => r.of = dialog.dom
    /\ r.select = "port" => ChoiceToBe("device", r.of)
    /\ r.select = "vlan" => ChoiceToBe("port", r.of)

ListsMatch ==
    /\ topo.options
    /\ dialog.lists["device"].of # None => dialog.lists["device"].of = dialog.dom
    /\ dialog.lists["port"].of # None => ChoiceToBe("device", dialog.lists["port"].of)
    /\ dialog.lists["vlan"].of # None => ChoiceToBe("port", dialog.lists["vlan"].of)
    /\ \A r \in asked : r.newest => Awaited(r)
    /\ \A q, r \in asked : q.newest /\ r.newest /\ q.select = r.select => q = r

DialogInv ==
    /\ DialogType
    /\ dialog.open /\ ~dialog.mixed => ListsMatch

LEMMA OutdatedOrders ==
    ASSUME NEW rs \in SUBSET Orders, NEW S
    PROVE  /\ Outdate(rs, S) \in SUBSET Orders
           /\ \A r \in Outdate(rs, S) : r.newest => r \in rs /\ r.select \notin S
           /\ \A r \in rs : r.newest /\ r.select \notin S => r \in Outdate(rs, S)
<1>1. ASSUME NEW r \in rs
      PROVE  LET q == [r EXCEPT !.newest = @ /\ r.select \notin S]
             IN  /\ q \in Orders
                 /\ q.newest => q = r /\ r.select \notin S
                 /\ r.newest /\ r.select \notin S => q = r
  <2>1. r \in Orders
    OBVIOUS
  <2> QED
    BY <2>1 DEF Orders
<1> QED
  BY <1>1 DEF Outdate

LEMMA RequestOrders ==
    ASSUME NEW s \in Selects, NEW of \in Named, NEW preset \in Vlans
    PROVE  /\ Request(s, of, preset) \in SUBSET Orders
           /\ \A r \in Request(s, of, preset) :
                 r.select = s /\ r.of = of /\ r.preset = preset /\ r.newest /\ of # None
           /\ \A q, r \in Request(s, of, preset) : q = r
           /\ of # None => \E q \in Request(s, of, preset) :
                              q.newest /\ q.select = s /\ q.of = of /\ q.preset = preset
<1> DEFINE r == [select |-> s, of |-> of, preset |-> preset, newest |-> TRUE]
<1>1. r.select = s /\ r.of = of /\ r.preset = preset /\ r.newest
  OBVIOUS
<1>2. of # None => r \in Orders
  BY DEF Orders, Named
<1>3. Request(s, of, preset) = IF of = None THEN {} ELSE {r}
  BY DEF Request
<1> HIDE DEF r
<1> QED
  BY <1>1, <1>2, <1>3

\* A dialog that is opened has empty lists, and only its own requests matter.
LEMMA DialogOpened ==
    ASSUME DialogType, NEW i \in Nat, NEW p \in HeldPoints,
           NEW requests \in SUBSET Orders, ShowPointModal(i, p, requests)
    PROVE  /\ dialog' \in PointDialogs /\ asked' \in SUBSET Orders
           /\ \A s \in Selects : dialog'.lists[s] = Disabled
           /\ ~dialog'.mixed => topo.options /\ dialog'.dom = p.dom /\ OfOneSite(p)
           /\ \A r \in asked' : r.newest => r \in requests
           /\ requests \subseteq asked'
<1>1. /\ dialog' = [ClosedDialog EXCEPT
                      !.open = TRUE, !.order = i, !.tab = p.mode,
                      !.dom = IF topo.options THEN p.dom ELSE None,
                      !.urn = p.urn, !.typed = p.vlan = "typed",
                      !.mixed = ~topo.options \/ ~OfOneSite(p)]
      /\ asked' = Outdate(asked, Selects) \union requests
  BY DEF ShowPointModal
<1>2. PICK dom \in Named : dom = IF topo.options THEN p.dom ELSE None
  BY DEF Named, HeldPoints
<1>3. PICK mixed \in BOOLEAN : mixed = (~topo.options \/ ~OfOneSite(p))
  OBVIOUS
<1>4. PICK typed \in BOOLEAN : typed = (p.vlan = "typed")
  OBVIOUS
<1>5. p.mode \in Modes /\ p.urn \in BOOLEAN
  BY DEF HeldPoints
<1>6. PICK d \in PointDialogs : d = ClosedDialog
  BY ClosedDialogType
<1>7. dialog' = [d EXCEPT !.open = TRUE, !.order = i, !.tab = p.mode, !.dom = dom,
                          !.urn = p.urn, !.typed = typed, !.mixed = mixed]
  BY <1>1, <1>2, <1>3, <1>4, <1>6, Zenon
<1>8. dialog' \in PointDialogs /\ dialog'.dom = dom /\ dialog'.mixed = mixed
      /\ dialog'.lists = d.lists
  BY <1>5, <1>7 DEF PointDialogs
<1>9. \A s \in Selects : d.lists[s] = Disabled
  BY <1>6 DEF ClosedDialog
<1>10. /\ Outdate(asked, Selects) \in SUBSET Orders
       /\ \A r \in Outdate(asked, Selects) : r.newest => r.select \notin Selects
  BY OutdatedOrders DEF DialogType
<1>11. \A r \in Outdate(asked, Selects) : ~r.newest
  BY <1>10 DEF Orders
<1> QED
  BY <1>1, <1>2, <1>3, <1>8, <1>9, <1>10, <1>11

LEMMA SitesOfOne ==
    ASSUME NEW p, OfOneSite(p),
           NEW a \in {p.dom, p.dev, p.port}, NEW b \in {p.dom, p.dev, p.port},
           a # None, b # None
    PROVE  a = b
<1>1. PICK T : T = {p.dom, p.dev, p.port} \ {None}
  OBVIOUS
<1>2. IsFiniteSet(T) /\ Cardinality(T) <= 1 /\ a \in T /\ b \in T
  <2>1. IsFiniteSet({p.dom, p.dev, p.port})
    <3>1. IsFiniteSet({} \union {p.dom})
      BY FS_EmptySet, FS_AddElement
    <3>2. IsFiniteSet(({} \union {p.dom}) \union {p.dev})
      BY <3>1, FS_AddElement
    <3>3. IsFiniteSet((({} \union {p.dom}) \union {p.dev}) \union {p.port})
      BY <3>2, FS_AddElement
    <3>4. (({} \union {p.dom}) \union {p.dev}) \union {p.port} = {p.dom, p.dev, p.port}
      OBVIOUS
    <3> QED
      BY <3>3, <3>4
  <2>2. IsFiniteSet(T)
    BY <1>1, <2>1, FS_RemoveElement
  <2> QED
    BY <1>1, <2>2 DEF OfOneSite
<1>3. Cardinality(T) \in Nat
  BY <1>2, FS_CardinalityType
<1>4. IsFiniteSet(T \ {a}) /\ Cardinality(T \ {a}) = Cardinality(T) - 1
  BY <1>2, FS_RemoveElement
<1>5. Cardinality(T \ {a}) \in Nat
  BY <1>4, FS_CardinalityType
<1>6. Cardinality(T \ {a}) = 0
  BY <1>2, <1>3, <1>4, <1>5
<1>7. T \ {a} = {}
  BY <1>4, <1>6, FS_EmptySet
<1> QED
  BY <1>2, <1>7

\* An opened dialog asks for the lists of what the point holds.
LEMMA OpenedOnPoint ==
    ASSUME DialogType, NEW i \in Nat, NEW p \in PathPoints,
           ShowPointModal(i, p,
               Request("device", p.dom, p.dev) \union Request("port", p.dev, p.port)
               \union Request("vlan", p.port, p.vlan)),
           UNCHANGED topo, UNCHANGED saving
    PROVE  DialogInv'
<1>1. p \in HeldPoints /\ p.dom \in Named /\ p.dev \in Named /\ p.port \in Named
      /\ p.dev \in Vlans /\ p.port \in Vlans /\ p.vlan \in Vlans
      /\ (p.dom = None <=> p.dev = None) /\ (p.dev = None <=> p.port = None)
  BY DEF PathPoints, HeldPoints, Vlans
<1>2. PICK dev : dev = Request("device", p.dom, p.dev)
  OBVIOUS
<1>3. PICK port : port = Request("port", p.dev, p.port)
  OBVIOUS
<1>4. PICK vlan : vlan = Request("vlan", p.port, p.vlan)
  OBVIOUS
<1>5. /\ dev \in SUBSET Orders /\ port \in SUBSET Orders /\ vlan \in SUBSET Orders
      /\ \A r \in dev : r.select = "device" /\ r.of = p.dom /\ p.dom # None
      /\ \A r \in port : r.select = "port" /\ r.of = p.dev /\ p.dev # None
      /\ \A r \in vlan : r.select = "vlan" /\ r.of = p.port /\ p.port # None
      /\ \A q, r \in dev : q = r
      /\ \A q, r \in port : q = r
      /\ \A q, r \in vlan : q = r
      /\ p.dom # None => \E q \in dev : q.newest /\ q.select = "device"
                                       /\ q.of = p.dom /\ q.preset = p.dev
      /\ p.dev # None => \E q \in port : q.newest /\ q.select = "port"
                                        /\ q.of = p.dev /\ q.preset = p.port
  <2>1. "device" \in Selects /\ "port" \in Selects /\ "vlan" \in Selects
    BY DEF Selects
  <2>2. /\ dev \in SUBSET Orders
        /\ \A r \in dev : r.select = "device" /\ r.of = p.dom /\ p.dom # None
        /\ \A q, r \in dev : q = r
        /\ p.dom # None => \E q \in dev : q.newest /\ q.select = "device"
                                         /\ q.of = p.dom /\ q.preset = p.dev
    <3>1. "device" \in Selects /\ p.dom \in Named /\ p.dev \in Vlans
      BY <1>1, <2>1
    <3> QED
      BY <1>2, <3>1, RequestOrders
  <2>3. /\ port \in SUBSET Orders
        /\ \A r \in port : r.select = "port" /\ r.of = p.dev /\ p.dev # None
        /\ \A q, r \in port : q = r
        /\ p.dev # None => \E q \in port : q.newest /\ q.select = "port"
                                          /\ q.of = p.dev /\ q.preset = p.port
    <3>1. "port" \in Selects /\ p.dev \in Named /\ p.port \in Vlans
      BY <1>1, <2>1
    <3> QED
      BY <1>3, <3>1, RequestOrders
  <2>4. /\ vlan \in SUBSET Orders
        /\ \A r \in vlan : r.select = "vlan" /\ r.of = p.port /\ p.port # None
        /\ \A q, r \in vlan : q = r
    <3>1. "vlan" \in Selects /\ p.port \in Named /\ p.vlan \in Vlans
      BY <1>1, <2>1
    <3> QED
      BY <1>4, <3>1, RequestOrders
  <2> QED
    BY <2>2, <2>3, <2>4
<1>6. PICK requests \in SUBSET Orders : requests = dev \union port \union vlan
  BY <1>5
<1>7. ShowPointModal(i, p, requests)
  BY <1>2, <1>3, <1>4, <1>6
<1>8. /\ dialog' \in PointDialogs /\ asked' \in SUBSET Orders
      /\ \A s \in Selects : dialog'.lists[s] = Disabled
      /\ ~dialog'.mixed => topo.options /\ dialog'.dom = p.dom /\ OfOneSite(p)
      /\ \A r \in asked' : r.newest => r \in requests
      /\ requests \subseteq asked'
  BY <1>1, <1>7, DialogOpened
<1>9. DialogType'
  BY <1>8 DEF DialogType
<1>10. ASSUME ~dialog'.mixed
       PROVE  ListsMatch'
  <2>1. topo' = topo /\ topo.options /\ dialog'.dom = p.dom /\ OfOneSite(p)
    BY <1>8, <1>10
  <2>2. /\ p.dom # None => p.dom = p.dev
        /\ p.dev # None => p.dev = p.port
    BY <1>1, <2>1, SitesOfOne
  <2>3. \A s \in Selects : dialog'.lists[s].of = None
    BY <1>8 DEF Disabled
  <2>4. ASSUME NEW r \in asked', r.newest
        PROVE  Awaited(r)'
    <3>1. r \in requests /\ r.select \in Selects /\ dialog'.lists[r.select] = Disabled
      BY <1>5, <1>8, <2>4 DEF Orders
    <3>2. CASE r \in dev
      BY <1>5, <2>1, <3>1, <3>2 DEF Awaited
    <3>3. CASE r \in port
      <4>1. \E q \in asked' : q.newest /\ q.select = "device" /\ q.of = r.of /\ q.preset = r.of
        BY <1>1, <1>5, <1>6, <1>8, <2>2, <3>3
      <4> QED
        BY <1>5, <3>1, <3>3, <4>1 DEF Awaited, ChoiceToBe
    <3>4. CASE r \in vlan
      <4>1. \E q \in asked' : q.newest /\ q.select = "port" /\ q.of = r.of /\ q.preset = r.of
        BY <1>1, <1>5, <1>6, <1>8, <2>2, <3>4
      <4> QED
        BY <1>5, <3>1, <3>4, <4>1 DEF Awaited, ChoiceToBe
    <3> QED
      BY <1>6, <3>1, <3>2, <3>3, <3>4
  <2>5. \A q, r \in asked' : q.newest /\ r.newest /\ q.select = r.select => q = r
    BY <1>5, <1>6, <1>8
  <2> QED
    BY <2>1, <2>3, <2>4, <2>5 DEF ListsMatch, Selects
<1> QED
  BY <1>9, <1>10 DEF DialogInv

\* The same for a dialog that is opened from a marker of the map.
LEMMA OpenedAtNode ==
    ASSUME DialogType, NEW i \in Nat, NEW s \in Sites,
           ShowPointModal(i, AtNode(s), FromNode(s)), UNCHANGED topo, UNCHANGED saving
    PROVE  DialogInv'
<1>1. s \in Named /\ s \in Vlans /\ None \in Vlans /\ s # None
      /\ "device" \in Selects /\ "port" \in Selects
  BY ReservationAssumption DEF Named, Vlans, Selects
<1>2. PICK p \in HeldPoints : p = AtNode(s) /\ p.dom = s
  <2>1. PICK b \in HeldPoints : b = BuildPoint
    BY BlankPoint DEF PathPoints
  <2>2. AtNode(s) = [b EXCEPT !.dom = s, !.dev = s]
    BY <2>1 DEF AtNode
  <2> QED
    BY <1>1, <2>2 DEF HeldPoints
<1>3. PICK dev : dev = Request("device", s, s)
  OBVIOUS
<1>4. PICK port : port = Request("port", s, None)
  OBVIOUS
<1>5. /\ dev \in SUBSET Orders
      /\ \A r \in dev : r.select = "device" /\ r.of = s
      /\ \A q, r \in dev : q = r
      /\ \E q \in dev : q.newest /\ q.select = "device" /\ q.of = s /\ q.preset = s
  BY <1>1, <1>3, RequestOrders
<1>6. /\ port \in SUBSET Orders
      /\ \A r \in port : r.select = "port" /\ r.of = s
      /\ \A q, r \in port : q = r
  BY <1>1, <1>4, RequestOrders
<1>7. PICK requests \in SUBSET Orders : requests = dev \union port
  BY <1>5, <1>6
<1>8. ShowPointModal(i, p, requests)
  BY <1>2, <1>3, <1>4, <1>7 DEF FromNode
<1>9. /\ dialog' \in PointDialogs /\ asked' \in SUBSET Orders
      /\ \A t \in Selects : dialog'.lists[t] = Disabled
      /\ ~dialog'.mixed => topo.options /\ dialog'.dom = s
      /\ \A r \in asked' : r.newest => r \in requests
      /\ requests \subseteq asked'
  BY <1>2, <1>8, DialogOpened
<1>10. DialogType'
  BY <1>9 DEF DialogType
<1>11. ASSUME ~dialog'.mixed
       PROVE  ListsMatch'
  <2>1. \A t \in Selects : dialog'.lists[t].of = None
    BY <1>9 DEF Disabled
  <2>2. ASSUME NEW r \in asked', r.newest
        PROVE  Awaited(r)'
    <3>1. r \in requests /\ r.select \in Selects /\ dialog'.lists[r.select] = Disabled
      BY <1>5, <1>6, <1>7, <1>9, <2>2 DEF Orders
    <3>2. CASE r \in dev
      BY <1>5, <1>9, <1>11, <3>1, <3>2 DEF Awaited
    <3>3. CASE r \in port
      <4>1. \E q \in asked' : q.newest /\ q.select = "device" /\ q.of = r.of /\ q.preset = r.of
        BY <1>5, <1>6, <1>7, <1>9, <3>3
      <4> QED
        BY <1>6, <3>1, <3>3, <4>1 DEF Awaited, ChoiceToBe
    <3> QED
      BY <1>7, <3>1, <3>2, <3>3
  <2>3. \A q, r \in asked' : q.newest /\ r.newest /\ q.select = r.select => q = r
    BY <1>5, <1>6, <1>7, <1>9
  <2> QED
    BY <1>9, <1>11, <2>1, <2>2, <2>3 DEF ListsMatch, Selects
<1> QED
  BY <1>10, <1>11 DEF DialogInv

\* A choice empties the selects S, and outdates what was asked for them.
LEMMA ChoiceMade ==
    ASSUME DialogType, NEW dom \in Named, NEW held \in [Selects -> ListStates],
           NEW S, NEW requests \in SUBSET Orders, Choose(dom, held, S, requests)
    PROVE  /\ dialog' \in PointDialogs /\ asked' \in SUBSET Orders
           /\ dialog'.open = dialog.open /\ dialog'.mixed = dialog.mixed /\ dialog'.dom = dom
           /\ \A s \in Selects : dialog'.lists[s] = IF s \in S THEN Disabled ELSE held[s]
           /\ \A r \in asked' : r.newest => r \in requests \/ (r \in asked /\ r.select \notin S)
           /\ \A r \in asked : r.newest /\ r.select \notin S => r \in asked'
           /\ requests \subseteq asked'
           /\ UNCHANGED <<topo, saving>> /\ dialog.open
           /\ DialogType'
<1>1. /\ dialog' = [dialog EXCEPT !.dom = dom, !.lists = Emptied(held, S)]
      /\ asked' = Outdate(asked, S) \union requests
      /\ UNCHANGED <<topo, saving>> /\ dialog.open
  BY DEF Choose, orderVars, pathVars
<1>2. PICK emptied \in [Selects -> ListStates] :
         /\ emptied = Emptied(held, S)
         /\ \A s \in Selects : emptied[s] = IF s \in S THEN Disabled ELSE held[s]
  <2>1. \A s \in Selects : (IF s \in S THEN Disabled ELSE held[s]) \in ListStates
    BY DEF Disabled, ListStates, Named
  <2>2. Emptied(held, S) \in [Selects -> ListStates]
    BY <2>1 DEF Emptied
  <2>3. \A s \in Selects : Emptied(held, S)[s] = IF s \in S THEN Disabled ELSE held[s]
    BY DEF Emptied
  <2> QED
    BY <2>2, <2>3
<1>3. dialog \in PointDialogs
  BY DEF DialogType
<1>4. /\ dialog' \in PointDialogs /\ dialog'.dom = dom /\ dialog'.lists = emptied
      /\ dialog'.open = dialog.open /\ dialog'.mixed = dialog.mixed
  BY <1>1, <1>2, <1>3 DEF PointDialogs
<1>5. /\ Outdate(asked, S) \in SUBSET Orders
      /\ \A r \in Outdate(asked, S) : r.newest => r \in asked /\ r.select \notin S
      /\ \A r \in asked : r.newest /\ r.select \notin S => r \in Outdate(asked, S)
  BY OutdatedOrders DEF DialogType
<1>6. asked' \in SUBSET Orders
  BY <1>1, <1>5
<1>7. DialogType'
  BY <1>1, <1>4, <1>6 DEF DialogType
<1>8. /\ \A r \in asked' : r.newest => r \in requests \/ (r \in asked /\ r.select \notin S)
      /\ \A r \in asked : r.newest /\ r.select \notin S => r \in asked'
      /\ requests \subseteq asked'
  BY <1>1, <1>5
<1> QED
  BY <1>1, <1>2, <1>4, <1>6, <1>7, <1>8

\* Another domain, or another network: only the devices are asked for.
LEMMA DomainChoiceKeeps ==
    ASSUME DialogInv, NEW v \in Named, topo.options,
           Choose(v, dialog.lists, Selects, Request("device", v, None))
    PROVE  DialogInv'
<1>1. DialogType /\ "device" \in Selects /\ None \in Vlans
      /\ dialog.lists \in [Selects -> ListStates]
  BY DEF DialogInv, DialogType, PointDialogs, Selects, Vlans, Named
<1>2. PICK requests \in SUBSET Orders :
         /\ requests = Request("device", v, None)
         /\ \A r \in requests : r.select = "device" /\ r.of = v
         /\ \A q, r \in requests : q = r
  BY <1>1, RequestOrders
<1>3. Choose(v, dialog.lists, Selects, requests)
  BY <1>2
<1>4. /\ asked' \in SUBSET Orders /\ dialog'.dom = v
      /\ \A s \in Selects : dialog'.lists[s] = Disabled
      /\ \A r \in asked' : r.newest => r \in requests \/ r.select \notin Selects
      /\ topo' = topo /\ DialogType'
  BY <1>1, <1>3, ChoiceMade DEF DialogInv
<1>5. \A r \in asked' : r.newest => r \in requests
  BY <1>4 DEF Orders
<1>6. \A s \in Selects : dialog'.lists[s].of = None
  BY <1>4 DEF Disabled
<1>7. ListsMatch'
  BY <1>1, <1>2, <1>4, <1>5, <1>6 DEF ListsMatch, Awaited, Selects
<1> QED
  BY <1>4, <1>7 DEF DialogInv

\* Another device: the ports are asked for, and the VLANs wait for a port.
LEMMA DeviceChoiceKeeps ==
    ASSUME DialogInv, NEW v, ChangeDevice(v)
    PROVE  DialogInv'
<1> DEFINE S == {"port", "vlan"}
           held == Chosen("device", v)
<1>1. DialogType /\ dialog.dom \in Named /\ dialog.lists \in [Selects -> ListStates]
      /\ "device" \in Selects /\ "port" \in Selects /\ None \in Vlans
      /\ dialog.lists["device"] \in ListStates
  BY DEF DialogInv, DialogType, PointDialogs, Selects, Vlans, Named
<1>2. /\ v # dialog.lists["device"].value
      /\ v = None \/ v = dialog.lists["device"].of
      /\ v \in Named
  BY <1>1 DEF ChangeDevice, ListStates, Named
<1>3. /\ held \in [Selects -> ListStates]
      /\ held["device"].value = v /\ held["device"].of = dialog.lists["device"].of
      /\ \A s \in Selects \ {"device"} : held[s] = dialog.lists[s]
  BY <1>1, <1>2 DEF Chosen, ListStates
<1>4. PICK requests \in SUBSET Orders :
         /\ requests = Request("port", v, None)
         /\ \A r \in requests : r.select = "port" /\ r.of = v
         /\ \A q, r \in requests : q = r
  BY <1>1, <1>2, RequestOrders
<1>5. Choose(dialog.dom, held, S, requests)
  BY <1>4 DEF ChangeDevice
<1> HIDE DEF held, S
<1>6. /\ asked' \in SUBSET Orders /\ dialog'.dom = dialog.dom
      /\ dialog'.mixed = dialog.mixed /\ dialog.open
      /\ \A s \in Selects : dialog'.lists[s] = IF s \in S THEN Disabled ELSE held[s]
      /\ \A r \in asked' : r.newest => r \in requests \/ (r \in asked /\ r.select \notin S)
      /\ topo' = topo /\ DialogType'
  BY <1>1, <1>3, <1>5, ChoiceMade
<1>7. ASSUME ~dialog.mixed
      PROVE  ListsMatch'
  <2>1. ListsMatch
    BY <1>6, <1>7 DEF DialogInv
  <2>2. \A r \in asked : r.newest => r.select # "device"
    BY <1>2, <2>1 DEF ListsMatch, Awaited, Disabled
  <2>3. \A r \in asked' : r.newest => r \in requests
    BY <1>6, <2>2 DEF Orders, Selects, S
  <2>4. /\ dialog'.lists["port"] = Disabled /\ dialog'.lists["vlan"] = Disabled
        /\ dialog'.lists["device"].of = dialog.lists["device"].of
        /\ dialog'.lists["device"].value = v
    BY <1>3, <1>6 DEF S, Selects
  <2>5. /\ dialog'.lists["port"].of = None /\ dialog'.lists["vlan"].of = None
    BY <2>4 DEF Disabled
  <2>6. \A r \in asked' : r.newest => Awaited(r)'
    BY <1>4, <2>3, <2>4 DEF Awaited, ChoiceToBe
  <2> QED
    BY <1>4, <1>6, <2>1, <2>3, <2>4, <2>5, <2>6 DEF ListsMatch
<1> QED
  BY <1>6, <1>7 DEF DialogInv

\* Another port: its VLANs are asked for.
LEMMA PortChoiceKeeps ==
    ASSUME DialogInv, NEW v, ChangePort(v)
    PROVE  DialogInv'
<1> DEFINE S == {"vlan"}
           held == Chosen("port", v)
<1>1. DialogType /\ dialog.dom \in Named /\ dialog.lists \in [Selects -> ListStates]
      /\ "vlan" \in Selects /\ "port" \in Selects /\ None \in Vlans
      /\ dialog.lists["port"] \in ListStates
  BY DEF DialogInv, DialogType, PointDialogs, Selects, Vlans, Named
<1>2. /\ v # dialog.lists["port"].value
      /\ v = None \/ v = dialog.lists["port"].of
      /\ v \in Named
  BY <1>1 DEF ChangePort, ListStates, Named
<1>3. /\ held \in [Selects -> ListStates]
      /\ held["port"].value = v /\ held["port"].of = dialog.lists["port"].of
      /\ \A s \in Selects \ {"port"} : held[s] = dialog.lists[s]
  BY <1>1, <1>2 DEF Chosen, ListStates
<1>4. PICK requests \in SUBSET Orders :
         /\ requests = Request("vlan", v, None)
         /\ \A r \in requests : r.select = "vlan" /\ r.of = v
         /\ \A q, r \in requests : q = r
  BY <1>1, <1>2, RequestOrders
<1>5. Choose(dialog.dom, held, S, requests)
  BY <1>4 DEF ChangePort
<1> HIDE DEF held, S
<1>6. /\ asked' \in SUBSET Orders /\ dialog'.dom = dialog.dom
      /\ dialog'.mixed = dialog.mixed /\ dialog.open
      /\ \A s \in Selects : dialog'.lists[s] = IF s \in S THEN Disabled ELSE held[s]
      /\ \A r \in asked' : r.newest => r \in requests \/ (r \in asked /\ r.select \notin S)
      /\ \A r \in asked : r.newest /\ r.select \notin S => r \in asked'
      /\ topo' = topo /\ DialogType'
  BY <1>1, <1>3, <1>5, ChoiceMade
<1>7. ASSUME ~dialog.mixed
      PROVE  ListsMatch'
  <2>1. ListsMatch
    BY <1>6, <1>7 DEF DialogInv
  <2>2. \A r \in asked : r.newest => r.select # "port"
    BY <1>2, <2>1 DEF ListsMatch, Awaited, Disabled
  <2>3. \A r \in asked' : r.newest => r \in requests \/ (r \in asked /\ r.select = "device")
    <3> SUFFICES ASSUME NEW r \in asked', r.newest, r \notin requests
                 PROVE  r \in asked /\ r.select = "device"
      OBVIOUS
    <3>1. r \in asked /\ r.select \notin S /\ r \in Orders
      BY <1>6
    <3> QED
      BY <2>2, <3>1 DEF Orders, Selects, S
  <2>4. /\ dialog'.lists["device"] = dialog.lists["device"] /\ dialog'.lists["vlan"] = Disabled
        /\ dialog'.lists["port"].of = dialog.lists["port"].of
        /\ dialog'.lists["port"].value = v
    BY <1>3, <1>6 DEF S, Selects
  <2>5. dialog'.lists["vlan"].of = None
    BY <2>4 DEF Disabled
  <2>6. \A r \in asked' : r.newest => Awaited(r)'
    BY <1>4, <1>6, <2>1, <2>3, <2>4 DEF ListsMatch, Awaited, ChoiceToBe
  <2>7. \A w : ChoiceToBe("device", w) => ChoiceToBe("device", w)'
    BY <1>6, <2>4 DEF ChoiceToBe, S
  <2>8. \A q, r \in asked' : q.newest /\ r.newest /\ q.select = r.select => q = r
    BY <1>4, <2>1, <2>3 DEF ListsMatch
  <2> QED
    BY <1>6, <2>1, <2>4, <2>5, <2>6, <2>7, <2>8 DEF ListsMatch
<1> QED
  BY <1>6, <1>7 DEF DialogInv

\* An answer fills its list; one that is not the newest leaves the dialog mixed.
LEMMA FilledSelectKeeps ==
    ASSUME DialogInv, NEW r \in asked, FillSelect(r)
    PROVE  DialogInv'
<1> DEFINE chosen == r.preset = r.of \/ (r.select = "vlan" /\ r.preset = None)
           list == [of |-> r.of, value |-> IF chosen THEN r.of ELSE None]
<1>1. /\ r \in Orders /\ dialog \in PointDialogs /\ DialogType
      /\ r.select \in Selects /\ r.of \in Sites /\ r.of # None
  BY ReservationAssumption DEF DialogInv, DialogType, Orders
<1>2. /\ asked' = asked \ {r} /\ UNCHANGED <<topo, saving>>
      /\ dialog' = IF dialog.open \/ saving
                   THEN [dialog EXCEPT !.lists[r.select] = list, !.mixed = @ \/ ~r.newest]
                   ELSE dialog
  BY DEF FillSelect, pathVars, orderVars
<1>3. /\ list \in ListStates /\ list.of = r.of
      /\ r.preset = r.of => list.value = r.of
  BY <1>1 DEF ListStates, Named
<1> HIDE DEF list
<1>4. /\ dialog' \in PointDialogs /\ dialog'.open = dialog.open /\ dialog'.dom = dialog.dom
      /\ dialog.open => /\ dialog'.mixed = (dialog.mixed \/ ~r.newest)
                        /\ dialog'.lists[r.select] = list
                        /\ \A s \in Selects \ {r.select} : dialog'.lists[s] = dialog.lists[s]
  <2>1. PICK held \in [Selects -> ListStates] :
           /\ held = [dialog.lists EXCEPT ![r.select] = list] /\ held[r.select] = list
           /\ \A s \in Selects \ {r.select} : held[s] = dialog.lists[s]
    <3>1. dialog.lists \in [Selects -> ListStates]
      BY <1>1 DEF PointDialogs
    <3>2. [dialog.lists EXCEPT ![r.select] = list] \in [Selects -> ListStates]
      BY <1>1, <1>3, <3>1
    <3> QED
      BY <1>1, <3>1, <3>2
  <2>2. PICK mixed \in BOOLEAN : mixed = (dialog.mixed \/ ~r.newest)
    OBVIOUS
  <2>3. CASE dialog.open \/ saving
    <3>1. dialog' = [dialog EXCEPT !.lists = held, !.mixed = mixed]
      BY <1>2, <2>1, <2>2, <2>3
    <3> QED
      BY <1>1, <2>1, <2>2, <3>1 DEF PointDialogs
  <2> QED
    BY <1>1, <1>2, <2>3
<1>5. DialogType'
  BY <1>2, <1>4 DEF DialogInv, DialogType
<1>6. ASSUME dialog.open, ~dialog.mixed, r.newest
      PROVE  ListsMatch'
  <2>1. ListsMatch /\ Awaited(r)
    BY <1>6 DEF DialogInv, ListsMatch
  <2>2. \A q \in asked' : q.newest => q \in asked /\ q.select # r.select /\ q.select \in Selects
    BY <1>1, <1>2, <1>6, <2>1 DEF ListsMatch, DialogType, Orders
  <2>3. ASSUME NEW s \in Selects, NEW w, w # None, ChoiceToBe(s, w)
        PROVE  ChoiceToBe(s, w)'
    <3>1. CASE s = r.select
      <4>1. dialog.lists[s].value = None
        BY <2>1, <3>1 DEF Awaited, Disabled
      <4>2. PICK q \in asked : q.newest /\ q.select = s /\ q.of = w /\ q.preset = w
        BY <2>3, <4>1 DEF ChoiceToBe
      <4>3. q = r
        BY <1>6, <2>1, <3>1, <4>2 DEF ListsMatch
      <4>4. dialog'.lists[s].value = w
        BY <1>3, <1>4, <1>6, <3>1, <4>2, <4>3
      <4> QED
        BY <4>4 DEF ChoiceToBe
    <3>2. CASE s # r.select
      <4>1. dialog'.lists[s] = dialog.lists[s]
        BY <1>4, <1>6, <3>2
      <4>2. \A q \in asked : q.select = s => q \in asked'
        BY <1>2, <3>2
      <4> QED
        BY <2>3, <4>1, <4>2 DEF ChoiceToBe
    <3> QED
      BY <3>1, <3>2
  <2>4. "device" \in Selects /\ "port" \in Selects /\ "vlan" \in Selects
    BY DEF Selects
  <2>5. ASSUME NEW q \in asked', q.newest
        PROVE  Awaited(q)'
    <3>1. q \in asked /\ q.select # r.select /\ q.select \in Selects /\ Awaited(q)
          /\ q \in Orders
      BY <1>1, <2>1, <2>2, <2>5 DEF ListsMatch, DialogType
    <3>2. dialog'.lists[q.select] = Disabled /\ q.of # None
      BY <1>4, <1>6, <3>1, ReservationAssumption DEF Awaited, Orders
    <3>3. q.select = "device" => q.of = dialog'.dom
      BY <1>4, <3>1 DEF Awaited
    <3>4. q.select = "port" => ChoiceToBe("device", q.of)'
      BY <2>3, <2>4, <3>1, <3>2 DEF Awaited
    <3>5. q.select = "vlan" => ChoiceToBe("port", q.of)'
      BY <2>3, <2>4, <3>1, <3>2 DEF Awaited
    <3> QED
      BY <3>2, <3>3, <3>4, <3>5 DEF Awaited
  <2>6. dialog'.lists["device"].of # None => dialog'.lists["device"].of = dialog'.dom
    BY <1>3, <1>4, <1>6, <2>1, <2>4 DEF ListsMatch, Awaited
  <2>7. (dialog.lists["port"].of # None => ChoiceToBe("device", dialog.lists["port"].of))'
    <3>1. CASE r.select = "port"
      <4>1. dialog'.lists["port"].of = r.of
        BY <1>3, <1>4, <1>6, <3>1
      <4>2. ChoiceToBe("device", r.of)'
        BY <1>1, <2>1, <2>3, <2>4, <3>1 DEF Awaited
      <4> QED
        BY <4>1, <4>2 DEF ChoiceToBe
    <3>2. CASE r.select # "port"
      <4>1. dialog'.lists["port"] = dialog.lists["port"]
        BY <1>4, <1>6, <2>4, <3>2
      <4>2. dialog.lists["port"].of # None => ChoiceToBe("device", dialog.lists["port"].of)
        BY <2>1 DEF ListsMatch
      <4>3. PICK w : w = dialog.lists["port"].of
        OBVIOUS
      <4>4. w # None => ChoiceToBe("device", w)'
        BY <2>3, <2>4, <4>2, <4>3
      <4> QED
        BY <4>1, <4>3, <4>4 DEF ChoiceToBe
    <3> QED
      BY <3>1, <3>2
  <2>8. (dialog.lists["vlan"].of # None => ChoiceToBe("port", dialog.lists["vlan"].of))'
    <3>1. CASE r.select = "vlan"
      <4>1. dialog'.lists["vlan"].of = r.of
        BY <1>3, <1>4, <1>6, <3>1
      <4>2. ChoiceToBe("port", r.of)'
        BY <1>1, <2>1, <2>3, <2>4, <3>1 DEF Awaited
      <4> QED
        BY <4>1, <4>2 DEF ChoiceToBe
    <3>2. CASE r.select # "vlan"
      <4>1. dialog'.lists["vlan"] = dialog.lists["vlan"]
        BY <1>4, <1>6, <2>4, <3>2
      <4>2. dialog.lists["vlan"].of # None => ChoiceToBe("port", dialog.lists["vlan"].of)
        BY <2>1 DEF ListsMatch
      <4>3. PICK w : w = dialog.lists["vlan"].of
        OBVIOUS
      <4>4. w # None => ChoiceToBe("port", w)'
        BY <2>3, <2>4, <4>2, <4>3
      <4> QED
        BY <4>1, <4>3, <4>4 DEF ChoiceToBe
    <3> QED
      BY <3>1, <3>2
  <2>9. \A p, q \in asked' : p.newest /\ q.newest /\ p.select = q.select => p = q
    BY <1>2, <2>1 DEF ListsMatch
  <2> QED
    BY <1>2, <2>1, <2>5, <2>6, <2>7, <2>8, <2>9 DEF ListsMatch
<1> QED
  BY <1>4, <1>5, <1>6 DEF DialogInv

ReservationInv == PathInv /\ DialogInv

\* What the dialog holds is left alone, or the dialog is closed.
LEMMA DialogStays ==
    ASSUME DialogInv, topo' \in [map : {"domains", "devices", "loaded"}, options : BOOLEAN],
           topo'.options = topo.options, UNCHANGED asked, saving' \in BOOLEAN,
           dialog' \in PointDialogs,
           dialog'.open => /\ dialog.open /\ dialog'.mixed = dialog.mixed
                           /\ dialog'.dom = dialog.dom /\ dialog'.lists = dialog.lists
    PROVE  DialogInv'
<1>1. DialogType'
  BY DEF DialogInv, DialogType
<1>2. ASSUME dialog'.open, ~dialog'.mixed
      PROVE  ListsMatch'
  BY <1>2 DEF DialogInv, ListsMatch, Awaited, ChoiceToBe
<1> QED
  BY <1>1, <1>2 DEF DialogInv

LEMMA LoadKeeps ==
    ASSUME ReservationInv, LoadDomains \/ LoadDevices
    PROVE  ReservationInv'
<1>1. UNCHANGED <<points, dialog, asked, saving>>
  BY DEF LoadDomains, LoadDevices, pathVars, dialogVars
<1>2. topo' \in [map : {"domains", "devices", "loaded"}, options : BOOLEAN]
      /\ topo'.options = topo.options
  BY DEF ReservationInv, DialogInv, DialogType, LoadDomains, LoadDevices
<1>3. dialog \in PointDialogs /\ saving \in BOOLEAN
  BY DEF ReservationInv, DialogInv, DialogType
<1>4. DialogInv'
  BY <1>1, <1>2, <1>3, DialogStays DEF ReservationInv
<1>5. IsMap(resMap) /\ (resMap' = resMap \/ resMap' = AddNodes(resMap, Sites, "dev"))
  BY DEF ReservationInv, PathInv, PathType, LoadDomains, LoadDevices, pathVars
<1>6. IsMap(resMap') /\ resMap'.links = resMap.links
  BY <1>5, AddNodesFields
<1>7. PathInv'
  BY <1>1, <1>6 DEF ReservationInv, PathInv, PathType, Follow
<1> QED
  BY <1>4, <1>7 DEF ReservationInv

LEMMA DomainsFilledKeeps ==
    ASSUME ReservationInv, FillDomainSelect
    PROVE  ReservationInv'
<1>1. /\ ~topo.options /\ UNCHANGED <<points, resMap, asked, saving>>
      /\ topo' = [topo EXCEPT !.options = TRUE]
      /\ dialog' = [dialog EXCEPT !.dom = None]
  BY DEF FillDomainSelect, pathVars
<1>2. dialog.open => dialog.mixed
  BY <1>1 DEF ReservationInv, DialogInv, ListsMatch
<1>3. None \in Named
  BY DEF Named
<1>4. /\ dialog' \in PointDialogs
      /\ dialog'.open = dialog.open /\ dialog'.mixed = dialog.mixed
  BY <1>1, <1>3 DEF ReservationInv, DialogInv, DialogType, PointDialogs
<1>5. DialogType'
  BY <1>1, <1>4 DEF ReservationInv, DialogInv, DialogType
<1>6. DialogInv'
  BY <1>2, <1>4, <1>5 DEF DialogInv
<1> QED
  BY <1>1, <1>6 DEF ReservationInv, PathInv, PathType

\* The path and its map are as they were.
LEMMA PathStays ==
    ASSUME PathInv, UNCHANGED pathVars
    PROVE  PathInv'
BY DEF PathInv, PathType, pathVars

\* Edits of the path that leave the dialog alone.
LEMMA PathEditKeeps ==
    ASSUME ReservationInv, NEW i \in DOMAIN points,
           AddPoint \/ MovePointUp(i) \/ MovePointDown(i) \/ RemovePoint(i)
    PROVE  ReservationInv'
<1>1. UNCHANGED <<topo, dialogVars>>
  BY DEF AddPoint, MovePointUp, MovePointDown, MovePoint, RemovePoint
<1>2. DialogInv'
  BY <1>1 DEF ReservationInv, DialogInv, DialogType, ListsMatch, Awaited, ChoiceToBe, dialogVars
<1>3. CASE RemovePoint(i)
  <2>1. PICK pts : pts = RemoveAt(points, i)
    OBVIOUS
  <2>2. points' = pts /\ resMap' = DrawPath(resMap, pts) /\ Len(points) > 2
    BY <1>3, <2>1 DEF RemovePoint
  <2>3. points \in Seq(PathPoints) /\ i \in 1..Len(points) /\ Len(points) \in Nat
    BY DEF ReservationInv, PathInv, PathType
  <2>4. pts \in Seq(PathPoints) /\ Len(pts) = Len(points) - 1
    BY <2>1, <2>3, ElementRemoved
  <2>5. Len(pts) > 1
    BY <2>2, <2>3, <2>4
  <2> QED
    BY <1>2, <2>2, <2>4, <2>5, PathRedrawn DEF ReservationInv
<1> QED
  BY <1>2, <1>3, AppendKeepsPath, MoveKeepsPath DEF ReservationInv, MovePointUp, MovePointDown

\* The dialog is opened.
LEMMA OpenKeeps ==
    ASSUME ReservationInv, NEW i \in DOMAIN points, NEW s,
           EditPoint(i) \/ (s \in Sites /\ (SetEnd(s, i) \/ AddWayPoint(s)))
    PROVE  ReservationInv'
<1>1. DialogType /\ points \in Seq(PathPoints) /\ Len(points) \in Nat /\ i \in Nat
  BY DEF ReservationInv, DialogInv, PathInv, PathType
<1>2. CASE EditPoint(i)
  <2>1. PICK p \in PathPoints : p = points[i]
    BY <1>1
  <2>2. /\ ShowPointModal(i, p,
               Request("device", p.dom, p.dev) \union Request("port", p.dev, p.port)
               \union Request("vlan", p.port, p.vlan))
        /\ UNCHANGED <<topo, pathVars, saving>>
    BY <1>2, <2>1 DEF EditPoint
  <2>3. DialogInv'
    BY <1>1, <2>2, OpenedOnPoint
  <2> QED
    BY <2>2, <2>3, PathStays DEF ReservationInv
<1>3. CASE s \in Sites /\ SetEnd(s, i)
  <2>1. s \in Sites /\ ShowPointModal(i, AtNode(s), FromNode(s)) /\ UNCHANGED <<topo, pathVars, saving>>
    BY <1>3 DEF SetEnd
  <2>2. DialogInv'
    BY <1>1, <2>1, OpenedAtNode
  <2> QED
    BY <2>1, <2>2, PathStays DEF ReservationInv
<1>4. CASE s \in Sites /\ AddWayPoint(s)
  <2>1. s \in Sites /\ ShowPointModal(Len(points), AtNode(s), FromNode(s)) /\ UNCHANGED <<topo, saving>>
    BY <1>4 DEF AddWayPoint
  <2>2. DialogInv'
    BY <1>1, <2>1, OpenedAtNode
  <2> QED
    BY <1>4, <2>2, InsertKeepsPath DEF ReservationInv
<1> QED
  BY <1>2, <1>3, <1>4

\* A choice of the user, or an answer to one, leaves the path alone.
LEMMA SelectKeeps ==
    ASSUME ReservationInv, NEW v \in Sites \union {None}, NEW r,
           \/ ChangeDomain(v) \/ ChangeNetwork \/ ChangeDevice(v) \/ ChangePort(v)
           \/ r \in asked /\ FillSelect(r)
    PROVE  ReservationInv'
<1>1. UNCHANGED pathVars
  BY DEF ChangeDomain, ChangeNetwork, ChangeDevice, ChangePort, FillSelect, Choose
<1>2. CASE ChangeDomain(v)
  <2>1. topo.options /\ v \in Named
        /\ Choose(v, dialog.lists, Selects, Request("device", v, None))
    BY <1>2 DEF ChangeDomain, Named
  <2> QED
    BY <1>1, <2>1, DomainChoiceKeeps, PathStays DEF ReservationInv
<1>3. CASE ChangeNetwork
  <2>1. /\ dialog.dom \in Named /\ dialog.open /\ dialog.dom # None
        /\ Choose(dialog.dom, dialog.lists, Selects, Request("device", dialog.dom, None))
    BY <1>3 DEF ChangeNetwork, Choose, ReservationInv, DialogInv, DialogType, PointDialogs
  <2>2. CASE topo.options
    <3>1. PICK d \in Named : d = dialog.dom
      BY <2>1
    <3>2. DialogInv /\ Choose(d, dialog.lists, Selects, Request("device", d, None))
      BY <2>1, <3>1 DEF ReservationInv
    <3>3. DialogInv'
      BY <2>2, <3>2, DomainChoiceKeeps
    <3> QED
      BY <1>1, <3>3, PathStays DEF ReservationInv
  <2>3. CASE ~topo.options
    <3>1. dialog.mixed
      BY <2>1, <2>3 DEF ReservationInv, DialogInv, ListsMatch
    <3>2. DialogType /\ dialog.lists \in [Selects -> ListStates]
      BY DEF ReservationInv, DialogInv, DialogType, PointDialogs
    <3>3. PICK requests \in SUBSET Orders : requests = Request("device", dialog.dom, None)
      <4>1. "device" \in Selects /\ None \in Vlans
        BY DEF Selects, Vlans, Named
      <4>2. Request("device", dialog.dom, None) \in SUBSET Orders
        BY <2>1, <4>1, RequestOrders
      <4> QED
        BY <4>2
    <3>4. Choose(dialog.dom, dialog.lists, Selects, requests)
      BY <2>1, <3>3
    <3>5. dialog'.mixed = dialog.mixed /\ DialogType'
      BY <2>1, <3>2, <3>4, ChoiceMade
    <3>6. DialogInv'
      BY <3>1, <3>5 DEF DialogInv
    <3> QED
      BY <1>1, <3>6, PathStays DEF ReservationInv
  <2> QED
    BY <2>2, <2>3
<1>4. CASE ChangeDevice(v)
  BY <1>1, <1>4, DeviceChoiceKeeps, PathStays DEF ReservationInv
<1>5. CASE ChangePort(v)
  BY <1>1, <1>5, PortChoiceKeeps, PathStays DEF ReservationInv
<1>6. CASE r \in asked /\ FillSelect(r)
  BY <1>1, <1>6, FilledSelectKeeps, PathStays DEF ReservationInv
<1> QED
  BY <1>2, <1>3, <1>4, <1>5, <1>6

\* The buttons of the dialog.
LEMMA ButtonsKeep ==
    ASSUME ReservationInv, TypeAdvanced \/ Save \/ Cancel
    PROVE  ReservationInv'
<1>1. /\ UNCHANGED <<topo, pathVars, asked>> /\ saving' \in BOOLEAN
      /\ topo \in [map : {"domains", "devices", "loaded"}, options : BOOLEAN]
      /\ dialog \in PointDialogs
  BY DEF TypeAdvanced, Save, Cancel, ReservationInv, DialogInv, DialogType
<1>2. /\ dialog' \in PointDialogs
      /\ dialog'.open => /\ dialog.open /\ dialog'.mixed = dialog.mixed
                         /\ dialog'.dom = dialog.dom /\ dialog'.lists = dialog.lists
  <2>1. CASE TypeAdvanced
    <3>1. PICK urn \in BOOLEAN, typed \in BOOLEAN :
             dialog' = [dialog EXCEPT !.tab = "advanced", !.urn = urn, !.typed = typed]
      BY <2>1 DEF TypeAdvanced
    <3> QED
      BY <1>1, <3>1 DEF PointDialogs, Modes
  <2>2. CASE Save
    BY <1>1, <2>2 DEF Save
  <2>3. CASE Cancel /\ saving
    <3>1. dialog' = [dialog EXCEPT !.open = FALSE]
      BY <2>3 DEF Cancel
    <3> QED
      BY <1>1, <3>1 DEF PointDialogs
  <2>4. CASE Cancel /\ ~saving
    BY <2>4, ClosedDialogType DEF Cancel, ClosedDialog
  <2> QED
    BY <2>1, <2>2, <2>3, <2>4
<1>3. DialogInv'
  BY <1>1, <1>2, DialogStays DEF ReservationInv
<1> QED
  BY <1>1, <1>3, PathStays DEF ReservationInv

\* The timer stores what the dialog makes of its point, and draws the path.
LEMMA SaveTimerKeeps ==
    ASSUME ReservationInv, SaveTimer
    PROVE  ReservationInv'
<1>1. /\ UNCHANGED <<topo, asked>> /\ saving' \in BOOLEAN
      /\ topo \in [map : {"domains", "devices", "loaded"}, options : BOOLEAN]
      /\ dialog \in PointDialogs /\ DialogType
      /\ points \in Seq(PathPoints) /\ Len(points) > 1
  BY DEF SaveTimer, ReservationInv, DialogInv, DialogType, PathInv, PathType
<1>2. dialog' = dialog \/ dialog' = ClosedDialog
  BY DEF SaveTimer
<1>3. ~ClosedDialog.open
  BY DEF ClosedDialog
<1>4. DialogInv'
  BY <1>1, <1>2, <1>3, ClosedDialogType, DialogStays DEF ReservationInv
<1>5. CASE HasError
  BY <1>4, <1>5, PathStays DEF SaveTimer, ReservationInv
<1>6. CASE ~HasError
  <2> DEFINE i == dialog.order
  <2>1. PICK pts : /\ pts = IF i \in DOMAIN points
                            THEN [points EXCEPT ![i] = SetPoint(@)] ELSE points
                   /\ points' = pts /\ resMap' = DrawPath(resMap, pts)
    BY <1>6 DEF SaveTimer
  <2>2. pts \in Seq(PathPoints) /\ Len(pts) > 1
    <3>1. CASE i \in DOMAIN points
      <4>1. points[i] \in PathPoints
        BY <1>1, <3>1
      <4>2. SetPoint(points[i]) \in PathPoints
        BY <1>1, <1>6, <4>1, SetPointType
      <4>3. pts = [points EXCEPT ![i] = SetPoint(points[i])]
        BY <2>1, <3>1
      <4> HIDE DEF i
      <4> QED
        BY <1>1, <3>1, <4>2, <4>3, ElementReplaced
    <3> QED
      BY <1>1, <2>1, <3>1
  <2>3. PathInv'
    BY <2>1, <2>2, PathRedrawn DEF ReservationInv
  <2> QED
    BY <1>4, <2>3 DEF ReservationInv
<1> QED
  BY <1>5, <1>6

LEMMA ReservationStep == ReservationInv /\ [ReservationNext]_reservationVars => ReservationInv'
<1> SUFFICES ASSUME ReservationInv, [ReservationNext]_reservationVars PROVE ReservationInv'
  OBVIOUS
<1>1. CASE EditRest \/ Confirm \/ RequestAnswered \/ UNCHANGED reservationVars
  <2>1. UNCHANGED <<topo, pathVars, dialogVars>>
    BY <1>1 DEF EditRest, Confirm, RequestAnswered, reservationVars, pathVars, dialogVars
  <2>2. DialogInv'
    BY <2>1 DEF ReservationInv, DialogInv, DialogType, ListsMatch, Awaited, ChoiceToBe, dialogVars
  <2> QED
    BY <2>1, <2>2, PathStays DEF ReservationInv
<1>2. 1 \in DOMAIN points
  BY DEF ReservationInv, PathInv, PathType
<1>3. CASE AddPoint
  BY <1>2, <1>3, PathEditKeeps
<1>4. CASE \E i \in DOMAIN points : MovePointUp(i) \/ MovePointDown(i) \/ RemovePoint(i)
  BY <1>4, PathEditKeeps
<1>5. CASE \/ \E i \in DOMAIN points : EditPoint(i) \/ \E s \in Sites : SetEnd(s, i)
           \/ \E s \in Sites : AddWayPoint(s)
  BY <1>2, <1>5, OpenKeeps
<1>6. CASE \/ \E r \in asked : FillSelect(r)
           \/ \E v \in Sites \union {None} :
                 ChangeDomain(v) \/ ChangeDevice(v) \/ ChangePort(v)
  BY <1>6, SelectKeeps
<1>7. CASE ChangeNetwork
  <2>1. None \in Sites \union {None}
    OBVIOUS
  <2> QED
    BY <1>7, <2>1, SelectKeeps
<1>8. CASE LoadDomains \/ LoadDevices \/ FillDomainSelect \/ TypeAdvanced \/ Save
           \/ SaveTimer \/ Cancel
  BY <1>8, LoadKeeps, DomainsFilledKeeps, ButtonsKeep, SaveTimerKeeps
<1> QED
  BY <1>1, <1>3, <1>4, <1>5, <1>6, <1>7, <1>8 DEF ReservationNext

LEMMA ReservationStart == ReservationInit => ReservationInv
<1> SUFFICES ASSUME ReservationInit PROVE ReservationInv
  OBVIOUS
<1>1. PICK b \in PathPoints : b = BuildPoint
  BY BlankPoint
<1>2. points \in Seq(PathPoints) /\ Len(points) > 1
  BY <1>1 DEF ReservationInit
<1>3. IsMap(resMap) /\ resMap.links = {}
  BY FirstMap DEF ReservationInit
<1>4. PathInv
  BY <1>2, <1>3 DEF PathInv, PathType, Follow
<1>5. dialog \in PointDialogs /\ ~dialog.open
  <2>1. dialog = ClosedDialog
    BY DEF ReservationInit
  <2>2. ~ClosedDialog.open
    BY DEF ClosedDialog
  <2> QED
    BY <2>1, <2>2, ClosedDialogType
<1>6. DialogInv
  BY <1>5 DEF ReservationInit, DialogInv, DialogType
<1> QED
  BY <1>4, <1>6 DEF ReservationInv

\* When no answer that is the newest is on its way for the select before a list,
\* the list is that of what is chosen there.
LEMMA ListsOfTheChosenHolds == ReservationInv => ListsOfTheChosen
<1> SUFFICES ASSUME ReservationInv, dialog.open, ~dialog.mixed PROVE ListsOfTheChosen
  BY DEF ListsOfTheChosen
<1>1. ListsMatch
  BY DEF ReservationInv, DialogInv
<1> QED
  BY <1>1 DEF ListsMatch, ChoiceToBe, ListsOfTheChosen, Value

\* Moving, removing, adding or saving a point leaves no leg of an old path on the
\* map of the page that draws up a reservation (create2.js).
THEOREM LegsFollowThePath == ReservationSpec => []DrawnLegsFollowThePath
<1>1. ReservationInv => DrawnLegsFollowThePath
  BY DEF ReservationInv, PathInv, Follow, DrawnLegsFollowThePath
<1> QED
  BY <1>1, ReservationStart, ReservationStep, PTL DEF ReservationSpec

\* A select of the dialog of a point never offers the list of a choice that is not
\* there any more, unless an overtaken answer was shown (create2.js).
THEOREM ListsAreOfTheChosen == ReservationSpec => []ListsOfTheChosen
BY ReservationStart, ReservationStep, ListsOfTheChosenHolds, PTL DEF ReservationSpec

-----------------------------------------------------------------------------
(***************************************************************************)
(* The topology viewer.  What the map and the graph hold is told apart     *)
(* from whether they show it.                                              *)
(***************************************************************************)

IsGraph(g) ==
    g = [nodes |-> g.nodes, links |-> g.links, type |-> g.type,
         built |-> g.built, visible |-> g.visible, popup |-> g.popup]

GraphNodes == [id : Domains \union Devices, type : {"dom", "dev"}, hidden : BOOLEAN]
GraphLinks == [from : Domains \union Devices, to : Domains \union Devices,
               type : {"dom", "dev"}, hidden : BOOLEAN]
MapNodes == [id : Devices, type : {"dev"}, shown : BOOLEAN]
MapLinks == [from : Devices, to : Devices, type : {"dev"}, color : {"gray"}, shown : BOOLEAN]

GraphHasNode(g, id, type) == \E n \in g.nodes : n.id = id /\ n.type = type
GraphHasLink(g, from, to, type) ==
    \E l \in g.links : l.from = from /\ l.to = to /\ l.type = type
MapHasLink(m, from, to) == \E l \in m.links : l.from = from /\ l.to = to

GoodGraph(g) == IsGraph(g) /\ g.nodes \in SUBSET GraphNodes /\ g.links \in SUBSET GraphLinks
GoodMap(m) == IsMap(m) /\ m.nodes \in SUBSET MapNodes /\ m.links \in SUBSET MapLinks

\* The graphs g and h hold the same.
SameGraph(g, h) ==
    /\ GoodGraph(h)
    /\ \A id, type : GraphHasNode(h, id, type) <=> GraphHasNode(g, id, type)
    /\ \A from, to, type : GraphHasLink(h, from, to, type) <=> GraphHasLink(g, from, to, type)

SameMap(m, k) ==
    /\ GoodMap(k)
    /\ \A id : HasNode(k, id) <=> HasNode(m, id)
    /\ \A from, to : MapHasLink(k, from, to) <=> MapHasLink(m, from, to)

LEMMA PopupOfGraph ==
    ASSUME NEW g, GoodGraph(g), NEW id
    PROVE  /\ SameGraph(g, ShowPopup(g, id)) /\ SameGraph(g, ClosePopup(g))
           /\ SameGraph(g, HideGraph(g)) /\ SameGraph(g, g)
<1>1. ASSUME NEW h \in {ShowPopup(g, id), ClosePopup(g), HideGraph(g), g}
      PROVE  IsGraph(h) /\ h.nodes = g.nodes /\ h.links = g.links
  BY DEF GoodGraph, IsGraph, ShowPopup, ClosePopup, HideGraph
<1> QED
  BY <1>1 DEF SameGraph, GoodGraph, GraphHasNode, GraphHasLink

LEMMA PopupOfMap ==
    ASSUME NEW m, GoodMap(m), NEW id
    PROVE  /\ SameMap(m, OpenNodePopup(m, id)) /\ SameMap(m, ClosePopups(m))
           /\ SameMap(m, HideMap(m)) /\ SameMap(m, m)
<1>1. ASSUME NEW k \in {OpenNodePopup(m, id), ClosePopups(m), HideMap(m), m}
      PROVE  IsMap(k) /\ k.nodes = m.nodes /\ k.links = m.links
  BY DEF GoodMap, IsMap, OpenNodePopup, ClosePopups, HideMap
<1> QED
  BY <1>1 DEF SameMap, GoodMap, HasNode, MapHasLink

\* What is shown changes, and nothing else.
LEMMA ShownGraph ==
    ASSUME NEW g, GoodGraph(g)
    PROVE  SameGraph(g, ShowGraphOf(g, "dev"))
<1>1. PICK b : b = IF g.built THEN g ELSE Build(g)
  OBVIOUS
<1>2. IsGraph(b) /\ b.nodes = g.nodes /\ b.links = g.links
  BY <1>1 DEF GoodGraph, IsGraph, Build
<1>3. PICK v : v = [b EXCEPT !.visible = TRUE]
  OBVIOUS
<1>4. IsGraph(v) /\ v.nodes = g.nodes /\ v.links = g.links
  BY <1>2, <1>3 DEF IsGraph
<1>5. PICK ns \in SUBSET GraphNodes :
         /\ ns = {[n EXCEPT !.hidden = n.type # "dev"] : n \in v.nodes}
         /\ \A id, type : (\E n \in ns : n.id = id /\ n.type = type) <=> GraphHasNode(g, id, type)
  <2> DEFINE H(n) == [n EXCEPT !.hidden = n.type # "dev"]
             ns == {H(n) : n \in v.nodes}
  <2>1. ASSUME NEW n \in v.nodes
        PROVE  H(n) \in GraphNodes /\ H(n).id = n.id /\ H(n).type = n.type
    <3>1. PICK flag \in BOOLEAN : flag = (n.type # "dev")
      OBVIOUS
    <3>2. H(n) = [n EXCEPT !.hidden = flag] /\ n \in GraphNodes
      BY <1>4, <3>1 DEF GoodGraph
    <3> HIDE DEF H
    <3> QED
      BY <3>2 DEF GraphNodes
  <2>2. \A k : k \in ns <=> \E n \in v.nodes : k = H(n)
    OBVIOUS
  <2> HIDE DEF H, ns
  <2>3. ns \in SUBSET GraphNodes
    BY <2>1, <2>2
  <2>4. \A id, type : (\E n \in ns : n.id = id /\ n.type = type) <=> GraphHasNode(g, id, type)
    BY <1>4, <2>1, <2>2 DEF GraphHasNode
  <2> QED
    BY <2>3, <2>4 DEF H, ns
<1>6. PICK ls \in SUBSET GraphLinks :
         /\ ls = {[l EXCEPT !.hidden = l.type # "dev"] : l \in v.links}
         /\ \A from, to, type : (\E l \in ls : l.from = from /\ l.to = to /\ l.type = type)
                                   <=> GraphHasLink(g, from, to, type)
  <2> DEFINE H(l) == [l EXCEPT !.hidden = l.type # "dev"]
             ls == {H(l) : l \in v.links}
  <2>1. ASSUME NEW l \in v.links
        PROVE  H(l) \in GraphLinks /\ H(l).from = l.from /\ H(l).to = l.to /\ H(l).type = l.type
    <3>1. PICK flag \in BOOLEAN : flag = (l.type # "dev")
      OBVIOUS
    <3>2. H(l) = [l EXCEPT !.hidden = flag] /\ l \in GraphLinks
      BY <1>4, <3>1 DEF GoodGraph
    <3> HIDE DEF H
    <3> QED
      BY <3>2 DEF GraphLinks
  <2>2. \A k : k \in ls <=> \E l \in v.links : k = H(l)
    OBVIOUS
  <2> HIDE DEF H, ls
  <2>3. ls \in SUBSET GraphLinks
    BY <2>1, <2>2
  <2>4. \A from, to, type : (\E l \in ls : l.from = from /\ l.to = to /\ l.type = type)
                               <=> GraphHasLink(g, from, to, type)
    BY <1>4, <2>1, <2>2 DEF GraphHasLink
  <2> QED
    BY <2>3, <2>4 DEF H, ls
<1>7. ShowGraphOf(g, "dev") = SetGraphNodeType(v, "dev")
  BY <1>1, <1>3, Zenon DEF ShowGraphOf
<1>8. CASE v.type = "dev"
  BY <1>4, <1>7, <1>8 DEF SetGraphNodeType, SameGraph, GoodGraph, GraphHasNode, GraphHasLink
<1>9. CASE v.type # "dev"
  <2>1. PICK w : w = [v EXCEPT !.type = "dev", !.nodes = ns, !.links = ls]
    OBVIOUS
  <2>2. ShowGraphOf(g, "dev") = w
    BY <1>5, <1>6, <1>7, <1>9, <2>1, Zenon DEF SetGraphNodeType
  <2>3. IsGraph(w) /\ w.nodes = ns /\ w.links = ls
    BY <1>4, <2>1 DEF IsGraph
  <2> QED
    <3>1. GoodGraph(w)
      BY <2>3 DEF GoodGraph
    <3>2. \A id, type : GraphHasNode(w, id, type) <=> GraphHasNode(g, id, type)
      BY <1>5, <2>3 DEF GraphHasNode
    <3>3. ASSUME NEW from, NEW to, NEW type
          PROVE  GraphHasLink(w, from, to, type) <=> GraphHasLink(g, from, to, type)
      <4>1. GraphHasLink(w, from, to, type) <=>
               \E l \in ls : l.from = from /\ l.to = to /\ l.type = type
        BY <2>3 DEF GraphHasLink
      <4> QED
        BY <1>6, <4>1
    <3>4. SameGraph(g, w)
      BY <3>1, <3>2, <3>3 DEF SameGraph
    <3> QED
      BY <2>2, <3>4
<1> QED
  BY <1>8, <1>9

LEMMA ShownMap ==
    ASSUME NEW m, GoodMap(m)
    PROVE  SameMap(m, ShowMapOf(m, "dev"))
<1>1. PICK b : b = IF m.built THEN m ELSE BuildMap(m)
  OBVIOUS
<1>2. IsMap(b) /\ b.nodes = m.nodes /\ b.links = m.links
  BY <1>1 DEF GoodMap, IsMap, BuildMap
<1>3. PICK v : v = [b EXCEPT !.visible = TRUE]
  OBVIOUS
<1>4. IsMap(v) /\ v.nodes = m.nodes /\ v.links = m.links
  BY <1>2, <1>3 DEF IsMap
<1>5. PICK ns \in SUBSET MapNodes :
         /\ ns = {[n EXCEPT !.shown = n.type = "dev"] : n \in v.nodes}
         /\ \A id : (\E n \in ns : n.id = id) <=> HasNode(m, id)
  <2> DEFINE H(n) == [n EXCEPT !.shown = n.type = "dev"]
             ns == {H(n) : n \in v.nodes}
  <2>1. ASSUME NEW n \in v.nodes
        PROVE  H(n) \in MapNodes /\ H(n).id = n.id
    <3>1. PICK flag \in BOOLEAN : flag = (n.type = "dev")
      OBVIOUS
    <3>2. H(n) = [n EXCEPT !.shown = flag] /\ n \in MapNodes
      BY <1>4, <3>1 DEF GoodMap
    <3> HIDE DEF H
    <3> QED
      BY <3>2 DEF MapNodes
  <2>2. \A k : k \in ns <=> \E n \in v.nodes : k = H(n)
    OBVIOUS
  <2> HIDE DEF H, ns
  <2>3. ns \in SUBSET MapNodes
    BY <2>1, <2>2
  <2>4. \A id : (\E n \in ns : n.id = id) <=> HasNode(m, id)
    BY <1>4, <2>1, <2>2 DEF HasNode
  <2> QED
    BY <2>3, <2>4 DEF H, ns
<1>6. PICK ls \in SUBSET MapLinks :
         /\ ls = {[l EXCEPT !.shown = l.type = "dev"] : l \in v.links}
         /\ \A from, to : (\E l \in ls : l.from = from /\ l.to = to) <=> MapHasLink(m, from, to)
  <2> DEFINE H(l) == [l EXCEPT !.shown = l.type = "dev"]
             ls == {H(l) : l \in v.links}
  <2>1. ASSUME NEW l \in v.links
        PROVE  H(l) \in MapLinks /\ H(l).from = l.from /\ H(l).to = l.to
    <3>1. PICK flag \in BOOLEAN : flag = (l.type = "dev")
      OBVIOUS
    <3>2. H(l) = [l EXCEPT !.shown = flag] /\ l \in MapLinks
      BY <1>4, <3>1 DEF GoodMap
    <3> HIDE DEF H
    <3> QED
      BY <3>2 DEF MapLinks
  <2>2. \A k : k \in ls <=> \E l \in v.links : k = H(l)
    OBVIOUS
  <2> HIDE DEF H, ls
  <2>3. ls \in SUBSET MapLinks
    BY <2>1, <2>2
  <2>4. \A from, to : (\E l \in ls : l.from = from /\ l.to = to) <=> MapHasLink(m, from, to)
    BY <1>4, <2>1, <2>2 DEF MapHasLink
  <2> QED
    BY <2>3, <2>4 DEF H, ls
<1>7. ShowMapOf(m, "dev") = SetNodeType(v, "dev")
  BY <1>1, <1>3 DEF ShowMapOf
<1>8. CASE v.type = "dev"
  BY <1>4, <1>7, <1>8 DEF SetNodeType, SameMap, GoodMap, HasNode, MapHasLink
<1>9. CASE v.type # "dev"
  <2>1. PICK w : w = [v EXCEPT !.type = "dev", !.nodes = ns, !.links = ls]
    OBVIOUS
  <2>2. ShowMapOf(m, "dev") = w
    BY <1>5, <1>6, <1>7, <1>9, <2>1, Zenon DEF SetNodeType
  <2>3. IsMap(w) /\ w.nodes = ns /\ w.links = ls
    BY <1>4, <2>1 DEF IsMap
  <2> QED
    <3>1. GoodMap(w)
      BY <2>3 DEF GoodMap
    <3>2. \A id : HasNode(w, id) <=> HasNode(m, id)
      BY <1>5, <2>3 DEF HasNode
    <3>3. \A from, to : MapHasLink(w, from, to) <=> MapHasLink(m, from, to)
      BY <1>6, <2>3 DEF MapHasLink
    <3>4. SameMap(m, w)
      BY <3>1, <3>2, <3>3 DEF SameMap
    <3> QED
      BY <2>2, <3>4
<1> QED
  BY <1>8, <1>9

\* Links are asked for when the nodes at their ends are there.
ViewerInv ==
    /\ GoodGraph(viewerGraph) /\ GoodMap(viewerMap)
    /\ "domain links" \in viewerAsked =>
          \A d \in Domains : GraphHasNode(viewerGraph, d, "dom")
    /\ "device links" \in viewerAsked =>
          \A d \in Devices : GraphHasNode(viewerGraph, d, "dev") /\ HasNode(viewerMap, d)
    /\ \A from, to, type : GraphHasLink(viewerGraph, from, to, type) =>
          GraphHasNode(viewerGraph, from, type) /\ GraphHasNode(viewerGraph, to, type)
    /\ \A from, to : MapHasLink(viewerMap, from, to) <=>
                        GraphHasLink(viewerGraph, from, to, "dev")

LEMMA ViewsKeep ==
    ASSUME ViewerInv, SameGraph(viewerGraph, viewerGraph'), SameMap(viewerMap, viewerMap'),
           viewerAsked' = viewerAsked
    PROVE  ViewerInv'
BY DEF ViewerInv, SameGraph, SameMap

LEMMA NodesAdded ==
    ASSUME NEW g, GoodGraph(g), NEW type \in {"dom", "dev"},
           NEW ids \in SUBSET (Domains \union Devices)
    PROVE  LET h == AddGraphNodes(g, ids, type)
           IN  /\ GoodGraph(h)
               /\ \A id, t : GraphHasNode(h, id, t) <=>
                                GraphHasNode(g, id, t) \/ (t = type /\ id \in ids)
               /\ \A from, to, t : GraphHasLink(h, from, to, t) <=> GraphHasLink(g, from, to, t)
<1> DEFINE N(id) == [id |-> id, type |-> type, hidden |-> FALSE]
           new == {N(id) : id \in ids}
<1>1. \A id \in ids : N(id) \in GraphNodes /\ N(id).id = id /\ N(id).type = type
  BY DEF GraphNodes
<1>2. \A n : n \in new <=> \E id \in ids : n = N(id)
  OBVIOUS
<1>3. AddGraphNodes(g, ids, type) = [g EXCEPT !.nodes = @ \union new]
  BY DEF AddGraphNodes
<1> HIDE DEF N, new
<1>4. PICK h : h = [g EXCEPT !.nodes = @ \union new]
  OBVIOUS
<1>5. IsGraph(h) /\ h.nodes = g.nodes \union new /\ h.links = g.links
  BY <1>4 DEF GoodGraph, IsGraph
<1>6. GoodGraph(h)
  BY <1>1, <1>2, <1>5 DEF GoodGraph
<1>7. \A id, t : GraphHasNode(h, id, t) <=> GraphHasNode(g, id, t) \/ (t = type /\ id \in ids)
  BY <1>1, <1>2, <1>5 DEF GraphHasNode
<1>8. \A from, to, t : GraphHasLink(h, from, to, t) <=> GraphHasLink(g, from, to, t)
  BY <1>5 DEF GraphHasLink
<1> QED
  <2>1. AddGraphNodes(g, ids, type) = h
    BY <1>3, <1>4
  <2> QED
    BY <1>6, <1>7, <1>8, <2>1

LEMMA GraphLinksAdded ==
    ASSUME NEW g, GoodGraph(g), NEW type \in {"dom", "dev"},
           NEW pairs \in SUBSET ((Domains \union Devices) \X (Domains \union Devices))
    PROVE  LET h == AddGraphLinks(g, pairs, type)
           IN  /\ GoodGraph(h)
               /\ \A id, t : GraphHasNode(h, id, t) <=> GraphHasNode(g, id, t)
               /\ \A from, to, t : GraphHasLink(h, from, to, t) <=>
                     GraphHasLink(g, from, to, t) \/ (t = type /\ <<from, to>> \in pairs)
<1> DEFINE L(p) == [from |-> p[1], to |-> p[2], type |-> type, hidden |-> FALSE]
           new == {L(p) : p \in pairs}
<1>1. \A p \in pairs : /\ L(p) \in GraphLinks /\ L(p).type = type
                       /\ p = <<L(p).from, L(p).to>>
  BY DEF GraphLinks
<1>2. \A l : l \in new <=> \E p \in pairs : l = L(p)
  OBVIOUS
<1>9. \A from, to : L(<<from, to>>).from = from /\ L(<<from, to>>).to = to
                    /\ L(<<from, to>>).type = type
  OBVIOUS
<1>3. AddGraphLinks(g, pairs, type) = [g EXCEPT !.links = @ \union new]
  BY DEF AddGraphLinks
<1> HIDE DEF L, new
<1>4. PICK h : h = [g EXCEPT !.links = @ \union new]
  OBVIOUS
<1>5. IsGraph(h) /\ h.nodes = g.nodes /\ h.links = g.links \union new
  BY <1>4 DEF GoodGraph, IsGraph
<1>6. GoodGraph(h)
  BY <1>1, <1>2, <1>5 DEF GoodGraph
<1>7. \A id, t : GraphHasNode(h, id, t) <=> GraphHasNode(g, id, t)
  BY <1>5 DEF GraphHasNode
<1>8. ASSUME NEW from, NEW to, NEW t
      PROVE  GraphHasLink(h, from, to, t) <=>
                GraphHasLink(g, from, to, t) \/ (t = type /\ <<from, to>> \in pairs)
  <2>1. ASSUME NEW l \in new, l.from = from, l.to = to, l.type = t
        PROVE  t = type /\ <<from, to>> \in pairs
    BY <1>1, <1>2, <2>1
  <2>2. ASSUME t = type, <<from, to>> \in pairs
        PROVE  \E l \in new : l.from = from /\ l.to = to /\ l.type = t
    BY <1>2, <1>9, <2>2
  <2> QED
    BY <1>5, <2>1, <2>2 DEF GraphHasLink
<1> QED
  <2>1. AddGraphLinks(g, pairs, type) = h
    BY <1>3, <1>4
  <2> QED
    BY <1>6, <1>7, <1>8, <2>1

LEMMA MapNodesAdded ==
    ASSUME NEW m, GoodMap(m), NEW ids \in SUBSET Devices
    PROVE  LET k == AddNodes(m, ids, "dev")
           IN  /\ GoodMap(k)
               /\ \A id : HasNode(k, id) <=> HasNode(m, id) \/ id \in ids
               /\ \A from, to : MapHasLink(k, from, to) <=> MapHasLink(m, from, to)
<1> DEFINE new == {[id |-> id, type |-> "dev", shown |-> TRUE] : id \in ids}
<1>1. new \in SUBSET MapNodes
  <2>1. \A id \in ids : [id |-> id, type |-> "dev", shown |-> TRUE] \in MapNodes
    BY DEF MapNodes
  <2> QED
    BY <2>1
<1>2. PICK k : k = AddNodes(m, ids, "dev")
  OBVIOUS
<1>3. IsMap(m) /\ m.nodes \in SUBSET MapNodes /\ m.links \in SUBSET MapLinks
  BY DEF GoodMap
<1>4. IsMap(k) /\ k.links = m.links /\ k.nodes = m.nodes \union new
  BY <1>2, <1>3, AddNodesFields
<1>5. \A id : HasNode(k, id) <=> HasNode(m, id) \/ id \in ids
  BY <1>2, <1>3, AddNodesKeeps
<1> HIDE DEF new
<1>6. GoodMap(k)
  BY <1>1, <1>3, <1>4 DEF GoodMap
<1>7. \A from, to : MapHasLink(k, from, to) <=> MapHasLink(m, from, to)
  BY <1>4 DEF MapHasLink
<1> QED
  BY <1>2, <1>5, <1>6, <1>7

LEMMA MapLinksAdded ==
    ASSUME NEW m, GoodMap(m), NEW pairs \in SUBSET (Devices \X Devices),
           \A d \in Devices : HasNode(m, d)
    PROVE  LET k == AddLinks(m, pairs, "dev", "gray")
           IN  /\ GoodMap(k)
               /\ \A id : HasNode(k, id) <=> HasNode(m, id)
               /\ \A from, to : MapHasLink(k, from, to) <=>
                     MapHasLink(m, from, to) \/ <<from, to>> \in pairs
<1> DEFINE L(p) == [from |-> p[1], to |-> p[2], type |-> "dev", color |-> "gray", shown |-> TRUE]
           new == {L(p) : p \in {q \in pairs : HasNode(m, q[1]) /\ HasNode(m, q[2])}}
<1>1. \A p \in pairs : L(p) \in MapLinks /\ p = <<L(p).from, L(p).to>>
                       /\ HasNode(m, p[1]) /\ HasNode(m, p[2])
  BY DEF MapLinks
<1>2. \A l : l \in new <=> \E p \in pairs : l = L(p)
  BY <1>1
<1>3. \A from, to : L(<<from, to>>).from = from /\ L(<<from, to>>).to = to
  OBVIOUS
<1>4. PICK k : k = AddLinks(m, pairs, "dev", "gray")
  OBVIOUS
<1>5. IsMap(m) /\ m.nodes \in SUBSET MapNodes /\ m.links \in SUBSET MapLinks
  BY DEF GoodMap
<1>6. IsMap(k) /\ k.nodes = m.nodes /\ k.links = m.links \union new
  BY <1>4, <1>5, AddLinksFields
<1> HIDE DEF L, new
<1>7. GoodMap(k)
  BY <1>1, <1>2, <1>5, <1>6 DEF GoodMap
<1>8. \A id : HasNode(k, id) <=> HasNode(m, id)
  BY <1>6 DEF HasNode
<1>9. ASSUME NEW from, NEW to
      PROVE  MapHasLink(k, from, to) <=> MapHasLink(m, from, to) \/ <<from, to>> \in pairs
  <2>1. ASSUME NEW l \in new, l.from = from, l.to = to
        PROVE  <<from, to>> \in pairs
    BY <1>1, <1>2, <2>1
  <2>2. ASSUME <<from, to>> \in pairs
        PROVE  \E l \in new : l.from = from /\ l.to = to
    BY <1>2, <1>3, <2>2
  <2> QED
    BY <1>6, <2>1, <2>2 DEF MapHasLink
<1> QED
  BY <1>4, <1>7, <1>8, <1>9

LEMMA DomainsOfDevices == \A d \in Devices : DomainOf[d] \in Domains
BY DEF Domains

LEMMA ViewerStep == ViewerInv /\ [ViewerNext]_viewerVars => ViewerInv'
<1> SUFFICES ASSUME ViewerInv, [ViewerNext]_viewerVars PROVE ViewerInv'
  OBVIOUS
<1>1. GoodGraph(viewerGraph) /\ GoodMap(viewerMap)
  BY DEF ViewerInv
<1>2. CASE \/ ShowGraph \/ ShowMap \/ SavePositions \/ ClickBeside
           \/ \E n \in viewerMap.nodes : MapNodeClick(n)
           \/ \E n \in viewerGraph.nodes : GraphNodeClick(n)
           \/ UNCHANGED viewerVars
  <2>1. viewerAsked' = viewerAsked
    BY <1>2 DEF ShowGraph, ShowMap, SavePositions, ClickBeside, MapNodeClick, GraphNodeClick,
                viewerVars
  <2>2. SameGraph(viewerGraph, viewerGraph')
    BY <1>1, <1>2, ShownGraph, PopupOfGraph
       DEF ShowGraph, ShowMap, SavePositions, ClickBeside, MapNodeClick, GraphNodeClick,
           viewerVars
  <2>3. SameMap(viewerMap, viewerMap')
    BY <1>1, <1>2, ShownMap, PopupOfMap
       DEF ShowGraph, ShowMap, SavePositions, ClickBeside, MapNodeClick, GraphNodeClick,
           viewerVars
  <2> QED
    BY <2>1, <2>2, <2>3, ViewsKeep
<1>3. CASE LoadViewerDomains
  <2>1. /\ viewerGraph' = AddGraphNodes(viewerGraph, Domains, "dom")
        /\ UNCHANGED viewerMap
        /\ "device links" \in viewerAsked' => "device links" \in viewerAsked
    BY <1>3 DEF LoadViewerDomains, AfterDomains
  <2>2. /\ GoodGraph(viewerGraph')
        /\ \A id, t : GraphHasNode(viewerGraph', id, t) <=>
                         GraphHasNode(viewerGraph, id, t) \/ (t = "dom" /\ id \in Domains)
        /\ \A from, to, t : GraphHasLink(viewerGraph', from, to, t) <=>
                               GraphHasLink(viewerGraph, from, to, t)
    BY <1>1, <2>1, NodesAdded
  <2> QED
    BY <2>1, <2>2 DEF ViewerInv
<1>4. CASE LoadDomainLinks
  <2>1. /\ "domain links" \in viewerAsked
        /\ viewerGraph' = AddGraphLinks(viewerGraph, DomainLinks, "dom")
        /\ UNCHANGED viewerMap
        /\ viewerAsked' = viewerAsked \ {"domain links"}
    BY <1>4 DEF LoadDomainLinks
  <2>2. DomainLinks \in SUBSET (Domains \X Domains)
    BY DomainsOfDevices, ViewerAssumption DEF DomainLinks, Devices
  <2>3. /\ GoodGraph(viewerGraph')
        /\ \A id, t : GraphHasNode(viewerGraph', id, t) <=> GraphHasNode(viewerGraph, id, t)
        /\ \A from, to, t : GraphHasLink(viewerGraph', from, to, t) <=>
              GraphHasLink(viewerGraph, from, to, t) \/ (t = "dom" /\ <<from, to>> \in DomainLinks)
    <3>1. DomainLinks \in SUBSET ((Domains \union Devices) \X (Domains \union Devices))
      BY <2>2
    <3> QED
      BY <1>1, <2>1, <3>1, GraphLinksAdded
  <2> QED
    <3>1. GoodGraph(viewerGraph') /\ GoodMap(viewerMap')
      BY <1>1, <2>1, <2>3
    <3>2. \A from, to, type : GraphHasLink(viewerGraph', from, to, type) =>
             GraphHasNode(viewerGraph', from, type) /\ GraphHasNode(viewerGraph', to, type)
      <4> SUFFICES ASSUME NEW from, NEW to, NEW type,
                          GraphHasLink(viewerGraph, from, to, type)
                             \/ (type = "dom" /\ <<from, to>> \in DomainLinks)
                   PROVE  GraphHasNode(viewerGraph, from, type) /\ GraphHasNode(viewerGraph, to, type)
        BY <2>3
      <4>1. CASE GraphHasLink(viewerGraph, from, to, type)
        BY <4>1 DEF ViewerInv
      <4>2. CASE type = "dom" /\ <<from, to>> \in DomainLinks
        BY <2>1, <2>2, <4>2 DEF ViewerInv
      <4> QED
        BY <4>1, <4>2
    <3>3. \A from, to : MapHasLink(viewerMap', from, to) <=>
                        GraphHasLink(viewerGraph', from, to, "dev")
      <4>1. ASSUME NEW from, NEW to
            PROVE  GraphHasLink(viewerGraph', from, to, "dev") <=>
                      GraphHasLink(viewerGraph, from, to, "dev")
        <5>1. \A t : GraphHasLink(viewerGraph', from, to, t) <=>
                 GraphHasLink(viewerGraph, from, to, t)
                    \/ (t = "dom" /\ <<from, to>> \in DomainLinks)
          BY <2>3
        <5> QED
          BY <5>1, "dev" # "dom"
      <4>2. \A from, to : MapHasLink(viewerMap, from, to) <=>
                             GraphHasLink(viewerGraph, from, to, "dev")
        BY DEF ViewerInv
      <4> QED
        BY <2>1, <4>1, <4>2 DEF MapHasLink
    <3>4. /\ "domain links" \in viewerAsked' =>
                \A d \in Domains : GraphHasNode(viewerGraph', d, "dom")
          /\ "device links" \in viewerAsked' =>
                \A d \in Devices : GraphHasNode(viewerGraph', d, "dev") /\ HasNode(viewerMap', d)
      BY <2>1, <2>3 DEF ViewerInv
    <3> QED
      BY <3>1, <3>2, <3>3, <3>4 DEF ViewerInv
<1>5. CASE LoadViewerDevices
  <2>1. /\ viewerGraph' = AddGraphNodes(viewerGraph, Devices, "dev")
        /\ viewerMap' = AddNodes(viewerMap, Devices, "dev")
        /\ "domain links" \in viewerAsked' => "domain links" \in viewerAsked
    BY <1>5 DEF LoadViewerDevices
  <2>2. /\ GoodGraph(viewerGraph')
        /\ \A id, t : GraphHasNode(viewerGraph', id, t) <=>
                         GraphHasNode(viewerGraph, id, t) \/ (t = "dev" /\ id \in Devices)
        /\ \A from, to, t : GraphHasLink(viewerGraph', from, to, t) <=>
                               GraphHasLink(viewerGraph, from, to, t)
    BY <1>1, <2>1, NodesAdded
  <2>3. /\ GoodMap(viewerMap')
        /\ \A id : HasNode(viewerMap', id) <=> HasNode(viewerMap, id) \/ id \in Devices
        /\ \A from, to : MapHasLink(viewerMap', from, to) <=> MapHasLink(viewerMap, from, to)
    BY <1>1, <2>1, MapNodesAdded
  <2> QED
    BY <2>1, <2>2, <2>3 DEF ViewerInv
<1>6. CASE LoadDeviceLinks
  <2>1. /\ "device links" \in viewerAsked
        /\ viewerGraph' = AddGraphLinks(viewerGraph, DeviceLinks, "dev")
        /\ viewerMap' = AddLinks(viewerMap, DeviceLinks, "dev", "gray")
        /\ viewerAsked' = viewerAsked \ {"device links"}
    BY <1>6 DEF LoadDeviceLinks
  <2>2. DeviceLinks \in SUBSET (Devices \X Devices)
    BY ViewerAssumption DEF Devices
  <2>3. /\ GoodGraph(viewerGraph')
        /\ \A id, t : GraphHasNode(viewerGraph', id, t) <=> GraphHasNode(viewerGraph, id, t)
        /\ \A from, to, t : GraphHasLink(viewerGraph', from, to, t) <=>
              GraphHasLink(viewerGraph, from, to, t) \/ (t = "dev" /\ <<from, to>> \in DeviceLinks)
    <3>1. DeviceLinks \in SUBSET ((Domains \union Devices) \X (Domains \union Devices))
      BY <2>2
    <3> QED
      BY <1>1, <2>1, <3>1, GraphLinksAdded
  <2>4. \A d \in Devices : GraphHasNode(viewerGraph, d, "dev") /\ HasNode(viewerMap, d)
    BY <2>1 DEF ViewerInv
  <2>5. /\ GoodMap(viewerMap')
        /\ \A id : HasNode(viewerMap', id) <=> HasNode(viewerMap, id)
        /\ \A from, to : MapHasLink(viewerMap', from, to) <=>
              MapHasLink(viewerMap, from, to) \/ <<from, to>> \in DeviceLinks
    BY <1>1, <2>1, <2>2, <2>4, MapLinksAdded
  <2> QED
    <3>1. GoodGraph(viewerGraph') /\ GoodMap(viewerMap')
      BY <1>1, <2>1, <2>3, <2>5
    <3>2. \A from, to, type : GraphHasLink(viewerGraph', from, to, type) =>
             GraphHasNode(viewerGraph', from, type) /\ GraphHasNode(viewerGraph', to, type)
      <4> SUFFICES ASSUME NEW from, NEW to, NEW type,
                          GraphHasLink(viewerGraph, from, to, type)
                             \/ (type = "dev" /\ <<from, to>> \in DeviceLinks)
                   PROVE  GraphHasNode(viewerGraph, from, type) /\ GraphHasNode(viewerGraph, to, type)
        BY <2>3
      <4>1. CASE GraphHasLink(viewerGraph, from, to, type)
        BY <4>1 DEF ViewerInv
      <4>2. CASE type = "dev" /\ <<from, to>> \in DeviceLinks
        BY <2>1, <2>2, <2>4, <4>2 DEF ViewerInv
      <4> QED
        BY <4>1, <4>2
    <3>3. \A from, to : MapHasLink(viewerMap', from, to) <=>
                        GraphHasLink(viewerGraph', from, to, "dev")
      BY <2>1, <2>3, <2>5 DEF ViewerInv
    <3>4. /\ "domain links" \in viewerAsked' =>
                \A d \in Domains : GraphHasNode(viewerGraph', d, "dom")
          /\ "device links" \in viewerAsked' =>
                \A d \in Devices : GraphHasNode(viewerGraph', d, "dev") /\ HasNode(viewerMap', d)
      BY <2>1, <2>3, <2>5 DEF ViewerInv
    <3> QED
      BY <3>1, <3>2, <3>3, <3>4 DEF ViewerInv
<1> QED
  BY <1>2, <1>3, <1>4, <1>5, <1>6 DEF ViewerNext

LEMMA ViewerStart == ViewerInit => ViewerInv
<1> SUFFICES ASSUME ViewerInit PROVE ViewerInv
  OBVIOUS
<1>1. GoodMap(viewerMap) /\ viewerMap.links = {}
  BY FirstMap DEF ViewerInit, GoodMap
<1>2. GoodGraph(viewerGraph) /\ viewerGraph.links = {}
  <2>1. IsGraph(NewGraph) /\ NewGraph.nodes = {} /\ NewGraph.links = {}
    BY DEF NewGraph, IsGraph
  <2> QED
    BY <2>1 DEF ViewerInit, GoodGraph
<1> QED
  BY <1>1, <1>2 DEF ViewerInit, ViewerInv, MapHasLink, GraphHasLink

LEMMA AgreementOfViews == ViewerInv => MapAndGraphAgree
<1> SUFFICES ASSUME ViewerInv PROVE MapAndGraphAgree
  OBVIOUS
<1>1. ASSUME NEW l \in viewerGraph.links, NEW end \in {l.from, l.to}
      PROVE  \E n \in viewerGraph.nodes : n.id = end /\ n.type = l.type
  <2>1. GraphHasLink(viewerGraph, l.from, l.to, l.type)
    BY DEF GraphHasLink
  <2>2. GraphHasNode(viewerGraph, l.from, l.type) /\ GraphHasNode(viewerGraph, l.to, l.type)
    BY <2>1 DEF ViewerInv
  <2> QED
    BY <2>2 DEF GraphHasNode
<1>2. \A x : x \in {<<l.from, l.to>> : l \in viewerMap.links} <=>
             \E from, to : x = <<from, to>> /\ MapHasLink(viewerMap, from, to)
  BY DEF MapHasLink
<1>3. \A x : x \in {<<l.from, l.to>> : l \in {k \in viewerGraph.links : k.type = "dev"}} <=>
             \E from, to : x = <<from, to>> /\ GraphHasLink(viewerGraph, from, to, "dev")
  BY DEF GraphHasLink
<1>4. \A from, to : MapHasLink(viewerMap, from, to) <=>
                       GraphHasLink(viewerGraph, from, to, "dev")
  BY DEF ViewerInv
<1>5. {<<l.from, l.to>> : l \in viewerMap.links} =
         {<<l.from, l.to>> : l \in {k \in viewerGraph.links : k.type = "dev"}}
  BY <1>2, <1>3, <1>4
<1> QED
  BY <1>1, <1>5 DEF MapAndGraphAgree

\* Whatever order the answers come in and the views are switched in, the map and
\* the graph of the viewer hold the same links, between nodes that are there.
THEOREM MapAndGraphHoldTheSame == ViewerSpec => []MapAndGraphAgree
BY ViewerStart, ViewerStep, AgreementOfViews, PTL DEF ViewerSpec

-----------------------------------------------------------------------------
(***************************************************************************)
(* The page of a circuit.  The script knows what the status block shows,   *)
(* and each point of a path that is polled for has a marker, or an answer  *)
(* on its way.                                                             *)
(***************************************************************************)

PathDevices == ToSet(CircuitPath)
ServerPaths == {CircuitPath, <<Head(CircuitPath), Last(CircuitPath)>>}
States == [authorized : BOOLEAN, active : BOOLEAN]
Polls == [path : ServerPaths, draw : BOOLEAN]
Legs(m) ==
    \A l \in m.links : l = [from |-> l.from, to |-> l.to, type |-> l.type,
                            color |-> l.color, shown |-> l.shown]

CircuitInv ==
    /\ circuit \in States /\ block \in States /\ known = block
    /\ IsMap(circuitMap) /\ Legs(circuitMap)
    /\ drawing \in [paths : Nat, stps : [PathDevices -> Nat], polls : SUBSET Polls]
    /\ doms \in [known : BOOLEAN, missed : BOOLEAN]
    /\ LinksShowDataPlane
    /\ PollsForAnAnswer

\* The server answers with points of the path.
LEMMA PointsOfPath ==
    ASSUME NEW path \in ServerPaths
    PROVE  /\ DOMAIN path = 1..Len(path) /\ Len(path) \in Nat
           /\ \A i \in DOMAIN path : path[i] \in PathDevices
<1>1. PICK S : CircuitPath \in Seq(S)
  BY CircuitPageAssumption
<1>2. Len(CircuitPath) > 1
  BY CircuitPageAssumption
<1>3. \A i \in DOMAIN CircuitPath : CircuitPath[i] \in PathDevices
  BY DEF PathDevices, ToSet
<1>4. CASE path = CircuitPath
  BY <1>1, <1>3, <1>4
<1>5. CASE path = <<Head(CircuitPath), Last(CircuitPath)>>
  <2>1. Head(CircuitPath) = CircuitPath[1] /\ Last(CircuitPath) = CircuitPath[Len(CircuitPath)]
    BY <1>1, <1>2 DEF Last
  <2>2. Head(CircuitPath) \in PathDevices /\ Last(CircuitPath) \in PathDevices
    BY <1>1, <1>2, <1>3, <2>1
  <2>3. PICK a \in PathDevices, b \in PathDevices : path = <<a, b>>
    BY <1>5, <2>2
  <2> QED
    BY <2>3
<1> QED
  BY <1>4, <1>5 DEF ServerPaths

LEMMA PositionsCounted ==
    ASSUME NEW path \in ServerPaths, NEW d
    PROVE  /\ Cardinality({i \in Asked(path) : path[i] = d}) \in Nat
           /\ d \in ToSet(path) => Cardinality({i \in Asked(path) : path[i] = d}) > 0
<1>1. PICK n \in Nat : DOMAIN path = 1..n
  BY PointsOfPath
<1>2. PICK T : T = {i \in 1..n : path[i] = d}
  OBVIOUS
<1>3. IsFiniteSet(1..n)
  BY FS_Interval
<1>4. IsFiniteSet(T)
  BY <1>2, <1>3, FS_Subset
<1>5. Cardinality(T) \in Nat /\ (Cardinality(T) = 0 <=> T = {})
  BY <1>4, FS_CardinalityType, FS_EmptySet
<1>6. d \in ToSet(path) => T # {}
  BY <1>1, <1>2 DEF ToSet
<1>7. {i \in Asked(path) : path[i] = d} = T
  BY <1>1, <1>2 DEF Asked
<1> QED
  BY <1>5, <1>6, <1>7

LEMMA PjaxKeeps ==
    ASSUME CircuitInv, PjaxSuccess
    PROVE  CircuitInv'
<1>1. /\ UNCHANGED <<circuit, doms>> /\ block' \in States /\ known' = block'
      /\ circuitMap' = IF block'.active # block.active
                       THEN SetLinksColor(circuitMap, Color(block'.active)) ELSE circuitMap
  BY DEF PjaxSuccess, CircuitInv, UpdateCircuitColor
<1>2. /\ drawing' \in [paths : Nat, stps : [PathDevices -> Nat], polls : SUBSET Polls]
      /\ drawing'.polls = drawing.polls /\ drawing'.stps = drawing.stps
  <2>1. PICK n \in Nat : n = drawing.paths + 1
    BY DEF CircuitInv
  <2>2. drawing' = drawing \/ drawing' = [drawing EXCEPT !.paths = n]
    BY <2>1 DEF PjaxSuccess
  <2> QED
    BY <2>2 DEF CircuitInv
<1>3. CASE block'.active # block.active
  <2> DEFINE c == Color(block'.active)
  <2>1. /\ IsMap(circuitMap') /\ circuitMap'.nodes = circuitMap.nodes
        /\ circuitMap'.links = {[l EXCEPT !.color = c] : l \in circuitMap.links}
    BY <1>1, <1>3, ColoredFields DEF CircuitInv
  <2>2. ASSUME NEW k \in circuitMap'.links
        PROVE  /\ k = [from |-> k.from, to |-> k.to, type |-> k.type,
                       color |-> k.color, shown |-> k.shown]
               /\ k.color = c
    <3>1. PICK l \in circuitMap.links : k = [l EXCEPT !.color = c]
      BY <2>1
    <3>2. l = [from |-> l.from, to |-> l.to, type |-> l.type,
               color |-> l.color, shown |-> l.shown]
      BY DEF CircuitInv, Legs
    <3> HIDE DEF c
    <3> QED
      BY <3>1, <3>2
  <2>3. Legs(circuitMap)' /\ LinksShowDataPlane'
    BY <2>2 DEF Legs, LinksShowDataPlane
  <2>4. PollsForAnAnswer'
    BY <1>1, <1>2, <2>1 DEF CircuitInv, PollsForAnAnswer, HasNode
  <2> QED
    BY <1>1, <1>2, <2>1, <2>3, <2>4 DEF CircuitInv
<1>4. CASE block'.active = block.active
  BY <1>1, <1>2, <1>4 DEF CircuitInv, Legs, LinksShowDataPlane, PollsForAnAnswer
<1> QED
  BY <1>3, <1>4

LEMMA DrawCircuitKeeps ==
    ASSUME CircuitInv, DrawCircuit
    PROVE  CircuitInv'
<1>1. PICK path \in ServerPaths : path = OrderedPath
  BY DEF OrderedPath, ServerPaths
<1>2. PICK n \in Nat : n = drawing.paths - 1
  BY DEF CircuitInv, DrawCircuit
<1>3. PICK stps \in [PathDevices -> Nat] :
         \A d \in PathDevices :
            stps[d] = drawing.stps[d] + Cardinality({i \in Asked(path) : path[i] = d})
  <2> DEFINE count(d) == Cardinality({i \in Asked(path) : path[i] = d})
             f == [d \in PathDevices |-> drawing.stps[d] + count(d)]
  <2>1. \A d : count(d) \in Nat
    BY PositionsCounted
  <2>2. drawing.stps \in [PathDevices -> Nat]
    BY DEF CircuitInv
  <2> HIDE DEF count
  <2>3. f \in [PathDevices -> Nat] /\ \A d \in PathDevices : f[d] = drawing.stps[d] + count(d)
    BY <2>1, <2>2
  <2> HIDE DEF f
  <2> QED
    BY <2>3 DEF count
<1>4. PICK polls \in SUBSET Polls :
         polls = drawing.polls \union {[path |-> path, draw |-> known.authorized]}
  <2>1. [path |-> path, draw |-> known.authorized] \in Polls
    BY DEF Polls, CircuitInv, States
  <2> QED
    BY <2>1 DEF CircuitInv
<1>5. drawing' = [drawing EXCEPT !.paths = n, !.stps = stps, !.polls = polls]
      /\ UNCHANGED <<circuit, block, known, circuitMap, doms>>
  <2>1. stps = [d \in ToSet(CircuitPath) |-> drawing.stps[d]
                  + Cardinality({i \in Asked(path) : path[i] = d})]
    BY <1>3 DEF PathDevices
  <2> QED
    BY <1>1, <1>2, <1>4, <2>1 DEF DrawCircuit
<1>6. /\ drawing' \in [paths : Nat, stps : [PathDevices -> Nat], polls : SUBSET Polls]
      /\ drawing'.stps = stps /\ drawing'.polls = polls
  BY <1>5 DEF CircuitInv
<1>7. PollsForAnAnswer'
  <2> SUFFICES ASSUME NEW p \in polls, NEW d \in ToSet(p.path)
               PROVE  HasNode(circuitMap, d) \/ stps[d] > 0 \/ doms.missed
    BY <1>5, <1>6 DEF PollsForAnAnswer, HasNode
  <2>1. d \in PathDevices
    <3>1. p.path \in ServerPaths
      BY DEF Polls
    <3> QED
      BY <3>1, PointsOfPath DEF ToSet
  <2>2. drawing.stps[d] \in Nat /\ Cardinality({i \in Asked(path) : path[i] = d}) \in Nat
    BY <2>1, PositionsCounted DEF CircuitInv
  <2>3. CASE p \in drawing.polls
    BY <1>3, <2>1, <2>2, <2>3 DEF CircuitInv, PollsForAnAnswer
  <2>4. CASE p = [path |-> path, draw |-> known.authorized]
    <3>1. Cardinality({i \in Asked(path) : path[i] = d}) > 0
      BY <2>4, PositionsCounted
    <3> QED
      BY <1>3, <2>1, <2>2, <3>1
  <2> QED
    BY <1>4, <2>3, <2>4
<1> QED
  BY <1>5, <1>6, <1>7 DEF CircuitInv, LinksShowDataPlane

LEMMA StpAnsweredKeeps ==
    ASSUME CircuitInv, NEW d \in ToSet(CircuitPath), StpAnswered(d)
    PROVE  CircuitInv'
<1>1. /\ drawing.stps[d] > 0
      /\ drawing' = [drawing EXCEPT !.stps[d] = @ - 1]
      /\ circuitMap' = IF doms.known THEN AddMarker(circuitMap, d) ELSE circuitMap
      /\ doms' = [doms EXCEPT !.missed = @ \/ (~doms.known /\ ~HasNode(circuitMap, d))]
      /\ UNCHANGED <<circuit, block, known>>
  BY DEF StpAnswered
<1>2. PICK stps \in [PathDevices -> Nat] :
         /\ stps = [drawing.stps EXCEPT ![d] = @ - 1]
         /\ \A e \in PathDevices \ {d} : stps[e] = drawing.stps[e]
  <2>1. drawing.stps \in [PathDevices -> Nat] /\ d \in PathDevices
    BY DEF CircuitInv, PathDevices
  <2>2. [drawing.stps EXCEPT ![d] = @ - 1] \in [PathDevices -> Nat]
    BY <1>1, <2>1
  <2> QED
    BY <2>1, <2>2
<1>3. drawing' = [drawing EXCEPT !.stps = stps]
  BY <1>1, <1>2
<1>4. /\ drawing' \in [paths : Nat, stps : [PathDevices -> Nat], polls : SUBSET Polls]
      /\ drawing'.stps = stps /\ drawing'.polls = drawing.polls
  BY <1>3 DEF CircuitInv
<1>5. PICK missed \in BOOLEAN :
         missed = (doms.missed \/ (~doms.known /\ ~HasNode(circuitMap, d)))
  OBVIOUS
<1>6. doms' \in [known : BOOLEAN, missed : BOOLEAN] /\ doms'.missed = missed
  <2>1. doms' = [doms EXCEPT !.missed = missed]
    BY <1>1, <1>5
  <2> QED
    BY <2>1 DEF CircuitInv
<1>7. IsMap(circuitMap)
  BY DEF CircuitInv
<1>8. /\ IsMap(circuitMap') /\ circuitMap'.links = circuitMap.links
      /\ \A e : HasNode(circuitMap, e) => HasNode(circuitMap', e)
      /\ doms.known => HasNode(circuitMap', d)
  <2>1. CASE circuitMap' = circuitMap /\ (doms.known => HasNode(circuitMap, d))
    BY <1>7, <2>1
  <2>2. CASE circuitMap' = AddNodes(circuitMap, {d}, "dev")
    BY <1>7, <2>2, AddNodesFields, AddNodesKeeps
  <2> QED
    BY <1>1, <2>1, <2>2 DEF AddMarker
<1>9. PollsForAnAnswer'
  <2> SUFFICES ASSUME NEW p \in drawing.polls, NEW e \in ToSet(p.path)
               PROVE  HasNode(circuitMap', e) \/ stps[e] > 0 \/ missed
    BY <1>4, <1>6 DEF PollsForAnAnswer, HasNode
  <2>1. HasNode(circuitMap, e) \/ drawing.stps[e] > 0 \/ doms.missed
    BY DEF CircuitInv, PollsForAnAnswer
  <2>2. CASE e = d
    BY <1>5, <1>8, <2>2
  <2>3. CASE e # d
    <3>1. e \in PathDevices
      <4>1. p.path \in ServerPaths
        BY DEF CircuitInv, Polls
      <4> QED
        BY <4>1, PointsOfPath DEF ToSet
    <3> QED
      BY <1>2, <1>5, <1>8, <2>1, <2>3, <3>1
  <2> QED
    BY <2>2, <2>3
<1> QED
  BY <1>1, <1>4, <1>6, <1>8, <1>9 DEF CircuitInv, Legs, LinksShowDataPlane

LEMMA DrawWhenReadyKeeps ==
    ASSUME CircuitInv, NEW p, DrawWhenReady(p)
    PROVE  CircuitInv'
<1>1. /\ drawing' = [drawing EXCEPT !.polls = @ \ {p}]
      /\ UNCHANGED <<circuit, block, known, doms>>
  BY DEF DrawWhenReady
<1>2. /\ drawing' \in [paths : Nat, stps : [PathDevices -> Nat], polls : SUBSET Polls]
      /\ drawing'.stps = drawing.stps /\ drawing'.polls \subseteq drawing.polls
  BY <1>1 DEF CircuitInv
<1>3. PICK pairs, c : /\ c = Color(block.active)
                      /\ \/ circuitMap' = circuitMap
                         \/ circuitMap' = AddLinks(circuitMap, pairs, "dev", c)
  BY DEF DrawWhenReady, CircuitInv
<1>4. IsMap(circuitMap) /\ Legs(circuitMap) /\ LinksShowDataPlane
  BY DEF CircuitInv
<1>5. /\ IsMap(circuitMap') /\ circuitMap'.nodes = circuitMap.nodes
      /\ circuitMap'.links \subseteq circuitMap.links \union
            {[from |-> q[1], to |-> q[2], type |-> "dev", color |-> c, shown |-> TRUE] :
                q \in {r \in pairs : HasNode(circuitMap, r[1]) /\ HasNode(circuitMap, r[2])}}
  <2>1. CASE circuitMap' = circuitMap
    BY <1>4, <2>1
  <2>2. CASE circuitMap' = AddLinks(circuitMap, pairs, "dev", c)
    BY <1>4, <2>2, AddLinksFields
  <2> QED
    BY <1>3, <2>1, <2>2
<1>6. ASSUME NEW l \in circuitMap'.links
      PROVE  /\ l = [from |-> l.from, to |-> l.to, type |-> l.type,
                     color |-> l.color, shown |-> l.shown]
             /\ l.color = c
  <2>1. CASE l \in circuitMap.links
    BY <1>3, <1>4, <2>1 DEF Legs, LinksShowDataPlane
  <2>2. CASE \E q : l = [from |-> q[1], to |-> q[2], type |-> "dev", color |-> c, shown |-> TRUE]
    BY <2>2
  <2> QED
    BY <1>5, <2>1, <2>2
<1>7. Legs(circuitMap)' /\ LinksShowDataPlane'
  BY <1>1, <1>3, <1>6 DEF Legs, LinksShowDataPlane
<1>8. PollsForAnAnswer'
  BY <1>1, <1>2, <1>5 DEF CircuitInv, PollsForAnAnswer, HasNode
<1> QED
  BY <1>1, <1>2, <1>5, <1>7, <1>8 DEF CircuitInv

LEMMA CircuitStep == CircuitInv /\ [CircuitNext]_circuitVars => CircuitInv'
<1> SUFFICES ASSUME CircuitInv, [CircuitNext]_circuitVars PROVE CircuitInv'
  OBVIOUS
<1>1. CASE CircuitChanges
  <2>1. circuit' \in States
    BY <1>1 DEF CircuitChanges, CircuitInv, States
  <2> QED
    BY <1>1, <2>1 DEF CircuitChanges, CircuitInv, LinksShowDataPlane, PollsForAnAnswer
<1>2. CASE CircuitDomains
  <2>1. doms' \in [known : BOOLEAN, missed : BOOLEAN] /\ doms'.missed = doms.missed
    BY <1>2 DEF CircuitDomains, CircuitInv
  <2> QED
    BY <1>2, <2>1 DEF CircuitDomains, CircuitInv, LinksShowDataPlane, PollsForAnAnswer
<1>3. CASE \/ \E c \in {"status-pjax", "details-pjax"} : RefreshPjax(c)
           \/ RefreshStats \/ \E r \in graph.wanted : TrafficHistory(r)
           \/ UNCHANGED circuitVars
  <2>1. UNCHANGED <<circuit, block, known, circuitMap, drawing, doms>>
    BY <1>3 DEF RefreshPjax, RefreshStats, TrafficHistory, circuitVars
  <2> QED
    BY <2>1 DEF CircuitInv, LinksShowDataPlane, PollsForAnAnswer
<1> QED
  BY <1>1, <1>2, <1>3, PjaxKeeps, DrawCircuitKeeps, StpAnsweredKeeps, DrawWhenReadyKeeps
     DEF CircuitNext

LEMMA CircuitStart == CircuitInit => CircuitInv
<1> SUFFICES ASSUME CircuitInit PROVE CircuitInv
  OBVIOUS
<1>1. IsMap(circuitMap) /\ circuitMap.links = {}
  BY FirstMap DEF CircuitInit
<1>2. drawing \in [paths : Nat, stps : [PathDevices -> Nat], polls : SUBSET Polls]
      /\ drawing.polls = {}
  <2>1. PICK one \in Nat : one = 1
    OBVIOUS
  <2>2. PICK stps \in [PathDevices -> Nat] : stps = [d \in ToSet(CircuitPath) |-> 0]
    BY DEF PathDevices
  <2>3. drawing = [paths |-> one, stps |-> stps, polls |-> {}]
    BY <2>1, <2>2, Zenon DEF CircuitInit
  <2> QED
    BY <2>3
<1>3. circuit \in States /\ block \in States /\ known = block
      /\ doms \in [known : BOOLEAN, missed : BOOLEAN]
  BY DEF CircuitInit, States
<1> QED
  BY <1>1, <1>2, <1>3 DEF CircuitInv, Legs, LinksShowDataPlane, PollsForAnAnswer

\* A leg on the map of a circuit never has another colour than the data plane that
\* the page shows (view2.js).
THEOREM LegsShowDataPlane == CircuitSpec => []LinksShowDataPlane
<1>1. CircuitInv => LinksShowDataPlane
  BY DEF CircuitInv
<1> QED
  BY <1>1, CircuitStart, CircuitStep, PTL DEF CircuitSpec

\* Who polls for the markers of a path has them, or waits for an answer that is on
\* its way, unless an answer came before the domains (view2.js).
THEOREM PollsAreAnswered == CircuitSpec => []PollsForAnAnswer
<1>1. CircuitInv => PollsForAnAnswer
  BY DEF CircuitInv
<1> QED
  BY <1>1, CircuitStart, CircuitStep, PTL DEF CircuitSpec

-----------------------------------------------------------------------------
(***************************************************************************)
(* Sums over sets.  The induction is one over the subsets of a finite set: *)
(* what does not hold for all of them fails for a smallest one.            *)
(***************************************************************************)

LEMMA SmallestSubset ==
    ASSUME NEW S, IsFiniteSet(S), NEW T, T \subseteq SUBSET S, T # {}
    PROVE  \E X \in T : \A Y \in T : Y \subseteq X => Y = X
<1>1. IsWellFoundedOn(StrictSubsetOrdering(S), SUBSET S)
  BY FS_StrictSubsetOrderingWellFounded, FS_FiniteSubsetsOfFinite
<1>2. PICK X \in T : \A Y \in T : <<Y, X>> \notin StrictSubsetOrdering(S)
  BY <1>1, WFMin, Zenon
<1>3. ASSUME NEW Y \in T, Y \subseteq X PROVE Y = X
  <2>1. Y # X => <<Y, X>> \in StrictSubsetOrdering(S)
    BY <1>3 DEF StrictSubsetOrdering
  <2> QED
    BY <2>1, <1>2
<1> QED
  BY <1>3

\* One element of a set, the first that FoldSet takes.
First(s) == CHOOSE x \in s : TRUE

LEMMA FirstIsIn == ASSUME NEW s, s # {} PROVE First(s) \in s
BY DEF First

\* f sums the weights w over the subsets of S as FoldSet does.
Sums(f, w, S) ==
    /\ DOMAIN f = SUBSET S
    /\ f = [s \in SUBSET S |-> IF s = {} THEN 0 ELSE f[s \ {First(s)}] + w[First(s)]]

Stepwise(f, w, S) ==
    \A s \in SUBSET S : s # {} => f[s] = f[s \ {First(s)}] + w[First(s)]

LEMMA SumsStepwise ==
    ASSUME NEW S, NEW w, NEW f, Sums(f, w, S)
    PROVE  f[{}] = 0 /\ Stepwise(f, w, S)
<1> DEFINE F(s) == IF s = {} THEN 0 ELSE f[s \ {First(s)}] + w[First(s)]
<1>1. f = [s \in SUBSET S |-> F(s)]
  BY DEF Sums
<1>2. \A s \in SUBSET S : f[s] = F(s)
  <2> HIDE DEF F
  <2> QED
    BY <1>1
<1> QED
  BY <1>2 DEF Stepwise

LEMMA SumsOnlyOnce ==
    ASSUME NEW S, IsFiniteSet(S), NEW R, S \subseteq R, NEW w,
           NEW f, NEW g, Sums(f, w, S), Sums(g, w, R)
    PROVE  \A s \in SUBSET S : f[s] = g[s]
<1> DEFINE T == {s \in SUBSET S : f[s] # g[s]}
<1> SUFFICES ASSUME T # {} PROVE FALSE
  OBVIOUS
<1>1. PICK X \in T : \A Y \in T : Y \subseteq X => Y = X
  <2>1. T \subseteq SUBSET S
    OBVIOUS
  <2> HIDE DEF T
  <2> QED
    BY <2>1, SmallestSubset
<1>2. X # {}
  BY SumsStepwise DEF Stepwise
<1>3. First(X) \in X /\ X \ {First(X)} \in SUBSET S /\ X \in SUBSET R
  BY <1>2, FirstIsIn
<1>4. f[X \ {First(X)}] = g[X \ {First(X)}]
  BY <1>1, <1>3
<1>5. f[X] = g[X]
  BY <1>2, <1>3, <1>4, SumsStepwise DEF Stepwise
<1> QED
  BY <1>5

LEMMA SumsRestricted ==
    ASSUME NEW S, NEW R, S \subseteq R, NEW w, NEW f, Sums(f, w, R)
    PROVE  Sums([s \in SUBSET S |-> f[s]], w, S)
<1>0. f[{}] = 0 /\ \A s \in SUBSET R : s # {} => f[s] = f[s \ {First(s)}] + w[First(s)]
  BY SumsStepwise DEF Stepwise
<1> DEFINE g == [s \in SUBSET S |-> f[s]]
           F(s) == IF s = {} THEN 0 ELSE g[s \ {First(s)}] + w[First(s)]
<1>1. \A s \in SUBSET S : g[s] = F(s)
  <2> TAKE s \in SUBSET S
  <2>1. CASE s = {}
    BY <1>0, <2>1
  <2>2. CASE s # {}
    <3>1. s \ {First(s)} \in SUBSET S /\ s \in SUBSET R
      OBVIOUS
    <3>2. f[s] = f[s \ {First(s)}] + w[First(s)]
      BY <1>0, <2>2, <3>1
    <3> QED
      BY <2>2, <3>1, <3>2
  <2> QED
    BY <2>1, <2>2
<1>2. g = [s \in SUBSET S |-> F(s)]
  <2> HIDE DEF F
  <2> QED
    BY <1>1
<1> QED
  BY <1>2 DEF Sums

LEMMA SumsExist ==
    ASSUME NEW S, IsFiniteSet(S), NEW w
    PROVE  \E f : Sums(f, w, S)
<1> DEFINE Good(s) == \E f : Sums(f, w, s)
           T == {s \in SUBSET S : ~Good(s)}
<1> SUFFICES ASSUME T # {} PROVE FALSE
  BY S \in SUBSET S
<1>1. PICK X \in T : \A Y \in T : Y \subseteq X => Y = X
  <2>1. T \subseteq SUBSET S
    OBVIOUS
  <2> HIDE DEF T
  <2> QED
    BY <2>1, SmallestSubset
<1>2. \A s \in SUBSET S : IsFiniteSet(s)
  BY FS_Subset
<1>3. \A s \in SUBSET X : s # X => Good(s)
  <2> HIDE DEF Good
  <2> QED
    BY <1>1
<1> DEFINE The(s) == CHOOSE f : Sums(f, w, s)
           G(s) == IF s = {} THEN 0
                   ELSE The(s \ {First(s)})[s \ {First(s)}] + w[First(s)]
           g == [s \in SUBSET X |-> G(s)]
<1>4. \A s \in SUBSET X : s # X => Sums(The(s), w, s)
  BY <1>3
<1>5. ASSUME NEW s \in SUBSET X, s # X
      PROVE  g[s] = The(s)[s]
  <2>0. g[s] = G(s) /\ Sums(The(s), w, s) /\ s \in SUBSET s
    BY <1>4, <1>5
  <2>1. CASE s = {}
    <3> HIDE DEF The
    <3> QED
      BY <2>0, <2>1, SumsStepwise DEF Stepwise
  <2>2. CASE s # {}
    <3> DEFINE r == s \ {First(s)}
    <3>1. First(s) \in s /\ r \in SUBSET X /\ r # X /\ r \subseteq s
      BY <2>2, FirstIsIn
    <3>2. Sums(The(r), w, r)
      BY <1>4, <3>1
    <3>3. IsFiniteSet(r)
      BY <1>2, <3>1
    <3> HIDE DEF The
    <3>4. The(r)[r] = The(s)[r]
      <4> HIDE DEF r
      <4> QED
        BY <2>0, <3>1, <3>2, <3>3, SumsOnlyOnce
    <3>5. The(s)[s] = The(s)[r] + w[First(s)]
      BY <2>0, <2>2, SumsStepwise DEF Stepwise
    <3> QED
      BY <2>0, <2>2, <3>4, <3>5
  <2> QED
    BY <2>1, <2>2
<1> DEFINE F(s) == IF s = {} THEN 0 ELSE g[s \ {First(s)}] + w[First(s)]
<1>6. \A s \in SUBSET X : g[s] = F(s)
  <2> TAKE s \in SUBSET X
  <2>1. CASE s # {}
    <3> DEFINE r == s \ {First(s)}
    <3>1. r \in SUBSET X /\ r # X
      BY <2>1, FirstIsIn
    <3>2. g[r] = The(r)[r]
      <4> HIDE DEF g, r
      <4> QED
        BY <1>5, <3>1
    <3> HIDE DEF The
    <3> QED
      BY <2>1, <3>2
  <2> HIDE DEF The
  <2> QED
    BY <2>1
<1>7. g = [s \in SUBSET X |-> F(s)]
  <2>1. DOMAIN g = SUBSET X /\ g = [s \in SUBSET X |-> g[s]]
    OBVIOUS
  <2> HIDE DEF F, g
  <2> QED
    BY <1>6, <2>1
<1>8. Sums(g, w, X)
  <2>1. DOMAIN g = SUBSET X
    OBVIOUS
  <2> HIDE DEF g
  <2> QED
    BY <1>7, <2>1 DEF Sums
<1> QED
  BY <1>1, <1>8

\* What FoldSet makes of the weights of a set.
LEMMA FoldIsASum ==
    ASSUME NEW S, IsFiniteSet(S), NEW w, NEW f, Sums(f, w, S)
    PROVE  FoldSet(LAMBDA x, n : n + w[x], 0, S) = f[S]
<1> DEFINE E(g) ==
      g = [s \in SUBSET S |->
             IF s = {} THEN 0
             ELSE g[s \ {CHOOSE x \in s : TRUE}] + w[CHOOSE x \in s : TRUE]]
<1>1. FoldSet(LAMBDA x, n : n + w[x], 0, S) = (CHOOSE g : E(g))[S]
  BY DEF FoldSet, MapThenFoldSet
<1>2. \A g : E(g) <=> Sums(g, w, S)
  BY DEF Sums, First
<1>3. E(CHOOSE g : E(g))
  <2> HIDE DEF E
  <2> QED
    BY <1>2
<1>4. Sums(CHOOSE g : E(g), w, S)
  BY <1>2, <1>3
<1> HIDE DEF E
<1>5. \A s \in SUBSET S : (CHOOSE g : E(g))[s] = f[s]
  BY <1>4, SumsOnlyOnce, S \subseteq S
<1> QED
  BY <1>1, <1>5, S \in SUBSET S

Weights(w, S) == \A x \in S : w[x] \in Nat

LEMMA SumsAreNumbers ==
    ASSUME NEW S, IsFiniteSet(S), NEW w, Weights(w, S), NEW f, Sums(f, w, S)
    PROVE  \A s \in SUBSET S : f[s] \in Nat
<1> DEFINE T == {s \in SUBSET S : f[s] \notin Nat}
<1> SUFFICES ASSUME T # {} PROVE FALSE
  OBVIOUS
<1>1. PICK X \in T : \A Y \in T : Y \subseteq X => Y = X
  <2>1. T \subseteq SUBSET S
    OBVIOUS
  <2> HIDE DEF T
  <2> QED
    BY <2>1, SmallestSubset
<1>2. f[{}] = 0 /\ Stepwise(f, w, S) /\ X # {}
  <2>1. f[{}] = 0 /\ Stepwise(f, w, S)
    BY SumsStepwise
  <2> QED
    BY <2>1
<1>3. First(X) \in X /\ X \ {First(X)} \in SUBSET S /\ X \in SUBSET S
  BY <1>2, FirstIsIn
<1>4. f[X \ {First(X)}] \in Nat
  BY <1>1, <1>3
<1>6. f[X] \notin Nat
  OBVIOUS
<1> HIDE DEF T
<1>5. f[X] = f[X \ {First(X)}] + w[First(X)]
  BY <1>2, <1>3 DEF Stepwise
<1> QED
  BY <1>3, <1>4, <1>5, <1>6 DEF Weights

\* It is the same whichever element is taken first.
InAnyOrder(f, w, S) ==
    \A s \in SUBSET S : \A x \in s : f[s] = f[s \ {x}] + w[x]

LEMMA SumsInAnyOrder ==
    ASSUME NEW S, IsFiniteSet(S), NEW w, Weights(w, S), NEW f, Sums(f, w, S)
    PROVE  InAnyOrder(f, w, S)
<1> DEFINE T == {s \in SUBSET S : \E x \in s : f[s] # f[s \ {x}] + w[x]}
<1> SUFFICES ASSUME T # {} PROVE FALSE
  BY DEF InAnyOrder
<1>1. PICK X \in T : \A Y \in T : Y \subseteq X => Y = X
  <2>1. T \subseteq SUBSET S
    OBVIOUS
  <2> HIDE DEF T
  <2> QED
    BY <2>1, SmallestSubset
<1>2. PICK x \in X : f[X] # f[X \ {x}] + w[x]
  OBVIOUS
<1> DEFINE y == First(X)
<1>3. y \in X /\ f[X] = f[X \ {y}] + w[y]
  BY SumsStepwise, FirstIsIn DEF Stepwise
<1> HIDE DEF y
<1>4. x # y
  BY <1>2, <1>3
<1>5. \A Y \in SUBSET X : Y # X => \A z \in Y : f[Y] = f[Y \ {z}] + w[z]
  BY <1>1
<1>6. f[X \ {y}] = f[(X \ {y}) \ {x}] + w[x]
  BY <1>3, <1>4, <1>5
<1>7. f[X \ {x}] = f[(X \ {x}) \ {y}] + w[y]
  BY <1>3, <1>4, <1>5
<1>8. (X \ {y}) \ {x} = (X \ {x}) \ {y}
  OBVIOUS
<1>9. f[(X \ {x}) \ {y}] \in Nat /\ w[x] \in Nat /\ w[y] \in Nat
  <2>1. (X \ {x}) \ {y} \in SUBSET S /\ x \in S /\ y \in S
    BY <1>3
  <2> QED
    BY <2>1, SumsAreNumbers DEF Weights
<1>10. f[X] = (f[(X \ {x}) \ {y}] + w[x]) + w[y]
  BY <1>3, <1>6, <1>8
<1>11. f[X \ {x}] + w[x] = (f[(X \ {x}) \ {y}] + w[y]) + w[x]
  BY <1>7
<1> QED
  BY <1>2, <1>9, <1>10, <1>11

\* Weights that grow on some of the elements make the sum grow by those.
GrowBy(u, w, t, U, S) ==
    \A x \in S : u[x] = IF x \in U THEN w[x] + t[x] ELSE w[x]

LEMMA SumsAddUp ==
    ASSUME NEW S, IsFiniteSet(S), NEW U \in SUBSET S,
           NEW w, NEW t, NEW u,
           Weights(w, S), Weights(t, S),
           GrowBy(u, w, t, U, S),
           NEW f, Sums(f, w, S), NEW g, Sums(g, t, S), NEW h, Sums(h, u, S)
    PROVE  h[S] = f[S] + g[U]
<1>0. InAnyOrder(g, t, S)
  BY SumsInAnyOrder
<1> DEFINE T == {s \in SUBSET S : h[s] # f[s] + g[s \cap U]}
<1> SUFFICES ASSUME T # {} PROVE FALSE
  <2>1. S \cap U = U /\ S \in SUBSET S
    OBVIOUS
  <2> QED
    BY <2>1
<1>1. PICK X \in T : \A Y \in T : Y \subseteq X => Y = X
  <2>1. T \subseteq SUBSET S
    OBVIOUS
  <2> HIDE DEF T
  <2> QED
    BY <2>1, SmallestSubset
<1>2. X # {}
  <2>1. f[{}] = 0 /\ g[{}] = 0 /\ h[{}] = 0 /\ {} \cap U = {}
    BY SumsStepwise DEF Stepwise
  <2>2. h[X] # f[X] + g[X \cap U]
    OBVIOUS
  <2> HIDE DEF T
  <2> QED
    BY <2>1, <2>2
<1> DEFINE x == First(X)
           Y == X \ {x}
<1>3. x \in X
  BY <1>2, FirstIsIn
<1>4. f[X] = f[Y] + w[x] /\ h[X] = h[Y] + u[x]
  BY <1>2, SumsStepwise DEF Stepwise
<1> HIDE DEF x
<1>5. h[Y] = f[Y] + g[Y \cap U]
  BY <1>1, <1>3
<1>6. w[x] \in Nat /\ t[x] \in Nat /\ f[Y] \in Nat /\ g[Y \cap U] \in Nat
  <2>1. x \in S /\ Y \in SUBSET S /\ Y \cap U \in SUBSET S
    BY <1>3
  <2> HIDE DEF Y
  <2> QED
    BY <2>1, SumsAreNumbers DEF Weights
<1>7. g[X \cap U] = IF x \in U THEN g[Y \cap U] + t[x] ELSE g[Y \cap U]
  <2>1. CASE x \in U
    <3>1. X \cap U \in SUBSET S /\ x \in X \cap U /\ (X \cap U) \ {x} = Y \cap U
      BY <1>3, <2>1
    <3> HIDE DEF Y, T
    <3>2. g[X \cap U] = g[(X \cap U) \ {x}] + t[x]
      BY <1>0, <3>1 DEF InAnyOrder
    <3> QED
      BY <2>1, <3>1, <3>2
  <2>2. CASE x \notin U
    <3>1. X \cap U = Y \cap U
      BY <2>2
    <3> HIDE DEF Y
    <3> QED
      BY <2>2, <3>1
  <2> QED
    BY <2>1, <2>2
<1>8. h[X] = f[X] + g[X \cap U]
  <2>1. x \in S
    BY <1>3
  <2> HIDE DEF Y, T
  <2> QED
    BY <2>1, <1>4, <1>5, <1>6, <1>7 DEF GrowBy
<1> QED
  BY <1>1, <1>8

-----------------------------------------------------------------------------
(***************************************************************************)
(* The page of the traffic.  The sums are those of FoldSet, which the      *)
(* status of the links adds up in one go and the property link by link.    *)
(***************************************************************************)

\* The traffic of circuits that are listed cs[c] times, and of each once.
ListedSum(cs) == FoldSet(LAMBDA c, n : n + cs[c] * TrafficOf[c], 0, Circuits)
AddedSum(over) == FoldSet(LAMBDA c, n : n + TrafficOf[c], 0, over)

Times(cs) == [c \in Circuits |-> cs[c] * TrafficOf[c]]

LEMMA ListedIsASum ==
    ASSUME NEW cs, NEW f, Sums(f, Times(cs), Circuits)
    PROVE  ListedSum(cs) = f[Circuits]
<1> DEFINE w == Times(cs)
           E(g) ==
             g = [s \in SUBSET Circuits |->
                    IF s = {} THEN 0
                    ELSE g[s \ {CHOOSE x \in s : TRUE}]
                            + cs[CHOOSE x \in s : TRUE] * TrafficOf[CHOOSE x \in s : TRUE]]
<1>1. ListedSum(cs) = (CHOOSE g : E(g))[Circuits]
  BY DEF ListedSum, FoldSet, MapThenFoldSet
<1>2. ASSUME NEW g PROVE E(g) <=> Sums(g, w, Circuits)
  <2> DEFINE A(s) == IF s = {} THEN 0
                     ELSE g[s \ {CHOOSE x \in s : TRUE}]
                            + cs[CHOOSE x \in s : TRUE] * TrafficOf[CHOOSE x \in s : TRUE]
             B(s) == IF s = {} THEN 0 ELSE g[s \ {First(s)}] + w[First(s)]
  <2>1. \A s \in SUBSET Circuits : A(s) = B(s)
    <3> TAKE s \in SUBSET Circuits
    <3>1. CASE s # {}
      <4>1. First(s) = (CHOOSE x \in s : TRUE) /\ First(s) \in Circuits
        BY <3>1, FirstIsIn DEF First
      <4> QED
        BY <4>1 DEF Times
    <3> QED
      BY <3>1
  <2>2. E(g) <=> g = [s \in SUBSET Circuits |-> A(s)]
    OBVIOUS
  <2>3. Sums(g, w, Circuits) <=> DOMAIN g = SUBSET Circuits /\ g = [s \in SUBSET Circuits |-> B(s)]
    BY DEF Sums
  <2> HIDE DEF A, B, w, E
  <2>4. [s \in SUBSET Circuits |-> A(s)] = [s \in SUBSET Circuits |-> B(s)]
    BY <2>1
  <2> QED
    BY <2>2, <2>3, <2>4
<1>3. E(CHOOSE g : E(g))
  <2>1. E(f)
    BY <1>2
  <2> HIDE DEF E
  <2> QED
    BY <2>1
<1>4. Sums(CHOOSE g : E(g), w, Circuits)
  BY <1>2, <1>3
<1> HIDE DEF E
<1>5. \A s \in SUBSET Circuits : (CHOOSE g : E(g))[s] = f[s]
  BY <1>4, SumsOnlyOnce, TrafficAssumption, Circuits \subseteq Circuits DEF Circuits
<1> QED
  BY <1>1, <1>5, Circuits \in SUBSET Circuits

LEMMA AddedIsASum ==
    ASSUME NEW over \in SUBSET Circuits, NEW f, Sums(f, TrafficOf, Circuits)
    PROVE  AddedSum(over) = f[over]
<1>1. IsFiniteSet(over)
  BY TrafficAssumption, FS_Subset DEF Circuits
<1> DEFINE g == [s \in SUBSET over |-> f[s]]
<1>2. Sums(g, TrafficOf, over)
  BY SumsRestricted
<1>3. FoldSet(LAMBDA x, n : n + TrafficOf[x], 0, over) = g[over]
  <2> HIDE DEF g
  <2> QED
    BY <1>1, <1>2, FoldIsASum
<1>4. over \in SUBSET over
  OBVIOUS
<1> QED
  BY <1>3, <1>4 DEF AddedSum

\* Every time a status is set, a link is listed the circuits over it once more
\* and given their traffic once more.
LEMMA OnceMore ==
    ASSUME NEW over \in SUBSET Circuits, NEW cs, \A c \in Circuits : cs[c] \in Nat,
           NEW more, \A c \in Circuits : more[c] = IF c \in over THEN cs[c] + 1 ELSE cs[c]
    PROVE  ListedSum(more) = ListedSum(cs) + AddedSum(over) /\ ListedSum(cs) \in Nat
<1>1. IsFiniteSet(Circuits) /\ Circuits \in SUBSET Circuits
  BY TrafficAssumption DEF Circuits
<1>2. \A c \in Circuits : TrafficOf[c] \in Nat
  BY TrafficAssumption DEF Circuits
<1>3. Weights(Times(cs), Circuits) /\ Weights(TrafficOf, Circuits)
  BY <1>2 DEF Weights, Times
<1>4. \A c \in Circuits :
        Times(more)[c] = IF c \in over THEN Times(cs)[c] + TrafficOf[c] ELSE Times(cs)[c]
  <2> TAKE c \in Circuits
  <2>1. Times(more)[c] = more[c] * TrafficOf[c] /\ Times(cs)[c] = cs[c] * TrafficOf[c]
    BY DEF Times
  <2>2. (cs[c] + 1) * TrafficOf[c] = cs[c] * TrafficOf[c] + TrafficOf[c]
    BY <1>2
  <2> QED
    BY <2>1, <2>2
<1>5. PICK f : Sums(f, Times(cs), Circuits)
  BY <1>1, SumsExist
<1>6. PICK g : Sums(g, TrafficOf, Circuits)
  BY <1>1, SumsExist
<1>7. PICK h : Sums(h, Times(more), Circuits)
  BY <1>1, SumsExist
<1>8. h[Circuits] = f[Circuits] + g[over]
  <2> DEFINE S == Circuits
             w == Times(cs)
             u == Times(more)
  <2>1. /\ IsFiniteSet(S) /\ over \in SUBSET S /\ Weights(w, S) /\ Weights(TrafficOf, S)
        /\ GrowBy(u, w, TrafficOf, over, S)
        /\ Sums(f, w, S) /\ Sums(g, TrafficOf, S) /\ Sums(h, u, S)
    BY <1>1, <1>3, <1>4, <1>5, <1>6, <1>7 DEF GrowBy
  <2> HIDE DEF S, w, u
  <2>2. h[S] = f[S] + g[over]
    BY <2>1, SumsAddUp
  <2> QED
    BY <2>2 DEF S
<1>9. f[Circuits] \in Nat
  BY <1>1, <1>3, <1>5, SumsAreNumbers
<1> QED
  BY <1>5, <1>6, <1>7, <1>8, <1>9, ListedIsASum, AddedIsASum

LEMMA ListedOnceForNone ==
    ASSUME NEW cs, \A c \in Circuits : cs[c] = 0
    PROVE  ListedSum(cs) = 0
<1>1. IsFiniteSet(Circuits) /\ Circuits \in SUBSET Circuits
  BY TrafficAssumption DEF Circuits
<1>2. PICK f : Sums(f, Times(cs), Circuits)
  BY <1>1, SumsExist
<1>3. \A c \in Circuits : Times(cs)[c] = 0
  BY TrafficAssumption DEF Times, Circuits
<1>4. \A s \in SUBSET Circuits : f[s] = 0
  <2> DEFINE T == {s \in SUBSET Circuits : f[s] # 0}
  <2> SUFFICES ASSUME T # {} PROVE FALSE
    OBVIOUS
  <2>1. PICK X \in T : \A Y \in T : Y \subseteq X => Y = X
    <3>1. T \subseteq SUBSET Circuits
      OBVIOUS
    <3> HIDE DEF T
    <3> QED
      BY <1>1, <3>1, SmallestSubset
  <2>2. f[{}] = 0 /\ Stepwise(f, Times(cs), Circuits) /\ X # {}
    <3>1. f[{}] = 0 /\ Stepwise(f, Times(cs), Circuits)
      BY <1>2, SumsStepwise
    <3> QED
      BY <3>1
  <2>3. First(X) \in X /\ X \ {First(X)} \in SUBSET Circuits
    BY <2>2, FirstIsIn
  <2>4. f[X \ {First(X)}] = 0
    BY <2>1, <2>3
  <2>5. f[X] = f[X \ {First(X)}] + Times(cs)[First(X)]
    BY <2>2 DEF Stepwise
  <2> QED
    BY <1>3, <2>3, <2>4, <2>5
<1> QED
  BY <1>1, <1>2, <1>4, ListedIsASum

TrafficInv ==
    /\ DOMAIN onLinks = Links
    /\ \A l \in Links :
          /\ \A c \in Circuits : onLinks[l].circuits[c] \in Nat
          /\ onLinks[l].traffic = ListedSum(onLinks[l].circuits)

\* However refreshes and late answers meet, the traffic of a link is that of the
\* circuits it lists.
THEOREM TrafficOfTheListed == TrafficSpec => []TrafficIsOfTheListed
<1>0. ASSUME NEW l \in Links
      PROVE /\ \A c \in Circuits : NoTraffic.circuits[c] = 0
            /\ NoTraffic.traffic = ListedSum(NoTraffic.circuits)
  <2>1. \A c \in Circuits : NoTraffic.circuits[c] = 0
    BY DEF NoTraffic
  <2>2. NoTraffic.traffic = 0
    BY DEF NoTraffic
  <2> QED
    BY <2>1, <2>2, ListedOnceForNone
<1>1. TrafficInit => TrafficInv
  BY <1>0 DEF TrafficInit, TrafficInv
<1>2. ASSUME TrafficInv, [TrafficNext]_trafficVars PROVE TrafficInv'
  <2>1. CASE UNCHANGED onLinks
    BY <1>2, <2>1 DEF TrafficInv
  <2>2. CASE onLinks' = Cleared
    <3>1. CASE Has("ports")
      <4>1. onLinks' = [l \in Links |-> NoTraffic]
        BY <2>2, <3>1 DEF Cleared
      <4> QED
        BY <1>0, <4>1 DEF TrafficInv
    <3>2. CASE ~Has("ports")
      BY <2>1, <2>2, <3>2 DEF Cleared
    <3> QED
      BY <3>1, <3>2
  <2>3. CASE onLinks' = WithCircuits(onLinks)
    <3>1. DOMAIN onLinks' = Links
      BY <2>3 DEF WithCircuits
    <3>2. ASSUME NEW l \in Links
          PROVE  /\ \A c \in Circuits : onLinks'[l].circuits[c] \in Nat
                 /\ onLinks'[l].traffic = ListedSum(onLinks'[l].circuits)
      <4> DEFINE over == {c \in Circuits : l \in Crossed[c]}
                 cs == onLinks[l].circuits
                 more == onLinks'[l].circuits
      <4>1. onLinks'[l] = [traffic |-> onLinks[l].traffic + AddedSum(over),
                           circuits |-> [c \in Circuits |->
                                           IF c \in over THEN cs[c] + 1 ELSE cs[c]]]
        BY <2>3, <3>2 DEF WithCircuits, AddedSum
      <4>2. /\ onLinks'[l].traffic = onLinks[l].traffic + AddedSum(over)
            /\ \A c \in Circuits : more[c] = IF c \in over THEN cs[c] + 1 ELSE cs[c]
        BY <4>1
      <4>3. onLinks[l].traffic = ListedSum(cs) /\ \A c \in Circuits : cs[c] \in Nat
        BY <1>2 DEF TrafficInv
      <4>4. over \in SUBSET Circuits
        OBVIOUS
      <4> HIDE DEF over, cs, more
      <4>5. ListedSum(more) = ListedSum(cs) + AddedSum(over)
        BY <4>2, <4>3, <4>4, OnceMore
      <4>6. \A c \in Circuits : more[c] \in Nat
        BY <4>2, <4>3
      <4>7. onLinks'[l].traffic = ListedSum(more)
        BY <4>2, <4>3, <4>5
      <4> QED
        BY <4>6, <4>7 DEF more
    <3> QED
      BY <3>1, <3>2 DEF TrafficInv
  <2> QED
    BY <1>2, <2>1, <2>2, <2>3
       DEF TrafficNext, trafficVars, LoadDomain, LoadDomainDevices, LoadDevicePorts, PortStatus,
           RefreshButton, Refresh, LoadCircuits, LoadCircuitTraffic, SetLinkStatus
<1>3. TrafficInv => TrafficIsOfTheListed
  <2> SUFFICES ASSUME TrafficInv, NEW l \in Links
               PROVE  onLinks[l].traffic =
                        FoldSet(LAMBDA c, n : n + onLinks[l].circuits[c] * TrafficOf[c], 0,
                                Circuits)
    BY DEF TrafficIsOfTheListed
  <2> QED
    BY DEF TrafficInv, ListedSum
<1> QED
  BY <1>1, <1>2, <1>3, PTL DEF TrafficSpec

-----------------------------------------------------------------------------
(***************************************************************************)
(* The history of a link.  Unless somebody is hasty, only the dialog of    *)
(* the link clicked last waits for anything, and the plot shows what it    *)
(* has heard, which is all but what it has still asked for.                *)
(***************************************************************************)

OnLink(l) == CircuitsOf[l] \X Stacks
Heard(series) == {<<series[i].circuit, series[i].stack>> : i \in DOMAIN series}

IsDialog(d) ==
    /\ d = [link |-> d.link, asked |-> d.asked, series |-> d.series, polls |-> d.polls]
    /\ d.link \in DOMAIN CircuitsOf /\ CircuitsOf[d.link] # {}
    /\ d.series \in Seq([circuit : CircuitsOf[d.link], stack : Stacks])
    /\ d.asked \subseteq OnLink(d.link)

IsLine(line) ==
    line = [circuit |-> line.circuit, stack |-> line.stack, thin |-> line.thin,
            color |-> line.color, oldColor |-> line.oldColor]

\* The lines are those of the series, each of them plain, or aggregated.
Drawn(lines, series, aggregate) ==
    /\ lines = [i \in DOMAIN series |-> lines[i]]
    /\ \A i \in DOMAIN series :
          /\ IsLine(lines[i])
          /\ lines[i].circuit = series[i].circuit /\ lines[i].stack = series[i].stack
          /\ IF aggregate
             THEN lines[i].oldColor = "own" /\ lines[i].thin = ~IsLast(lines, i)
             ELSE lines[i].color = "own" /\ lines[i].thin = FALSE

Follows(d, p) ==
    /\ Heard(d.series) = OnLink(d.link) \ d.asked
    /\ Len(d.series) + Cardinality(d.asked) = 2 * Cardinality(CircuitsOf[d.link])
    /\ ~d.polls => d.asked = {}
    /\ Drawn(p.lines, d.series, ~d.polls /\ p.aggregate)

HistoryInv ==
    /\ \E S : dialogs \in Seq(S)
    /\ \A k \in DOMAIN dialogs : IsDialog(dialogs[k])
    /\ plot = [aggregate |-> plot.aggregate, lines |-> plot.lines, legend |-> plot.legend]
    /\ plot.aggregate \in BOOLEAN
    /\ ~hasty /\ Len(dialogs) # 0 =>
          /\ \A k \in 1..(Len(dialogs) - 1) : ~Pending(k)
          /\ Follows(dialogs[Len(dialogs)], plot)

\* The last place of some in a sequence.
LEMMA LastPlace ==
    ASSUME NEW n \in Nat, NEW I, I \subseteq 1..n, I # {}
    PROVE  \E m \in I : \A j \in I : j <= m
<1> DEFINE From(i) == {j \in I : j >= i}
           T == {From(i) : i \in I}
<1>1. IsFiniteSet(1..n)
  BY FS_Interval
<1>2. PICK X \in T : \A Y \in T : Y \subseteq X => Y = X
  <2> DEFINE D == 1..n
  <2>1. T \subseteq SUBSET D /\ T # {}
    OBVIOUS
  <2> HIDE DEF T, D
  <2>2. IsFiniteSet(D)
    BY <1>1 DEF D
  <2> QED
    BY <2>1, <2>2, SmallestSubset
<1>3. PICK m \in I : X = From(m)
  OBVIOUS
<1>4. ASSUME NEW j \in I, j > m PROVE FALSE
  <2>1. m \in Nat /\ j \in Nat
    OBVIOUS
  <2>2. From(j) \in T /\ From(j) \subseteq From(m)
    <3>1. \A k \in I : k \in Nat /\ (k >= j => k >= m)
      BY <1>4, <2>1
    <3>2. From(j) \subseteq From(m)
      BY <3>1
    <3>3. From(j) \in T
      OBVIOUS
    <3> QED
      BY <3>2, <3>3
  <2>3. From(j) = From(m)
    BY <1>2, <1>3, <2>2
  <2>4. m \in From(m) /\ m \notin From(j)
    BY <1>4, <2>1
  <2> QED
    BY <2>3, <2>4
<1> QED
  BY <1>4

LEMMA WithOneMore ==
    ASSUME NEW S, NEW s \in Seq(S), NEW e
    PROVE  /\ Len(s) \in Nat /\ DOMAIN s = 1..Len(s)
           /\ Len(Append(s, e)) = Len(s) + 1 /\ DOMAIN Append(s, e) = 1..(Len(s) + 1)
           /\ \A i \in 1..Len(s) : Append(s, e)[i] = s[i]
           /\ Append(s, e)[Len(s) + 1] = e
           /\ Append(s, e) \in Seq(S \union {e})
<1>1. s \in Seq(S \union {e}) /\ e \in S \union {e}
  OBVIOUS
<1> QED
  BY <1>1

\* Hiding and showing the circuits.
LEMMA HiddenAreDrawn ==
    ASSUME NEW S, NEW series \in Seq(S), NEW p, Drawn(p.lines, series, FALSE)
    PROVE  Drawn(HideCircuitsOnGraphic(p).lines, series, TRUE)
<1> DEFINE n == Len(series)
           old == p.lines
           new == HideCircuitsOnGraphic(p).lines
<1>1. n \in Nat /\ DOMAIN series = 1..n
  OBVIOUS
<1>2. DOMAIN old = 1..n /\ Len(old) = n
  BY <1>1 DEF Drawn
<1> DEFINE Hid(i) == [old[i] EXCEPT
               !.thin = @ \/ ~IsLast(old, i), !.oldColor = old[i].color, !.color = "default"]
<1>3. new = [i \in DOMAIN old |-> Hid(i)]
  BY DEF HideCircuitsOnGraphic, Draw
<1> HIDE DEF new, Hid
<1>4. ASSUME NEW i \in 1..n
      PROVE  /\ IsLine(new[i])
             /\ new[i].circuit = series[i].circuit /\ new[i].stack = series[i].stack
             /\ new[i].oldColor = "own" /\ new[i].thin = ~IsLast(old, i)
  <2>1. /\ IsLine(old[i]) /\ old[i].circuit = series[i].circuit
        /\ old[i].stack = series[i].stack /\ old[i].color = "own" /\ old[i].thin = FALSE
    BY <1>1 DEF Drawn
  <2>2. new[i] = [old[i] EXCEPT
               !.thin = @ \/ ~IsLast(old, i), !.oldColor = old[i].color, !.color = "default"]
    BY <1>2, <1>3 DEF Hid
  <2>3. /\ new[i].circuit = old[i].circuit /\ new[i].stack = old[i].stack
        /\ new[i].oldColor = old[i].color
        /\ new[i].thin = (old[i].thin \/ ~IsLast(old, i))
        /\ IsLine(new[i])
    BY <2>1, <2>2 DEF IsLine
  <2> QED
    BY <2>1, <2>3
<1>5. DOMAIN new = 1..n /\ Len(new) = n /\ new = [i \in DOMAIN series |-> new[i]]
  BY <1>1, <1>2, <1>3
<1>6. \A i \in 1..n : (~IsLast(new, i)) = (~IsLast(old, i))
  <2> TAKE i \in 1..n
  <2>1. \A j \in (i + 1)..n : j \in 1..n
    BY <1>1
  <2>2. \A j \in 1..n : new[j].stack = old[j].stack
    BY <1>1, <1>4 DEF Drawn
  <2> QED
    BY <1>2, <1>5, <2>1, <2>2 DEF IsLast
<1>7. \A i \in 1..n : new[i].thin = ~IsLast(new, i)
  BY <1>4, <1>6
<1>8. Drawn(new, series, TRUE)
  BY <1>1, <1>4, <1>5, <1>7 DEF Drawn
<1> QED
  BY <1>8 DEF new

LEMMA ShownAreDrawn ==
    ASSUME NEW series, NEW p, Drawn(p.lines, series, TRUE)
    PROVE  Drawn(ShowCircuitsOnGraphic(p).lines, series, FALSE)
<1> DEFINE old == p.lines
           new == ShowCircuitsOnGraphic(p).lines
<1> DEFINE Plain(i) == [old[i] EXCEPT !.thin = FALSE, !.color = old[i].oldColor]
<1>1. new = [i \in DOMAIN old |-> Plain(i)]
  BY DEF ShowCircuitsOnGraphic, Draw
<1> HIDE DEF new, Plain
<1>2. DOMAIN old = DOMAIN series
  BY DEF Drawn
<1>3. ASSUME NEW i \in DOMAIN series
      PROVE  /\ IsLine(new[i])
             /\ new[i].circuit = series[i].circuit /\ new[i].stack = series[i].stack
             /\ new[i].color = "own" /\ new[i].thin = FALSE
  <2>1. /\ IsLine(old[i]) /\ old[i].circuit = series[i].circuit
        /\ old[i].stack = series[i].stack /\ old[i].oldColor = "own"
    BY DEF Drawn
  <2>2. new[i] = [old[i] EXCEPT !.thin = FALSE, !.color = old[i].oldColor]
    BY <1>1, <1>2 DEF Plain
  <2> QED
    BY <2>1, <2>2 DEF IsLine
<1>4. new = [i \in DOMAIN series |-> new[i]]
  BY <1>1, <1>2
<1>5. Drawn(new, series, FALSE)
  BY <1>3, <1>4 DEF Drawn
<1> QED
  BY <1>5 DEF new

LEMMA SetDataIsDrawn ==
    ASSUME NEW series
    PROVE  Drawn(SetData(series), series, FALSE)
BY DEF Drawn, SetData, IsLine

\* The last dialog comes to nothing more, and its plot shows all of its link.
LEMMA AllHeard ==
    ASSUME NEW d, IsDialog(d), NEW p, Follows(d, p), ~d.polls, p.aggregate \in BOOLEAN
    PROVE  /\ {<<l.circuit, l.stack>> : l \in ToSet(p.lines)} = OnLink(d.link)
           /\ IF p.aggregate
              THEN \A s \in Stacks :
                      Cardinality({i \in DOMAIN p.lines :
                         p.lines[i].stack = s /\ ~p.lines[i].thin}) = 1
              ELSE \A l \in ToSet(p.lines) : l.color = "own" /\ ~l.thin
<1> DEFINE lines == p.lines
           n == Len(d.series)
<1>1. n \in Nat /\ DOMAIN d.series = 1..n
  BY DEF IsDialog
<1>2. /\ Drawn(lines, d.series, p.aggregate) /\ Heard(d.series) = OnLink(d.link)
  <2>1. (~d.polls /\ p.aggregate) = p.aggregate
    OBVIOUS
  <2> QED
    BY <2>1 DEF Follows
<1>3. DOMAIN lines = 1..n /\ Len(lines) = n
  BY <1>1, <1>2 DEF Drawn
<1>4. \A i \in 1..n : lines[i].circuit = d.series[i].circuit /\ lines[i].stack = d.series[i].stack
  BY <1>1, <1>2 DEF Drawn
<1>5. {<<l.circuit, l.stack>> : l \in ToSet(lines)} = OnLink(d.link)
  <2>1. {<<l.circuit, l.stack>> : l \in ToSet(lines)}
           = {<<lines[i].circuit, lines[i].stack>> : i \in 1..n}
    BY <1>3 DEF ToSet
  <2> QED
    BY <1>1, <1>2, <1>4, <2>1 DEF Heard
<1>6. ASSUME p.aggregate, NEW s \in Stacks
      PROVE  Cardinality({i \in DOMAIN lines : lines[i].stack = s /\ ~lines[i].thin}) = 1
  <2> DEFINE I == {i \in 1..n : lines[i].stack = s}
             W == {i \in DOMAIN lines : lines[i].stack = s /\ ~lines[i].thin}
  <2>1. PICK c : c \in CircuitsOf[d.link]
    BY DEF IsDialog
  <2>2. <<c, s>> \in Heard(d.series)
    BY <1>2, <2>1 DEF OnLink
  <2>3. PICK i \in 1..n : <<c, s>> = <<d.series[i].circuit, d.series[i].stack>>
    BY <1>1, <2>2 DEF Heard
  <2>4. i \in I
    BY <1>4, <2>3
  <2>5. PICK m \in I : \A j \in I : j <= m
    BY <1>1, <2>4, LastPlace
  <2>6. \A j \in 1..n : lines[j].thin = ~IsLast(lines, j)
    BY <1>1, <1>2, <1>6 DEF Drawn
  <2>7. W = {j \in I : IsLast(lines, j)}
    BY <1>3, <2>6
  <2>8. ASSUME NEW j \in I PROVE IsLast(lines, j) <=> j = m
    <3>1. j \in Nat /\ m \in Nat /\ j <= m /\ m <= n /\ lines[m].stack = s /\ lines[j].stack = s
      BY <1>1, <2>5
    <3>2. CASE j = m
      <4>1. \A k \in (m + 1)..n : k \in 1..n /\ ~(k <= m)
        BY <1>1, <3>1
      <4>2. \A k \in (m + 1)..n : lines[k].stack # s
        BY <2>5, <4>1
      <4> QED
        BY <1>3, <3>1, <3>2, <4>2 DEF IsLast
    <3>3. CASE j # m
      <4>1. m \in (j + 1)..n
        BY <1>1, <3>1, <3>3
      <4> QED
        BY <1>3, <3>1, <3>3, <4>1 DEF IsLast
    <3> QED
      BY <3>2, <3>3
  <2>9. W = {m}
    BY <2>5, <2>7, <2>8
  <2> HIDE DEF W
  <2>10. Cardinality(W) = 1
    BY <2>9, FS_Singleton
  <2> QED
    BY <2>10 DEF W
<1>7. ASSUME ~p.aggregate PROVE \A l \in ToSet(lines) : l.color = "own" /\ ~l.thin
  BY <1>1, <1>2, <1>3, <1>7 DEF Drawn, ToSet
<1> QED
  BY <1>5, <1>6, <1>7

LEMMA HistoryPlaces ==
    ASSUME HistoryInv
    PROVE  /\ Len(dialogs) \in Nat /\ DOMAIN dialogs = 1..Len(dialogs)
           /\ dialogs = [k \in 1..Len(dialogs) |-> dialogs[k]]
<1>1. PICK S : dialogs \in Seq(S)
  BY DEF HistoryInv
<1> QED
  BY <1>1

\* Who waits is the dialog of the link clicked last.
LEMMA OnlyTheLastWaits ==
    ASSUME HistoryInv, ~hasty, NEW k \in DOMAIN dialogs, Pending(k)
    PROVE  k = Len(dialogs) /\ Follows(dialogs[k], plot)
<1>1. k \in 1..Len(dialogs) /\ Len(dialogs) \in Nat
  BY HistoryPlaces
<1>2. k \notin 1..(Len(dialogs) - 1)
  BY <1>1 DEF HistoryInv
<1> QED
  BY <1>1, <1>2 DEF HistoryInv

LEMMA LinkClickKeeps ==
    ASSUME HistoryInv, NEW l \in DOMAIN CircuitsOf, LinkClick(l)
    PROVE  HistoryInv'
<1> DEFINE d == [link |-> l, asked |-> OnLink(l), series |-> <<>>, polls |-> TRUE]
<1>1. /\ dialogs' = Append(dialogs, d) /\ CircuitsOf[l] # {}
      /\ plot' = [aggregate |-> TRUE, lines |-> <<>>, legend |-> <<>>]
      /\ hasty' = (hasty \/ \E k \in DOMAIN dialogs : Pending(k))
  BY DEF LinkClick, OnLink
<1>2. PICK S : dialogs \in Seq(S)
  BY DEF HistoryInv
<1>3. IsDialog(d)
  <2>1. /\ d.link = l /\ d.asked = OnLink(l) /\ d.series = <<>> /\ d.polls = TRUE
        /\ d = [link |-> d.link, asked |-> d.asked, series |-> d.series, polls |-> d.polls]
    OBVIOUS
  <2>2. <<>> \in Seq([circuit : CircuitsOf[l], stack : Stacks])
    OBVIOUS
  <2> HIDE DEF d
  <2> QED
    BY <1>1, <2>1, <2>2 DEF IsDialog
<1>4. Follows(d, plot')
  <2>1. Cardinality(OnLink(l)) = 2 * Cardinality(CircuitsOf[l]) /\ IsFiniteSet(CircuitsOf[l])
    <3>1. IsFiniteSet(CircuitsOf[l]) /\ Cardinality(CircuitsOf[l]) \in Nat
      BY HistoryAssumption, FS_CardinalityType
    <3>2. IsFiniteSet(Stacks) /\ Cardinality(Stacks) = 2
      <4>1. IsFiniteSet({"in"}) /\ Cardinality({"in"}) = 1
        BY FS_Singleton
      <4>2. IsFiniteSet({"in"} \cup {"out"}) /\ Cardinality({"in"} \cup {"out"}) = 2
        BY <4>1, FS_AddElement
      <4>3. Stacks = {"in"} \cup {"out"}
        BY DEF Stacks
      <4> QED
        BY <4>2, <4>3
    <3>3. Cardinality(CircuitsOf[l] \X Stacks) = Cardinality(CircuitsOf[l]) * Cardinality(Stacks)
      BY <3>1, <3>2, FS_Product
    <3> QED
      BY <3>1, <3>2, <3>3 DEF OnLink
  <2>2. d.series = <<>> /\ d.asked = OnLink(l) /\ d.link = l /\ d.polls
    OBVIOUS
  <2>3. plot'.lines = <<>> /\ DOMAIN <<>> = {} /\ Len(<<>>) = 0
    BY <1>1
  <2>4. Cardinality(CircuitsOf[l]) \in Nat
    BY <2>1, FS_CardinalityType
  <2> HIDE DEF d
  <2>5. Heard(d.series) = {} /\ Drawn(plot'.lines, d.series, ~d.polls /\ plot'.aggregate)
    BY <2>2, <2>3 DEF Heard, Drawn
  <2> QED
    BY <2>1, <2>2, <2>3, <2>4, <2>5 DEF Follows
<1> HIDE DEF d
<1>5. /\ Len(dialogs) \in Nat /\ DOMAIN dialogs = 1..Len(dialogs)
      /\ Len(dialogs') = Len(dialogs) + 1 /\ DOMAIN dialogs' = 1..(Len(dialogs) + 1)
      /\ \A i \in 1..Len(dialogs) : dialogs'[i] = dialogs[i]
      /\ dialogs'[Len(dialogs) + 1] = d
      /\ dialogs' \in Seq(S \union {d})
  BY <1>1, <1>2, WithOneMore
<1>6. \A k \in DOMAIN dialogs' : IsDialog(dialogs'[k])
  <2> TAKE k \in DOMAIN dialogs'
  <2>1. k \in 1..Len(dialogs) \/ k = Len(dialogs) + 1
    BY <1>5
  <2> QED
    BY <1>3, <1>5, <2>1 DEF HistoryInv
<1>7. ASSUME ~hasty' PROVE \A k \in 1..(Len(dialogs') - 1) : ~Pending(k)'
  <2>1. \A k \in 1..Len(dialogs) : ~Pending(k)
    BY <1>1, <1>5, <1>7
  <2> QED
    BY <1>5, <2>1 DEF Pending
<1>8. /\ plot' = [aggregate |-> plot'.aggregate, lines |-> plot'.lines, legend |-> plot'.legend]
      /\ plot'.aggregate \in BOOLEAN
  BY <1>1
<1> QED
  BY <1>4, <1>5, <1>6, <1>7, <1>8 DEF HistoryInv

\* One dialog is replaced.
LEMMA DialogReplaced ==
    ASSUME HistoryInv, NEW k \in DOMAIN dialogs, NEW d, IsDialog(d),
           dialogs' = [dialogs EXCEPT ![k] = d], UNCHANGED hasty, Pending(k),
           plot' = [aggregate |-> plot'.aggregate, lines |-> plot'.lines, legend |-> plot'.legend],
           plot'.aggregate \in BOOLEAN,
           ~hasty => Follows(d, plot')
    PROVE  HistoryInv'
<1>1. /\ Len(dialogs) \in Nat /\ DOMAIN dialogs = 1..Len(dialogs)
      /\ dialogs = [j \in 1..Len(dialogs) |-> dialogs[j]]
  BY HistoryPlaces
<1>2. PICK S : dialogs \in Seq(S)
  BY DEF HistoryInv
<1>3. /\ dialogs' \in Seq(S \union {d}) /\ Len(dialogs') = Len(dialogs)
      /\ DOMAIN dialogs' = 1..Len(dialogs)
  <2>1. dialogs \in Seq(S \union {d}) /\ d \in S \union {d}
    BY <1>2
  <2> QED
    BY <1>1, <2>1
<1>4. dialogs'[k] = d /\ \A j \in DOMAIN dialogs : j # k => dialogs'[j] = dialogs[j]
  OBVIOUS
<1>5. \A j \in DOMAIN dialogs' : IsDialog(dialogs'[j])
  BY <1>1, <1>3, <1>4 DEF HistoryInv
<1>6. ASSUME ~hasty PROVE /\ \A j \in 1..(Len(dialogs') - 1) : ~Pending(j)'
                          /\ Follows(dialogs'[Len(dialogs')], plot')
  <2>1. k = Len(dialogs)
    BY <1>6, OnlyTheLastWaits
  <2>2. \A j \in 1..(Len(dialogs) - 1) : j \in DOMAIN dialogs /\ j # k
    BY <1>1, <2>1
  <2>3. \A j \in 1..(Len(dialogs) - 1) : ~Pending(j)
    BY <1>1, <1>6, <2>1 DEF HistoryInv
  <2> QED
    BY <1>3, <1>4, <1>6, <2>1, <2>2, <2>3 DEF Pending
<1> QED
  BY <1>3, <1>5, <1>6 DEF HistoryInv

LEMMA AnswerKeeps ==
    ASSUME HistoryInv, NEW k \in DOMAIN dialogs, NEW a \in dialogs[k].asked, HistoryAnswered(k, a)
    PROVE  HistoryInv'
<1> DEFINE e == [circuit |-> a[1], stack |-> a[2]]
           old == dialogs[k]
           series == Append(old.series, e)
           Places == [circuit : CircuitsOf[old.link], stack : Stacks]
<1>0. PICK d : d = [old EXCEPT !.asked = @ \ {a}, !.series = series]
  OBVIOUS
<1>1. /\ dialogs' = [dialogs EXCEPT ![k] = d]
      /\ plot' = [plot EXCEPT !.lines = SetData(series)] /\ UNCHANGED hasty
  BY <1>0 DEF HistoryAnswered
<1>2. IsDialog(old)
  BY DEF HistoryInv
<1>3. /\ d.link = old.link /\ d.polls = old.polls /\ d.series = series
      /\ d.asked = old.asked \ {a}
      /\ d = [link |-> d.link, asked |-> d.asked, series |-> d.series, polls |-> d.polls]
  BY <1>0, <1>2 DEF IsDialog
<1>4. a \in OnLink(old.link) /\ a = <<a[1], a[2]>> /\ a[1] \in CircuitsOf[old.link] /\ a[2] \in Stacks
  <2>1. a \in CircuitsOf[old.link] \X Stacks
    BY <1>2 DEF IsDialog, OnLink
  <2> QED
    BY <2>1 DEF OnLink
<1>5. e \in Places /\ old.series \in Seq(Places) /\ Places \union {e} = Places
  <2>1. e \in Places
    BY <1>4
  <2>2. old.series \in Seq(Places)
    BY <1>2 DEF IsDialog
  <2> HIDE DEF e, Places, old
  <2> QED
    BY <2>1, <2>2
<1>6. /\ Len(old.series) \in Nat /\ DOMAIN old.series = 1..Len(old.series)
      /\ Len(series) = Len(old.series) + 1 /\ DOMAIN series = 1..(Len(old.series) + 1)
      /\ \A i \in 1..Len(old.series) : series[i] = old.series[i]
      /\ series[Len(old.series) + 1] = e
      /\ series \in Seq(Places)
  <2> HIDE DEF e, Places, old
  <2>1. series \in Seq(Places \union {e})
    BY <1>5, WithOneMore
  <2> QED
    BY <1>5, <2>1, WithOneMore
<1>7. IsDialog(d)
  BY <1>2, <1>3, <1>6 DEF IsDialog
<1>8. /\ plot' = [aggregate |-> plot'.aggregate, lines |-> plot'.lines, legend |-> plot'.legend]
      /\ plot'.aggregate = plot.aggregate /\ plot'.lines = SetData(series)
      /\ plot'.aggregate \in BOOLEAN
  BY <1>1 DEF HistoryInv
<1>9. Pending(k)
  BY DEF Pending
<1>10. ASSUME ~hasty PROVE Follows(d, plot')
  <2>1. Follows(old, plot)
    BY <1>9, <1>10, OnlyTheLastWaits
  <2>2. d.polls
    BY <1>3, <2>1 DEF Follows
  <2>3. Heard(series) = Heard(old.series) \union {a}
    <3>1. <<e.circuit, e.stack>> = a
      BY <1>4
    <3> HIDE DEF series, e, old
    <3>2. \A x \in Heard(series) : x \in Heard(old.series) \/ x = a
      <4> TAKE x \in Heard(series)
      <4>1. PICK i \in 1..(Len(old.series) + 1) : x = <<series[i].circuit, series[i].stack>>
        BY <1>6 DEF Heard
      <4>2. i \in 1..Len(old.series) \/ i = Len(old.series) + 1
        BY <1>6
      <4> QED
        BY <1>6, <3>1, <4>1, <4>2 DEF Heard
    <3>3. a \in Heard(series)
      <4>1. Len(old.series) + 1 \in DOMAIN series
        BY <1>6
      <4> QED
        BY <1>6, <3>1, <4>1 DEF Heard
    <3>4. \A x \in Heard(old.series) : x \in Heard(series)
      <4>1. \A i \in 1..Len(old.series) : i \in 1..(Len(old.series) + 1)
        BY <1>6
      <4> QED
        BY <1>6, <4>1 DEF Heard
    <3> QED
      BY <3>2, <3>3, <3>4
  <2>4. Heard(d.series) = OnLink(d.link) \ d.asked
    <3>1. Heard(old.series) = OnLink(old.link) \ old.asked
      BY <2>1 DEF Follows
    <3> QED
      BY <1>3, <1>4, <2>3, <3>1
  <2>5. Cardinality(old.asked) \in Nat /\ Cardinality(d.asked) = Cardinality(old.asked) - 1
    <3>1. IsFiniteSet(CircuitsOf[old.link])
      BY <1>2, HistoryAssumption DEF IsDialog
    <3>2. IsFiniteSet({"in"} \cup {"out"}) /\ Stacks = {"in"} \cup {"out"}
      BY FS_Singleton, FS_AddElement DEF Stacks
    <3>3. IsFiniteSet(OnLink(old.link))
      BY <3>1, <3>2, FS_Product DEF OnLink
    <3>4. IsFiniteSet(old.asked)
      BY <1>2, <3>3, FS_Subset DEF IsDialog
    <3> QED
      BY <1>3, <3>4, FS_CardinalityType, FS_RemoveElement
  <2>6. Len(d.series) + Cardinality(d.asked) = 2 * Cardinality(CircuitsOf[d.link])
    <3>1. Len(old.series) + Cardinality(old.asked) = 2 * Cardinality(CircuitsOf[old.link])
      BY <2>1 DEF Follows
    <3> HIDE DEF series, old
    <3>2. Len(d.series) = Len(old.series) + 1
      BY <1>3, <1>6
    <3> QED
      BY <1>3, <1>6, <2>5, <3>1, <3>2
  <2>7. Drawn(plot'.lines, d.series, FALSE)
    BY <1>3, <1>8, SetDataIsDrawn
  <2> QED
    BY <2>2, <2>4, <2>6, <2>7 DEF Follows
<1> QED
  BY <1>1, <1>7, <1>8, <1>9, <1>10, DialogReplaced

LEMMA ShowGraphicKeeps ==
    ASSUME HistoryInv, NEW k \in DOMAIN dialogs, ShowGraphic(k)
    PROVE  HistoryInv'
<1> DEFINE old == dialogs[k]
<1>0. PICK d : d = [old EXCEPT !.polls = FALSE]
  OBVIOUS
<1>1. /\ dialogs' = [dialogs EXCEPT ![k] = d] /\ old.polls
      /\ Len(old.series) = 2 * Cardinality(CircuitsOf[old.link])
      /\ plot' = HideCircuitsOnGraphic(plot) /\ UNCHANGED hasty
  BY <1>0 DEF ShowGraphic
<1>2. IsDialog(old)
  BY DEF HistoryInv
<1>3. /\ d.link = old.link /\ d.polls = FALSE /\ d.series = old.series /\ d.asked = old.asked
      /\ d = [link |-> d.link, asked |-> d.asked, series |-> d.series, polls |-> d.polls]
  BY <1>0, <1>2 DEF IsDialog
<1>4. IsDialog(d)
  BY <1>2, <1>3 DEF IsDialog
<1>5. /\ plot' = [aggregate |-> plot'.aggregate, lines |-> plot'.lines, legend |-> plot'.legend]
      /\ plot'.aggregate = TRUE
  BY <1>1 DEF HideCircuitsOnGraphic, Draw
<1>6. Pending(k)
  BY <1>1 DEF Pending
<1>7. ASSUME ~hasty PROVE Follows(d, plot')
  <2>1. Follows(old, plot)
    BY <1>6, <1>7, OnlyTheLastWaits
  <2>2. old.asked = {}
    <3>1. IsFiniteSet(CircuitsOf[old.link])
      BY <1>2, HistoryAssumption DEF IsDialog
    <3>2. IsFiniteSet({"in"} \cup {"out"}) /\ Stacks = {"in"} \cup {"out"}
      BY FS_Singleton, FS_AddElement DEF Stacks
    <3>3. IsFiniteSet(OnLink(old.link))
      BY <3>1, <3>2, FS_Product DEF OnLink
    <3>4. IsFiniteSet(old.asked)
      BY <1>2, <3>3, FS_Subset DEF IsDialog
    <3>5. Len(old.series) + Cardinality(old.asked) = Len(old.series)
      BY <1>1, <2>1 DEF Follows
    <3>6. Cardinality(old.asked) \in Nat /\ Len(old.series) \in Nat
      BY <1>2, <3>4, FS_CardinalityType DEF IsDialog
    <3>7. Cardinality(old.asked) = 0
      BY <3>5, <3>6
    <3> QED
      BY <3>4, <3>7, FS_EmptySet
  <2>3. Drawn(plot.lines, old.series, FALSE)
    <3>1. (~old.polls /\ plot.aggregate) = FALSE
      BY <1>1
    <3> QED
      BY <2>1, <3>1 DEF Follows
  <2>4. Drawn(plot'.lines, d.series, TRUE)
    <3>1. old.series \in Seq([circuit : CircuitsOf[old.link], stack : Stacks])
      BY <1>2 DEF IsDialog
    <3> QED
      BY <1>1, <1>3, <2>3, <3>1, HiddenAreDrawn
  <2> QED
    BY <1>1, <1>3, <1>5, <2>1, <2>2, <2>4 DEF Follows
<1> QED
  BY <1>1, <1>4, <1>5, <1>6, <1>7, DialogReplaced

LEMMA SwitchKeeps ==
    ASSUME HistoryInv, GraphicModeSwitch
    PROVE  HistoryInv'
<1>1. /\ Len(dialogs) \in Nat /\ DOMAIN dialogs = 1..Len(dialogs)
      /\ dialogs # <<>> /\ UNCHANGED dialogs
      /\ plot' = IF plot.aggregate THEN ShowCircuitsOnGraphic(plot)
                 ELSE HideCircuitsOnGraphic(plot)
      /\ hasty' = (hasty \/ \E k \in DOMAIN dialogs : Pending(k))
  BY HistoryPlaces DEF GraphicModeSwitch
<1>2. Len(dialogs) # 0
  BY <1>1 DEF HistoryInv
<1>3. /\ plot' = [aggregate |-> plot'.aggregate, lines |-> plot'.lines, legend |-> plot'.legend]
      /\ plot'.aggregate = ~plot.aggregate
  BY <1>1 DEF HideCircuitsOnGraphic, ShowCircuitsOnGraphic, Draw, HistoryInv
<1>4. ASSUME ~hasty' PROVE /\ \A k \in 1..(Len(dialogs) - 1) : ~Pending(k)
                           /\ Follows(dialogs[Len(dialogs)], plot')
  <2> DEFINE d == dialogs[Len(dialogs)]
  <2>1. ~hasty /\ \A k \in DOMAIN dialogs : ~Pending(k)
    BY <1>1, <1>4
  <2>2. Len(dialogs) \in DOMAIN dialogs /\ \A k \in 1..(Len(dialogs) - 1) : k \in DOMAIN dialogs
    BY <1>1, <1>2
  <2>3. ~d.polls /\ Follows(d, plot) /\ IsDialog(d)
    BY <1>2, <2>1, <2>2 DEF Pending, HistoryInv
  <2>4. Drawn(plot'.lines, d.series, plot'.aggregate)
    <3>1. Drawn(plot.lines, d.series, plot.aggregate)
      <4>1. (~d.polls /\ plot.aggregate) = plot.aggregate
        BY <2>3 DEF HistoryInv
      <4> QED
        BY <2>3, <4>1 DEF Follows
    <3>2. d.series \in Seq([circuit : CircuitsOf[d.link], stack : Stacks])
      BY <2>3 DEF IsDialog
    <3> HIDE DEF d
    <3>3. CASE plot.aggregate
      <4>1. plot.aggregate = TRUE /\ plot'.aggregate = FALSE /\ plot' = ShowCircuitsOnGraphic(plot)
        BY <1>1, <1>3, <3>3 DEF HistoryInv
      <4> QED
        BY <3>1, <4>1, ShownAreDrawn
    <3>4. CASE ~plot.aggregate
      <4>1. plot.aggregate = FALSE /\ plot'.aggregate = TRUE /\ plot' = HideCircuitsOnGraphic(plot)
        BY <1>1, <1>3, <3>4 DEF HistoryInv
      <4> QED
        BY <3>1, <3>2, <4>1, HiddenAreDrawn
    <3> QED
      BY <3>3, <3>4
  <2>5. Follows(d, plot')
    <3>1. (~d.polls /\ plot'.aggregate) = plot'.aggregate
      BY <1>3, <2>3
    <3> QED
      BY <2>3, <2>4, <3>1 DEF Follows
  <2> QED
    BY <2>1, <2>2, <2>5
<1> QED
  BY <1>1, <1>3, <1>4 DEF HistoryInv, Pending

\* The dialog of the link clicked last shows its circuits, once they are there.
THEOREM PlotIsOfTheLink == HistorySpec => []HistoryIsOfTheLink
<1>1. HistoryInit => HistoryInv
  <2> SUFFICES ASSUME HistoryInit PROVE HistoryInv
    OBVIOUS
  <2>1. dialogs = <<>> /\ Len(<<>>) = 0 /\ DOMAIN <<>> = {} /\ <<>> \in Seq({})
    BY DEF HistoryInit
  <2>2. /\ plot = [aggregate |-> plot.aggregate, lines |-> plot.lines, legend |-> plot.legend]
        /\ plot.aggregate \in BOOLEAN
    BY DEF HistoryInit
  <2> QED
    BY <2>1, <2>2 DEF HistoryInv
<1>2. HistoryInv /\ [HistoryNext]_historyVars => HistoryInv'
  <2> SUFFICES ASSUME HistoryInv, [HistoryNext]_historyVars PROVE HistoryInv'
    OBVIOUS
  <2>1. CASE UNCHANGED historyVars
    BY <2>1 DEF historyVars, HistoryInv, Pending
  <2> QED
    BY <2>1, LinkClickKeeps, AnswerKeeps, ShowGraphicKeeps, SwitchKeeps DEF HistoryNext
<1>3. HistoryInv => HistoryIsOfTheLink
  <2> DEFINE d == dialogs[Len(dialogs)]
  <2> SUFFICES ASSUME HistoryInv, Len(dialogs) # 0, ~hasty, ~d.polls
               PROVE  /\ {<<l.circuit, l.stack>> : l \in ToSet(plot.lines)}
                            = CircuitsOf[d.link] \X Stacks
                      /\ IF plot.aggregate
                         THEN \A s \in Stacks :
                                 Cardinality({i \in DOMAIN plot.lines :
                                    plot.lines[i].stack = s /\ ~plot.lines[i].thin}) = 1
                         ELSE \A l \in ToSet(plot.lines) : l.color = "own" /\ ~l.thin
    BY DEF HistoryIsOfTheLink
  <2>1. Len(dialogs) \in DOMAIN dialogs
    BY HistoryPlaces
  <2>2. IsDialog(d) /\ Follows(d, plot) /\ plot.aggregate \in BOOLEAN
    BY <2>1 DEF HistoryInv
  <2> HIDE DEF d
  <2> QED
    BY <2>2, AllHeard DEF OnLink
<1> QED
  BY <1>1, <1>2, <1>3, PTL DEF HistorySpec

-----------------------------------------------------------------------------
(***************************************************************************)
(* The discovery.  As long as nobody else has changed the topology, a task *)
(* can still give what is not there: the change that creates it is not     *)
(* applied, and of a request that applies all changes its turn is to come. *)
(***************************************************************************)

Rank == [domain |-> 1, network |-> 2, device |-> 3, biport |-> 4]
Items == DOMAIN Rank

WellMade(c) ==
    \/ c.item = "domain"
    \/ c.item = "network" /\ c.of \in Nets
    \/ c.item = "device" /\ c.type = "CREATE" /\ c.of \in Nodes
    \/ c.item = "biport" /\ c.type = "CREATE" /\ c.of \in BiPorts /\ c.with \in Nodes
    \/ c.item \in {"device", "biport"} /\ c.type = "DELETE"

IsTask(t) ==
    /\ t = [phase |-> t.phase, changes |-> t.changes, quiet |-> t.quiet,
            settled |-> t.settled, of |-> t.of, moved |-> t.moved]
    /\ t.changes = [c \in DOMAIN t.changes |-> t.changes[c]]
    /\ \A c \in DOMAIN t.changes : t.changes[c] \in BOOLEAN
    /\ \A c \in DOMAIN t.changes : WellMade(c)
    /\ t.phase = "SUCCESS" \/ DOMAIN t.changes = {}

\* Of what the task t was told, x is not in the database db.
Lacks(db, t, item, x) ==
    \/ item = "domain" /\ x = None /\ ~db.domain
    \/ item = "network" /\ x \in t.of.nets \ db.nets
    \/ item = "device" /\ x \notin db.devs /\ \E p \in DOMAIN t.of.ports : t.of.ports[p] = x
    \/ item = "biport" /\ x \in DOMAIN t.of.ports \ t.moved /\ x \notin DOMAIN db.ports

Creates(c, item, x) == c.item = item /\ c.type = "CREATE" /\ c.of = x

\* The change c takes nothing away that d describes.
Harmless(c, d) ==
    \/ c.item \in {"domain", "network"}
    \/ c.item = "device" /\ c.type = "CREATE"
    \/ c.item = "device" /\ c.type = "DELETE" /\ \A p \in DOMAIN d.ports : d.ports[p] # c.of
    \/ c.item = "biport" /\ c.type = "CREATE" /\ c.of \in DOMAIN d.ports /\ c.with = d.ports[c.of]
    \/ c.item = "biport" /\ c.type = "DELETE" /\ c.of \notin DOMAIN d.ports

\* Nobody has overtaken what the task t has found.
Live(t) == t.quiet /\ t.of.nets # {}

Finds(db, t) ==
    /\ t.of \in Descriptions
    /\ \A c \in DOMAIN t.changes : Harmless(c, t.of)
    /\ \A p \in DOMAIN t.of.ports \ t.moved :
          p \in DOMAIN db.ports => db.ports[p] = t.of.ports[p]
    /\ \A item \in Items : \A x : Lacks(db, t, item, x) =>
          /\ ~t.settled
          /\ \E c \in DOMAIN t.changes : Creates(c, item, x) /\ ~t.changes[c]

\* The types the request a has come to.
Turn(a) == 4 - Len(a.types)

IsRequest(a) ==
    /\ a = [task |-> a.task, all |-> a.all, types |-> a.types, batch |-> a.batch]
    /\ a.types \in Seq(Items) /\ Len(a.types) <= 4
    /\ \A i \in 1..Len(a.types) : Rank[a.types[i]] = Turn(a) + i
    /\ a.task \in DOMAIN tasks /\ tasks[a.task].phase = "SUCCESS"
    /\ a.batch \subseteq DOMAIN tasks[a.task].changes

\* What is not there then comes with the batch, or its turn is to come.
Gives(db, t, a) ==
    /\ \A c \in a.batch : Rank[c.item] = Turn(a)
    /\ \A item \in Items : \A x : Lacks(db, t, item, x) =>
          \/ Rank[item] > Turn(a)
          \/ \E c \in a.batch : Creates(c, item, x)

DiscoveryInv ==
    /\ stored \in Databases
    /\ \E S : tasks \in Seq(S)
    /\ \A k \in DOMAIN tasks : IsTask(tasks[k])
    /\ \A k \in DOMAIN tasks : Live(tasks[k]) => Finds(stored, tasks[k])
    /\ \A a \in applying : IsRequest(a)
    /\ \A a \in applying :
          a.all /\ Live(tasks[a.task]) => Gives(stored, tasks[a.task], a)

\* What applying the change c makes of the database db.
Made(c, db, new) ==
    /\ new \in Databases
    /\ new.domain <=> db.domain \/ c.item = "domain"
    /\ \A u : u \in new.nets <=> u \in db.nets \/ (c.item = "network" /\ u = c.of)
    /\ \A n : n \in new.devs <=>
          \/ n \in db.devs /\ ~(c.item = "device" /\ c.type = "DELETE" /\ n = c.of)
          \/ c.item = "device" /\ c.type = "CREATE" /\ n = c.of
    /\ \A p : p \in DOMAIN new.ports <=>
          \/ /\ p \in DOMAIN db.ports
             /\ ~(c.item = "biport" /\ c.type = "DELETE" /\ p = c.of)
             /\ ~(c.item = "device" /\ c.type = "DELETE" /\ db.ports[p] = c.of)
          \/ c.item = "biport" /\ c.type = "CREATE" /\ p = c.of
    /\ \A p \in DOMAIN new.ports :
          new.ports[p] = IF c.item = "biport" /\ c.type = "CREATE" /\ p = c.of THEN c.with
                         ELSE db.ports[p]

\* Why it fails.
Fails(c, db) ==
    /\ c.item = "domain" => db.domain
    /\ c.item = "network" => ~db.domain \/ c.of \in db.nets
    /\ c.item = "device" /\ c.type = "CREATE" => ~db.domain \/ c.of \in db.devs
    /\ c.item = "biport" /\ c.type = "CREATE" =>
          c.with \notin db.devs \/ c.of \in DOMAIN db.ports

LEMMA PlacementsAre ==
    ASSUME NEW f, f = [p \in DOMAIN f |-> f[p]], DOMAIN f \subseteq BiPorts,
           \A p \in DOMAIN f : f[p] \in Nodes
    PROVE  f \in Placements
<1>1. f \in [DOMAIN f -> Nodes] /\ DOMAIN f \in SUBSET DOMAIN NetOf
  BY DEF BiPorts
<1> QED
  BY <1>1 DEF Placements

LEMMA PlacementsMap ==
    ASSUME NEW f \in Placements
    PROVE  /\ f = [p \in DOMAIN f |-> f[p]]
           /\ DOMAIN f \subseteq BiPorts
           /\ \A p \in DOMAIN f : f[p] \in Nodes
<1>1. PICK P \in SUBSET DOMAIN NetOf : f \in [P -> Nodes]
  BY DEF Placements
<1> QED
  BY <1>1 DEF BiPorts

LEMMA AppliedOrNot ==
    ASSUME NEW db \in Databases, NEW c, WellMade(c), NEW new, new = Applied(c, db)
    PROVE  \/ new = None /\ Fails(c, db)
           \/ new # None /\ Made(c, db, new)
<1> USE PlacementsMap, PlacementsAre, DiscoveryAssumption
<1>0. db.ports \in Placements /\ db.devs \subseteq Nodes /\ db.nets \subseteq Nets
      /\ db.domain \in BOOLEAN
  BY DEF Databases
<1>1. CASE c.item = "domain"
  <2>1. CASE db.domain
    BY <1>1, <2>1 DEF Applied, Fails
  <2>2. CASE ~db.domain
    <3>1. new = [db EXCEPT !.domain = TRUE]
      BY <1>1, <2>2 DEF Applied
    <3>2. new \in Databases /\ new.domain /\ new.nets = db.nets /\ new.devs = db.devs
          /\ new.ports = db.ports
      BY <3>1 DEF Databases
    <3> QED
      BY <1>1, <3>2 DEF Made
  <2> QED
    BY <2>1, <2>2
<1>2. CASE c.item = "network"
  <2>1. CASE ~(db.domain /\ c.of \notin db.nets)
    BY <1>2, <2>1 DEF Applied, Fails
  <2>2. CASE db.domain /\ c.of \notin db.nets
    <3>1. new = [db EXCEPT !.nets = @ \union {c.of}]
      BY <1>2, <2>2 DEF Applied
    <3>2. new \in Databases /\ new.domain = db.domain /\ new.nets = db.nets \union {c.of}
          /\ new.devs = db.devs /\ new.ports = db.ports
      BY <1>2, <3>1 DEF Databases, WellMade
    <3> QED
      BY <1>2, <3>2 DEF Made
  <2> QED
    BY <2>1, <2>2
<1>3. CASE c.item = "device" /\ c.type = "CREATE"
  <2>1. CASE ~(db.domain /\ c.of \notin db.devs)
    BY <1>3, <2>1 DEF Applied, Fails
  <2>2. CASE db.domain /\ c.of \notin db.devs
    <3>1. new = [db EXCEPT !.devs = @ \union {c.of}]
      BY <1>3, <2>2 DEF Applied
    <3>2. new \in Databases /\ new.domain = db.domain /\ new.nets = db.nets
          /\ new.devs = db.devs \union {c.of} /\ new.ports = db.ports
      BY <1>3, <3>1 DEF Databases, WellMade
    <3> QED
      BY <1>3, <3>2 DEF Made
  <2> QED
    BY <2>1, <2>2
<1>4. CASE c.item = "device" /\ c.type = "DELETE"
  <2> DEFINE gone == {p \in DOMAIN db.ports : db.ports[p] = c.of}
  <2>1. PICK ports : ports = Without(db.ports, gone)
    OBVIOUS
  <2>2. ports \in Placements /\ DOMAIN ports = DOMAIN db.ports \ gone
        /\ \A p \in DOMAIN ports : ports[p] = db.ports[p]
    BY <1>0, <2>1 DEF Without
  <2>3. CASE ~(c.of \in db.devs /\ c.with = gen[c.of])
    BY <1>4, <2>3 DEF Applied, Fails
  <2>4. CASE c.of \in db.devs /\ c.with = gen[c.of]
    <3>1. PICK devs \in SUBSET Nodes : devs = db.devs \ {c.of}
      BY <1>0
    <3>2. new = [db EXCEPT !.devs = devs, !.ports = ports]
      BY <1>4, <2>4, <2>1, <3>1 DEF Applied
    <3>3. new \in Databases /\ new.domain = db.domain /\ new.nets = db.nets
          /\ new.devs = devs /\ new.ports = ports
      BY <2>2, <3>2 DEF Databases
    <3> QED
      BY <1>4, <2>2, <3>1, <3>3 DEF Made
  <2> QED
    BY <2>3, <2>4
<1>5. CASE c.item = "biport" /\ c.type = "CREATE"
  <2>1. PICK ports : ports = With(db.ports, c.of, c.with)
    OBVIOUS
  <2>2. ports \in Placements /\ DOMAIN ports = DOMAIN db.ports \union {c.of}
        /\ \A p \in DOMAIN ports : ports[p] = IF p = c.of THEN c.with ELSE db.ports[p]
    BY <1>0, <1>5, <2>1 DEF With, WellMade
  <2>3. CASE ~(c.with \in db.devs /\ c.of \notin DOMAIN db.ports)
    BY <1>5, <2>3 DEF Applied, Fails
  <2>4. CASE c.with \in db.devs /\ c.of \notin DOMAIN db.ports
    <3>1. new = [db EXCEPT !.ports = ports]
      BY <1>5, <2>4, <2>1 DEF Applied
    <3>2. new \in Databases /\ new.domain = db.domain /\ new.nets = db.nets
          /\ new.devs = db.devs /\ new.ports = ports
      BY <2>2, <3>1 DEF Databases
    <3> QED
      BY <1>5, <2>2, <3>2 DEF Made
  <2> QED
    BY <2>3, <2>4
<1>6. CASE c.item = "biport" /\ c.type = "DELETE"
  <2>1. PICK ports : ports = Without(db.ports, {c.of})
    OBVIOUS
  <2>2. ports \in Placements /\ DOMAIN ports = DOMAIN db.ports \ {c.of}
        /\ \A p \in DOMAIN ports : ports[p] = db.ports[p]
    BY <1>0, <2>1 DEF Without
  <2>3. CASE ~(c.of \in DOMAIN db.ports /\ c.with = gen[c.of])
    BY <1>6, <2>3 DEF Applied, Fails
  <2>4. CASE c.of \in DOMAIN db.ports /\ c.with = gen[c.of]
    <3>1. new = [db EXCEPT !.ports = ports]
      BY <1>6, <2>4, <2>1 DEF Applied
    <3>2. new \in Databases /\ new.domain = db.domain /\ new.nets = db.nets
          /\ new.devs = db.devs /\ new.ports = ports
      BY <2>2, <3>1 DEF Databases
    <3> QED
      BY <1>6, <2>2, <3>2 DEF Made
  <2> QED
    BY <2>3, <2>4
<1> QED
  BY <1>1, <1>2, <1>3, <1>4, <1>5, <1>6 DEF WellMade

\* Where the changes of a search come from.
LEMMA FoundBy ==
    ASSUME NEW d, NEW c \in SearchChanges(d)
    PROVE  \/ c \in BuildDomainChanges \/ c \in ImportNetworks(d)
           \/ c \in InvalidDevices(d)
           \/ \E u \in d.nets : c \in ImportDevices(d, u)
<1> DEFINE inNets == UNION {ImportDevices(d, u) : u \in d.nets}
<1>1. SearchChanges(d) =
         IF d.nets = {} THEN {}
         ELSE BuildDomainChanges \union ImportNetworks(d) \union InvalidDevices(d)
                 \union inNets
  BY DEF SearchChanges
<1>2. ASSUME c \in inNets PROVE \E u \in d.nets : c \in ImportDevices(d, u)
  <2>1. PICK C \in {ImportDevices(d, u) : u \in d.nets} : c \in C
    BY <1>2
  <2> QED
    BY <2>1
<1> HIDE DEF inNets
<1> QED
  BY <1>1, <1>2

\* Applying what a task has found takes nothing away that it was told of.
LEMMA AppliedHarmless ==
    ASSUME NEW db, NEW new, NEW t, NEW c \in DOMAIN t.changes,
           Finds(db, t), Made(c, db, new)
    PROVE  /\ \A item, x : Lacks(new, t, item, x) => Lacks(db, t, item, x)
           /\ \A item, x : Creates(c, item, x) => ~Lacks(new, t, item, x)
           /\ \A p \in DOMAIN t.of.ports \ t.moved :
                 p \in DOMAIN new.ports => new.ports[p] = t.of.ports[p]
<1>1. Harmless(c, t.of)
  BY DEF Finds
<1>2. \A p \in DOMAIN t.of.ports \ t.moved :
         p \in DOMAIN db.ports => db.ports[p] = t.of.ports[p]
  BY DEF Finds
<1>3. ASSUME NEW item, NEW x, Lacks(new, t, item, x) PROVE Lacks(db, t, item, x)
  <2>1. CASE item = "domain"
    BY <1>3, <2>1 DEF Lacks, Made
  <2>2. CASE item = "network"
    BY <1>3, <2>2 DEF Lacks, Made
  <2>3. CASE item = "device"
    BY <1>1, <1>3, <2>3 DEF Lacks, Made, Harmless
  <2>4. CASE item = "biport"
    BY <1>1, <1>2, <1>3, <2>4 DEF Lacks, Made, Harmless
  <2> QED
    BY <1>3, <2>1, <2>2, <2>3, <2>4 DEF Lacks
<1>4. ASSUME NEW item, NEW x, Creates(c, item, x) PROVE ~Lacks(new, t, item, x)
  BY <1>4 DEF Lacks, Made, Creates
<1>5. ASSUME NEW p \in DOMAIN t.of.ports \ t.moved, p \in DOMAIN new.ports
      PROVE  new.ports[p] = t.of.ports[p]
  BY <1>1, <1>2, <1>5 DEF Made, Harmless
<1> QED
  BY <1>3, <1>4, <1>5

\* A task finds what it did as long as nothing it was told of is taken away and
\* what is marked as applied is there.
LEMMA FindsStill ==
    ASSUME NEW db, NEW new, NEW t, NEW u, Finds(db, t),
           u.of = t.of, u.moved = t.moved, DOMAIN u.changes = DOMAIN t.changes,
           \A item, x : Lacks(new, t, item, x) => Lacks(db, t, item, x),
           \A p \in DOMAIN t.of.ports \ t.moved :
              p \in DOMAIN new.ports => new.ports[p] = t.of.ports[p],
           \A c \in DOMAIN t.changes : \A item, x :
              Creates(c, item, x) /\ Lacks(new, t, item, x) /\ ~t.changes[c] => ~u.changes[c],
           \A item \in Items : \A x : Lacks(new, t, item, x) /\ u.settled => t.settled
    PROVE  Finds(new, u)
<1>1. \A item, x : Lacks(new, u, item, x) <=> Lacks(new, t, item, x)
  BY DEF Lacks
<1> QED
  BY <1>1 DEF Finds

\* What a search finds creates what is not there.
LEMMA SearchFinds ==
    ASSUME stored \in Databases, NEW d \in Descriptions, d.nets # {}, NEW t,
           t.of = d, ~t.settled,
           t.moved = {p \in DOMAIN d.ports \intersect DOMAIN stored.ports :
                         d.ports[p] # stored.ports[p]},
           DOMAIN t.changes = SearchChanges(d),
           \A c \in SearchChanges(d) : t.changes[c] = FALSE
    PROVE  Finds(stored, t)
<1>0. /\ d.ports \in Placements /\ d.nets \subseteq Nets
      /\ \A p \in DOMAIN d.ports : NetOf[p] \in d.nets
  BY DEF Descriptions
<1>1. ASSUME NEW c \in SearchChanges(d) PROVE Harmless(c, d)
  <2>1. CASE c \in BuildDomainChanges \/ c \in ImportNetworks(d)
    BY <2>1 DEF BuildDomainChanges, ImportNetworks, Harmless, Change
  <2>2. CASE c \in InvalidDevices(d)
    <3>1. PICK n \in stored.devs \ UNION {DevicesIn(d.ports, u) : u \in Nets} :
             c = Change("device", "DELETE", n, gen[n])
      BY <2>2 DEF InvalidDevices
    <3>2. ASSUME NEW p \in DOMAIN d.ports PROVE d.ports[p] # n
      <4>1. NetOf[p] \in Nets /\ d.ports[p] \in DevicesIn(d.ports, NetOf[p])
        BY <1>0 DEF DevicesIn, PortsIn
      <4> QED
        BY <3>1, <4>1
    <3> QED
      BY <3>1, <3>2 DEF Harmless, Change
  <2>3. ASSUME NEW u \in d.nets, c \in ImportDevices(d, u) PROVE Harmless(c, d)
    <3>1. \/ c.item = "device" /\ c.type = "CREATE"
          \/ \E p \in PortsIn(d.ports, u) : c = Change("biport", "CREATE", p, d.ports[p])
          \/ \E p \in PortsIn(stored.ports, u) \ PortsIn(d.ports, u) :
                c = Change("biport", "DELETE", p, gen[p])
      BY <2>3 DEF ImportDevices, Change
    <3> QED
      BY <3>1 DEF Harmless, Change, PortsIn
  <2> QED
    BY <2>1, <2>2, <2>3, FoundBy
<1>2. ASSUME NEW item \in Items, NEW x, Lacks(stored, t, item, x)
      PROVE  \E c \in SearchChanges(d) : Creates(c, item, x)
  <2>1. CASE item = "domain"
    <3>1. Change("domain", "CREATE", None, None) \in SearchChanges(d) /\ x = None
      BY <1>2, <2>1 DEF Lacks, SearchChanges, BuildDomainChanges
    <3> QED
      BY <2>1, <3>1 DEF Creates, Change
  <2>2. CASE item = "network"
    <3>1. Change("network", "CREATE", x, None) \in SearchChanges(d)
      BY <1>2, <2>2 DEF Lacks, SearchChanges, ImportNetworks
    <3> QED
      BY <2>2, <3>1 DEF Creates, Change
  <2>3. CASE item = "device"
    <3>1. PICK p \in DOMAIN d.ports : d.ports[p] = x /\ x \notin stored.devs
      BY <1>2, <2>3 DEF Lacks
    <3>2. x \in DevicesIn(d.ports, NetOf[p]) /\ PortsIn(d.ports, NetOf[p]) # {}
          /\ NetOf[p] \in d.nets
      BY <1>0, <3>1 DEF DevicesIn, PortsIn
    <3>3. Change("device", "CREATE", x, NetOf[p]) \in ImportDevices(d, NetOf[p])
      BY <3>1, <3>2 DEF ImportDevices
    <3>4. Change("device", "CREATE", x, NetOf[p]) \in SearchChanges(d)
      BY <3>2, <3>3 DEF SearchChanges
    <3> QED
      BY <2>3, <3>4 DEF Creates, Change
  <2>4. CASE item = "biport"
    <3>1. x \in DOMAIN d.ports /\ x \notin DOMAIN stored.ports
      BY <1>2, <2>4 DEF Lacks
    <3>2. x \in PortsIn(d.ports, NetOf[x]) /\ NetOf[x] \in d.nets
      BY <1>0, <3>1 DEF PortsIn
    <3>3. Change("biport", "CREATE", x, d.ports[x]) \in ImportDevices(d, NetOf[x])
      BY <3>1, <3>2 DEF ImportDevices
    <3>4. Change("biport", "CREATE", x, d.ports[x]) \in SearchChanges(d)
      BY <3>2, <3>3 DEF SearchChanges
    <3> QED
      BY <2>4, <3>4 DEF Creates, Change
  <2> QED
    BY <2>1, <2>2, <2>3, <2>4 DEF Items, Rank
<1>3. \A p \in DOMAIN d.ports \ t.moved :
         p \in DOMAIN stored.ports => stored.ports[p] = d.ports[p]
  OBVIOUS
<1> QED
  BY <1>1, <1>2, <1>3 DEF Finds

LEMMA SearchWellMade ==
    ASSUME stored \in Databases, NEW d \in Descriptions, NEW c \in SearchChanges(d)
    PROVE  WellMade(c)
<1>0. /\ d.ports \in Placements /\ d.nets \subseteq Nets
      /\ DOMAIN d.ports \subseteq BiPorts /\ \A p \in DOMAIN d.ports : d.ports[p] \in Nodes
  BY PlacementsMap DEF Descriptions
<1>1. CASE c \in BuildDomainChanges \/ c \in ImportNetworks(d)
  BY <1>0, <1>1 DEF BuildDomainChanges, ImportNetworks, WellMade, Change
<1>2. CASE c \in InvalidDevices(d)
  BY <1>2 DEF InvalidDevices, WellMade, Change
<1>3. ASSUME NEW u \in d.nets, c \in ImportDevices(d, u) PROVE WellMade(c)
  <2>1. \/ \E n \in DevicesIn(d.ports, u) : c = Change("device", "CREATE", n, u)
        \/ \E p \in PortsIn(d.ports, u) : c = Change("biport", "CREATE", p, d.ports[p])
        \/ \E p \in PortsIn(stored.ports, u) \ PortsIn(d.ports, u) :
              c = Change("biport", "DELETE", p, gen[p])
    BY <1>3 DEF ImportDevices
  <2> QED
    BY <1>0, <2>1 DEF WellMade, Change, DevicesIn, PortsIn
<1> QED
  BY <1>1, <1>2, <1>3, FoundBy

LEMMA SequencesOfAny ==
    ASSUME NEW n \in Nat, NEW s, s = [i \in 1..n |-> s[i]]
    PROVE  \E S : s \in Seq(S)
<1>1. s \in [1..n -> {s[i] : i \in 1..n}]
  OBVIOUS
<1>2. s \in Seq({s[i] : i \in 1..n})
  BY <1>1
<1> QED
  BY <1>2

\* The tasks stay what they are for the requests that apply their changes.
TasksStay ==
    \A k \in DOMAIN tasks :
       /\ k \in DOMAIN tasks'
       /\ tasks[k].phase = "SUCCESS" =>
             tasks'[k].phase = "SUCCESS" /\ DOMAIN tasks'[k].changes = DOMAIN tasks[k].changes

LEMMA RequestsStay ==
    ASSUME TasksStay, NEW a, IsRequest(a)
    PROVE  IsRequest(a)'
BY DEF TasksStay, IsRequest, Turn

LEMMA GivesStill ==
    ASSUME NEW db, NEW new, NEW t, NEW u, NEW a, Gives(db, t, a),
           u.of = t.of, u.moved = t.moved,
           \A item, x : Lacks(new, t, item, x) => Lacks(db, t, item, x)
    PROVE  Gives(new, u, a)
<1>1. \A item, x : Lacks(new, u, item, x) <=> Lacks(new, t, item, x)
  BY DEF Lacks
<1> QED
  BY <1>1 DEF Gives

LEMMA TaskPlaces ==
    ASSUME DiscoveryInv
    PROVE  /\ Len(tasks) \in Nat /\ DOMAIN tasks = 1..Len(tasks) /\ 0 \notin DOMAIN tasks
           /\ tasks = [k \in 1..Len(tasks) |-> tasks[k]]
<1>1. PICK S : tasks \in Seq(S)
  BY DEF DiscoveryInv
<1> QED
  BY <1>1

\* One task is replaced.
LEMMA TaskReplaced ==
    ASSUME DiscoveryInv, NEW k \in DOMAIN tasks, NEW t, tasks' = [tasks EXCEPT ![k] = t]
    PROVE  /\ DOMAIN tasks' = DOMAIN tasks /\ tasks'[k] = t
           /\ \A j \in DOMAIN tasks : j # k => tasks'[j] = tasks[j]
           /\ \E S : tasks' \in Seq(S)
<1>1. tasks' = [i \in 1..Len(tasks) |-> tasks'[i]] /\ Len(tasks) \in Nat
  BY TaskPlaces
<1>2. \E S : tasks' \in Seq(S)
  BY <1>1, SequencesOfAny
<1> QED
  BY <1>2, TaskPlaces

\* What somebody else has overtaken.
LEMMA TaskDisturbed ==
    ASSUME NEW t, IsTask(t), NEW u, u = [t EXCEPT !.quiet = FALSE, !.of = None, !.moved = {}]
    PROVE  /\ IsTask(u) /\ ~Live(u)
           /\ u.phase = t.phase /\ DOMAIN u.changes = DOMAIN t.changes
<1>1. /\ u.phase = t.phase /\ u.changes = t.changes /\ u.quiet = FALSE
      /\ u = [phase |-> u.phase, changes |-> u.changes, quiet |-> u.quiet,
              settled |-> u.settled, of |-> u.of, moved |-> u.moved]
  BY DEF IsTask
<1> QED
  BY <1>1 DEF IsTask, Live

LEMMA OthersDisturbed ==
    ASSUME DiscoveryInv, NEW k, NEW new, new = Disturbed(k)
    PROVE  /\ DOMAIN new = DOMAIN tasks
           /\ k \in DOMAIN tasks => new[k] = tasks[k]
           /\ \A j \in DOMAIN tasks : j # k =>
                 /\ IsTask(new[j]) /\ ~Live(new[j])
                 /\ new[j].phase = tasks[j].phase
                 /\ DOMAIN new[j].changes = DOMAIN tasks[j].changes
<1>1. \A j \in DOMAIN tasks : IsTask(tasks[j])
  BY DEF DiscoveryInv
<1>2. ASSUME NEW j \in DOMAIN tasks, j # k
      PROVE  /\ IsTask(new[j]) /\ ~Live(new[j])
             /\ new[j].phase = tasks[j].phase
             /\ DOMAIN new[j].changes = DOMAIN tasks[j].changes
  <2>1. new[j] = [tasks[j] EXCEPT !.quiet = FALSE, !.of = None, !.moved = {}]
    BY <1>2 DEF Disturbed
  <2> QED
    BY <1>1, <2>1, TaskDisturbed
<1> QED
  BY <1>2 DEF Disturbed

LEMMA ExecuteTask ==
    ASSUME DiscoveryInv, ActionExecute
    PROVE  DiscoveryInv'
<1> DEFINE t == [phase |-> "INPROGRESS", changes |-> <<>>, quiet |-> FALSE,
                 settled |-> FALSE, of |-> None, moved |-> {}]
<1>1. PICK S : tasks \in Seq(S)
  BY DEF DiscoveryInv
<1>2. tasks' = Append(tasks, t)
  BY DEF ActionExecute, NewTask
<1>3. IsTask(t) /\ ~Live(t)
  BY DEF IsTask, Live
<1> HIDE DEF t
<1>4. tasks \in Seq(S \union {t})
  BY <1>1
<1>5. /\ tasks' \in Seq(S \union {t}) /\ DOMAIN tasks' = DOMAIN tasks \union {Len(tasks) + 1}
      /\ \A k \in DOMAIN tasks : tasks'[k] = tasks[k]
      /\ tasks'[Len(tasks) + 1] = t
  BY <1>2, <1>4
<1>6. TasksStay
  BY <1>5 DEF TasksStay
<1>7. stored' = stored /\ applying' = applying
  BY DEF ActionExecute
<1>8. \A k \in DOMAIN tasks' : IsTask(tasks'[k]) /\ (Live(tasks'[k]) => Finds(stored, tasks'[k]))
  BY <1>3, <1>5 DEF DiscoveryInv
<1>9. \A a \in applying : IsRequest(a)' /\ (a.all /\ Live(tasks'[a.task]) => Gives(stored, tasks'[a.task], a))
  BY <1>5, <1>6, RequestsStay DEF DiscoveryInv, IsRequest
<1> QED
  BY <1>5, <1>7, <1>8, <1>9 DEF DiscoveryInv

LEMMA TaskFailedKeeps ==
    ASSUME DiscoveryInv, NEW k \in DOMAIN tasks, TaskFailed(k)
    PROVE  DiscoveryInv'
<1>1. PICK t : t = [tasks[k] EXCEPT !.phase = "stuck"]
  OBVIOUS
<1>2. tasks' = [tasks EXCEPT ![k] = t] /\ tasks[k].phase = "INPROGRESS"
      /\ stored' = stored /\ applying' = applying
  BY <1>1, TaskPlaces DEF TaskFailed
<1>3. IsTask(tasks[k]) /\ DOMAIN tasks[k].changes = {}
  BY <1>2 DEF DiscoveryInv, IsTask
<1>4. t = [phase |-> "stuck", changes |-> tasks[k].changes, quiet |-> tasks[k].quiet,
           settled |-> tasks[k].settled, of |-> tasks[k].of, moved |-> tasks[k].moved]
  BY <1>1, <1>3 DEF IsTask
<1>5. IsTask(t)
  BY <1>3, <1>4 DEF IsTask
<1>6. Live(t) => Live(tasks[k]) /\ Finds(stored, t)
  <2>1. ASSUME Live(t) PROVE Live(tasks[k])
    BY <2>1, <1>4 DEF Live
  <2>2. \A item, x : Lacks(stored, t, item, x) <=> Lacks(stored, tasks[k], item, x)
    BY <1>4 DEF Lacks
  <2> QED
    BY <2>1, <2>2, <1>4 DEF DiscoveryInv, Finds
<1>7. TasksStay
  BY <1>2, TaskReplaced DEF TasksStay
<1>8. \A a \in applying : a.task # k
  BY <1>2 DEF DiscoveryInv, IsRequest
<1>9. \A a \in applying : IsRequest(a)' /\ (a.all /\ Live(tasks'[a.task]) => Gives(stored, tasks'[a.task], a))
  BY <1>2, <1>7, <1>8, RequestsStay, TaskReplaced DEF DiscoveryInv, IsRequest
<1> QED
  BY <1>2, <1>5, <1>6, <1>9, TaskReplaced DEF DiscoveryInv

LEMMA EditKeeps ==
    ASSUME DiscoveryInv, EditPorts
    PROVE  DiscoveryInv'
<1>1. stored' \in Databases
  <2>0. stored.ports \in Placements /\ stored.devs \subseteq Nodes /\ stored \in Databases
    BY DEF DiscoveryInv, Databases
  <2>1. PICK p \in BiPorts :
           \/ \E n \in stored.devs : stored' = [stored EXCEPT !.ports = With(@, p, n)]
           \/ stored' = [stored EXCEPT !.ports = Without(@, {p})]
    BY DEF EditPorts
  <2>2. \A n \in stored.devs : With(stored.ports, p, n) \in Placements
    BY <2>0, PlacementsMap, PlacementsAre DEF With
  <2>3. Without(stored.ports, {p}) \in Placements
    BY <2>0, PlacementsMap, PlacementsAre DEF Without
  <2>4. ASSUME NEW ports \in Placements PROVE [stored EXCEPT !.ports = ports] \in Databases
    BY <2>0 DEF Databases
  <2> QED
    BY <2>1, <2>2, <2>3, <2>4
<1>2. tasks' = Disturbed(0) /\ applying' = applying
  BY DEF EditPorts
<1>3. /\ DOMAIN tasks' = DOMAIN tasks
      /\ \A j \in DOMAIN tasks :
            /\ IsTask(tasks'[j]) /\ ~Live(tasks'[j]) /\ tasks'[j].phase = tasks[j].phase
            /\ DOMAIN tasks'[j].changes = DOMAIN tasks[j].changes
  BY <1>2, OthersDisturbed, TaskPlaces
<1>4. \E S : tasks' \in Seq(S)
  <2>1. tasks' = [i \in 1..Len(tasks) |-> tasks'[i]] /\ Len(tasks) \in Nat
    BY <1>2, TaskPlaces DEF Disturbed
  <2> QED
    BY <2>1, SequencesOfAny
<1>5. \A a \in applying : IsRequest(a)' /\ a.task \in DOMAIN tasks
  BY <1>3, RequestsStay DEF DiscoveryInv, TasksStay, IsRequest
<1> QED
  BY <1>1, <1>2, <1>3, <1>4, <1>5 DEF DiscoveryInv

\* What is left of a sequence when its first element is taken.
LEMMA TailOf ==
    ASSUME NEW S, NEW s \in Seq(S), s # <<>>
    PROVE  /\ Head(s) = s[1] /\ Len(s) \in Nat \ {0}
           /\ Tail(s) \in Seq(S) /\ Len(Tail(s)) = Len(s) - 1
           /\ \A i \in 1..(Len(s) - 1) : Tail(s)[i] = s[i + 1]
<1>1. Len(s) \in Nat
  OBVIOUS
<1>2. Len(s) # 0
  OBVIOUS
<1>3. Tail(s) \in Seq(S) /\ Len(Tail(s)) = Len(s) - 1
  BY <1>1, <1>2
<1>4. \A i \in 1..(Len(s) - 1) : Tail(s)[i] = s[i + 1]
  BY <1>1, <1>2
<1>5. Head(s) = s[1]
  BY <1>1, <1>2
<1> QED
  BY <1>1, <1>2, <1>3, <1>4, <1>5

\* A request for all of the changes starts before the turn of any.
AllToCome(a, k) ==
    /\ a = [task |-> a.task, all |-> a.all, types |-> a.types, batch |-> a.batch]
    /\ a.task = k /\ a.batch = {}
    /\ a.types \in Seq(Items) /\ Len(a.types) = 4
    /\ \A i \in 1..4 : Rank[a.types[i]] = i

LEMMA AllStarts ==
    ASSUME NEW k
    PROVE  AllToCome(ApplyChanges(k), k)
<1>1. PICK a : a = ApplyChanges(k)
  OBVIOUS
<1>2. /\ a.task = k /\ a.batch = {} /\ a.types = <<"domain", "network", "device", "biport">>
      /\ a = [task |-> a.task, all |-> a.all, types |-> a.types, batch |-> a.batch]
  BY <1>1 DEF ApplyChanges, TypesInOrder, Types
<1>3. /\ a.types \in Seq(Items) /\ Len(a.types) = 4
      /\ a.types[1] = "domain" /\ a.types[2] = "network" /\ a.types[3] = "device"
      /\ a.types[4] = "biport"
  BY <1>2 DEF Items, Rank
<1>4. \A i \in 1..4 : Rank[a.types[i]] = i
  BY <1>3 DEF Rank
<1> QED
  BY <1>1, <1>2, <1>3, <1>4 DEF AllToCome

LEMMA AllGives ==
    ASSUME NEW a, NEW k, AllToCome(a, k), NEW db, NEW t
    PROVE  Gives(db, t, a)
<1>1. \A item \in Items : Rank[item] > 0
  BY DEF Items, Rank
<1> QED
  BY <1>1 DEF AllToCome, Gives, Turn

LEMMA AllIsRequest ==
    ASSUME NEW a, NEW k \in DOMAIN tasks, AllToCome(a, k), tasks[k].phase = "SUCCESS"
    PROVE  IsRequest(a)
BY DEF AllToCome, IsRequest, Turn

LEMMA SearchKeeps ==
    ASSUME DiscoveryInv, NEW k \in DOMAIN tasks, NEW auto \in BOOLEAN, NEW d \in Descriptions,
           Execute(k, auto, d)
    PROVE  DiscoveryInv'
<1>1. PICK t : t = [phase |-> "SUCCESS",
                    changes |-> [c \in SearchChanges(d) |-> FALSE],
                    quiet |-> TRUE, settled |-> FALSE, of |-> d,
                    moved |-> {p \in DOMAIN d.ports \intersect DOMAIN stored.ports :
                                  d.ports[p] # stored.ports[p]}]
  OBVIOUS
<1>2. /\ tasks[k].phase = "INPROGRESS" /\ tasks' = [tasks EXCEPT ![k] = t]
      /\ applying' = applying \/ applying' = applying \union {ApplyChanges(k)}
      /\ stored' = stored
  BY <1>1 DEF Execute
<1>3. IsTask(t)
  <2>1. \A c \in SearchChanges(d) : WellMade(c)
    BY SearchWellMade DEF DiscoveryInv
  <2> QED
    BY <1>1, <2>1 DEF IsTask
<1>4. Live(t) => Finds(stored, t)
  <2> SUFFICES ASSUME Live(t) PROVE Finds(stored, t)
    OBVIOUS
  <2>1. d.nets # {}
    BY <1>1 DEF Live
  <2>2. t.of = d /\ ~t.settled
        /\ t.moved = {p \in DOMAIN d.ports \intersect DOMAIN stored.ports :
                         d.ports[p] # stored.ports[p]}
    BY <1>1
  <2>3. DOMAIN t.changes = SearchChanges(d)
        /\ \A c \in SearchChanges(d) : t.changes[c] = FALSE
    BY <1>1
  <2>4. stored \in Databases
    BY DEF DiscoveryInv
  <2> QED
    BY <2>1, <2>2, <2>3, <2>4, SearchFinds
<1>5. /\ DOMAIN tasks' = DOMAIN tasks /\ tasks'[k] = t
      /\ \A j \in DOMAIN tasks : j # k => tasks'[j] = tasks[j]
      /\ \E S : tasks' \in Seq(S)
  BY <1>2, TaskReplaced
<1>6. TasksStay
  BY <1>2, <1>5 DEF TasksStay
<1>7. ASSUME NEW a \in applying
      PROVE  IsRequest(a)' /\ (a.all /\ Live(tasks'[a.task]) => Gives(stored, tasks'[a.task], a))
  <2>1. IsRequest(a) /\ a.task # k
    BY <1>2 DEF DiscoveryInv, IsRequest
  <2> QED
    BY <1>5, <1>6, <2>1, RequestsStay DEF DiscoveryInv, IsRequest
<1>8. PICK a : a = ApplyChanges(k)
  OBVIOUS
<1>9. AllToCome(a, k)
  BY <1>8, AllStarts
<1>10. IsRequest(a)' /\ \A db, u : Gives(db, u, a)
  <2>1. k \in DOMAIN tasks' /\ tasks'[k].phase = "SUCCESS"
    BY <1>1, <1>5
  <2>2. IsRequest(a)'
    BY <1>9, <2>1 DEF AllToCome, IsRequest, Turn
  <2> QED
    BY <1>9, <2>2, AllGives
<1> QED
  BY <1>2, <1>3, <1>4, <1>5, <1>7, <1>8, <1>10 DEF DiscoveryInv

\* Requests are added, the tasks and the database stay.
LEMMA RequestsAdded ==
    ASSUME DiscoveryInv, stored' = stored, tasks' = tasks,
           \A a \in applying' : \/ a \in applying
                                \/ /\ IsRequest(a)
                                   /\ a.all /\ Live(tasks[a.task]) => Gives(stored, tasks[a.task], a)
    PROVE  DiscoveryInv'
<1>1. \A a : IsRequest(a)' <=> IsRequest(a)
  BY DEF IsRequest, Turn
<1> QED
  BY <1>1 DEF DiscoveryInv

LEMMA ClickKeeps ==
    ASSUME DiscoveryInv, NEW k \in DOMAIN tasks, NEW c \in DOMAIN tasks[k].changes,
           ApplyClick(k, c)
    PROVE  DiscoveryInv'
<1>1. PICK a : a = [task |-> k, all |-> FALSE, types |-> <<>>, batch |-> {c}]
  OBVIOUS
<1>2. tasks[k].phase = "SUCCESS"
  BY DEF DiscoveryInv, IsTask
<1>3. a.types \in Seq(Items) /\ Len(a.types) = 0
  BY <1>1
<1>4. IsRequest(a) /\ ~a.all
  BY <1>1, <1>2, <1>3 DEF IsRequest
<1>5. applying' = applying \union {a} /\ stored' = stored /\ tasks' = tasks
  BY <1>1 DEF ApplyClick
<1> QED
  BY <1>4, <1>5, RequestsAdded

LEMMA ApplyAllKeeps ==
    ASSUME DiscoveryInv, NEW k \in DOMAIN tasks, ApplyAll(k)
    PROVE  DiscoveryInv'
<1>1. PICK a : a = ApplyChanges(k)
  OBVIOUS
<1>2. AllToCome(a, k)
  BY <1>1, AllStarts
<1>3. applying' = applying \union {a} /\ stored' = stored /\ tasks' = tasks
      /\ tasks[k].phase = "SUCCESS"
  BY <1>1 DEF ApplyAll
<1>4. IsRequest(a) /\ \A db, t : Gives(db, t, a)
  BY <1>2, <1>3, AllIsRequest, AllGives
<1> QED
  BY <1>3, <1>4, RequestsAdded

\* The turn comes to the next type.
LEMMA TurnKeeps ==
    ASSUME DiscoveryInv, NEW a \in applying, ApplyChangesByType(a)
    PROVE  DiscoveryInv'
<1> DEFINE t == tasks[a.task]
<1>1. PICK batch : batch = {c \in DOMAIN t.changes : c.item = Head(a.types) /\ ~t.changes[c]}
  OBVIOUS
<1>2. PICK types : types = Tail(a.types)
  OBVIOUS
<1>3. PICK b : b = [a EXCEPT !.types = types, !.batch = batch]
  OBVIOUS
<1>4. /\ a.batch = {} /\ a.types # <<>> /\ stored' = stored /\ tasks' = tasks
      /\ applying' = (applying \ {a}) \union {b}
  BY <1>1, <1>2, <1>3 DEF ApplyChangesByType
<1>5. IsRequest(a)
  BY DEF DiscoveryInv
<1>6. b = [task |-> a.task, all |-> a.all, types |-> types, batch |-> batch]
  BY <1>3, <1>5 DEF IsRequest
<1>7. /\ types \in Seq(Items) /\ Len(types) = Len(a.types) - 1 /\ Len(types) \in Nat
      /\ \A i \in 1..Len(types) : types[i] = a.types[i + 1]
      /\ Head(a.types) = a.types[1] /\ Len(a.types) \in 1..4
  <2>1. a.types \in Seq(Items) /\ a.types # <<>> /\ Len(a.types) <= 4
    BY <1>4, <1>5 DEF IsRequest
  <2>2. /\ Head(a.types) = a.types[1] /\ Len(a.types) \in Nat \ {0}
        /\ types \in Seq(Items) /\ Len(types) = Len(a.types) - 1
        /\ \A i \in 1..(Len(a.types) - 1) : types[i] = a.types[i + 1]
    BY <1>2, <2>1, TailOf
  <2>3. PICK n : n = Len(a.types)
    OBVIOUS
  <2>4. n \in 1..4
    <3>1. n \in Nat \ {0} /\ n <= 4
      BY <2>1, <2>2, <2>3
    <3> QED
      BY <3>1
  <2>5. Len(types) = n - 1 /\ n - 1 \in Nat
    BY <2>2, <2>3, <2>4
  <2> QED
    BY <2>2, <2>3, <2>4, <2>5
<1>8. Turn(b) = Turn(a) + 1 /\ Turn(a) \in 0..3
  BY <1>6, <1>7 DEF Turn
<1>9. IsRequest(b)
  <2>1. \A i \in 1..Len(types) : Rank[types[i]] = Turn(b) + i
    BY <1>5, <1>7, <1>8 DEF IsRequest
  <2>2. a.task \in DOMAIN tasks /\ t.phase = "SUCCESS" /\ batch \subseteq DOMAIN t.changes
    BY <1>1, <1>5 DEF IsRequest
  <2>3. b.task = a.task /\ b.types = types /\ b.batch = batch
        /\ b = [task |-> b.task, all |-> b.all, types |-> b.types, batch |-> b.batch]
    BY <1>6
  <2>4. Len(types) <= 4
    BY <1>7
  <2> QED
    BY <1>7, <2>1, <2>2, <2>3, <2>4 DEF IsRequest
<1>10. ASSUME b.all, Live(t) PROVE Gives(stored, t, b)
  <2>1. Finds(stored, t) /\ Gives(stored, t, a)
    BY <1>5, <1>6, <1>10 DEF DiscoveryInv, IsRequest
  <2>2. Rank[Head(a.types)] = Turn(b) /\ Head(a.types) \in Items
    BY <1>5, <1>7, <1>8 DEF IsRequest
  <2>3. \A c \in b.batch : Rank[c.item] = Turn(b)
    BY <1>1, <1>6, <2>2
  <2>4. ASSUME NEW item \in Items, NEW x, Lacks(stored, t, item, x), ~(Rank[item] > Turn(b))
        PROVE  \E c \in b.batch : Creates(c, item, x)
    <3>1. Rank[item] > Turn(a)
      BY <1>4, <2>1, <2>4 DEF Gives
    <3>2. Rank[item] = Turn(b)
      BY <1>8, <2>4, <3>1 DEF Items, Rank
    <3>3. item = Head(a.types)
      BY <2>2, <3>2 DEF Items, Rank
    <3>4. PICK c \in DOMAIN t.changes : Creates(c, item, x) /\ ~t.changes[c]
      BY <2>1, <2>4 DEF Finds
    <3> QED
      BY <1>1, <1>6, <3>3, <3>4 DEF Creates
  <2> QED
    BY <2>3, <2>4 DEF Gives
<1> QED
  BY <1>4, <1>6, <1>9, <1>10, RequestsAdded

\* The task t with the change c marked as applied, or as one that failed.
LEMMA TaskMarked ==
    ASSUME NEW t, IsTask(t), NEW c \in DOMAIN t.changes, NEW v \in BOOLEAN,
           NEW u, u = [t EXCEPT !.changes[c] = v]
    PROVE  /\ IsTask(u)
           /\ u.phase = t.phase /\ u.quiet = t.quiet /\ u.settled = t.settled
           /\ u.of = t.of /\ u.moved = t.moved
           /\ DOMAIN u.changes = DOMAIN t.changes /\ u.changes[c] = v
           /\ \A e \in DOMAIN t.changes : e # c => u.changes[e] = t.changes[e]
<1>1. PICK changes : changes = [t.changes EXCEPT ![c] = v]
  OBVIOUS
<1>2. u = [t EXCEPT !.changes = changes]
  BY <1>1
<1>3. u = [phase |-> t.phase, changes |-> changes, quiet |-> t.quiet,
           settled |-> t.settled, of |-> t.of, moved |-> t.moved]
  BY <1>2 DEF IsTask
<1>4. /\ DOMAIN changes = DOMAIN t.changes /\ changes[c] = v
      /\ changes = [e \in DOMAIN changes |-> changes[e]]
      /\ \A e \in DOMAIN t.changes : e # c => changes[e] = t.changes[e]
  BY <1>1 DEF IsTask
<1>5. /\ u.phase = t.phase /\ u.quiet = t.quiet /\ u.settled = t.settled
      /\ u.of = t.of /\ u.moved = t.moved /\ u.changes = changes
      /\ u = [phase |-> u.phase, changes |-> u.changes, quiet |-> u.quiet,
              settled |-> u.settled, of |-> u.of, moved |-> u.moved]
  <2>1. /\ u.phase = t.phase /\ u.quiet = t.quiet /\ u.settled = t.settled
        /\ u.of = t.of /\ u.moved = t.moved /\ u.changes = changes
    BY <1>3
  <2> QED
    BY <1>3, <2>1
<1>6. \A e \in DOMAIN changes : changes[e] \in BOOLEAN /\ WellMade(e)
  BY <1>4 DEF IsTask
<1>7. u.phase = "SUCCESS" \/ DOMAIN changes = {}
  BY <1>4, <1>5 DEF IsTask
<1>8. IsTask(u)
  BY <1>4, <1>5, <1>6, <1>7 DEF IsTask
<1> QED
  BY <1>4, <1>5, <1>8

\* A change whose turn it is fails only if what it creates is there.
LEMMA FailsIfThere ==
    ASSUME NEW db, NEW t, NEW a, Finds(db, t), Gives(db, t, a),
           NEW c \in a.batch, c \in DOMAIN t.changes, Fails(c, db),
           NEW item \in Items, NEW x, Creates(c, item, x)
    PROVE  ~Lacks(db, t, item, x)
<1> SUFFICES ASSUME Lacks(db, t, item, x) PROVE FALSE
  OBVIOUS
<1>1. Rank[item] = Turn(a) /\ c.item = item /\ c.type = "CREATE" /\ c.of = x
  BY DEF Gives, Creates
<1>2. ASSUME NEW before \in Items, Rank[before] < Rank[item], NEW y
      PROVE  ~Lacks(db, t, before, y)
  <2> SUFFICES ASSUME Lacks(db, t, before, y) PROVE FALSE
    OBVIOUS
  <2>1. ~(Rank[before] > Turn(a))
    BY <1>1, <1>2 DEF Items, Rank
  <2>2. PICK e \in a.batch : Creates(e, before, y)
    BY <2>1 DEF Gives
  <2>3. Rank[before] = Turn(a)
    BY <2>2 DEF Gives, Creates
  <2> QED
    BY <1>1, <1>2, <2>3 DEF Items, Rank
<1>3. CASE item = "domain"
  BY <1>1, <1>3 DEF Lacks, Fails
<1>4. CASE item \in {"network", "device"}
  <2>1. ~Lacks(db, t, "domain", None)
    BY <1>2, <1>4 DEF Items, Rank
  <2>2. db.domain
    BY <2>1 DEF Lacks
  <2> QED
    BY <1>1, <1>4, <2>2 DEF Lacks, Fails
<1>5. CASE item = "biport"
  <2>1. c.of \in DOMAIN t.of.ports /\ c.with = t.of.ports[c.of]
    BY <1>1, <1>5 DEF Finds, Harmless
  <2>2. ~Lacks(db, t, "device", c.with)
    BY <1>2, <1>5 DEF Items, Rank
  <2>3. c.with \in db.devs
    BY <2>1, <2>2 DEF Lacks
  <2> QED
    BY <1>1, <1>5, <2>3 DEF Lacks, Fails
<1> QED
  BY <1>3, <1>4, <1>5 DEF Items, Rank

LEMMA ApplyKeeps ==
    ASSUME DiscoveryInv, NEW a \in applying, NEW c \in a.batch, Apply(a, c)
    PROVE  DiscoveryInv'
<1> DEFINE k == a.task
           t == tasks[k]
<1>0. /\ IsRequest(a) /\ k \in DOMAIN tasks /\ IsTask(t) /\ c \in DOMAIN t.changes
      /\ WellMade(c) /\ stored \in Databases
  BY DEF DiscoveryInv, IsRequest, IsTask
<1>1. PICK after : after = Applied(c, stored)
  OBVIOUS
<1>2. PICK others : others = Disturbed(k)
  OBVIOUS
<1>3. PICK b : b = [a EXCEPT !.batch = a.batch \ {c}]
  OBVIOUS
<1>4. b = [task |-> a.task, all |-> a.all, types |-> a.types, batch |-> a.batch \ {c}]
  BY <1>0, <1>3 DEF IsRequest
<1>5. /\ applying' = (applying \ {a}) \union {b}
      /\ \/ /\ after = None /\ stored' = stored
            /\ tasks' = [tasks EXCEPT ![k].changes[c] = FALSE]
         \/ /\ after # None /\ stored' = after
            /\ tasks' = [others EXCEPT ![k].changes[c] = TRUE]
  BY <1>0, <1>1, <1>2, <1>3 DEF Apply
<1>6. \/ after = None /\ Fails(c, stored)
      \/ after # None /\ Made(c, stored, after)
  BY <1>0, <1>1, AppliedOrNot
<1>7. /\ DOMAIN others = DOMAIN tasks /\ others[k] = t
      /\ others = [j \in DOMAIN tasks |-> others[j]]
      /\ \A j \in DOMAIN tasks : j # k =>
            /\ IsTask(others[j]) /\ ~Live(others[j])
            /\ others[j].phase = tasks[j].phase
            /\ DOMAIN others[j].changes = DOMAIN tasks[j].changes
  <2>1. others = [j \in DOMAIN tasks |-> others[j]]
    BY <1>2 DEF Disturbed
  <2> QED
    BY <1>0, <1>2, <2>1, OthersDisturbed
<1>8. PICK v \in BOOLEAN : v = (after # None)
  OBVIOUS
<1>9. PICK u : u = [t EXCEPT !.changes[c] = v]
  OBVIOUS
<1>10. /\ IsTask(u)
       /\ u.phase = t.phase /\ u.quiet = t.quiet /\ u.settled = t.settled
       /\ u.of = t.of /\ u.moved = t.moved
       /\ DOMAIN u.changes = DOMAIN t.changes /\ u.changes[c] = v
       /\ \A e \in DOMAIN t.changes : e # c => u.changes[e] = t.changes[e]
  BY <1>0, <1>9, TaskMarked
<1>11. /\ DOMAIN tasks' = DOMAIN tasks /\ tasks'[k] = u
       /\ \E S : tasks' \in Seq(S)
       /\ \A j \in DOMAIN tasks : j # k =>
             \/ tasks'[j] = tasks[j] /\ stored' = stored
             \/ /\ IsTask(tasks'[j]) /\ ~Live(tasks'[j])
                /\ tasks'[j].phase = tasks[j].phase
                /\ DOMAIN tasks'[j].changes = DOMAIN tasks[j].changes
  <2>1. CASE after = None
    <3>1. tasks' = [tasks EXCEPT ![k] = u] /\ stored' = stored
      BY <1>5, <1>8, <1>9, <2>1
    <3> QED
      BY <1>0, <3>1, TaskReplaced
  <2>2. CASE after # None
    <3>1. tasks' = [others EXCEPT ![k] = u]
      BY <1>5, <1>7, <1>8, <1>9, <2>2
    <3>2. tasks' = [i \in 1..Len(tasks) |-> tasks'[i]] /\ Len(tasks) \in Nat
      BY <1>7, <3>1, TaskPlaces
    <3>3. \E S : tasks' \in Seq(S)
      BY <3>2, SequencesOfAny
    <3> QED
      BY <1>0, <1>7, <3>1, <3>3
  <2> QED
    BY <2>1, <2>2
<1>12. stored' \in Databases
  BY <1>0, <1>5, <1>6 DEF Made
<1>13. ASSUME Live(u)
       PROVE  /\ Finds(stored', u)
              /\ \A item, x : Lacks(stored', t, item, x) => Lacks(stored, t, item, x)
  <2>1. Live(t) /\ Finds(stored, t)
    BY <1>0, <1>10, <1>13 DEF Live, DiscoveryInv
  <2>2. /\ \A item, x : Lacks(stored', t, item, x) => Lacks(stored, t, item, x)
        /\ \A p \in DOMAIN t.of.ports \ t.moved :
              p \in DOMAIN stored'.ports => stored'.ports[p] = t.of.ports[p]
        /\ v => \A item, x : Creates(c, item, x) => ~Lacks(stored', t, item, x)
    <3>1. CASE after = None
      BY <1>5, <1>8, <2>1, <3>1 DEF Finds
    <3>2. CASE after # None
      BY <1>0, <1>5, <1>6, <2>1, <3>2, AppliedHarmless
    <3> QED
      BY <3>1, <3>2
  <2>3. \A e \in DOMAIN t.changes : \A item, x :
           Creates(e, item, x) /\ Lacks(stored', t, item, x) /\ ~t.changes[e] => ~u.changes[e]
    BY <1>10, <2>2
  <2> QED
    BY <1>10, <2>1, <2>2, <2>3, FindsStill
<1>14. TasksStay
  BY <1>0, <1>10, <1>11 DEF TasksStay
<1>15. ASSUME NEW e \in applying
       PROVE  IsRequest(e)' /\ (e.all /\ Live(tasks'[e.task]) => Gives(stored', tasks'[e.task], e))
  <2>1. IsRequest(e) /\ IsRequest(e)' /\ e.task \in DOMAIN tasks
    BY <1>14, RequestsStay DEF DiscoveryInv, IsRequest
  <2>2. CASE e.task # k
    BY <1>11, <2>1, <2>2 DEF DiscoveryInv
  <2>3. ASSUME e.task = k, e.all, Live(u) PROVE Gives(stored', u, e)
    <3>1. Live(t)
      BY <1>10, <2>3 DEF Live
    <3>2. Gives(stored, t, e)
      BY <2>3, <3>1 DEF DiscoveryInv
    <3> QED
      BY <1>10, <1>13, <2>3, <3>2, GivesStill
  <2> QED
    BY <1>11, <2>1, <2>2, <2>3
<1>16. IsRequest(b)'
  <2>1. IsRequest(a)'
    BY <1>15
  <2>2. b.task = a.task /\ b.types = a.types /\ b.batch \subseteq a.batch
        /\ b = [task |-> b.task, all |-> b.all, types |-> b.types, batch |-> b.batch]
    BY <1>4
  <2> QED
    BY <2>1, <2>2 DEF IsRequest, Turn
<1>17. ASSUME b.all, Live(u) PROVE Gives(stored', u, b)
  <2>1. Live(t) /\ a.all /\ Finds(stored, t)
    BY <1>0, <1>4, <1>10, <1>17 DEF Live, DiscoveryInv
  <2>2. Gives(stored, t, a) /\ Gives(stored', u, a)
    BY <1>11, <1>15, <1>17, <2>1 DEF DiscoveryInv
  <2>3. ASSUME NEW item \in Items, NEW x, Lacks(stored', u, item, x)
        PROVE  ~Creates(c, item, x)
    <3>1. Lacks(stored', t, item, x)
      BY <1>10, <2>3 DEF Lacks
    <3>2. CASE after = None
      BY <1>0, <1>5, <1>6, <2>1, <2>2, <3>1, <3>2, FailsIfThere
    <3>3. CASE after # None
      BY <1>0, <1>5, <1>6, <2>1, <3>1, <3>3, AppliedHarmless
    <3> QED
      BY <3>2, <3>3
  <2>4. b.batch = a.batch \ {c} /\ Turn(b) = Turn(a)
    BY <1>4 DEF Turn
  <2> QED
    BY <2>2, <2>3, <2>4 DEF Gives
<1>18. ASSUME NEW j \in DOMAIN tasks'
       PROVE  IsTask(tasks'[j]) /\ (Live(tasks'[j]) => Finds(stored', tasks'[j]))
  <2>1. CASE j = k
    BY <1>10, <1>11, <1>13, <2>1
  <2>2. CASE j # k
    BY <1>11, <2>2 DEF DiscoveryInv
  <2> QED
    BY <2>1, <2>2
<1>19. b.task = k
  BY <1>4
<1> QED
  BY <1>5, <1>11, <1>12, <1>15, <1>16, <1>17, <1>18, <1>19 DEF DiscoveryInv

LEMMA ApplyEndsKeeps ==
    ASSUME DiscoveryInv, NEW a \in applying, ApplyEnds(a)
    PROVE  DiscoveryInv'
<1> DEFINE k == a.task
           t == tasks[k]
<1>0. IsRequest(a) /\ k \in DOMAIN tasks /\ IsTask(t)
  BY DEF DiscoveryInv, IsRequest
<1>1. PICK settled : settled = (t.settled \/ a.all)
  OBVIOUS
<1>2. PICK u : u = [t EXCEPT !.settled = settled]
  OBVIOUS
<1>3. /\ tasks' = [tasks EXCEPT ![k] = u] /\ stored' = stored
      /\ applying' \subseteq applying /\ a.batch = {} /\ a.types = <<>>
  BY <1>1, <1>2 DEF ApplyEnds
<1>4. u = [phase |-> t.phase, changes |-> t.changes, quiet |-> t.quiet,
           settled |-> settled, of |-> t.of, moved |-> t.moved]
  BY <1>0, <1>2 DEF IsTask
<1>5. /\ u.phase = t.phase /\ u.changes = t.changes /\ u.quiet = t.quiet
      /\ u.of = t.of /\ u.moved = t.moved /\ u.settled = settled
      /\ u = [phase |-> u.phase, changes |-> u.changes, quiet |-> u.quiet,
              settled |-> u.settled, of |-> u.of, moved |-> u.moved]
  BY <1>4
<1>6. IsTask(u)
  BY <1>0, <1>5 DEF IsTask
<1>7. ASSUME Live(u) PROVE Finds(stored, u)
  <2>1. Live(t) /\ Finds(stored, t)
    BY <1>0, <1>5, <1>7 DEF Live, DiscoveryInv
  <2>2. ASSUME NEW item \in Items, NEW x, Lacks(stored, t, item, x) PROVE ~a.all
    <3> SUFFICES ASSUME a.all PROVE FALSE
      OBVIOUS
    <3>1. Gives(stored, t, a)
      BY <2>1 DEF DiscoveryInv
    <3>2. Turn(a) = 4
      BY <1>3 DEF Turn
    <3>3. Rank[item] <= 4
      BY DEF Items, Rank
    <3> QED
      BY <1>3, <2>2, <3>1, <3>2, <3>3 DEF Gives, Items, Rank
  <2>3. \A item, x : Lacks(stored, t, item, x) => Lacks(stored, t, item, x)
    OBVIOUS
  <2>4. \A p \in DOMAIN t.of.ports \ t.moved :
           p \in DOMAIN stored.ports => stored.ports[p] = t.of.ports[p]
    BY <2>1 DEF Finds
  <2>5. \A item \in Items : \A x : Lacks(stored, t, item, x) /\ u.settled => t.settled
    BY <1>1, <1>5, <2>2
  <2> QED
    BY <1>5, <2>1, <2>3, <2>4, <2>5, FindsStill
<1>8. TasksStay
  BY <1>0, <1>3, <1>5, TaskReplaced DEF TasksStay
<1>9. ASSUME NEW e \in applying
      PROVE  IsRequest(e)' /\ (e.all /\ Live(tasks'[e.task]) => Gives(stored, tasks'[e.task], e))
  <2>1. IsRequest(e)' /\ e.task \in DOMAIN tasks
    BY <1>8, RequestsStay DEF DiscoveryInv, IsRequest
  <2>2. CASE e.task # k
    BY <1>0, <1>3, <2>1, <2>2, TaskReplaced DEF DiscoveryInv
  <2>3. ASSUME e.task = k, e.all, Live(u) PROVE Gives(stored, u, e)
    <3>1. Live(t)
      BY <1>5, <2>3 DEF Live
    <3>2. Gives(stored, t, e)
      BY <2>3, <3>1 DEF DiscoveryInv
    <3>3. \A item, x : Lacks(stored, t, item, x) => Lacks(stored, t, item, x)
      OBVIOUS
    <3> QED
      BY <1>5, <3>2, <3>3, GivesStill
  <2> QED
    BY <1>0, <1>3, <2>1, <2>2, <2>3, TaskReplaced
<1> QED
  BY <1>0, <1>3, <1>6, <1>7, <1>9, TaskReplaced DEF DiscoveryInv

\* The discovery, for any networks, devices, ports and databases, any number of
\* tasks, edits by hand and requests side by side: what was described when a task
\* was made is there once its changes were applied, unless somebody else changed
\* the topology (DiscoveryTask::applyChanges, Change::apply).
THEOREM DescribedComesThere == DiscoverySpec => []DescribedIsThere
<1>1. DiscoveryInit => DiscoveryInv
  <2> SUFFICES ASSUME DiscoveryInit PROVE DiscoveryInv
    OBVIOUS
  <2>1. stored \in Databases /\ tasks = <<>> /\ applying = {}
    BY DiscoveryAssumption DEF DiscoveryInit
  <2>2. tasks \in Seq({}) /\ DOMAIN tasks = {}
    BY <2>1
  <2> QED
    BY <2>1, <2>2 DEF DiscoveryInv
<1>2. DiscoveryInv /\ [DiscoveryNext]_discoveryVars => DiscoveryInv'
  <2> SUFFICES ASSUME DiscoveryInv, [DiscoveryNext]_discoveryVars PROVE DiscoveryInv'
    OBVIOUS
  <2>1. ASSUME UNCHANGED <<stored, tasks, applying>> PROVE DiscoveryInv'
    BY <2>1, RequestsAdded
  <2>2. CASE ChangesReloaded \/ UNCHANGED discoveryVars
    BY <2>1, <2>2 DEF ChangesReloaded, discoveryVars
  <2> QED
    BY <2>2, ExecuteTask, EditKeeps, TaskFailedKeeps, SearchKeeps, ApplyAllKeeps, ClickKeeps,
       TurnKeeps, ApplyKeeps, ApplyEndsKeeps DEF DiscoveryNext
<1>3. DiscoveryInv => DescribedIsThere
  <2> SUFFICES ASSUME DiscoveryInv, NEW k \in DOMAIN tasks,
                      tasks[k].settled, tasks[k].quiet, tasks[k].of.nets # {}
               PROVE  /\ stored.domain /\ tasks[k].of.nets \subseteq stored.nets
                      /\ \A p \in DOMAIN tasks[k].of.ports \ tasks[k].moved :
                            /\ p \in DOMAIN stored.ports
                            /\ stored.ports[p] = tasks[k].of.ports[p]
    BY DEF DescribedIsThere
  <2>1. Finds(stored, tasks[k])
    BY DEF DiscoveryInv, Live
  <2>2. \A item \in Items : \A x : ~Lacks(stored, tasks[k], item, x)
    BY <2>1 DEF Finds
  <2>3. "domain" \in Items /\ "network" \in Items /\ "biport" \in Items
    BY DEF Items, Rank
  <2> QED
    BY <2>1, <2>2, <2>3 DEF Lacks, Finds
<1> QED
  BY <1>1, <1>2, <1>3, PTL DEF DiscoverySpec
=============================================================================
