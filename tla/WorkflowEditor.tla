--------------------------- MODULE WorkflowEditor ---------------------------
(***************************************************************************)
(* The editor in which an administrator draws the authorization workflow   *)
(* of a domain: modules (WireIt containers) on a layer, whose terminals    *)
(* are joined by dragging wires, saved as a list of modules and a list of  *)
(* wires between positions of that list, and loaded again.                 *)
(*                                                                         *)
(* Positions on the screen, colours, labels and the name of the workflow   *)
(* are left out.  The server side is what saveWorkflow, loadWorkflow and   *)
(* isActive of the workflow controller do with one workflow.               *)
(***************************************************************************)
EXTENDS Naturals, Sequences, FiniteSets, TLC, SequencesExt

CONSTANTS
    Kinds,       \* the modules of the language that the user picks from
    Ids,         \* what tells the modules apart: as many fit on the layer
    None         \* nothing: no workflow saved, no drag, no request

-----------------------------------------------------------------------------
(***************************************************************************)
(* The language: the terminals of each module, and whether its form asks   *)
(* for nothing, for a choice from a list or for a number.                  *)
(***************************************************************************)

Inputs == {"_INPUT"}
Outputs == {"_OUTPUT", "_OUTPUT_YES", "_OUTPUT_NO"}

Filter(asks) ==
    [terminals |-> {"_INPUT", "_OUTPUT_YES", "_OUTPUT_NO"}, asks |-> asks]

Final == [terminals |-> {"_INPUT"}, asks |-> "nothing"]

New_Request == [terminals |-> {"_OUTPUT"}, asks |-> "nothing"]
Domain_ == Filter("choice")
User_ == Filter("choice")
Group_ == Filter("choice")
Device_ == Filter("choice")
Bandwidth_ == Filter("number")
Duration_ == Filter("number")
Request_User_Authorization == Filter("choice")
Request_Group_Authorization == Filter("choice")
Accept_Automatically == Final
Deny_Automatically == Final

modulesByName ==
    [New_Request |-> New_Request, Domain |-> Domain_, User |-> User_,
     Group |-> Group_, Device |-> Device_, Bandwidth |-> Bandwidth_,
     Duration |-> Duration_,
     Request_User_Authorization |-> Request_User_Authorization,
     Request_Group_Authorization |-> Request_Group_Authorization,
     Accept_Automatically |-> Accept_Automatically,
     Deny_Automatically |-> Deny_Automatically]

Finals == {"Accept_Automatically", "Deny_Automatically"}

ASSUME EditorAssumption ==
    /\ Kinds \subseteq DOMAIN modulesByName
    /\ IsFiniteSet(Ids)
    /\ None \notin Ids

-----------------------------------------------------------------------------
VARIABLES
    page,        \* "index", "create" or "update"
    containers,  \* layer.containers: [id, name, filled], in order
    wiring,      \* the lists of wires that layer, containers, terminals keep
    drag,        \* the terminal a wire is being dragged from, or None
    loading,     \* the workflow has been asked for and is not answered
    check,       \* the is-active request of Save: None, "asked" or its answer
    post,        \* the save request: None, the value sent, or [reply |-> ...]
    server       \* [saved, active]: the workflow of the domain in the database

layerVars == <<containers, wiring, drag>>
requestVars == <<loading, check, post>>
editorVars == <<page, layerVars, requestVars, server>>

TerminalNames == Inputs \union Outputs
Terminals == [module : Ids, name : TerminalNames]

ASSUME NoneAssumption == None \notin Terminals

\* The end of a wire that is being dragged: fakeTerminal, of no module.
Mouse == [module |-> None, name |-> "mouse"]

Container(id) == CHOOSE c \in ToSet(containers) : c.id = id

OnLayer(t) == \E c \in ToSet(containers) :
                 c.id = t.module /\ t.name \in modulesByName[c.name].terminals

\* Mutant: an input takes every wire, like those of the final modules.
AtMostOneOutput(t) == t.name \in Outputs

\* nMaxWires: "1" everywhere but at the inputs of the final modules.
AtMostOne(t) == Container(t.module).name \notin Finals

-----------------------------------------------------------------------------
(***************************************************************************)
(* Wires.                                                                  *)
(***************************************************************************)

Ends(w) == {w.terminal1, w.terminal2}

NoWires == [layer |-> {}, containers |-> [c \in Ids |-> {}],
            terminals |-> [t \in Terminals |-> {}]]

\* addWire of a terminal for each wire of W, and the handlers by which its
\* container and then the layer learn of the wire.
TerminalAddWires(terminals, W) ==
    [t \in Terminals |-> terminals[t] \union {w \in W : t \in Ends(w)}]

ContainerOnAddWires(lists, W) ==
    [c \in Ids |-> lists[c] \union {w \in W : \E t \in Ends(w) : t.module = c}]

LayerOnAddWires(wires, W) == wires \union W

\* The constructor of each wire of W, which adds it to the terminals at both
\* ends.  fakeTerminal.addWire is empty.
AttachWires(g, W) ==
    [layer |-> LayerOnAddWires(g.layer, W),
     containers |-> ContainerOnAddWires(g.containers, W),
     terminals |-> TerminalAddWires(g.terminals, W)]

\* MeicanContainer.onAddWire: the first of its two calls for a wire that starts
\* at an input renames the input, the second renames it back and swaps the ends.
Oriented(t1, t2) ==
    IF t1.name \in Inputs /\ t2 # Mouse
    THEN [terminal1 |-> t2, terminal2 |-> t1]
    ELSE [terminal1 |-> t1, terminal2 |-> t2]

\* removeWire of a terminal, and again the handlers of container and layer.
TerminalRemoveWires(terminals, W) ==
    [t \in Terminals |-> {w \in terminals[t] : w \notin W \/ t \notin Ends(w)}]

ContainerOnRemoveWires(lists, W) ==
    [c \in Ids |->
        {w \in lists[c] : w \notin W \/ \A t \in Ends(w) : t.module # c}]

LayerOnRemoveWires(wires, W) == wires \ W

\* Mutant: the containers keep the wires.
RemoveFromTerminals(g, W) ==
    [g EXCEPT !.layer = LayerOnRemoveWires(@, W),
              !.terminals = TerminalRemoveWires(@, W)]

\* Wire.remove for each wire of W, which takes it from the terminals at its ends.
RemoveWires(g, W) ==
    [layer |-> LayerOnRemoveWires(g.layer, W),
     containers |-> ContainerOnRemoveWires(g.containers, W),
     terminals |-> TerminalRemoveWires(g.terminals, W)]

\* removeAllWires of the terminals T.
RemoveAllWires(g, T) == RemoveWires(g, UNION {g.terminals[t] : t \in T})

\* removeAllTerminals of a container, and with them their wires.
RemoveAllTerminals(g, id) ==
    RemoveAllWires(g, {t \in Terminals : t.module = id})

\* Whether a wire of t ends at target.
GetConnected(g, t, target) == \E w \in g.terminals[t] : target \in Ends(w)

-----------------------------------------------------------------------------
(***************************************************************************)
(* Drawing.                                                                *)
(***************************************************************************)

Editing == page \in {"create", "update"}

\* The mouse is free.  A bound of the model: while a workflow is sent the user
\* does no more than end a drag.
Idle == Editing /\ drag = None /\ post = None

\* A new container, whose form is still to be filled in if it has one.
NewContainer(id, kind) ==
    [id |-> id, name |-> kind, filled |-> modulesByName[kind].asks = "nothing"]

\* addContainer of the layer.
AddContainer(cs, c) == Append(cs, c)

\* A module is dropped on the layer.
AddModule(kind) ==
    /\ Idle
    /\ \E id \in Ids \ {c.id : c \in ToSet(containers)} :
          containers' = AddContainer(containers, NewContainer(id, kind))
    /\ UNCHANGED <<page, wiring, drag, requestVars, server>>

\* Its form is filled in.
FillForm(i) ==
    /\ Idle /\ ~containers[i].filled
    /\ containers' = [containers EXCEPT ![i].filled = TRUE]
    /\ UNCHANGED <<page, wiring, drag, requestVars, server>>

\* removeContainer of the layer: the list is compacted.
RemoveContainer(cs, i) == RemoveAt(cs, i)

\* Its close button.
RemoveModule(i) ==
    /\ Idle
    /\ wiring' = RemoveAllTerminals(wiring, containers[i].id)
    /\ containers' = RemoveContainer(containers, i)
    /\ UNCHANGED <<page, drag, requestVars, server>>

\* The scissors beside a terminal.
ScissorClick(t) ==
    /\ Idle /\ OnLayer(t) /\ wiring.terminals[t] # {}
    /\ wiring' = RemoveAllWires(wiring, {t})
    /\ UNCHANGED <<page, containers, drag, requestVars, server>>

\* A wire is dragged from t.  A terminal that takes one wire loses the one it has.
StartDrag(t) ==
    /\ Idle /\ OnLayer(t)
    /\ drag' = t
    /\ wiring' = AttachWires(
          IF AtMostOne(t) THEN RemoveAllWires(wiring, {t}) ELSE wiring,
          {Oriented(t, Mouse)})
    /\ UNCHANGED <<page, containers, requestVars, server>>

\* An output takes wires of inputs, an input of outputs, of another module.
IsValidWireTerminal(t, target) ==
    /\ OnLayer(target)
    /\ (t.name \in Inputs) # (target.name \in Inputs)
    /\ t.module # target.module

\* The wire is dropped on a terminal: it replaces the one wire of the target.
OnDragDrop(target) ==
    /\ Editing /\ drag # None /\ IsValidWireTerminal(drag, target)
    /\ LET g == RemoveWires(wiring, {Oriented(drag, Mouse)})
           room == IF AtMostOne(target) THEN RemoveAllWires(g, {target}) ELSE g
       IN  wiring' = IF GetConnected(g, drag, target) THEN g
                     ELSE AttachWires(room, {Oriented(drag, target)})
    /\ drag' = None
    /\ UNCHANGED <<page, containers, requestVars, server>>

\* It is dropped anywhere else.
EndDrag ==
    /\ Editing /\ drag # None
    /\ wiring' = RemoveWires(wiring, {Oriented(drag, Mouse)})
    /\ drag' = None
    /\ UNCHANGED <<page, containers, requestVars, server>>

-----------------------------------------------------------------------------
(***************************************************************************)
(* Saving and loading.                                                     *)
(***************************************************************************)

\* indexOf: no module for the end of a wire that is being dragged.
IndexOf(id) == IF id = None THEN 0
               ELSE CHOOSE i \in DOMAIN containers : containers[i].id = id

\* What is sent: names and forms of the modules, and for each wire of the layer
\* the positions of its modules and the names of its terminals.
GetValue ==
    LET end(t) == [module |-> IndexOf(t.module), name |-> t.name]
    IN  [modules |-> [i \in DOMAIN containers |->
            [name |-> containers[i].name, filled |-> containers[i].filled]],
         wires |-> {[src |-> end(w.terminal1), tgt |-> end(w.terminal2)] :
                       w \in wiring.layer}]

\* clear of the layer: its containers go, and with them all wires.
Clear ==
    /\ containers' = <<>>
    /\ wiring' = NoWires

\* addWire of the layer: a saved wire joins the terminals of those names in the
\* containers at those places.
AddWire(id, saved) ==
    LET end(t) == [module |-> id[t.module], name |-> t.name]
    IN  Oriented(end(saved.src), end(saved.tgt))

\* loadPipe: the layer is cleared and gets one new container per module, then
\* one wire per saved wire.
LoadPipe(value) ==
    \E id \in [DOMAIN value.modules -> Ids] :
       /\ IsInjective(id)
       /\ containers' = [i \in DOMAIN id |->
             [NewContainer(id[i], value.modules[i].name) EXCEPT
                 !.filled = value.modules[i].filled]]
       /\ wiring' = AttachWires(NoWires, {AddWire(id, w) : w \in value.wires})

OpenCreate ==
    /\ page = "index" /\ server.saved = None
    /\ page' = "create"
    /\ UNCHANGED <<layerVars, requestVars, server>>

\* The editor asks for the workflow as soon as it is there.
OpenUpdate ==
    /\ page = "index" /\ server.saved # None
    /\ page' = "update"
    /\ loading' = TRUE
    /\ UNCHANGED <<layerVars, check, post, server>>

\* Mutant: what was drawn since stays.
DrawingStays ==
    /\ loading
    /\ loading' = FALSE
    /\ \/ containers = <<>> /\ LoadPipe(server.saved)
       \/ containers # <<>> /\ UNCHANGED <<containers, wiring>>
    /\ drag' = None
    /\ UNCHANGED <<page, check, post, server>>

\* The answer replaces whatever was drawn since, and ends a drag under way.
OnLoadSuccess ==
    /\ loading
    /\ loading' = FALSE
    /\ LoadPipe(server.saved)
    /\ drag' = None
    /\ UNCHANGED <<page, check, post, server>>

\* The save button.  A new workflow is sent at once; for an old one the server
\* is asked first whether it is active.
SaveClick ==
    /\ Idle /\ check = None
    /\ \/ page = "create" /\ post' = GetValue /\ UNCHANGED check
       \/ page = "update" /\ check' = "asked" /\ UNCHANGED post
    /\ UNCHANGED <<page, layerVars, loading, server>>

IsActive ==
    /\ check = "asked"
    /\ check' = IF server.active THEN "active" ELSE "disabled"
    /\ UNCHANGED <<page, layerVars, loading, post, server>>

\* The answer.  An active workflow is not sent; another is, as it now looks.
IsActiveAnswered ==
    /\ check \in {"active", "disabled"}
    /\ check' = None
    /\ post' = IF check = "disabled" THEN GetValue ELSE post
    /\ UNCHANGED <<page, layerVars, loading, server>>

\* Mutant: only the sources are looked up.
SourcesAreModules(value) == \A w \in value.wires : w.src.module # 0

\* A wire without a module at one of its ends makes saveWorkflow fail.
Whole(value) == \A w \in value.wires : 0 \notin {w.src.module, w.tgt.module}

Targets(value, i, way) ==
    {w.tgt.module : w \in {v \in value.wires :
                              v.src.module = i /\ v.src.name = way}}

\* Every form filled in, one New_Request, a final module, and every module
\* connected: an entry but for New_Request, both outputs, to different modules.
Accepted(value) ==
    LET named(S) == {i \in DOMAIN value.modules : value.modules[i].name \in S}
        start == named({"New_Request"})
    IN  /\ \A i \in DOMAIN value.modules : value.modules[i].filled
        /\ \E i \in start : start = {i}
        /\ named(Finals) # {}
        /\ \A i \in DOMAIN value.modules \ start :
              \E w \in value.wires : w.tgt.module = i
        /\ \A i \in start : Targets(value, i, "_OUTPUT") # {}
        /\ \A i \in DOMAIN value.modules \ (start \union named(Finals)) :
              /\ Targets(value, i, "_OUTPUT_YES") # {}
              /\ Targets(value, i, "_OUTPUT_NO") # {}
              /\ Targets(value, i, "_OUTPUT_YES")
                    # Targets(value, i, "_OUTPUT_NO")

\* The server saves the workflow, which is disabled then, or says why not (the
\* name may be taken), or fails and the answer never comes.
SaveWorkflow ==
    /\ post # None /\ "modules" \in DOMAIN post
    /\ \/ /\ Whole(post) /\ Accepted(post)
          /\ server' = [saved |-> post, active |-> FALSE]
          /\ post' = [reply |-> "saved"]
       \/ /\ Whole(post)
          /\ post' = [reply |-> "error"]
          /\ UNCHANGED server
       \/ /\ ~Whole(post)
          /\ post' = None
          /\ UNCHANGED server
    /\ UNCHANGED <<page, layerVars, loading, check>>

\* A saved workflow ends the page; an error is shown, and the editor stays.
SaveAnswered ==
    /\ post # None /\ "reply" \in DOMAIN post
    /\ IF post.reply = "saved"
       THEN /\ page' = "index"
            /\ Clear /\ drag' = None
            /\ loading' = FALSE /\ check' = None
       ELSE UNCHANGED <<page, layerVars, loading, check>>
    /\ post' = None
    /\ UNCHANGED server

\* The cancel button.
CancelClick ==
    /\ Idle
    /\ page' = "index"
    /\ Clear
    /\ loading' = FALSE /\ check' = None
    /\ UNCHANGED <<drag, post, server>>

\* Somebody enables or disables the workflow in the list.
Toggle ==
    /\ server.saved # None
    /\ server' = [server EXCEPT !.active = ~@]
    /\ UNCHANGED <<page, layerVars, requestVars>>

-----------------------------------------------------------------------------
EditorInit ==
    /\ page = "index"
    /\ containers = <<>>
    /\ wiring = NoWires
    /\ drag = None
    /\ loading = FALSE
    /\ check = None
    /\ post = None
    /\ server = [saved |-> None, active |-> FALSE]

EditorNext ==
    \/ \E kind \in Kinds : AddModule(kind)
    \/ \E i \in DOMAIN containers : FillForm(i) \/ RemoveModule(i)
    \/ \E t \in Terminals : ScissorClick(t) \/ StartDrag(t) \/ OnDragDrop(t)
    \/ EndDrag
    \/ OpenCreate \/ OpenUpdate \/ OnLoadSuccess
    \/ SaveClick \/ IsActive \/ IsActiveAnswered \/ SaveWorkflow \/ SaveAnswered
    \/ CancelClick \/ Toggle

EditorSpec == EditorInit /\ [][EditorNext]_editorVars

\* The modules differ only in what was picked for them.
EditorSymmetry == Permutations(Ids)

-----------------------------------------------------------------------------
(***************************************************************************)
(* Properties.                                                             *)
(***************************************************************************)

\* The layer, the containers and the terminals keep lists of wires of their own:
\* a wire is in the list of the layer if and only if it is in the lists of the
\* terminals and of the containers at its ends, and in no other.
ListsAgree ==
    /\ \A t \in Terminals :
          wiring.terminals[t] = {w \in wiring.layer : t \in Ends(w)}
    /\ \A c \in Ids :
          wiring.containers[c] =
             {w \in wiring.layer : \E t \in Ends(w) : t.module = c}

\* Whichever end a wire was dragged from, once dropped it leads from an output
\* to an input of another module of the layer; the server reads it that way.
\* The only other wire is the one that is being dragged.
OutputToInput ==
    \A w \in wiring.layer :
       \/ /\ w.terminal1.name \in Outputs /\ w.terminal2.name \in Inputs
          /\ w.terminal1.module # w.terminal2.module
          /\ OnLayer(w.terminal1) /\ OnLayer(w.terminal2)
       \/ drag # None /\ w = Oriented(drag, Mouse)

\* The modules that wires lead to from the module id, in one step or more: those
\* of every set that has the ends of the wires from id and from its own modules.
Reach(id) ==
    LET leads(T) == \A w \in wiring.layer :
                       w.terminal1.module \in T \union {id} => w.terminal2.module \in T
    IN  {x \in Ids \union {None} :
            \A T \in SUBSET (Ids \union {None}) : leads(T) => x \in T}

\* Whatever is drawn, the way from a New_Request never comes back to a module
\* it has passed: the engine, which follows the wires of the saved workflow in
\* a loop without a bound, comes to an end.
WorkflowsEnd ==
    \A c \in ToSet(containers) :
       c.name = "New_Request" =>
          \A id \in Reach(c.id) \union {c.id} : id \notin Reach(id)

\* The saved workflow has wires between its own modules only, even when the
\* answer that sends it arrives while a wire is being dragged.
SavedIsWhole ==
    server.saved # None =>
       \A w \in server.saved.wires :
          {w.src.module, w.tgt.module} \subseteq DOMAIN server.saved.modules

\* Loading the workflow restores what was saved: the modules in their order,
\* and each wire between the same terminals of the same modules.
LoadRestores == [][loading /\ ~loading' /\ page' = "update"
                     => GetValue' = server.saved]_editorVars
=============================================================================
