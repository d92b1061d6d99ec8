------------------------------ MODULE UndoHistory ------------------------------
(***************************************************************************)
(* The editing commands of UndoCommands.cpp on the scene's undo stack, the *)
(* gestures that push them, and the connection objects the scene keeps for *)
(* what the graph model announces.                                         *)
(*                                                                         *)
(* A command is pushed with its payload, and its undo() and redo() act on  *)
(* whatever graph they find.  What the graph admits is asked of            *)
(* DataFlowGraphModel itself, without the memo of the loop test.  Groups   *)
(* are the subject of GroupHistory.                                        *)
(***************************************************************************)
EXTENDS UndoStack, FiniteSets, FiniteSetsExt, Functions

CONSTANTS
  InvalidNodeId, MaxPorts, Model, Layout, NewPort, None,
  Start,          \* [nodes, conns]: the graph the scene is opened with
  GroupFile,      \* [nodes, conns]: what loadGroupFile() reads, or None
  MaxHistory      \* the number of commands considered

VARIABLES
  graph,          \* [nodes, conns, drawn]: the model of each node, the
                  \* connections, and the scene's _connectionGraphicsObjects
  nextNodeId,
  history,        \* the QUndoStack
  clipboard,      \* [nodes, conns]
  recorded        \* for the properties only: the graph at each stack index

vars == <<graph, nextNodeId, history, clipboard, recorded>>

NodeId == 0 .. InvalidNodeId - 1
NoNodes == [n \in {} |-> None]
Nodes(g) == DOMAIN g.nodes

\* The functions ns and ms together, ns where both have a value.
Over(ns, ms) == [n \in DOMAIN ns \cup DOMAIN ms |-> IF n \in DOMAIN ns THEN ns[n] ELSE ms[n]]

Topology(ns, cs) == INSTANCE DataFlowGraphModel WITH
  nodes <- DOMAIN ns, ports <- [n \in DOMAIN ns |-> Layout[ns[n]]], conns <- cs,
  nextNodeId <- 0, cache <- [k \in {} |-> FALSE], shifted <- {}, edit <- None

Possible(g, c, replaced) == Topology(g.nodes, g.conns)!connectionPossible(c, replaced)
ConnectionId == Topology(NoNodes, {})!ConnectionId

(* The graphs connectionPossible() lets come about, as the constants need  *)
(* them: every connection joins ports of one type, shares neither end with *)
(* another unless the port takes many, and closes no loop.                 *)
OutPort(ns, c) == Layout[ns[c.outNodeId]]["Out"][c.outPortIndex + 1]
InPort(ns, c) == Layout[ns[c.inNodeId]]["In"][c.inPortIndex + 1]

Joins(ns, c) ==
  /\ {c.outNodeId, c.inNodeId} \subseteq DOMAIN ns
  /\ c.outPortIndex < Len(Layout[ns[c.outNodeId]]["Out"])
  /\ c.inPortIndex < Len(Layout[ns[c.inNodeId]]["In"])
  /\ OutPort(ns, c).type = InPort(ns, c).type
Apart(ns, c, d) ==
  /\ c.outNodeId = d.outNodeId /\ c.outPortIndex = d.outPortIndex => OutPort(ns, c).policy = "Many"
  /\ c.inNodeId = d.inNodeId /\ c.inPortIndex = d.inPortIndex => InPort(ns, c).policy = "Many"
Reach(E, a, b) ==
  \A S \in SUBSET NodeId :
    a \in S /\ (\A c \in E : c.outNodeId \in S => c.inNodeId \in S) => b \in S

IsSaved(g) == g.conns \subseteq ConnectionId /\ \E ns \in SUBSET NodeId : g.nodes \in [ns -> Model]
IsLegal(g) ==
  /\ IsSaved(g)
  /\ \A c \in g.conns : Joins(g.nodes, c) /\ ~Reach(g.conns, c.inNodeId, c.outNodeId)
  /\ \A c, d \in g.conns : c = d \/ Apart(g.nodes, c, d)

ASSUME HistoryConstants ==
  /\ InvalidNodeId \in Nat /\ MaxPorts \in Nat /\ MaxHistory \in Nat
  /\ Layout \in [Model -> [{"In", "Out"} -> Seq([type : STRING, policy : {"One", "Many"}])]]
\* The scene is opened with nodes numbered from 0; a group file holds any nodes.
ASSUME StartIsLegal ==
  IsLegal(Start) /\ \E k \in 0 .. InvalidNodeId : DOMAIN Start.nodes = 0 .. k - 1
ASSUME FileIsSaved == GroupFile = None \/ IsSaved(GroupFile)

\* Mutant: the connections that leave a node are forgotten.
ConnectionsInto(g, ns) == {c \in g.conns : c.inNodeId \in ns}

ConnectionsOf(g, ns) == {c \in g.conns : c.inNodeId \in ns \/ c.outNodeId \in ns}

-----------------------------------------------------------------------------
(* What the graph model does, and what the scene makes of its signals.     *)

loadNodes(g, ns) == [g EXCEPT !.nodes = Over(ns, @)]

addConnection(g, c) ==
  IF c \in g.conns \/ ~Possible(g, c, {}) THEN g
  ELSE [g EXCEPT !.conns = @ \cup {c}, !.drawn = @ \cup {c}]

deleteConnections(g, cs) ==
  [g EXCEPT !.conns = @ \ cs, !.drawn = @ \ (cs \cap g.conns)]

deleteNodes(g, ns) ==
  LET left == deleteConnections(g, ConnectionsOf(g, ns \cap Nodes(g)))
  IN  [left EXCEPT !.nodes = Restrict(@, Nodes(g) \ ns)]

insertSerializedItems(g, saved) ==
  FoldSet(LAMBDA c, h : addConnection(h, c), loadNodes(g, saved.nodes), saved.conns)

deleteSerializedItems(g, saved) ==
  deleteNodes(deleteConnections(g, saved.conns), DOMAIN saved.nodes)

\* Mutant: the connections that went are not announced.
swapAnnouncingNew(g, spare, gone, come) ==
  [g EXCEPT !.conns = spare, !.drawn = @ \cup come]

\* The transaction exchanges whole connection sets, then announces the
\* connections it was made for.
swap(g, spare, gone, come) ==
  [g EXCEPT !.conns = spare, !.drawn = (@ \ gone) \cup come]

-----------------------------------------------------------------------------
(* undo() and redo() of each command: the graph and the command afterwards.*)

undoCreate(cmd, g) ==
  [graph |-> deleteNodes(g, DOMAIN cmd.nodes), cmd |-> cmd]
redoCreate(cmd, g) ==
  [graph |-> insertSerializedItems(g, cmd), cmd |-> cmd]

undoDelete(cmd, g) == [graph |-> insertSerializedItems(g, cmd), cmd |-> cmd]
redoDelete(cmd, g) == [graph |-> deleteSerializedItems(g, cmd), cmd |-> cmd]

undoPaste(cmd, g) == redoDelete(cmd, g)
redoPaste(cmd, g) == undoDelete(cmd, g)

undoConnect(cmd, g) == [graph |-> deleteConnections(g, cmd.conns), cmd |-> cmd]
redoConnect(cmd, g) ==
  [graph |-> FoldSet(LAMBDA c, h : addConnection(h, c), g, cmd.conns), cmd |-> cmd]

undoDisconnect(cmd, g) == redoConnect(cmd, g)
redoDisconnect(cmd, g) == undoConnect(cmd, g)

\* Mutant: the set that was replaced is not kept for the next exchange.
undoReplaceOnce(cmd, g) == [graph |-> swap(g, cmd.spare, cmd.added, cmd.removed), cmd |-> cmd]

undoReplace(cmd, g) ==
  [graph |-> swap(g, cmd.spare, cmd.added, cmd.removed), cmd |-> [cmd EXCEPT !.spare = g.conns]]
redoReplace(cmd, g) ==
  [graph |-> swap(g, cmd.spare, cmd.removed, cmd.added), cmd |-> [cmd EXCEPT !.spare = g.conns]]

undoOf(cmd, g) ==
  CASE cmd.kind = "create"     -> undoCreate(cmd, g)
    [] cmd.kind = "delete"     -> undoDelete(cmd, g)
    [] cmd.kind = "paste"      -> undoPaste(cmd, g)
    [] cmd.kind = "connect"    -> undoConnect(cmd, g)
    [] cmd.kind = "disconnect" -> undoDisconnect(cmd, g)
    [] cmd.kind = "replace"    -> undoReplace(cmd, g)

redoOf(cmd, g) ==
  CASE cmd.kind = "create"     -> redoCreate(cmd, g)
    [] cmd.kind = "delete"     -> redoDelete(cmd, g)
    [] cmd.kind = "paste"      -> redoPaste(cmd, g)
    [] cmd.kind = "connect"    -> redoConnect(cmd, g)
    [] cmd.kind = "disconnect" -> redoDisconnect(cmd, g)
    [] cmd.kind = "replace"    -> redoReplace(cmd, g)

-----------------------------------------------------------------------------
Snapshot(g) == [nodes |-> g.nodes, conns |-> g.conns]

Init ==
  /\ graph = [nodes |-> Start.nodes, conns |-> Start.conns, drawn |-> Start.conns]
  /\ nextNodeId = Cardinality(DOMAIN Start.nodes)
  /\ history = EmptyStack
  /\ clipboard = [nodes |-> NoNodes, conns |-> {}]
  /\ recorded = <<Snapshot(graph)>>

Roll(seq) == Append(SubSeq(seq, 1, history.index + 1), Snapshot(graph'))

\* push(): redo() once, then the stack.
Push(cmd) ==
  /\ history.index < MaxHistory
  /\ LET after == redoOf(cmd, graph)
     IN  graph' = after.graph /\ history' = Pushed(history, after.cmd)
  /\ recorded' = Roll(recorded)

PushObsolete ==
  /\ history' = PushedObsolete(history)
  /\ recorded' = SubSeq(recorded, 1, history.index + 1)
  /\ UNCHANGED graph

\* Of consecutive new ids, the one that stands for n in the order of ns.
NewId(ns, n) == nextNodeId + Cardinality({k \in ns : k < n})
Renamed(c, ns) ==
  [c EXCEPT !.outNodeId = NewId(ns, @), !.inNodeId = NewId(ns, @)]

\* newNodeId() for each entry, then the entry under its new id.
makeNewNodeIds(saved) ==
  LET ns == DOMAIN saved.nodes
  IN  [nodes |-> [k \in {NewId(ns, n) : n \in ns} |->
                    saved.nodes[CHOOSE n \in ns : NewId(ns, n) = k]],
       conns |-> {Renamed(c, ns) : c \in
                    {d \in saved.conns : d.outNodeId \in ns /\ d.inNodeId \in ns}}]

\* Mutant: the ids are handed out again.
TakeIdsAgain(count) ==
  /\ nextNodeId + count <= InvalidNodeId
  /\ UNCHANGED nextNodeId

TakeIds(count) ==
  /\ nextNodeId + count <= InvalidNodeId
  /\ nextNodeId' = nextNodeId + count

-----------------------------------------------------------------------------
(* The gestures.                                                           *)

Create(m) ==
  /\ TakeIds(1)
  /\ Push([kind |-> "create", nodes |-> [n \in {nextNodeId} |-> m], conns |-> {}])
  /\ UNCHANGED clipboard

\* What is selected: nodes, which take all their connections along, and other
\* connections.
Delete(ns, cs) ==
  /\ LET saved == cs \cup ConnectionsOf(graph, ns)
     IN  IF ns = {} /\ saved = {} THEN PushObsolete
         ELSE Push([kind |-> "delete", nodes |-> Restrict(graph.nodes, ns), conns |-> saved])
  /\ UNCHANGED <<nextNodeId, clipboard>>

\* Bound: a copy is only made while there are ids left to paste it under.
Pasteable(ns) == nextNodeId + Cardinality(ns) <= InvalidNodeId

Copy(ns) ==
  /\ Pasteable(ns)
  /\ PushObsolete
  /\ clipboard' = IF ns = {} THEN clipboard
                  ELSE [nodes |-> Restrict(graph.nodes, ns),
                        conns |-> {c \in graph.conns : c.inNodeId \in ns /\ c.outNodeId \in ns}]
  /\ UNCHANGED nextNodeId

PasteNothing ==
  /\ clipboard.nodes = NoNodes
  /\ PushObsolete
  /\ UNCHANGED <<nextNodeId, clipboard>>

Paste ==
  LET fresh == makeNewNodeIds(clipboard)
  IN  /\ clipboard.nodes # NoNodes
      /\ TakeIds(Cardinality(DOMAIN clipboard.nodes))
      /\ Push([kind |-> "paste", nodes |-> fresh.nodes, conns |-> fresh.conns])
      /\ UNCHANGED clipboard

(* An entry of the clipboard cannot be loaded (an unknown model, say): the *)
(* nodes before it are deleted again and the command calls itself obsolete.*)
PasteFails(loaded) ==
  LET fresh == makeNewNodeIds(clipboard)
      part  == Restrict(fresh.nodes, loaded)
  IN  /\ loaded \subseteq DOMAIN fresh.nodes /\ loaded # DOMAIN fresh.nodes
      /\ TakeIds(Cardinality(DOMAIN clipboard.nodes))
      /\ graph' = deleteNodes(loadNodes(graph, part), loaded)
      /\ history' = PushedObsolete(history)
      /\ recorded' = SubSeq(recorded, 1, history.index + 1)
      /\ UNCHANGED clipboard

\* replacedConnectionIds() for a connection dragged from an out port.
Occupants(c) ==
  IF Layout[graph.nodes[c.outNodeId]]["Out"][c.outPortIndex + 1].policy # "One" THEN {}
  ELSE {d \in graph.conns : d.outNodeId = c.outNodeId /\ d.outPortIndex = c.outPortIndex}

\* tryConnect() at the end of a drag from the port on side "from".
TryConnect(c, from) ==
  /\ c.outNodeId \in Nodes(graph) /\ c.inNodeId \in Nodes(graph)
  /\ LET replaced == IF from = "Out" THEN Occupants(c) ELSE {}
     IN  /\ Possible(graph, c, replaced)
         /\ IF replaced = {} THEN Push([kind |-> "connect", nodes |-> NoNodes, conns |-> {c}])
            ELSE IF replaced = {c} THEN PushObsolete
            ELSE Push([kind |-> "replace", removed |-> replaced, added |-> {c},
                       spare |-> (graph.conns \ replaced) \cup {c}])
  /\ UNCHANGED <<nextNodeId, clipboard>>

(* prepareConnectionReplacement() gives no transaction, because it runs    *)
(* out of memory or because the model does not override it.                *)
ReplaceRefused(c) ==
  /\ c.outNodeId \in Nodes(graph) /\ c.inNodeId \in Nodes(graph)
  /\ Occupants(c) \notin {{}, {c}}
  /\ Possible(graph, c, Occupants(c))
  /\ PushObsolete
  /\ UNCHANGED <<nextNodeId, clipboard>>

\* The press on a connected in port.
Disconnect(c) ==
  /\ c \in graph.conns /\ c \in graph.drawn
  /\ Push([kind |-> "disconnect", nodes |-> NoNodes, conns |-> {c}])
  /\ UNCHANGED <<nextNodeId, clipboard>>

Undo ==
  /\ CanUndo(history)
  /\ LET after == undoOf(LastDone(history), graph)
     IN  graph' = after.graph /\ history' = Undone(history, after.cmd)
  /\ UNCHANGED <<nextNodeId, clipboard, recorded>>

Redo ==
  /\ CanRedo(history)
  /\ LET after == redoOf(NextUndone(history), graph)
     IN  graph' = after.graph /\ history' = Redone(history, after.cmd)
  /\ UNCHANGED <<nextNodeId, clipboard, recorded>>

(* loadGroupFile() puts the nodes and connections of a file into the graph *)
(* under new ids.  It is a menu action, but not a command.                 *)
LoadGroupFile ==
  /\ GroupFile # None
  /\ TakeIds(Cardinality(DOMAIN GroupFile.nodes))
  /\ LET fresh == makeNewNodeIds(GroupFile)
     IN  /\ graph' = insertSerializedItems(graph, fresh)
         /\ recorded' = [i \in DOMAIN recorded |->
              [nodes |-> Over(fresh.nodes, recorded[i].nodes),
               conns |-> fresh.conns \cup recorded[i].conns]]
  /\ UNCHANGED <<history, clipboard>>

Next ==
  \/ \E m \in Model : Create(m)
  \/ \E ns \in SUBSET Nodes(graph) :
       \E cs \in SUBSET (graph.conns \ ConnectionsOf(graph, ns)) : Delete(ns, cs)
  \/ \E ns \in SUBSET Nodes(graph) : Copy(ns)
  \/ PasteNothing
  \/ Paste
  \/ \E loaded \in SUBSET NodeId : PasteFails(loaded)
  \/ \E c \in ConnectionId, from \in {"In", "Out"} : TryConnect(c, from)
  \/ \E c \in ConnectionId : ReplaceRefused(c)
  \/ \E c \in ConnectionId : Disconnect(c)
  \/ Undo
  \/ Redo
  \/ LoadGroupFile

Spec == Init /\ [][Next]_vars

-----------------------------------------------------------------------------
(* "The undo-stack index and topology cannot diverge" (undo-redo.rst): at  *)
(* every index the graph is the one that was there when the stack was last *)
(* pushed to that index, with what came from files since.                  *)
HistoryFaithful == Snapshot(graph) = recorded[history.index + 1]

(* "A null result leaves topology, callbacks, and history unchanged"       *)
(* (undo-redo.rst) of a replacement the model does not prepare.            *)
RefusalKeepsHistory ==
  [][\A c \in ConnectionId : ReplaceRefused(c) => UNCHANGED <<graph, history>>]_vars

(* The scene draws the connections the model has: every change of the      *)
(* connection set was announced.                                           *)
SceneMirrorsModel == graph.drawn = graph.conns

(* Undoing a deletion and redoing a creation never find their node ids     *)
(* taken: loadNode() would throw into QUndoStack.                          *)
RestoredIdsAreFree ==
  /\ CanUndo(history) /\ LastDone(history).kind = "delete"
       => DOMAIN LastDone(history).nodes \cap Nodes(graph) = {}
  /\ CanRedo(history) /\ NextUndone(history).kind \in {"create", "paste"}
       => DOMAIN NextUndone(history).nodes \cap Nodes(graph) = {}

(* Undo and redo keep the topology legal, although neither asks for the    *)
(* graph a command was made on.                                            *)
TopologyLegal ==
  /\ Topology(graph.nodes, graph.conns)!NoDangling
  /\ Topology(graph.nodes, graph.conns)!PortsNotOverbooked
  /\ Topology(graph.nodes, graph.conns)!Acyclic
=============================================================================
