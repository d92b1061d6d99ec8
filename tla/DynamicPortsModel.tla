--------------------------- MODULE DynamicPortsModel ---------------------------
(***************************************************************************)
(* The dynamic_ports example: a graph model whose nodes grow and lose      *)
(* ports under the "+" and "-" buttons of the widget each node shows, with *)
(* budgets on nodes and ports, a file format, and the scene that draws it. *)
(*                                                                         *)
(* Four things describe the same ports: the model's counts, the button     *)
(* rows of the widget, the connections (which the edits of                 *)
(* AbstractGraphModel renumber) and the scene.  Port edits are not undo    *)
(* commands, so a command on the stack meets a graph that moved under it.  *)
(***************************************************************************)
EXTENDS Integers, Sequences, SequencesExt, FiniteSets, FiniteSetsExt, Functions

CONSTANTS
  InvalidNodeId,     \* the id that stands for "no node"; ids run below it
  MaxNodes,          \* s_max_serialized_nodes
  MaxPortsPerNode,   \* s_max_serialized_ports_per_node
  MaxPorts,          \* s_max_serialized_ports
  MaxConnections,    \* s_max_serialized_connections
  PortFiles,         \* documents a file may hold: [nodes, conns], two sequences
  NoCommand          \* "nothing on the undo stack"

\* There is room for the graph of initializeModel(); a document holds numbers.
ASSUME PortConstants ==
  /\ InvalidNodeId \in Nat /\ InvalidNodeId >= 2 /\ MaxNodes \in Nat /\ MaxNodes >= 2
  /\ MaxPortsPerNode \in Nat \ {0} /\ MaxPorts \in Nat /\ MaxPorts >= 4
  /\ MaxConnections \in Nat \ {0}
  /\ \A doc \in PortFiles :
       /\ doc.nodes \in Seq([id : Int, In : Nat, Out : Nat])
       /\ doc.conns \in Seq([outNodeId : Int, outPortIndex : Int, inNodeId : Int, inPortIndex : Int])

VARIABLES
  ports,        \* _nodePortCounts: [In, Out] for every node of _nodeIds
  wires,        \* the connections of _connectionIndex
  nextPortNode, \* _nextNodeId
  rows,         \* the button rows of each PortAddRemoveWidget
  canvas,       \* [nodes, conns]: the scene's graphics objects
  command,      \* the last command of the undo stack, undone or not
  apart,        \* auxiliary: what an exchange has driven apart, see undoPorts
  thrown        \* an exception left the undo stack: the program is over

portVars == <<ports, wires, nextPortNode, rows, canvas, command, apart, thrown>>

PortSides == {"In", "Out"}
PortNodeId == 0 .. InvalidNodeId - 1
NoPorts == [In |-> 0, Out |-> 0]

WireNode(side, c) == IF side = "In" THEN c.inNodeId ELSE c.outNodeId
WirePort(side, c) == IF side = "In" THEN c.inPortIndex ELSE c.outPortIndex
WiresAt(cs, n, side, i) == {c \in cs : WireNode(side, c) = n /\ WirePort(side, c) = i}
WiresOf(cs, ns) == {c \in cs : c.inNodeId \in ns \/ c.outNodeId \in ns}

\* Every connection the counts leave room for.
Wires(counts) ==
  {c \in [outNodeId : DOMAIN counts, outPortIndex : 0 .. MaxPortsPerNode - 1,
          inNodeId : DOMAIN counts, inPortIndex : 0 .. MaxPortsPerNode - 1] :
     c.outPortIndex < counts[c.outNodeId].Out /\ c.inPortIndex < counts[c.inNodeId].In}

PortTotal(counts) == FoldSet(LAMBDA n, t : counts[n].In + counts[n].Out + t, 0, DOMAIN counts)

\* The counts of f, and of g for the nodes that f does not have.
Joined(f, g) == [n \in DOMAIN f \cup DOMAIN g |-> IF n \in DOMAIN f THEN f[n] ELSE g[n]]

node_id_after(n) == n + 1     \* InvalidNodeId is the number after the last id

port_count_allowed(counts, n, side, count) ==
  /\ count <= MaxPortsPerNode
  /\ PortTotal([counts EXCEPT ![n][side] = count]) <= MaxPorts

\* Both ends are ports the nodes have, and nothing is plugged in that stays.
connectable(counts, cs, c, replaced) ==
  /\ c \in Wires(counts)
  /\ Cardinality((cs \ replaced) \cup {c}) <= MaxConnections
  /\ c \notin cs \ replaced
  /\ \A side \in PortSides : WiresAt(cs, WireNode(side, c), side, WirePort(side, c)) \subseteq replaced

-----------------------------------------------------------------------------
(* What the file format accepts, and what save() writes.                   *)

ParsedPorts(doc) ==
  [n \in {node.id : node \in Range(doc.nodes)} |->
     LET node == CHOOSE node \in Range(doc.nodes) : node.id = n
     IN  [In |-> node.In, Out |-> node.Out]]

\* The connections are taken one by one, each against those before it.
parse_graph(doc) ==
  LET counts == ParsedPorts(doc)
      before(i) == {doc.conns[j] : j \in 1 .. i - 1}
  IN  /\ Len(doc.nodes) <= MaxNodes /\ Len(doc.conns) <= MaxConnections
      /\ \A i \in DOMAIN doc.nodes :
           /\ doc.nodes[i].id \in PortNodeId
           /\ doc.nodes[i].In <= MaxPortsPerNode /\ doc.nodes[i].Out <= MaxPortsPerNode
      /\ Cardinality(DOMAIN counts) = Len(doc.nodes)
      /\ PortTotal(counts) <= MaxPorts
      /\ \A i \in DOMAIN doc.conns : connectable(counts, before(i), doc.conns[i], {})

saved(counts, cs) ==
  [nodes |-> SetToSeq({[id |-> n, In |-> counts[n].In, Out |-> counts[n].Out] : n \in DOMAIN counts}),
   conns |-> SetToSeq(cs)]

-----------------------------------------------------------------------------
(* initializeModel() of the example, then the scene over it.               *)

PortsInit ==
  LET one == [In |-> 1, Out |-> 1]
      c   == [outNodeId |-> 0, outPortIndex |-> 0, inNodeId |-> 1, inPortIndex |-> 0]
  IN  /\ ports = [n \in {0, 1} |-> one] /\ rows = ports
      /\ wires = {c} /\ nextPortNode = 2
      /\ canvas = [nodes |-> {0, 1}, conns |-> {c}]
      /\ command = NoCommand /\ apart = {} /\ thrown = FALSE

\* What the scene does with the signals of one model call: objects go, then
\* objects come.
Redrawn(goneNodes, goneWires, newNodes, newWires) ==
  canvas' = [nodes |-> (canvas.nodes \ goneNodes) \cup newNodes,
             conns |-> (canvas.conns \ goneWires) \cup newWires]

\* try_add_node(), the "Create Node" menu entry, and addNode(), which differ in
\* the position alone.
addPortNode ==
  /\ Cardinality(DOMAIN ports) < MaxNodes
  /\ nextPortNode # InvalidNodeId
  /\ ports' = Joined(ports, [n \in {nextPortNode} |-> NoPorts])
  /\ rows' = Joined(rows, [n \in {nextPortNode} |-> NoPorts])
  /\ nextPortNode' = node_id_after(nextPortNode)
  /\ Redrawn({}, {}, {nextPortNode}, {})
  /\ UNCHANGED <<wires, command, apart, thrown>>

populateButtons(n, side, count) == [rows EXCEPT ![n][side] = count]

\* setNodeData(InPortCount | OutPortCount): no connected port may disappear, and
\* the widget is repopulated.
setPortCount(n, side, count) ==
  /\ port_count_allowed(ports, n, side, count)
  /\ \A i \in count .. ports[n][side] - 1 : WiresAt(wires, n, side, i) = {}
  /\ ports' = [ports EXCEPT ![n][side] = count]
  /\ rows' = populateButtons(n, side, count)
  /\ UNCHANGED <<wires, nextPortNode, canvas, command, apart, thrown>>

-----------------------------------------------------------------------------
(* The two buttons.  portsAboutToBe...() takes the connections behind the   *)
(* edit away, the count changes, and ports...() adds them back shifted. They *)
(* go through the ports the node has: a connection beyond them stays.       *)

Shifted(c, n, side, by) ==
  IF side = "In" /\ c.inNodeId = n THEN [c EXCEPT !.inPortIndex = @ + by]
  ELSE [c EXCEPT !.outPortIndex = @ + by]

Behind(n, side, i) ==
  {c \in wires : WireNode(side, c) = n /\ WirePort(side, c) \in i .. ports[n][side] - 1}

\* addConnection() once per shifted connection, refusing what no longer fits.
Readded(counts, cs, moved) ==
  cs \cup {c \in moved : connectable(counts, cs \cup (moved \ {c}), c, {})}

addPort(n, side, at) ==
  LET grown == [ports EXCEPT ![n][side] = @ + 1]
      moved == Behind(n, side, at)
      stay  == wires \ moved
      back  == Readded(grown, stay, {Shifted(c, n, side, 1) : c \in moved})
  IN  ports' = grown /\ wires' = back /\ Redrawn({}, moved, {}, back \ stay)

\* What was plugged into the port goes with it.
removePort(n, side, at) ==
  LET left  == [ports EXCEPT ![n][side] = @ - 1]
      moved == Behind(n, side, at + 1)
      stay  == wires \ Behind(n, side, at)
      back  == Readded(left, stay, {Shifted(c, n, side, -1) : c \in moved})
  IN  ports' = left /\ wires' = back /\ Redrawn({}, Behind(n, side, at), {}, back \ stay)

PortRefused == UNCHANGED <<ports, wires, canvas>>
addButtonGroupToLayout(n, side) == [rows EXCEPT ![n][side] = @ + 1]
removeButtonGroupFromLayout(n, side) == [rows EXCEPT ![n][side] = Max({0, @ - 1})]

\* Mutant: a refused click leaves its new row behind.
onPlusClickedNoRollback(n, side, i) ==
  /\ rows' = addButtonGroupToLayout(n, side)
  /\ IF i < ports[n][side] /\ port_count_allowed(ports, n, side, ports[n][side] + 1)
     THEN addPort(n, side, i + 1) ELSE PortRefused
  /\ UNCHANGED <<nextPortNode, command, apart, thrown>>

\* The new row is put under the clicked one first and taken out again when the
\* model refuses the port.
onPlusClicked(n, side, i) ==
  /\ IF i < ports[n][side] /\ port_count_allowed(ports, n, side, ports[n][side] + 1)
     THEN addPort(n, side, i + 1) /\ rows' = addButtonGroupToLayout(n, side)
     ELSE PortRefused /\ UNCHANGED rows
  /\ UNCHANGED <<nextPortNode, command, apart, thrown>>

\* The row goes first, then the model is asked.
onMinusClicked(n, side, i) ==
  /\ rows' = removeButtonGroupFromLayout(n, side)
  /\ IF i < ports[n][side] THEN removePort(n, side, i) ELSE PortRefused
  /\ UNCHANGED <<nextPortNode, command, apart, thrown>>

-----------------------------------------------------------------------------
(* The undo stack, as far as its last command: a deletion, a connection or *)
(* an exchange, with what it needs to go back and forth: the nodes and     *)
(* connections, those that gave way, and the index that an exchange keeps  *)
(* to put back.  `left' is auxiliary: the index as an exchange left it.    *)

newCommand(kind, nodes, conns) ==
  [kind |-> kind, done |-> TRUE, nodes |-> nodes, conns |-> conns,
   replaced |-> {}, spare |-> {}, left |-> {}]

Removed(ns, cs) ==
  LET gone == WiresOf(wires, ns) \cup (cs \cap wires)
  IN  /\ ports' = Restrict(ports, DOMAIN ports \ ns)
      /\ rows' = Restrict(rows, DOMAIN rows \ ns)
      /\ wires' = wires \ gone
      /\ Redrawn(ns, gone, {}, {})
      /\ UNCHANGED <<nextPortNode, apart, thrown>>

\* Mutant: a node that is put back is not counted against the port budget.
loadableNodesUncounted(kept) ==
  /\ DOMAIN kept \cap DOMAIN ports = {}
  /\ Cardinality(DOMAIN ports \cup DOMAIN kept) <= MaxNodes

\* loadNode() throws for an id in use and for a graph over its budgets.
loadableNodes(kept) ==
  /\ DOMAIN kept \cap DOMAIN ports = {}
  /\ Cardinality(DOMAIN ports \cup DOMAIN kept) <= MaxNodes
  /\ PortTotal(ports) + PortTotal(kept) <= MaxPorts

\* insertSerializedItems(): the nodes by loadNode(), whose exception nothing
\* catches, then the connections by addConnection(), which refuses quietly.
Inserted(kept, cs) ==
  IF loadableNodes(kept)
  THEN LET counts == Joined(kept, ports)
           back   == Readded(counts, wires, cs \ wires)
       IN  /\ ports' = counts /\ rows' = Joined(kept, rows) /\ wires' = back
           /\ nextPortNode' = Max({nextPortNode} \cup {node_id_after(n) : n \in DOMAIN kept})
           /\ Redrawn({}, {}, DOMAIN kept, back \ wires)
           /\ UNCHANGED <<apart, thrown>>
  ELSE thrown' = TRUE /\ UNCHANGED <<ports, wires, nextPortNode, rows, canvas, apart>>

\* A DeleteCommand remembers the nodes as saveNode() wrote them.
deleteSelection(ns, cs) ==
  /\ ns \cup cs # {}
  /\ command' = newCommand("delete", Restrict(ports, ns), WiresOf(wires, ns) \cup cs)
  /\ Removed(ns, cs)

connectPorts(c) ==
  /\ connectable(ports, wires, c, {})
  /\ command' = newCommand("connect", Restrict(ports, {}), {c})
  /\ wires' = wires \cup {c}
  /\ Redrawn({}, {}, {}, {c})
  /\ UNCHANGED <<ports, nextPortNode, rows, apart, thrown>>

\* The connections that leave the out port give way to c.
prepareConnectionReplacement(c, old) ==
  LET prepared == (wires \ old) \cup {c}
  IN  /\ command' = [newCommand("replace", Restrict(ports, {}), {c}) EXCEPT
                        !.replaced = old, !.spare = wires, !.left = prepared]
      /\ wires' = prepared
      /\ Redrawn({}, old, {}, {c})
      /\ UNCHANGED <<ports, nextPortNode, rows, apart, thrown>>

\* The exchange of a connection for itself is obsolete, and pushing it drops
\* what could be redone.
obsoleteExchange ==
  /\ command' = IF command # NoCommand /\ ~command.done THEN NoCommand ELSE command
  /\ UNCHANGED <<ports, wires, nextPortNode, rows, canvas, apart, thrown>>

replaceWire(c) ==
  LET old == WiresAt(wires, c.outNodeId, "Out", c.outPortIndex)
  IN  /\ old # {} /\ connectable(ports, wires, c, old)
      /\ IF old = {c} THEN obsoleteExchange ELSE prepareConnectionReplacement(c, old)

\* The index goes back and forth as a whole, whatever became of ports and
\* connections meanwhile, and only the exchanged connections are announced.
\* `apart' remembers an index that names ports which are gone, and one that was
\* exchanged for another than the exchange had left.
Swapped(gone, come) ==
  /\ wires' = command.spare
  /\ command' = [command EXCEPT !.done = ~@, !.spare = wires, !.left = command.spare]
  /\ Redrawn({}, gone, {}, come)
  /\ apart' = apart \cup {flag \in {"ports", "scene"} :
                            IF flag = "ports" THEN ~(command.spare \subseteq Wires(ports))
                            ELSE wires # command.left}
  /\ UNCHANGED <<ports, nextPortNode, rows, thrown>>

Turned == command' = [command EXCEPT !.done = ~@]

undoPorts ==
  /\ command # NoCommand /\ command.done
  /\ \/ command.kind = "delete" /\ Turned /\ Inserted(command.nodes, command.conns)
     \/ command.kind = "connect" /\ Turned /\ Removed({}, command.conns)
     \/ command.kind = "replace" /\ Swapped(command.conns, command.replaced)

redoPorts ==
  /\ command # NoCommand /\ ~command.done
  /\ \/ command.kind = "delete" /\ Turned
        /\ Removed(DOMAIN command.nodes \cap DOMAIN ports, command.conns)
     \/ command.kind = "connect" /\ Turned /\ Inserted(command.nodes, command.conns)
     \/ command.kind = "replace" /\ Swapped(command.replaced, command.conns)

-----------------------------------------------------------------------------
\* load(): the scene drops the old objects before it makes the new ones.
graphBecomes(counts, conns) ==
  /\ ports' = counts /\ rows' = counts /\ wires' = conns /\ apart' = apart \ {"ports"}
  /\ Redrawn(DOMAIN ports, wires, DOMAIN counts, conns)

\* Mutant: the next id survives the load.
loadPortFileKeepingNextId(doc) ==
  /\ parse_graph(doc)
  /\ graphBecomes(ParsedPorts(doc), Range(doc.conns))
  /\ command' = NoCommand /\ UNCHANGED <<nextPortNode, thrown>>

\* load_graph_from_file(): a document that does not parse changes nothing; one
\* that does replaces the graph and ends the undo history.
loadPortFile(doc) ==
  /\ parse_graph(doc)
  /\ graphBecomes(ParsedPorts(doc), Range(doc.conns))
  /\ nextPortNode' = Max({0} \cup {node_id_after(node.id) : node \in Range(doc.nodes)})
  /\ command' = NoCommand /\ UNCHANGED thrown

clickButton ==
  \E n \in DOMAIN rows, side \in PortSides : \E i \in 0 .. rows[n][side] - 1 :
    onPlusClicked(n, side, i) \/ onMinusClicked(n, side, i)

dragWire == \E c \in Wires(ports) : connectPorts(c) \/ replaceWire(c)

deleteSelected ==
  \/ \E ns \in SUBSET DOMAIN ports : deleteSelection(ns, {})
  \/ \E c \in canvas.conns : deleteSelection({}, {c})

PortsNext ==
  /\ ~thrown
  /\ \/ addPortNode
     \/ \E n \in DOMAIN ports, side \in PortSides, count \in 0 .. MaxPortsPerNode :
          setPortCount(n, side, count)
     \/ clickButton \/ dragWire \/ deleteSelected
     \/ undoPorts \/ redoPorts
     \/ \E doc \in PortFiles : loadPortFile(doc)

PortsSpec == PortsInit /\ [][PortsNext]_portVars

-----------------------------------------------------------------------------
(* Properties.                                                             *)

\* The counts, the rows and the ids stay in their ranges and on one set of
\* nodes (DynamicPortsModel.hpp, the members).
PortsTypeOK ==
  /\ DOMAIN ports \subseteq PortNodeId /\ DOMAIN rows = DOMAIN ports
  /\ \A n \in DOMAIN ports : ports[n] \in [PortSides -> 0 .. MaxPortsPerNode]
  /\ nextPortNode \in 0 .. InvalidNodeId /\ thrown \in BOOLEAN

\* save() writes a document that load() accepts and that gives the same ports
\* and connections back, whatever was edited, undone and loaded before: no
\* budget, port or plug is ever overrun.  That goes for connections as long as no
\* exchange was taken back, or made again, whose index names a port that has gone
\* since; the next load mends this (save, parse_graph, ReplaceConnectionCommand).
SavedGraphLoads ==
  LET doc == saved(ports, wires)
      bare == saved(ports, {})
  IN  /\ PortsTypeOK /\ parse_graph(bare) /\ ParsedPorts(bare) = ports
      /\ "ports" \notin apart => parse_graph(doc) /\ Range(doc.conns) = wires

\* Every node shows one button row per port, and the scene shows the nodes of
\* the model and no others, after every refused click, undo and load.  It shows
\* the connections of the model and no others, shifted ones included, as long as
\* every exchange that was taken back or made again found the connections it had
\* left (PortAddRemoveWidget, the signals, publishUndo).
WidgetsAndSceneFollow ==
  /\ rows = ports /\ canvas.nodes = DOMAIN ports
  /\ "scene" \notin apart => canvas.conns = wires

\* The next id is above every id the model has or the undo stack could bring
\* back, so a deletion is only ever refused its undo when other edits have used
\* up the node or port budget (newNodeId, loadNode, load_graph_from_file).
UndoFailsOnlyWhenFull ==
  /\ \A n \in DOMAIN ports : n < nextPortNode
  /\ command # NoCommand =>
       /\ \A n \in DOMAIN command.nodes : n < nextPortNode
       /\ thrown => \/ Cardinality(DOMAIN ports \cup DOMAIN command.nodes) > MaxNodes
                    \/ PortTotal(ports) + PortTotal(command.nodes) > MaxPorts
=============================================================================
