------------------------- MODULE DataFlowGraphModel --------------------------
(***************************************************************************)
(* DataFlowGraphModel.cpp and the dynamic-port half of                     *)
(* AbstractGraphModel.cpp: which nodes and connections the graph has, what *)
(* connectionPossible() admits, the memo of its loop test, the counter of  *)
(* node ids, and the two-phase protocol by which a delegate changes its    *)
(* own ports.                                                              *)
(*                                                                         *)
(* The connection index is the set ConnectionIdIndex is shown to           *)
(* implement.  Everything runs on the GUI thread: a handler is one action, *)
(* and a port edit, which calls back into the delegate, is several.        *)
(***************************************************************************)
EXTENDS Integers, Sequences, FiniteSets

CONSTANTS
  InvalidNodeId,  \* one past the largest node id (2^32 - 1 in the program)
  MaxPorts,       \* the ports a node may grow to on one side
  Model,          \* the model names the registry knows
  Layout,         \* Layout[m][side]: the ports a new node of that model has
  NewPort,        \* the ports a delegate may insert later
  None

Sides == {"In", "Out"}
Port == [type : STRING, policy : {"One", "Many"}]

ASSUME IdAssumption == InvalidNodeId \in Nat /\ MaxPorts \in Nat
ASSUME LayoutAssumption ==
  /\ Layout \in [Model -> [Sides -> Seq(Port)]]
  /\ \A m \in Model, side \in Sides : Len(Layout[m][side]) <= MaxPorts
  /\ NewPort \subseteq Port

NodeId == 0 .. InvalidNodeId - 1
PortIndex == 0 .. MaxPorts - 1
ConnectionId ==
  [outNodeId : NodeId, outPortIndex : PortIndex, inNodeId : NodeId, inPortIndex : PortIndex]

VARIABLES
  nodes,          \* _nodeIds, the keys of _models
  ports,          \* what each delegate answers for its ports
  conns,          \* _connectionIndex
  nextNodeId,     \* _nextNodeId
  cache,          \* _loopReachabilityCache: <<out node, in node>> -> has a loop
  shifted,        \* _shiftedByDynamicPortsConnections
  edit            \* the port edit a delegate is in the middle of, or None

vars == <<nodes, ports, conns, nextNodeId, cache, shifted, edit>>

-----------------------------------------------------------------------------
(* Queries.                                                                *)

EndNode(side, c) == IF side = "In" THEN c.inNodeId ELSE c.outNodeId
EndPort(side, c) == IF side = "In" THEN c.inPortIndex ELSE c.outPortIndex

nodeExists(n) == n \in nodes
portCount(n, side) == IF nodeExists(n) THEN Len(ports[n][side]) ELSE 0
portAt(side, c) == ports[EndNode(side, c)][side][EndPort(side, c) + 1]
connectionsAt(side, n, p) == {c \in conns : EndNode(side, c) = n /\ EndPort(side, c) = p}
\* Mutant: the connections that arrive at the node only.
allConnectionIdsIn(n) == {c \in conns : c.inNodeId = n}

allConnectionIds(n) == {c \in conns : c.inNodeId = n \/ c.outNodeId = n}

\* b can be reached from a along the connections E: every set that holds a
\* and all that follows from its members holds b.
Reaches(E, a, b) ==
  \A S \in SUBSET NodeId :
    (a \in S /\ \A c \in E : c.outNodeId \in S => c.inNodeId \in S) => b \in S

\* Mutant: the last port of each node is never walked.
WalkedButLast(replaced) ==
  {c \in conns \ replaced : c.outPortIndex + 1 < portCount(c.outNodeId, "Out")}

(* The depth-first search walks the out ports a node has at the moment and *)
(* skips the replaced connections.  Module LoopSearch is the search itself.*)
Walked(replaced) ==
  {c \in conns \ replaced : c.outPortIndex < portCount(c.outNodeId, "Out")}

hasLoops(c, replaced) == Reaches(Walked(replaced), c.inNodeId, c.outNodeId)

hasLoopsCached(c, replaced) ==
  LET key == <<c.outNodeId, c.inNodeId>>
  IN  IF replaced = {} /\ key \in DOMAIN cache THEN cache[key] ELSE hasLoops(c, replaced)

\* Mutant: only the in port is looked at.
portVacantInOnly(side, c, replaced) ==
  \/ side = "Out" \/ portAt(side, c).policy = "Many"
  \/ connectionsAt(side, EndNode(side, c), EndPort(side, c)) \subseteq replaced

portVacant(side, c, replaced) ==
  \/ portAt(side, c).policy = "Many"
  \/ connectionsAt(side, EndNode(side, c), EndPort(side, c)) \subseteq replaced

\* The tests of connectionPossible() that come before the loop test.
basicChecks(c, replaced) ==
  /\ nodeExists(c.outNodeId) /\ nodeExists(c.inNodeId)
  /\ c \in conns => c \in replaced
  /\ \A side \in Sides : EndPort(side, c) < portCount(EndNode(side, c), side)
  /\ portAt("Out", c).type = portAt("In", c).type
  /\ \A side \in Sides : portVacant(side, c, replaced)

connectionPossible(c, replaced) ==
  basicChecks(c, replaced) /\ ~hasLoopsCached(c, replaced)

\* Asking is not free of effects: the loop test leaves its answer behind.
CacheAfter(c, replaced) ==
  LET key == <<c.outNodeId, c.inNodeId>>
  IN  IF replaced = {} /\ basicChecks(c, replaced)
      THEN [k \in DOMAIN cache \cup {key} |->
              IF k \in DOMAIN cache THEN cache[k] ELSE hasLoops(c, {})]
      ELSE cache

NoCache == [k \in {} |-> FALSE]

-----------------------------------------------------------------------------
Init ==
  /\ nodes = {}
  /\ ports = [n \in {} |-> Layout]
  /\ conns = {}
  /\ nextNodeId = 0
  /\ cache = NoCache
  /\ shifted = {}
  /\ edit = None

\* No handler runs inside another: a port edit is finished first.
Idle == edit = None

WithNode(n, m) == [k \in nodes \cup {n} |-> IF k = n THEN Layout[m] ELSE ports[k]]

\* Mutant: the id counter runs past InvalidNodeId.
addNodeUnguarded(m) ==
  /\ Idle
  /\ nextNodeId' = nextNodeId + 1
  /\ nodes' = nodes \cup {nextNodeId}
  /\ ports' = WithNode(nextNodeId, m)
  /\ cache' = NoCache
  /\ UNCHANGED <<conns, shifted, edit>>

\* newNodeId() throws once the counter has reached InvalidNodeId.
addNode(m) ==
  /\ Idle
  /\ nextNodeId # InvalidNodeId
  /\ nextNodeId' = nextNodeId + 1
  /\ nodes' = nodes \cup {nextNodeId}
  /\ ports' = WithNode(nextNodeId, m)
  /\ cache' = NoCache
  /\ UNCHANGED <<conns, shifted, edit>>

\* Mutant: the id counter does not follow the ids that are loaded.
loadNodeSameCounter(n, m, failure) ==
  /\ Idle
  /\ ~nodeExists(n)
  /\ failure = "none"
  /\ nodes' = nodes \cup {n}
  /\ ports' = WithNode(n, m)
  /\ cache' = NoCache
  /\ UNCHANGED <<conns, nextNodeId, shifted, edit>>

(* loadNode() as undo, paste and load call it.  The counter moves past the *)
(* id before the rest of the entry is looked at, so it stays there when    *)
(* the entry turns out to be bad ("malformed") or the delegate's load()    *)
(* throws and the node is deleted again ("delegate").                      *)
loadNode(n, m, failure) ==
  /\ Idle
  /\ ~nodeExists(n)
  /\ nextNodeId' = IF n + 1 > nextNodeId THEN n + 1 ELSE nextNodeId
  /\ \/ /\ failure = "none"
        /\ nodes' = nodes \cup {n}
        /\ ports' = WithNode(n, m)
        /\ cache' = NoCache
     \/ /\ failure = "malformed"
        /\ UNCHANGED <<nodes, ports, cache>>
     \/ /\ failure = "delegate"
        /\ cache' = NoCache
        /\ UNCHANGED <<nodes, ports>>
  /\ UNCHANGED <<conns, shifted, edit>>

deleteNode(n) ==
  /\ Idle
  /\ nodeExists(n)
  /\ conns' = conns \ allConnectionIds(n)
  /\ nodes' = nodes \ {n}
  /\ ports' = [k \in nodes \ {n} |-> ports[k]]
  /\ cache' = NoCache
  /\ UNCHANGED <<nextNodeId, shifted, edit>>

\* The painter and the mouse handlers ask before anything is connected.
askPossible(c) ==
  /\ cache' = CacheAfter(c, {})
  /\ UNCHANGED <<nodes, ports, conns, nextNodeId, shifted, edit>>

\* addConnection() refuses silently.
Connect(c) ==
  IF c \notin conns /\ connectionPossible(c, {})
  THEN conns' = conns \cup {c} /\ cache' = NoCache
  ELSE conns' = conns /\ cache' = IF c \in conns THEN cache ELSE CacheAfter(c, {})

addConnection(c) ==
  /\ Idle
  /\ Connect(c)
  /\ UNCHANGED <<nodes, ports, nextNodeId, shifted, edit>>

\* Mutant: the memo survives a deletion.
deleteConnectionKeepingMemo(c) ==
  /\ Idle
  /\ c \in conns
  /\ conns' = conns \ {c}
  /\ UNCHANGED <<nodes, ports, nextNodeId, cache, shifted, edit>>

deleteConnection(c) ==
  /\ Idle
  /\ c \in conns
  /\ conns' = conns \ {c}
  /\ cache' = NoCache
  /\ UNCHANGED <<nodes, ports, nextNodeId, shifted, edit>>

(* prepareConnectionReplacement() with the redo() and publishRedo() that   *)
(* ReplaceConnectionCommand calls at once: the topology is exchanged first *)
(* and the publisher drops the memo before it tells anyone.                *)
replaceConnection(removed, c) ==
  /\ Idle
  /\ removed \subseteq conns
  /\ connectionPossible(c, removed)
  /\ conns' = (conns \ removed) \cup {c}
  /\ cache' = NoCache
  /\ UNCHANGED <<nodes, ports, nextNodeId, shifted, edit>>

-----------------------------------------------------------------------------
(* Dynamic ports.                                                          *)

\* makeIncompleteConnectionId, then makeCompleteConnectionId on that side.
Shift(c, side, by) ==
  IF side = "In" THEN [c EXCEPT !.inPortIndex = @ + by]
                 ELSE [c EXCEPT !.outPortIndex = @ + by]

OnPorts(n, side, first, last) ==
  {c \in conns : EndNode(side, c) = n /\ EndPort(side, c) \in first .. last}

\* Both begin handlers: some connections go for good, others are to move.
BeginEdit(n, side, first, gone, moving, by, layout) ==
  /\ Idle
  /\ shifted' = {Shift(c, side, by) : c \in moving}
  /\ conns' = conns \ (gone \cup moving)
  /\ cache' = IF gone \cup moving = {} THEN cache ELSE NoCache
  /\ edit' = [node |-> n, side |-> side, first |-> first, layout |-> layout,
              applied |-> FALSE,
              due |-> (conns \ (gone \cup moving)) \cup {Shift(c, side, by) : c \in moving}]
  /\ UNCHANGED <<nodes, ports, nextNodeId>>

(* The delegate deletes its ports first .. last; a last past the end is    *)
(* taken as the last port.                                                 *)
portsAboutToBeDeleted(n, side, first, last) ==
  /\ nodeExists(n)
  /\ first < portCount(n, side) /\ first <= last
  /\ LET count == portCount(n, side)
         end   == IF last < count - 1 THEN last ELSE count - 1
         by    == end - first + 1
     IN  BeginEdit(n, side, first, OnPorts(n, side, first, end),
                   OnPorts(n, side, end + 1, count - 1), -by,
                   [i \in 1 .. count - by |->
                      ports[n][side][IF i <= first THEN i ELSE i + by]])

\* Mutant: the connections at the port inserted before stay where they are.
portsAboutToBeInsertedBehind(n, side, first, number, p) ==
  /\ nodeExists(n)
  /\ first <= portCount(n, side)
  /\ portCount(n, side) + number <= MaxPorts
  /\ LET count == portCount(n, side)
     IN  BeginEdit(n, side, first, {}, OnPorts(n, side, first + 1, count - 1), number,
                   [i \in 1 .. count + number |->
                      IF i <= first THEN ports[n][side][i]
                      ELSE IF i <= first + number THEN p
                      ELSE ports[n][side][i - number]])

(* The delegate inserts port p, number times, before its port first.       *)
portsAboutToBeInserted(n, side, first, number, p) ==
  /\ nodeExists(n)
  /\ first <= portCount(n, side)
  /\ portCount(n, side) + number <= MaxPorts
  /\ LET count == portCount(n, side)
     IN  BeginEdit(n, side, first, {}, OnPorts(n, side, first, count - 1), number,
                   [i \in 1 .. count + number |->
                      IF i <= first THEN ports[n][side][i]
                      ELSE IF i <= first + number THEN p
                      ELSE ports[n][side][i - number]])

\* Between the two calls the delegate changes its ports.
applyEdit ==
  /\ edit # None
  /\ ~edit.applied
  /\ ports' = [ports EXCEPT ![edit.node][edit.side] = edit.layout]
  /\ edit' = [edit EXCEPT !.applied = TRUE]
  /\ UNCHANGED <<nodes, conns, nextNodeId, cache, shifted>>

\* Mutant: the connections are restored before the ports have changed.
restoreShiftedEarly(c) ==
  /\ edit # None
  /\ c \in shifted
  /\ Connect(c)
  /\ shifted' = shifted \ {c}
  /\ UNCHANGED <<nodes, ports, nextNodeId, edit>>

\* portsDeleted() and portsInserted(): one turn of the loop, and its end.
restoreShifted(c) ==
  /\ edit # None
  /\ edit.applied
  /\ c \in shifted
  /\ Connect(c)
  /\ shifted' = shifted \ {c}
  /\ UNCHANGED <<nodes, ports, nextNodeId, edit>>

portsChanged ==
  /\ edit # None
  /\ edit.applied
  /\ shifted = {}
  /\ edit' = None
  /\ UNCHANGED <<nodes, ports, conns, nextNodeId, cache, shifted>>

-----------------------------------------------------------------------------
Next ==
  \/ \E m \in Model : addNode(m)
  \/ \E n \in NodeId, m \in Model, f \in {"none", "malformed", "delegate"} : loadNode(n, m, f)
  \/ \E n \in NodeId : deleteNode(n)
  \/ \E c \in ConnectionId : askPossible(c)
  \/ \E c \in ConnectionId : addConnection(c)
  \/ \E c \in ConnectionId : deleteConnection(c)
  \/ \E removed \in SUBSET conns, c \in ConnectionId : replaceConnection(removed, c)
  \/ \E n \in NodeId, side \in Sides, first \in PortIndex, last \in 0 .. MaxPorts :
       portsAboutToBeDeleted(n, side, first, last)
  \/ \E n \in NodeId, side \in Sides, first \in PortIndex, k \in 1 .. MaxPorts, p \in NewPort :
       portsAboutToBeInserted(n, side, first, k, p)
  \/ applyEdit
  \/ \E c \in ConnectionId : restoreShifted(c)
  \/ portsChanged

Spec == Init /\ [][Next]_vars

-----------------------------------------------------------------------------
TypeOK ==
  /\ nodes \subseteq NodeId
  /\ ports \in [nodes -> [Sides -> Seq(Port)]]
  /\ \A n \in nodes, side \in Sides : Len(ports[n][side]) <= MaxPorts
  /\ conns \subseteq ConnectionId
  /\ nextNodeId \in 0 .. InvalidNodeId
  /\ DOMAIN cache \subseteq NodeId \X NodeId
  /\ cache \in [DOMAIN cache -> BOOLEAN]
  /\ shifted \subseteq ConnectionId
  /\ edit # None => edit \in [node : nodes, side : Sides, first : PortIndex,
                             layout : Seq(Port), applied : BOOLEAN, due : SUBSET ConnectionId]

(* Every connection joins ports that exist on nodes that exist, through    *)
(* node deletions, replacements and both phases of a port edit.            *)
NoDangling ==
  \A c \in conns, side \in Sides :
    /\ EndNode(side, c) \in nodes
    /\ EndPort(side, c) < portCount(EndNode(side, c), side)

(* A port whose policy is One never carries two connections.               *)
PortsNotOverbooked ==
  \A c, d \in conns, side \in Sides :
    /\ EndNode(side, c) = EndNode(side, d) /\ EndPort(side, c) = EndPort(side, d)
    /\ portAt(side, c).policy = "One"
    => c = d

(* Data of one type never arrives at a port of another.                    *)
TypesAgree == \A c \in conns : portAt("Out", c).type = portAt("In", c).type

(* No sequence of connects, replacements and port edits closes a loop.     *)
Acyclic == \A c \in conns : ~Reaches(conns, c.inNodeId, c.outNodeId)

(* The memo "can never go stale" (DataFlowGraphModel.hpp): each answer it  *)
(* holds is the one the search would give now.                             *)
CacheFresh ==
  \A k \in DOMAIN cache : cache[k] = Reaches(conns, k[2], k[1])

(* An id handed out by addNode is past every id the graph holds, so that   *)
(* undoing a deletion never finds its id taken.                            *)
NextIdFresh == \A n \in nodes : n < nextNodeId

(* A port edit moves every connection behind the changed ports with its    *)
(* port and loses none: the restoring loop is never refused.               *)
PortEditKeepsConnections ==
  edit # None => conns \cup shifted = edit.due
=============================================================================
