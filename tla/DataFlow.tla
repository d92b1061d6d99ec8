-------------------------------- MODULE DataFlow --------------------------------
(***************************************************************************)
(* How data travels through a DataFlowGraphModel: a delegate announces new *)
(* data, the model hands it to every connected input, and each input may   *)
(* make its own delegate announce again before the first call returns.     *)
(* `calls' is that stack of calls.  The delegates are those of             *)
(* examples/calculator: sources, sums of two inputs, and displays.         *)
(*                                                                         *)
(* A sum keeps weak pointers to its inputs.  An input is a reference to    *)
(* the current result of the node it came from; when that node makes a new *)
(* one it is lost, unless a display, which shares what it shows, keeps the *)
(* old result: it is then a reference to what that display shows.          *)
(***************************************************************************)
EXTENDS Integers, Sequences, FiniteSets

CONSTANTS
  InvalidNodeId,
  Setups,         \* scenes to begin with: [kind, freezable], where kind[n] is
                  \* "source", "sum" or "display" and the user may freeze some nodes
  Number,         \* what may be typed into a source
  None

VARIABLES
  nodes,
  conns,
  frozen,         \* _frozen of each delegate
  input,          \* _number1 and _number2 of a sum, _numberData of a display: a
                  \* node, ShownBy() of a display, or None
  number,         \* what outData() returns
  shown,          \* the number a display shows
  calls,          \* the handlers that are running, the innermost last
  setup           \* one of Setups

vars == <<nodes, conns, frozen, input, number, shown, calls, setup>>

NodeId == 0 .. InvalidNodeId - 1
InPorts(n) == CASE setup.kind[n] = "source" -> {} [] setup.kind[n] = "sum" -> {0, 1} [] OTHER -> {0}

\* The calculator's port policies are the defaults of NodeDelegateModel.
InPort  == [type |-> "decimal", policy |-> "One"]
OutPort == [type |-> "decimal", policy |-> "Many"]
Layout ==
  [source  |-> [In |-> <<>>, Out |-> <<OutPort>>],
   sum     |-> [In |-> <<InPort, InPort>>, Out |-> <<OutPort>>],
   display |-> [In |-> <<InPort>>, Out |-> <<>>]]

Topology(ns, cs) == INSTANCE DataFlowGraphModel WITH
  nodes <- ns, ports <- [n \in ns |-> Layout[setup.kind[n]]], conns <- cs,
  nextNodeId <- 0, cache <- [k \in {} |-> FALSE], shifted <- {}, edit <- None,
  MaxPorts <- 2, Model <- DOMAIN Layout, NewPort <- {}

ASSUME DataFlowConstants ==
  /\ InvalidNodeId \in Nat /\ Number \subseteq Int /\ None \notin Int
  /\ \A s \in Setups : s.kind \in [NodeId -> DOMAIN Layout] /\ s.freezable \subseteq NodeId

ConnectionId == Topology({}, {})!ConnectionId
\* Mutant: nothing keeps a connection from closing a loop.
loopPossible(c, replaced) == Topology(nodes, conns)!basicChecks(c, replaced)

connectionPossible(c, replaced) == Topology(nodes, conns)!connectionPossible(c, replaced)
connectionsFrom(n) == {c \in conns : c.outNodeId = n}

-----------------------------------------------------------------------------
(* The running calls.  Each is one of the loops of the model, with the     *)
(* connections it has still to go through.                                 *)

Call(op, node, data, todo) == [op |-> op, node |-> node, data |-> data, todo |-> todo]

\* onOutPortDataUpdated() for the delegate of n.
Announce(n, data, todo) == Call("deliver", n, data, todo)
\* Data for the in ports of todo that no delegate announces.
Deliver(data, todo) == Call("deliver", None, data, todo)
\* sendConnectionCreation() is done; the data is looked up, then delivered.
Offer(todo) == Call("offer", None, None, todo)
\* The loop of deleteNode(), and the end of it.
Disconnect(todo) == Call("disconnect", None, None, todo)
Erase(n) == Call("erase", n, None, {})

Idle == calls = <<>>
Top == calls[Len(calls)]
Below == SubSeq(calls, 1, Len(calls) - 1)
Without(c) == Append(Below, [Top EXCEPT !.todo = @ \ {c}])

\* What portData() returns: a reference to the result, if there is one.
portData(n) == IF number[n] = None THEN None ELSE n
\* What display d holds of a node that has a newer result.
ShownBy(d) == InvalidNodeId + d
Read(ref) ==
  IF ref = None THEN None
  ELSE IF ref < InvalidNodeId THEN number[ref] ELSE shown[ref - InvalidNodeId]

\* The result `old` is no longer its node's: the weak pointers to it expire,
\* unless a display holds it.
LetGo(inputs, old) ==
  LET keepers == {d \in NodeId : setup.kind[d] = "display" /\ inputs[d][0] = old}
      kept == IF keepers = {} THEN None ELSE ShownBy(CHOOSE d \in keepers : TRUE)
  IN  [k \in NodeId |-> [p \in {0, 1} |-> IF inputs[k][p] = old THEN kept ELSE inputs[k][p]]]

\* A node drops its result.
Expired(inputs, n) == LetGo(inputs, n)

\* Display d takes ref in place of what it holds.
Replaced(inputs, d, ref) ==
  LET old == inputs[d][0]
      taken == [inputs EXCEPT ![d][0] = ref]
  IN  IF old = None \/ old \in NodeId THEN taken ELSE LetGo(taken, old)

Sum(a, b) == IF a = None \/ b = None THEN None ELSE a + b

-----------------------------------------------------------------------------
Init ==
  /\ setup \in Setups
  /\ nodes = NodeId
  /\ conns = {}
  /\ frozen = [n \in NodeId |-> FALSE]
  /\ input = [n \in NodeId |-> [p \in {0, 1} |-> None]]
  /\ number = [n \in NodeId |-> IF setup.kind[n] = "source" THEN 0 ELSE None]
  /\ shown = [n \in NodeId |-> None]
  /\ calls = <<>>

\* onTextEdited(): a new number, and dataUpdated().  A text that is no number only
\* emits dataInvalidated(), which nothing is connected to: no step.
onTextEdited(n, v) ==
  /\ Idle /\ n \in nodes /\ setup.kind[n] = "source"
  /\ number' = [number EXCEPT ![n] = v]
  /\ input' = Expired(input, n)
  /\ calls' = <<Announce(n, n, connectionsFrom(n))>>
  /\ UNCHANGED <<nodes, conns, frozen, shown>>

addConnection(c) ==
  /\ Idle
  /\ c \notin conns /\ connectionPossible(c, {})
  /\ conns' = conns \cup {c}
  /\ calls' = <<Offer({c})>>
  /\ UNCHANGED <<nodes, frozen, input, number, shown>>

deleteConnection(c) ==
  /\ Idle
  /\ c \in conns
  /\ conns' = conns \ {c}
  /\ calls' = <<Deliver(None, {c})>>
  /\ UNCHANGED <<nodes, frozen, input, number, shown>>

\* Mutant: the new end is served before the removed ones are emptied.
replaceConnectionNewFirst(removed, c) ==
  /\ Idle
  /\ removed \subseteq conns
  /\ connectionPossible(c, removed)
  /\ conns' = (conns \ removed) \cup {c}
  /\ calls' = <<Deliver(None, removed), Offer({c})>>
  /\ UNCHANGED <<nodes, frozen, input, number, shown>>

\* The publisher of a replacement: the removed ends first, then the new one.
replaceConnection(removed, c) ==
  /\ Idle
  /\ removed \subseteq conns
  /\ connectionPossible(c, removed)
  /\ conns' = (conns \ removed) \cup {c}
  /\ calls' = <<Offer({c}), Deliver(None, removed)>>
  /\ UNCHANGED <<nodes, frozen, input, number, shown>>

deleteNode(n) ==
  /\ Idle /\ n \in nodes
  /\ calls' = <<Erase(n), Disconnect({c \in conns : n \in {c.inNodeId, c.outNodeId}})>>
  /\ UNCHANGED <<nodes, conns, frozen, input, number, shown>>

\* A deleted node comes back by undo, with the number it was saved with.
loadNode(n, v) ==
  /\ Idle /\ n \notin nodes
  /\ nodes' = nodes \cup {n}
  /\ number' = [number EXCEPT ![n] = IF setup.kind[n] = "source" THEN v ELSE None]
  /\ UNCHANGED <<conns, frozen, input, shown, calls>>

setFrozenState(n, state) ==
  /\ Idle /\ n \in nodes \cap setup.freezable
  /\ frozen' = [frozen EXCEPT ![n] = state]
  /\ UNCHANGED <<nodes, conns, input, number, shown, calls>>

-----------------------------------------------------------------------------
(* One turn of the innermost loop.                                         *)

(* setPortData(): a frozen delegate refuses the data; a display shows it;  *)
(* a sum computes and announces its result before the call returns.        *)
setInData(c) ==
  LET n == c.inNodeId
      p == c.inPortIndex
  IN  /\ ~Idle /\ Top.op = "deliver" /\ c \in Top.todo
      /\ \/ /\ frozen[n]
            /\ calls' = Without(c)
            /\ UNCHANGED <<input, number, shown>>
         \/ /\ ~frozen[n] /\ setup.kind[n] = "display"
            /\ shown' = [shown EXCEPT ![n] = Read(Top.data)]
            /\ input' = Replaced(input, n, Top.data)
            /\ calls' = Without(c)
            /\ UNCHANGED number
         \/ /\ ~frozen[n] /\ setup.kind[n] = "sum"
            /\ LET given  == [input EXCEPT ![n][p] = Top.data]
                   result == Sum(Read(given[n][0]), Read(given[n][1]))
               IN  /\ input' = Expired(given, n)
                   /\ number' = [number EXCEPT ![n] = result]
                   /\ calls' = Append(Without(c), Announce(n, IF result = None THEN None ELSE n,
                                                           connectionsFrom(n)))
            /\ UNCHANGED shown
      /\ UNCHANGED <<nodes, conns, frozen>>

offerData(c) ==
  /\ ~Idle /\ Top.op = "offer" /\ c \in Top.todo
  /\ calls' = Append(Without(c), Deliver(portData(c.outNodeId), {c}))
  /\ UNCHANGED <<nodes, conns, frozen, input, number, shown>>

\* Mutant: the loop comes back to a connection it has deleted.
disconnectAgain(c) ==
  /\ ~Idle /\ Top.op = "disconnect" /\ c \in Top.todo
  /\ conns' = conns \ {c}
  /\ calls' = Append(calls, Deliver(None, {c}))
  /\ UNCHANGED <<nodes, frozen, input, number, shown>>

disconnectNext(c) ==
  /\ ~Idle /\ Top.op = "disconnect" /\ c \in Top.todo
  /\ conns' = conns \ {c}
  /\ calls' = Append(Without(c), Deliver(None, {c}))
  /\ UNCHANGED <<nodes, frozen, input, number, shown>>

eraseNode ==
  /\ ~Idle /\ Top.op = "erase"
  /\ LET n == Top.node
     IN  /\ nodes' = nodes \ {n}
         /\ frozen' = [frozen EXCEPT ![n] = FALSE]
         /\ number' = [number EXCEPT ![n] = None]
         /\ input' = [Expired(Replaced(input, n, None), n) EXCEPT ![n] = [p \in {0, 1} |-> None]]
         /\ shown' = [shown EXCEPT ![n] = None]
  /\ calls' = Below
  /\ UNCHANGED conns

return ==
  /\ ~Idle /\ Top.op # "erase" /\ Top.todo = {}
  /\ calls' = Below
  /\ UNCHANGED <<nodes, conns, frozen, input, number, shown>>

Step ==
  \/ \E c \in ConnectionId : setInData(c)
  \/ \E c \in ConnectionId : offerData(c)
  \/ \E c \in ConnectionId : disconnectNext(c)
  \/ eraseNode
  \/ return

UserNext ==
  \/ \E n \in NodeId, v \in Number : onTextEdited(n, v)
  \/ \E c \in ConnectionId : addConnection(c)
  \/ \E c \in ConnectionId : deleteConnection(c)
  \/ \E removed \in SUBSET conns, c \in ConnectionId : replaceConnection(removed, c)
  \/ \E n \in NodeId : deleteNode(n)
  \/ \E n \in NodeId, v \in Number : loadNode(n, v)
  \/ \E n \in NodeId, state \in BOOLEAN : setFrozenState(n, state)

Next == (UserNext \/ Step) /\ UNCHANGED setup

\* A handler runs to its end; nobody is bound to touch the graph again.
Spec == Init /\ [][Next]_vars /\ WF_vars(Step /\ UNCHANGED setup)

-----------------------------------------------------------------------------
(* When the model is at rest, every input that never refused anything      *)
(* holds the result its source has now, and an input without a connection  *)
(* holds nothing, whatever was connected, replaced and deleted before.     *)
DataSettled ==
  Idle =>
    \A n \in nodes \ setup.freezable, p \in {0, 1} :
      p \in InPorts(n) =>
        LET at == {c \in conns : c.inNodeId = n /\ c.inPortIndex = p}
            now == IF at = {} THEN None ELSE number[(CHOOSE c \in at : TRUE).outNodeId]
        IN  (IF setup.kind[n] = "sum" THEN Read(input[n][p]) ELSE shown[n]) = now

(* No delegate is handed data while it is announcing its own: its number   *)
(* cannot change under the loop that passes it on.                         *)
NotReentered ==
  \A i, j \in DOMAIN calls :
    /\ calls[i].op = "deliver" /\ calls[i].node # None
    /\ calls[j].op = "deliver" /\ calls[j].node = calls[i].node
    => i = j

(* Propagation ends: the graph is acyclic, so the calls return.            *)
Settles == ~Idle ~> Idle
=============================================================================
