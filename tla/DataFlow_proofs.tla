---------------------------- MODULE DataFlow_proofs ----------------------------
(******************************************************************************)
(* Proofs about DataFlow, for every number of nodes, every scene of sources,  *)
(* sums and displays, and any numbers.  The graph has no loops, so that nobody*)
(* who announces is handed data; what a running call is still to deliver is   *)
(* what its source has now, or nothing where no connection is left (FlowInv); *)
(* so every input is served when the last call has returned.                  *)
(******************************************************************************)
EXTENDS DataFlow, TLAPS

-----------------------------------------------------------------------------
(* The graph, where connections lead in it, and the types.                 *)

\* Whatever holds a and all that follows from its members along E holds b.
Flows(E, a, b) ==
  \A S \in SUBSET NodeId :
    (a \in S /\ \A c \in E : c.outNodeId \in S => c.inNodeId \in S) => b \in S

PortsOf(n, side) == Layout[setup.kind[n]][side]

\* A connection arrives at an in port of a node that is there.
Arrives(c) == c.inNodeId \in nodes /\ c.inPortIndex \in InPorts(c.inNodeId)

FlowGraphInv ==
  /\ \A c \in conns : Arrives(c) /\ c.outNodeId \in nodes
                      /\ c.outPortIndex < Len(PortsOf(c.outNodeId, "Out"))
  /\ \A c, d \in conns : c.inNodeId = d.inNodeId /\ c.inPortIndex = d.inPortIndex => c = d
  /\ \A c \in conns : ~Flows(conns, c.inNodeId, c.outNodeId)

Endpoint == NodeId \cup {None}
\* What an input may hold: also what a display has kept.
Ref == Endpoint \cup {ShownBy(d) : d \in NodeId}
Frame == [op : {"deliver", "offer", "disconnect", "erase"}, node : Endpoint, data : Endpoint,
          todo : SUBSET ConnectionId]

FlowTypes ==
  /\ setup \in Setups
  /\ nodes \subseteq NodeId /\ conns \subseteq ConnectionId
  /\ \A n \in NodeId \ setup.freezable : ~frozen[n]
  /\ frozen \in [NodeId -> BOOLEAN]
  /\ input \in [NodeId -> [{0, 1} -> Ref]]
  /\ number \in [NodeId -> Int \cup {None}] /\ shown \in [NodeId -> Int \cup {None}]
  /\ calls \in Seq(Frame)

\* What a connection is made of.
LEMMA WireIs ==
  ASSUME NEW c \in ConnectionId
  PROVE  /\ c.outNodeId \in NodeId /\ c.inNodeId \in NodeId
         /\ c.outPortIndex \in {0, 1} /\ c.inPortIndex \in {0, 1}
BY DEF ConnectionId, Topology!ConnectionId, Topology!NodeId, Topology!PortIndex, NodeId

\* Nodes are numbers and None is not.
LEMMA NodesAreNumbers ==
  \A n \in NodeId : n # None /\ n \in Int
BY DataFlowConstants DEF NodeId

\* The kinds of node and their in ports.
LEMMA KindIs ==
  ASSUME setup \in Setups, NEW n \in NodeId
  PROVE  /\ setup.kind[n] \in {"source", "sum", "display"}
         /\ setup.kind[n] = "source" => InPorts(n) = {} /\ PortsOf(n, "In") = << >>
         /\ setup.kind[n] = "sum" => InPorts(n) = {0, 1} /\ PortsOf(n, "In") = <<InPort, InPort>>
         /\ setup.kind[n] = "display" => InPorts(n) = {0} /\ PortsOf(n, "In") = <<InPort>>
<1>1. setup.kind[n] \in DOMAIN Layout
  BY DataFlowConstants
<1> QED BY <1>1 DEF Layout, InPorts, PortsOf

\* The in ports that the layout has, and all take a single connection.
LEMMA InPortsAre ==
  ASSUME setup \in Setups, NEW n \in NodeId, NEW p \in {0, 1}
  PROVE  /\ p < Len(PortsOf(n, "In")) => p \in InPorts(n) /\ PortsOf(n, "In")[p + 1].policy = "One"
         /\ InPorts(n) \subseteq {0, 1}
<1>1. CASE setup.kind[n] = "source"
  <2>1. PortsOf(n, "In") = << >> /\ InPorts(n) = {}
    BY <1>1, KindIs
  <2>2. Len(PortsOf(n, "In")) = 0
    BY <2>1
  <2>3. ~(p < 0)
    OBVIOUS
  <2>4. ~(p < Len(PortsOf(n, "In")))
    BY <2>2, <2>3
  <2>5. InPorts(n) \subseteq {0, 1}
    BY <2>1
  <2> QED BY <2>4, <2>5
<1>2. CASE setup.kind[n] = "sum"
  <2>1. PortsOf(n, "In") = <<InPort, InPort>> /\ InPorts(n) = {0, 1}
    BY <1>2, KindIs
  <2> QED BY <2>1 DEF InPort
<1>3. CASE setup.kind[n] = "display"
  <2>1. PortsOf(n, "In") = <<InPort>> /\ InPorts(n) = {0}
    BY <1>3, KindIs
  <2>2. Len(PortsOf(n, "In")) = 1 /\ (p < 1 => p = 0)
    BY <2>1
  <2>3. PortsOf(n, "In")[0 + 1].policy = "One"
    BY <2>1 DEF InPort
  <2> QED BY <2>1, <2>2, <2>3
<1> QED BY <1>1, <1>2, <1>3, KindIs

\* What the graph asks of a new connection c that replaces others.
Fits(c, replaced) ==
  /\ Arrives(c) /\ c.outNodeId \in nodes /\ c.outPortIndex < Len(PortsOf(c.outNodeId, "Out"))
  /\ \A d \in conns \ replaced : ~(d.inNodeId = c.inNodeId /\ d.inPortIndex = c.inPortIndex)
  /\ ~Flows(conns \ replaced, c.inNodeId, c.outNodeId)

\* connectionPossible() asks for all of it.
LEMMA PossibleFits ==
  ASSUME FlowTypes, FlowGraphInv, NEW c \in ConnectionId, NEW replaced,
         connectionPossible(c, replaced)
  PROVE  Fits(c, replaced)
<1>0. /\ c.outNodeId \in NodeId /\ c.inNodeId \in NodeId
      /\ c.outPortIndex \in {0, 1} /\ c.inPortIndex \in {0, 1}
  BY WireIs
<1>1. /\ Topology(nodes, conns)!basicChecks(c, replaced)
      /\ ~Topology(nodes, conns)!hasLoopsCached(c, replaced)
  BY DEF connectionPossible, Topology!connectionPossible
<1>2. /\ c.outNodeId \in nodes /\ c.inNodeId \in nodes
      /\ c.inPortIndex < Topology(nodes, conns)!portCount(c.inNodeId, "In")
      /\ c.outPortIndex < Topology(nodes, conns)!portCount(c.outNodeId, "Out")
      /\ Topology(nodes, conns)!portVacant("In", c, replaced)
  BY <1>1 DEF Topology!basicChecks, Topology!nodeExists, Topology!Sides, Topology!EndNode,
     Topology!EndPort
<1>3. \A n \in nodes : \A side : Topology(nodes, conns)!portCount(n, side) = Len(PortsOf(n, side))
  BY DEF Topology!portCount, Topology!nodeExists, PortsOf
<1>4. /\ c.inPortIndex < Len(PortsOf(c.inNodeId, "In"))
      /\ c.outPortIndex < Len(PortsOf(c.outNodeId, "Out"))
  BY <1>2, <1>3
<1>5. /\ c.inPortIndex \in InPorts(c.inNodeId)
      /\ PortsOf(c.inNodeId, "In")[c.inPortIndex + 1].policy = "One"
  BY <1>0, <1>4, InPortsAre DEF FlowTypes
<1>6. \A d \in conns : d.inNodeId = c.inNodeId /\ d.inPortIndex = c.inPortIndex => d \in replaced
  <2>1. Topology(nodes, conns)!portAt("In", c) = PortsOf(c.inNodeId, "In")[c.inPortIndex + 1]
    BY <1>2 DEF Topology!portAt, Topology!EndNode, Topology!EndPort, PortsOf
  <2>2. Topology(nodes, conns)!connectionsAt("In", c.inNodeId, c.inPortIndex)
          = {d \in conns : d.inNodeId = c.inNodeId /\ d.inPortIndex = c.inPortIndex}
    BY DEF Topology!connectionsAt, Topology!EndNode, Topology!EndPort
  <2>3. Topology(nodes, conns)!EndNode("In", c) = c.inNodeId
        /\ Topology(nodes, conns)!EndPort("In", c) = c.inPortIndex
    BY DEF Topology!EndNode, Topology!EndPort
  <2> QED BY <1>2, <1>5, <2>1, <2>2, <2>3 DEF Topology!portVacant
<1>7. ~Flows(conns \ replaced, c.inNodeId, c.outNodeId)
  <2>1. Topology(nodes, conns)!Walked(replaced) = conns \ replaced
    BY <1>3 DEF Topology!Walked, FlowGraphInv
  <2>2. ~Topology(nodes, conns)!hasLoops(c, replaced)
    <3>1. <<c.outNodeId, c.inNodeId>> \notin DOMAIN [k \in {} |-> FALSE]
      OBVIOUS
    <3> QED BY <1>1, <3>1 DEF Topology!hasLoopsCached
  <2> QED BY <2>1, <2>2 DEF Topology!hasLoops, Topology!Reaches, Flows, Topology!NodeId, NodeId
<1> QED BY <1>2, <1>4, <1>5, <1>6, <1>7 DEF Fits, Arrives

\* Fewer connections lead nowhere else.
LEMMA FlowsLess ==
  ASSUME NEW E, NEW F, E \subseteq F, NEW a, NEW b, ~Flows(F, a, b)
  PROVE  ~Flows(E, a, b)
BY DEF Flows

\* A connection that closes no loop itself closes none for the others.
LEMMA NoLoopClosed ==
  ASSUME NEW E, NEW c, ~Flows(E, c.inNodeId, c.outNodeId),
         \A d \in E : ~Flows(E, d.inNodeId, d.outNodeId)
  PROVE  \A d \in E \cup {c} : ~Flows(E \cup {c}, d.inNodeId, d.outNodeId)
<1> DEFINE F == E \cup {c}
<1>1. SUFFICES ASSUME NEW d \in F, Flows(F, d.inNodeId, d.outNodeId) PROVE FALSE
  OBVIOUS
<1>2. PICK S \in SUBSET NodeId : /\ c.inNodeId \in S /\ c.outNodeId \notin S
                                /\ \A x \in E : x.outNodeId \in S => x.inNodeId \in S
  BY DEF Flows
<1>3. \A x \in F : x.outNodeId \in S => x.inNodeId \in S
  BY <1>2
<1>4. d # c
  BY <1>1, <1>2, <1>3 DEF Flows
<1>5. PICK T \in SUBSET NodeId : /\ d.inNodeId \in T /\ d.outNodeId \notin T
                                /\ \A x \in E : x.outNodeId \in T => x.inNodeId \in T
  BY <1>1, <1>4 DEF Flows
<1>6. \A x \in F : x.outNodeId \in S \cup T => x.inNodeId \in S \cup T
  BY <1>2, <1>5
<1>7. d.outNodeId \in S \cup T
  BY <1>1, <1>5, <1>6 DEF Flows
<1>8. d.outNodeId \in S /\ d.inNodeId \in S
  BY <1>2, <1>4, <1>5, <1>7
<1>9. \A x \in F : x.outNodeId \in S \cap T => x.inNodeId \in S \cap T
  BY <1>2, <1>3, <1>5
<1>10. d.outNodeId \in S \cap T
  BY <1>1, <1>5, <1>8, <1>9 DEF Flows
<1> QED BY <1>5, <1>10

\* A connection that fits keeps the graph one that data can flow through.
LEMMA FittedGraph ==
  ASSUME FlowGraphInv, NEW c, NEW replaced \in SUBSET conns, Fits(c, replaced),
         conns' = (conns \ replaced) \cup {c}, nodes' = nodes, setup' = setup
  PROVE  FlowGraphInv'
<1> DEFINE E == conns \ replaced
<1>1. \A d \in E : ~Flows(E, d.inNodeId, d.outNodeId)
  BY FlowsLess DEF FlowGraphInv
<1>2. \A d \in E \cup {c} : ~Flows(E \cup {c}, d.inNodeId, d.outNodeId)
  BY <1>1, NoLoopClosed DEF Fits
<1>3. \A d \in conns' : ~Flows(conns', d.inNodeId, d.outNodeId)
  BY <1>2
<1>4. \A d \in conns' : Arrives(d)' /\ d.outNodeId \in nodes'
                        /\ d.outPortIndex < Len(PortsOf(d.outNodeId, "Out")')
  BY DEF FlowGraphInv, Fits, Arrives, InPorts, PortsOf
<1>5. \A d, e \in conns' : d.inNodeId = e.inNodeId /\ d.inPortIndex = e.inPortIndex => d = e
  BY DEF FlowGraphInv, Fits
<1>6. \A d \in conns' : ~Flows(conns, d.inNodeId, d.outNodeId)'
  BY <1>3 DEF Flows
<1> QED BY <1>4, <1>5, <1>6 DEF FlowGraphInv

\* So does taking connections away.
LEMMA LessGraph ==
  ASSUME FlowGraphInv, conns' \subseteq conns, setup' = setup,
         \A c \in conns' : c.outNodeId \in nodes' /\ c.inNodeId \in nodes'
  PROVE  FlowGraphInv'
<1>1. \A d \in conns' : ~Flows(conns', d.inNodeId, d.outNodeId)
  BY FlowsLess DEF FlowGraphInv
<1>2. \A d \in conns' : Arrives(d)' /\ d.outNodeId \in nodes'
                        /\ d.outPortIndex < Len(PortsOf(d.outNodeId, "Out")')
  BY DEF FlowGraphInv, Arrives, InPorts, PortsOf
<1>3. \A d, e \in conns' : d.inNodeId = e.inNodeId /\ d.inPortIndex = e.inPortIndex => d = e
  BY DEF FlowGraphInv
<1>4. \A d \in conns' : ~Flows(conns, d.inNodeId, d.outNodeId)'
  BY <1>1 DEF Flows
<1> QED BY <1>2, <1>3, <1>4 DEF FlowGraphInv

-----------------------------------------------------------------------------
(* The running calls.  Above a delegate that announces there are only those*)
(* its data leads on to; the loop of deleteNode() has all the connections  *)
(* that the node still has to go through.                                  *)
Announces(f) == f.op = "deliver" /\ f.node # None
LeadsOn(a, b) == \E c \in conns : c.outNodeId = a /\ Flows(conns, c.inNodeId, b)
Touching(n) == {c \in conns : n \in {c.inNodeId, c.outNodeId}}

LoopAt(k) ==
  /\ calls[k].op = "erase" =>
       /\ k = 1 /\ calls[k].todo = {} /\ calls[k].node \in NodeId
       /\ Len(calls) = 1 => Touching(calls[k].node) = {}
       /\ Len(calls) > 1 => calls[2].op = "disconnect"
  /\ calls[k].op = "disconnect" =>
       k = 2 /\ calls[1].op = "erase" /\ calls[k].todo = Touching(calls[1].node)
  /\ calls[k].op = "offer" => k = 1 /\ calls[k].todo \subseteq conns

AnnouncementAt(k) ==
  Announces(calls[k]) =>
    /\ calls[k].data = portData(calls[k].node)
    /\ \A c \in calls[k].todo : c \in conns /\ c.outNodeId = calls[k].node
    /\ \A j \in k + 1 .. Len(calls) : Announces(calls[j]) /\ LeadsOn(calls[k].node, calls[j].node)

\* A connection whose data is still to be looked up; one that a call has the data of;
\* the end of one that is gone, which a call has yet to empty.
Offered(c) == calls # << >> /\ calls[1].op = "offer" /\ c \in calls[1].todo
Current(k, c) ==
  /\ c \in conns /\ calls[k].data = portData(c.outNodeId)
  /\ calls[k].node = c.outNodeId \/ (k = Len(calls) /\ calls[k].todo = {c})
SamePort(c, d) == c.inNodeId = d.inNodeId /\ c.inPortIndex = d.inPortIndex
Emptying(k, c) ==
  /\ calls[k].node = None /\ calls[k].data = None /\ Arrives(c)
  /\ \A d \in conns : SamePort(c, d) => Offered(d)
DeliveryAt(k) ==
  calls[k].op = "deliver" => \A c \in calls[k].todo : Current(k, c) \/ Emptying(k, c)

StackInv == \A k \in 1 .. Len(calls) : LoopAt(k) /\ AnnouncementAt(k) /\ DeliveryAt(k)

\* What an in port holds.
HoldsNothing(n, p) ==
  (setup.kind[n] = "sum" => input[n][p] = None) /\ (setup.kind[n] = "display" => shown[n] = None)
Holds(c) ==
  /\ setup.kind[c.inNodeId] = "sum" => input[c.inNodeId][c.inPortIndex] = portData(c.outNodeId)
  /\ setup.kind[c.inNodeId] = "display" => shown[c.inNodeId] = number[c.outNodeId]

\* A call has the data of c, or is to empty an in port.
Delivered(c) == \E k \in 1 .. Len(calls) :
  calls[k].op = "deliver" /\ c \in calls[k].todo /\ Current(k, c)
Emptied(n, p) == \E k \in 1 .. Len(calls) :
  /\ calls[k].op = "deliver" /\ calls[k].node = None /\ calls[k].data = None
  /\ \E c \in calls[k].todo : c.inNodeId = n /\ c.inPortIndex = p

\* Every in port has what its source has, or a call is to see to it.
ServedInv ==
  /\ \A c \in conns : c.inNodeId \notin setup.freezable => Holds(c) \/ Offered(c) \/ Delivered(c)
  /\ \A n \in nodes \ setup.freezable : \A p \in InPorts(n) :
       (\A c \in conns : ~(c.inNodeId = n /\ c.inPortIndex = p)) =>
         HoldsNothing(n, p) \/ Emptied(n, p)
  /\ \A n \in NodeId \ nodes : shown[n] = None /\ \A p \in {0, 1} : input[n][p] = None

FlowInv == FlowTypes /\ FlowGraphInv /\ StackInv /\ ServedInv

\* What portData() returns.
LEMMA DataIs ==
  ASSUME FlowTypes, NEW n \in NodeId
  PROVE  portData(n) \in {None, n} /\ Read(portData(n)) = number[n]
BY NodesAreNumbers, DataFlowConstants DEF portData, Read, NodeId

\* What is read is a number or nothing.
LEMMA ReadIs ==
  ASSUME FlowTypes, NEW ref \in Ref
  PROVE  Read(ref) \in Int \cup {None}
<1>1. CASE ref = None
  BY <1>1 DEF Read
<1>2. CASE ref \in NodeId
  <2>1. ref # None /\ ref < InvalidNodeId
    BY <1>2, DataFlowConstants DEF NodeId
  <2> QED BY <1>2, <2>1 DEF Read, FlowTypes
<1>3. CASE ref \in {ShownBy(d) : d \in NodeId}
  <2>1. PICK d \in NodeId : ref = InvalidNodeId + d
    BY <1>3 DEF ShownBy
  <2>2. d \in Int /\ d >= 0 /\ InvalidNodeId \in Int
    BY DataFlowConstants DEF NodeId
  <2>3. ref \in Int /\ ~(ref < InvalidNodeId) /\ ref - InvalidNodeId = d
    BY <2>1, <2>2
  <2>4. ref # None
    BY <2>3, DataFlowConstants
  <2>5. Read(ref) = shown[d]
    BY <2>3, <2>4 DEF Read
  <2> QED BY <2>5 DEF FlowTypes
<1> QED BY <1>1, <1>2, <1>3 DEF Ref, Endpoint

\* A connection leads onward.
LEMMA LeadsOnward ==
  ASSUME NEW a, NEW c \in conns, LeadsOn(a, c.outNodeId)
  PROVE  LeadsOn(a, c.inNodeId)
<1>1. PICK d \in conns : d.outNodeId = a /\ Flows(conns, d.inNodeId, c.outNodeId)
  BY DEF LeadsOn
<1>2. Flows(conns, d.inNodeId, c.inNodeId)
  BY <1>1 DEF Flows
<1> QED BY <1>1, <1>2 DEF LeadsOn

\* A connection leads to its own end.
LEMMA FirstLeadsOn ==
  ASSUME NEW c \in conns
  PROVE  LeadsOn(c.outNodeId, c.inNodeId)
BY DEF LeadsOn, Flows

\* There are no loops.
LEMMA NoWayBack ==
  ASSUME FlowGraphInv, NEW a
  PROVE  ~LeadsOn(a, a)
BY DEF LeadsOn, FlowGraphInv

\* The calls that a step leaves.
LEMMA CallsAre ==
  ASSUME calls \in Seq(Frame), ~Idle
  PROVE  /\ Len(calls) \in Nat /\ Len(calls) >= 1 /\ Top \in Frame
         /\ \A k \in 1 .. Len(calls) : calls[k] \in Frame
         /\ Below \in Seq(Frame) /\ Len(Below) = Len(calls) - 1
         /\ \A k \in 1 .. Len(calls) - 1 : Below[k] = calls[k]
<1>1. Len(calls) \in Nat /\ Len(calls) >= 1 /\ \A k \in 1 .. Len(calls) : calls[k] \in Frame
  BY DEF Idle
<1>2. Below \in Seq(Frame) /\ Len(Below) = Len(calls) - 1
      /\ \A k \in 1 .. Len(calls) - 1 : Below[k] = calls[k]
  <2> HIDE DEF Frame
  <2> DEFINE m == Len(calls) - 1
  <2>1. m \in Nat /\ m <= Len(calls)
    BY <1>1
  <2>2. SubSeq(calls, 1, m) = [k \in 1 .. m |-> calls[k]]
    BY <1>1, <2>1
  <2> HIDE DEF m
  <2>3. \A k \in 1 .. m : calls[k] \in Frame
    BY <1>1, <2>1
  <2>4. [k \in 1 .. m |-> calls[k]] \in Seq(Frame)
    BY <2>1, <2>3
  <2>5. Len(SubSeq(calls, 1, m)) = m
    BY <2>1, <2>2
  <2> QED BY <2>2, <2>4, <2>5 DEF Below, m
<1> QED BY <1>1, <1>2 DEF Top

\* The innermost loop has one connection less to go through.
LEMMA WithoutIs ==
  ASSUME calls \in Seq(Frame), ~Idle, NEW c
  PROVE  /\ Without(c) \in Seq(Frame) /\ Len(Without(c)) = Len(calls)
         /\ \A k \in 1 .. Len(calls) : k < Len(calls) => Without(c)[k] = calls[k]
         /\ Without(c)[Len(calls)] = Call(Top.op, Top.node, Top.data, Top.todo \ {c})
<1> DEFINE f == [Top EXCEPT !.todo = @ \ {c}]
<1>1. f = Call(Top.op, Top.node, Top.data, Top.todo \ {c}) /\ f \in Frame
  <2>1. Top \in Frame
    BY CallsAre
  <2>2. Top.todo \ {c} \in SUBSET ConnectionId
    BY <2>1 DEF Frame
  <2>3. ASSUME NEW t \in Frame, NEW todo \in SUBSET ConnectionId
        PROVE  /\ [t EXCEPT !.todo = todo] = Call(t.op, t.node, t.data, todo)
               /\ Call(t.op, t.node, t.data, todo) \in Frame
    <3>1. /\ t.op \in {"deliver", "offer", "disconnect", "erase"}
          /\ t.node \in Endpoint /\ t.data \in Endpoint
      BY DEF Frame
    <3>2. Call(t.op, t.node, t.data, todo) \in Frame
      BY <3>1 DEF Frame, Call
    <3>3. [t EXCEPT !.todo = todo] = Call(t.op, t.node, t.data, todo)
      BY DEF Frame, Call
    <3> QED BY <3>2, <3>3
  <2> QED BY <2>1, <2>2, <2>3
<1> HIDE DEF f
<1>2. Without(c) = Append(Below, f)
  BY DEF Without, f
<1>3. /\ Append(Below, f) \in Seq(Frame) /\ Len(Append(Below, f)) = Len(Below) + 1
      /\ \A k \in 1 .. Len(Below) : Append(Below, f)[k] = Below[k]
      /\ Append(Below, f)[Len(Below) + 1] = f
  BY <1>1, CallsAre
<1>4. Len(Below) = Len(calls) - 1 /\ Len(calls) \in Nat /\ Len(calls) >= 1
      /\ \A k \in 1 .. Len(calls) - 1 : Below[k] = calls[k]
  BY CallsAre
<1>5. ASSUME NEW k \in 1 .. Len(calls), k < Len(calls)
      PROVE  Without(c)[k] = calls[k]
  <2>1. k \in 1 .. Len(calls) - 1 /\ k \in 1 .. Len(Below)
    BY <1>4, <1>5
  <2> QED BY <1>2, <1>3, <1>4, <2>1
<1>6. Len(Below) + 1 = Len(calls)
  BY <1>4
<1> QED BY <1>1, <1>2, <1>3, <1>5, <1>6

\* Frames are what Call() makes.
LEMMA FramesAre ==
  ASSUME NEW op, NEW node, NEW data, NEW todo
  PROVE  /\ Call(op, node, data, todo).op = op /\ Call(op, node, data, todo).node = node
         /\ Call(op, node, data, todo).data = data /\ Call(op, node, data, todo).todo = todo
         /\ op \in {"deliver", "offer", "disconnect", "erase"} /\ node \in Endpoint
            /\ data \in Endpoint /\ todo \subseteq ConnectionId
              => Call(op, node, data, todo) \in Frame
BY DEF Call, Frame

\* At rest every in port has been served.
LEMMA AtRest ==
  ASSUME FlowInv, Idle
  PROVE  /\ \A c \in conns : c.inNodeId \notin setup.freezable => Holds(c)
         /\ \A n \in nodes \ setup.freezable : \A p \in InPorts(n) :
              (\A c \in conns : ~(c.inNodeId = n /\ c.inPortIndex = p)) => HoldsNothing(n, p)
         /\ \A n \in NodeId \ nodes : shown[n] = None /\ \A p \in {0, 1} : input[n][p] = None
<1>1. ~(\E k \in 1 .. Len(calls) : TRUE)
  BY DEF Idle
<1> QED BY <1>1 DEF FlowInv, ServedInv, Offered, Delivered, Emptied, Idle

\* What the runs check follows from the invariant.
LEMMA SettledThen ==
  ASSUME FlowInv
  PROVE  DataSettled
<1>1. SUFFICES ASSUME Idle, NEW n \in nodes \ setup.freezable, NEW p \in {0, 1}, p \in InPorts(n)
               PROVE  LET at == {c \in conns : c.inNodeId = n /\ c.inPortIndex = p}
                          now == IF at = {} THEN None ELSE number[(CHOOSE c \in at : TRUE).outNodeId]
                      IN  (IF setup.kind[n] = "sum" THEN Read(input[n][p]) ELSE shown[n]) = now
  BY DEF DataSettled
<1> DEFINE at == {c \in conns : c.inNodeId = n /\ c.inPortIndex = p}
<1>2. n \in NodeId /\ setup.kind[n] \in {"sum", "display"}
  BY <1>1, KindIs DEF FlowInv, FlowTypes
<1>3. CASE at = {}
  <2>1. HoldsNothing(n, p)
    BY <1>1, <1>3, AtRest
  <2>2. Read(None) = None
    BY DEF Read
  <2> QED BY <1>2, <1>3, <2>1, <2>2 DEF HoldsNothing
<1>4. CASE at # {}
  <2> DEFINE c == CHOOSE c \in at : TRUE
  <2>1. c \in at
    BY <1>4
  <2> HIDE DEF c
  <2>2. c \in conns /\ c.inNodeId = n /\ c.inPortIndex = p
    BY <2>1
  <2>3. Holds(c)
    BY <1>1, <2>2, AtRest
  <2>4. Read(portData(c.outNodeId)) = number[c.outNodeId]
    <3>1. c.outNodeId \in NodeId
      BY <2>2, WireIs DEF FlowInv, FlowTypes
    <3> QED BY <3>1, DataIs DEF FlowInv
  <2>5. (IF setup.kind[n] = "sum" THEN Read(input[n][p]) ELSE shown[n]) = number[c.outNodeId]
    BY <1>2, <2>2, <2>3, <2>4 DEF Holds
  <2> QED BY <1>4, <2>5 DEF c
<1> QED BY <1>3, <1>4

\* Announcements lie on a path, and no path comes back.
LEMMA NotReenteredThen ==
  ASSUME FlowInv
  PROVE  NotReentered
<1>1. SUFFICES ASSUME NEW i \in DOMAIN calls, NEW j \in DOMAIN calls, i < j,
                      Announces(calls[i]), calls[j].node = calls[i].node
               PROVE  FALSE
  <2>1. DOMAIN calls = 1 .. Len(calls)
    BY DEF FlowInv, FlowTypes
  <2>2. \A i, j \in DOMAIN calls : i < j \/ j < i \/ i = j
    BY <2>1
  <2> QED BY <1>1, <2>2 DEF NotReentered, Announces
<1>2. i \in 1 .. Len(calls) /\ j \in i + 1 .. Len(calls)
  BY <1>1 DEF FlowInv, FlowTypes
<1>3. LeadsOn(calls[i].node, calls[j].node)
  BY <1>1, <1>2 DEF FlowInv, StackInv, AnnouncementAt
<1> QED BY <1>1, <1>3, NoWayBack DEF FlowInv

-----------------------------------------------------------------------------
(* What the user does, with no call running.                               *)

\* What does not depend on what the delegates hold.
LEMMA GraphKept ==
  ASSUME FlowGraphInv, nodes' = nodes, conns' = conns, setup' = setup
  PROVE  FlowGraphInv'
BY DEF FlowGraphInv, Arrives, InPorts, PortsOf, Flows

\* A result that is let go of: only the inputs that refer to it change.
LEMMA LetGoIs ==
  ASSUME NEW inputs \in [NodeId -> [{0, 1} -> Ref]], NEW old, old # None
  PROVE  /\ LetGo(inputs, old) \in [NodeId -> [{0, 1} -> Ref]]
         /\ \A k \in NodeId : \A p \in {0, 1} :
              inputs[k][p] # old => LetGo(inputs, old)[k][p] = inputs[k][p]
<1> DEFINE keepers == {d \in NodeId : setup.kind[d] = "display" /\ inputs[d][0] = old}
           kept == IF keepers = {} THEN None ELSE ShownBy(CHOOSE d \in keepers : TRUE)
<1>1. kept \in Ref
  <2>1. CASE keepers = {}
    BY <2>1 DEF Ref, Endpoint
  <2>2. CASE keepers # {}
    <3>1. (CHOOSE d \in keepers : TRUE) \in NodeId
      BY <2>2
    <3> HIDE DEF keepers
    <3> QED BY <2>2, <3>1 DEF Ref
  <2> QED BY <2>1, <2>2
<1>2. LetGo(inputs, old) = [k \in NodeId |-> [p \in {0, 1} |->
                              IF inputs[k][p] = old THEN kept ELSE inputs[k][p]]]
  BY DEF LetGo
<1> HIDE DEF kept
<1>3. \A k \in NodeId : \A p \in {0, 1} : inputs[k][p] \in Ref
  OBVIOUS
<1> QED BY <1>1, <1>2, <1>3

\* A node drops its result, and only the inputs that refer to it change.
LEMMA ExpiredIs ==
  ASSUME NEW inputs \in [NodeId -> [{0, 1} -> Ref]], NEW n, n # None
  PROVE  /\ Expired(inputs, n) \in [NodeId -> [{0, 1} -> Ref]]
         /\ \A k \in NodeId : \A p \in {0, 1} :
              /\ inputs[k][p] # n => Expired(inputs, n)[k][p] = inputs[k][p]
              /\ inputs[k][p] = None => Expired(inputs, n)[k][p] = None
BY LetGoIs DEF Expired

\* A display takes something else: the references to nodes stay what they are.
LEMMA ReplacedIs ==
  ASSUME NEW inputs \in [NodeId -> [{0, 1} -> Ref]], NEW d \in NodeId, NEW ref \in Ref
  PROVE  /\ Replaced(inputs, d, ref) \in [NodeId -> [{0, 1} -> Ref]]
         /\ \A k \in NodeId : \A p \in {0, 1} :
              (k # d \/ p # 0) /\ inputs[k][p] \in Endpoint
                => Replaced(inputs, d, ref)[k][p] = inputs[k][p]
<1> DEFINE old == inputs[d][0]
           taken == [inputs EXCEPT ![d][0] = ref]
<1>1. /\ taken \in [NodeId -> [{0, 1} -> Ref]]
      /\ \A k \in NodeId : \A p \in {0, 1} :
           (k # d \/ p # 0) => taken[k][p] = inputs[k][p]
  OBVIOUS
<1>2. Replaced(inputs, d, ref) = IF old = None \/ old \in NodeId THEN taken ELSE LetGo(taken, old)
  BY DEF Replaced
<1> HIDE DEF old, taken
<1>3. CASE old = None \/ old \in NodeId
  BY <1>1, <1>2, <1>3
<1>4. CASE old # None /\ old \notin NodeId
  <2>1. old \notin Endpoint
    BY <1>4 DEF Endpoint
  <2>2. /\ LetGo(taken, old) \in [NodeId -> [{0, 1} -> Ref]]
        /\ \A k \in NodeId : \A p \in {0, 1} :
             taken[k][p] # old => LetGo(taken, old)[k][p] = taken[k][p]
    BY <1>1, <1>4, LetGoIs
  <2>3. Replaced(inputs, d, ref) = LetGo(taken, old)
    BY <1>2, <1>4
  <2> QED BY <1>1, <2>1, <2>2, <2>3
<1> QED BY <1>3, <1>4

\* One call at rest: what StackInv asks of it.
LEMMA OneCall ==
  ASSUME NEW f, calls' = <<f>>
  PROVE  /\ Len(calls') = 1 /\ calls'[1] = f /\ 1 .. Len(calls') = {1}
         /\ f \in Frame => calls' \in Seq(Frame)
  OBVIOUS

\* The types, of the next state.
LEMMA TypesAre ==
  ASSUME setup' \in Setups, nodes' \subseteq NodeId, conns' \subseteq ConnectionId,
         frozen' \in [NodeId -> BOOLEAN], \A n \in NodeId \ setup'.freezable : ~frozen'[n],
         input' \in [NodeId -> [{0, 1} -> Ref]],
         number' \in [NodeId -> Int \cup {None}], shown' \in [NodeId -> Int \cup {None}],
         calls' \in Seq(Frame)
  PROVE  FlowTypes'
BY DEF FlowTypes, NodeId, Frame, Endpoint, ConnectionId, Topology!ConnectionId, Topology!NodeId,
       Topology!PortIndex, Ref, ShownBy

\* onTextEdited: the number is announced to all that are connected.
LEMMA EditedKeeps ==
  ASSUME FlowInv, NEW n \in NodeId, NEW v \in Number, onTextEdited(n, v), setup' = setup
  PROVE  FlowInv'
<1> DEFINE f == Announce(n, n, connectionsFrom(n))
<1>0. /\ n \in nodes /\ number' = [number EXCEPT ![n] = v] /\ input' = Expired(input, n)
      /\ calls' = <<f>> /\ Idle
      /\ nodes' = nodes /\ conns' = conns /\ frozen' = frozen /\ shown' = shown
  BY DEF onTextEdited
<1>1. v \in Int /\ v # None /\ n # None
  BY DataFlowConstants, NodesAreNumbers
<1>2. connectionsFrom(n) \subseteq conns /\ connectionsFrom(n) \subseteq ConnectionId
  BY DEF connectionsFrom, FlowInv, FlowTypes
<1>3. /\ f \in Frame /\ f.op = "deliver" /\ f.node = n /\ f.data = n /\ f.todo = connectionsFrom(n)
  <2>1. n \in Endpoint
    BY DEF Endpoint
  <2> QED BY <1>2, <2>1, FramesAre DEF Announce
<1>4. calls' \in Seq(Frame) /\ Len(calls') = 1 /\ calls'[1] = f /\ 1 .. Len(calls') = {1}
  BY <1>0, <1>3, OneCall
<1> HIDE DEF f
<1>5. number' \in [NodeId -> Int \cup {None}] /\ number'[n] = v
      /\ \A m \in NodeId : m # n => number'[m] = number[m]
  BY <1>0, <1>1 DEF FlowInv, FlowTypes
<1>6. FlowTypes'
  <2>1. input' \in [NodeId -> [{0, 1} -> Ref]]
    BY <1>0, <1>1, ExpiredIs DEF FlowInv, FlowTypes
  <2>2. setup' \in Setups /\ \A k \in NodeId \ setup'.freezable : ~frozen'[k]
    BY <1>0 DEF FlowInv, FlowTypes
  <2>3. /\ nodes' \subseteq NodeId /\ conns' \subseteq ConnectionId /\ frozen' \in [NodeId -> BOOLEAN]
        /\ shown' \in [NodeId -> Int \cup {None}]
    BY <1>0 DEF FlowInv, FlowTypes
  <2> QED BY <1>4, <1>5, <2>1, <2>2, <2>3, TypesAre
<1>7. FlowGraphInv'
  BY <1>0, GraphKept DEF FlowInv
<1>8. \A c \in conns : /\ c.outNodeId \in NodeId /\ c.inNodeId \in NodeId /\ c.inPortIndex \in {0, 1}
  BY WireIs DEF FlowInv, FlowTypes
<1>9. portData(n)' = n /\ \A m \in NodeId : m # n => portData(m)' = portData(m)
  BY <1>1, <1>5 DEF portData
<1>10. StackInv'
  <2>1. LoopAt(1)'
    BY <1>3, <1>4 DEF LoopAt
  <2>2. AnnouncementAt(1)'
    BY <1>0, <1>3, <1>4, <1>9 DEF AnnouncementAt, connectionsFrom
  <2>3. DeliveryAt(1)'
    BY <1>0, <1>3, <1>4, <1>9 DEF DeliveryAt, Current, connectionsFrom
  <2> QED BY <1>4, <2>1, <2>2, <2>3 DEF StackInv
<1>11. ServedInv'
  <2>1. ASSUME NEW c \in conns, c.inNodeId \notin setup.freezable, c.outNodeId # n
        PROVE  Holds(c)'
    <3>1. Holds(c)
      BY <1>0, <2>1, AtRest
    <3>2. portData(c.outNodeId)' = portData(c.outNodeId) /\ number'[c.outNodeId] = number[c.outNodeId]
      BY <1>5, <1>8, <1>9, <2>1
    <3>3. portData(c.outNodeId) # n
      BY <1>8, <1>1, <2>1, DataIs DEF FlowInv
    <3>4. input[c.inNodeId][c.inPortIndex] # n
            => input'[c.inNodeId][c.inPortIndex] = input[c.inNodeId][c.inPortIndex]
      BY <1>0, <1>1, <1>8, ExpiredIs DEF FlowInv, FlowTypes
    <3> QED BY <1>0, <3>1, <3>2, <3>3, <3>4 DEF Holds
  <2>2. ASSUME NEW c \in conns, c.outNodeId = n
        PROVE  Delivered(c)'
    <3>1. c \in f.todo
      BY <1>3, <2>2 DEF connectionsFrom
    <3>2. Current(1, c)'
      BY <1>0, <1>3, <1>4, <1>9, <2>2 DEF Current
    <3> QED BY <1>3, <1>4, <3>1, <3>2 DEF Delivered
  <2>3. \A c \in conns : c.inNodeId \notin setup.freezable => Holds(c)' \/ Delivered(c)'
    BY <2>1, <2>2
  <2>4. \A m \in NodeId : \A p \in {0, 1} : input[m][p] = None => input'[m][p] = None
    BY <1>0, <1>1, ExpiredIs DEF FlowInv, FlowTypes
  <2>5. ASSUME NEW m \in nodes \ setup.freezable, NEW p \in InPorts(m),
               \A c \in conns : ~(c.inNodeId = m /\ c.inPortIndex = p)
        PROVE  HoldsNothing(m, p)'
    <3>1. HoldsNothing(m, p)
      BY <1>0, <2>5, AtRest
    <3>2. m \in NodeId /\ p \in {0, 1}
      BY InPortsAre DEF FlowInv, FlowTypes
    <3> QED BY <1>0, <2>4, <3>1, <3>2 DEF HoldsNothing
  <2>6. \A m \in NodeId \ nodes : shown[m] = None /\ \A p \in {0, 1} : input'[m][p] = None
    BY <1>0, <2>4, AtRest
  <2>7. \A m : InPorts(m)' = InPorts(m)
    BY DEF InPorts
  <2> QED BY <1>0, <2>3, <2>5, <2>6, <2>7 DEF ServedInv, NodeId
<1> QED BY <1>6, <1>7, <1>10, <1>11 DEF FlowInv

\* A step that leaves the delegates alone keeps the types.
LEMMA TypesKept ==
  ASSUME FlowTypes, setup' = setup, frozen' = frozen, input' = input, number' = number, shown' = shown,
         nodes' \subseteq NodeId, conns' \subseteq ConnectionId, calls' \in Seq(Frame)
  PROVE  FlowTypes'
BY TypesAre DEF FlowTypes

\* What the delegates hold when they are left alone.
LEMMA HeldKept ==
  ASSUME input' = input, number' = number, shown' = shown, setup' = setup
  PROVE  /\ \A c : Holds(c)' <=> Holds(c)
         /\ \A n, p : HoldsNothing(n, p)' <=> HoldsNothing(n, p)
         /\ \A n : InPorts(n)' = InPorts(n) /\ portData(n)' = portData(n)
BY DEF Holds, HoldsNothing, InPorts, portData

\* addConnection(), and the publisher of a replacement.
LEMMA OfferKeeps ==
  ASSUME FlowInv, Idle, NEW c \in ConnectionId, NEW removed \in SUBSET conns,
         connectionPossible(c, removed), conns' = (conns \ removed) \cup {c},
         UNCHANGED <<nodes, frozen, input, number, shown, setup>>,
         \/ calls' = <<Offer({c})>> /\ removed = {}
         \/ calls' = <<Offer({c}), Deliver(None, removed)>>
  PROVE  FlowInv'
<1> DEFINE f == Offer({c})
           g == Deliver(None, removed)
<1>1. f \in Frame /\ f.op = "offer" /\ f.node = None /\ f.todo = {c}
  BY FramesAre DEF Offer, Endpoint
<1>2. g \in Frame /\ g.op = "deliver" /\ g.node = None /\ g.data = None /\ g.todo = removed
  BY FramesAre DEF Deliver, Endpoint, FlowInv, FlowTypes
<1>3. /\ calls' \in Seq(Frame) /\ Len(calls') \in {1, 2} /\ calls'[1] = f /\ calls' # << >>
      /\ Len(calls') = 1 => removed = {}
      /\ Len(calls') = 2 => calls'[2] = g
  <2>1. CASE calls' = <<f>> /\ removed = {}
    BY <1>1, <2>1
  <2>2. CASE calls' = <<f, g>>
    BY <1>1, <1>2, <2>2
  <2> QED BY <2>1, <2>2
<1>4. Fits(c, removed)
  BY PossibleFits DEF FlowInv
<1> HIDE DEF f, g
<1>5. FlowTypes'
  BY <1>3, TypesKept DEF FlowInv, FlowTypes
<1>6. FlowGraphInv'
  BY <1>4, FittedGraph DEF FlowInv
<1>7. \A d : Offered(d)' <=> d = c
  BY <1>1, <1>3 DEF Offered
<1>8. \A r \in removed : Arrives(r)' /\ \A d \in conns' : SamePort(r, d) => d = c
  BY DEF FlowInv, FlowGraphInv, Arrives, InPorts, SamePort
<1>9. StackInv'
  <2>1. LoopAt(1)' /\ AnnouncementAt(1)' /\ DeliveryAt(1)'
    BY <1>1, <1>3 DEF LoopAt, AnnouncementAt, DeliveryAt, Announces
  <2>2. ASSUME Len(calls') = 2
        PROVE  LoopAt(2)' /\ AnnouncementAt(2)' /\ DeliveryAt(2)'
    <3>1. \A r \in removed : Emptying(2, r)'
      BY <1>2, <1>3, <1>7, <1>8, <2>2 DEF Emptying, SamePort
    <3> QED BY <1>2, <1>3, <2>2, <3>1 DEF LoopAt, AnnouncementAt, DeliveryAt, Announces
  <2>3. \A m \in {1, 2} : \A k \in 1 .. m : k = 1 \/ (k = 2 /\ m = 2)
    OBVIOUS
  <2>4. \A k \in 1 .. Len(calls') : k = 1 \/ (k = 2 /\ Len(calls') = 2)
    BY <1>3, <2>3
  <2> QED BY <2>1, <2>2, <2>4 DEF StackInv
<1>10. ServedInv'
  <2>1. \A d \in conns' : d.inNodeId \notin setup.freezable => Holds(d)' \/ Offered(d)'
    BY <1>7, AtRest, HeldKept
  <2>2. ASSUME NEW n \in nodes \ setup.freezable, NEW p \in InPorts(n),
               \A d \in conns' : ~(d.inNodeId = n /\ d.inPortIndex = p)
        PROVE  HoldsNothing(n, p)' \/ Emptied(n, p)'
    <3>1. CASE \E r \in removed : r.inNodeId = n /\ r.inPortIndex = p
      <4>1. PICK r \in removed : r.inNodeId = n /\ r.inPortIndex = p
        BY <3>1
      <4>2. Len(calls') = 2 /\ calls'[2] = g
        BY <1>3, <4>1
      <4>3. 2 \in 1 .. Len(calls')
        BY <4>2
      <4> QED BY <1>2, <4>1, <4>2, <4>3 DEF Emptied
    <3>2. CASE ~\E r \in removed : r.inNodeId = n /\ r.inPortIndex = p
      <4>1. HoldsNothing(n, p)
        BY <2>2, <3>2, AtRest
      <4> QED BY <4>1, HeldKept
    <3> QED BY <3>1, <3>2
  <2>3. \A n \in NodeId \ nodes : shown'[n] = None /\ \A p \in {0, 1} : input'[n][p] = None
    BY AtRest
  <2> QED BY <2>1, <2>2, <2>3, HeldKept DEF ServedInv, NodeId
<1> QED BY <1>5, <1>6, <1>9, <1>10 DEF FlowInv

\* addConnection() offers the new connection its data.
LEMMA AddKeeps ==
  ASSUME FlowInv, NEW c \in ConnectionId, addConnection(c), setup' = setup
  PROVE  FlowInv'
<1>1. /\ Idle /\ connectionPossible(c, {}) /\ conns' = (conns \ {}) \cup {c}
      /\ calls' = <<Offer({c})>> /\ {} \in SUBSET conns
      /\ UNCHANGED <<nodes, frozen, input, number, shown, setup>>
  BY DEF addConnection
<1> QED BY <1>1, OfferKeeps

\* A replacement empties the removed ends, then offers.
LEMMA ReplaceKeeps ==
  ASSUME FlowInv, NEW c \in ConnectionId, NEW removed \in SUBSET conns,
         replaceConnection(removed, c), setup' = setup
  PROVE  FlowInv'
<1>1. /\ Idle /\ connectionPossible(c, removed) /\ conns' = (conns \ removed) \cup {c}
      /\ calls' = <<Offer({c}), Deliver(None, removed)>>
      /\ UNCHANGED <<nodes, frozen, input, number, shown, setup>>
  BY DEF replaceConnection
<1> QED BY <1>1, OfferKeeps

\* A connection goes: one call empties the end it had.  deleteConnection() starts
\* with that call, deleteNode() makes it from its loop.
LEMMA EmptyingAdded ==
  ASSUME FlowInv, NEW c \in conns, NEW m \in Nat, conns' = conns \ {c},
         UNCHANGED <<nodes, frozen, input, number, shown, setup>>,
         calls' \in Seq(Frame), Len(calls') = m + 1, calls'[m + 1] = Deliver(None, {c}),
         \A k \in 1 .. m : calls'[k].op \in {"erase", "disconnect"},
         \A k \in 1 .. Len(calls) : calls[k].op \in {"erase", "disconnect"},
         \A k \in 1 .. m : LoopAt(k)'
  PROVE  FlowInv'
<1> DEFINE g == Deliver(None, {c})
<1>1. g.op = "deliver" /\ g.node = None /\ g.data = None /\ g.todo = {c}
  BY FramesAre DEF Deliver
<1> HIDE DEF g
<1>2. calls'[m + 1] = g
  BY DEF g
<1>3. FlowTypes'
  BY TypesKept DEF FlowInv, FlowTypes
<1>4. FlowGraphInv'
  BY LessGraph DEF FlowInv, FlowGraphInv, Arrives
<1>5. Arrives(c)' /\ \A d \in conns' : ~SamePort(c, d)
  BY DEF FlowInv, FlowGraphInv, Arrives, InPorts, SamePort
<1>6. Emptying(m + 1, c)'
  BY <1>1, <1>2, <1>5 DEF Emptying, SamePort
<1>7. \A k \in 1 .. Len(calls') : k \in 1 .. m \/ k = m + 1
  OBVIOUS
<1>8. StackInv'
  <2>1. LoopAt(m + 1)' /\ AnnouncementAt(m + 1)' /\ DeliveryAt(m + 1)'
    BY <1>1, <1>2, <1>6 DEF LoopAt, AnnouncementAt, DeliveryAt, Announces
  <2>2. \A k \in 1 .. m : AnnouncementAt(k)' /\ DeliveryAt(k)'
    BY DEF AnnouncementAt, DeliveryAt, Announces
  <2> QED BY <1>7, <2>1, <2>2 DEF StackInv
<1>9. \A d : ~Delivered(d)
  BY DEF Delivered
<1>10. \A d : ~Offered(d)
  <2>1. calls # << >> => 1 \in 1 .. Len(calls)
    BY DEF FlowInv, FlowTypes
  <2> QED BY <2>1 DEF Offered
<1>11. \A n, p : ~Emptied(n, p)
  BY DEF Emptied
<1>12. ServedInv'
  <2>1. \A d \in conns' : d.inNodeId \notin setup.freezable => Holds(d)'
    BY <1>9, <1>10, HeldKept DEF FlowInv, ServedInv
  <2>2. ASSUME NEW n \in nodes \ setup.freezable, NEW p \in InPorts(n),
               \A d \in conns' : ~(d.inNodeId = n /\ d.inPortIndex = p)
        PROVE  HoldsNothing(n, p)' \/ Emptied(n, p)'
    <3>1. CASE c.inNodeId = n /\ c.inPortIndex = p
      <4>1. m + 1 \in 1 .. Len(calls')
        OBVIOUS
      <4> QED BY <1>1, <1>2, <3>1, <4>1 DEF Emptied
    <3>2. CASE ~(c.inNodeId = n /\ c.inPortIndex = p)
      BY <1>11, <2>2, <3>2, HeldKept DEF FlowInv, ServedInv
    <3> QED BY <3>1, <3>2
  <2>3. \A n \in NodeId \ nodes : shown'[n] = None /\ \A p \in {0, 1} : input'[n][p] = None
    BY DEF FlowInv, ServedInv
  <2> QED BY <2>1, <2>2, <2>3, HeldKept DEF ServedInv, NodeId
<1> QED BY <1>3, <1>4, <1>8, <1>12 DEF FlowInv

\* deleteConnection() empties the end.
LEMMA DeleteConnectionKeeps ==
  ASSUME FlowInv, NEW c \in ConnectionId, deleteConnection(c), setup' = setup
  PROVE  FlowInv'
<1>1. /\ Idle /\ c \in conns /\ conns' = conns \ {c} /\ calls' = <<Deliver(None, {c})>>
      /\ UNCHANGED <<nodes, frozen, input, number, shown, setup>>
  BY DEF deleteConnection
<1>2. Deliver(None, {c}) \in Frame
  BY FramesAre DEF Deliver, Endpoint
<1>3. calls' \in Seq(Frame) /\ Len(calls') = 0 + 1 /\ calls'[0 + 1] = Deliver(None, {c})
  BY <1>1, <1>2
<1>4. (\A k \in 1 .. 0 : FALSE) /\ \A k \in 1 .. Len(calls) : FALSE
  BY <1>1 DEF Idle
<1> HIDE DEF FlowInv
<1>5. 0 \in Nat
  OBVIOUS
<1> QED BY <1>1, <1>3, <1>4, <1>5, EmptyingAdded

\* deleteNode() starts its loop.
LEMMA DeleteNodeKeeps ==
  ASSUME FlowInv, NEW n \in NodeId, deleteNode(n), setup' = setup
  PROVE  FlowInv'
<1> DEFINE f == Erase(n)
           g == Disconnect(Touching(n))
<1>1. /\ Idle /\ calls' = <<f, g>> /\ nodes' = nodes /\ conns' = conns
      /\ UNCHANGED <<nodes, conns, frozen, input, number, shown, setup>>
  BY DEF deleteNode, Touching
<1>2. f \in Frame /\ f.op = "erase" /\ f.node = n /\ f.todo = {}
  BY FramesAre DEF Erase, Endpoint
<1>3. g \in Frame /\ g.op = "disconnect" /\ g.node = None /\ g.todo = Touching(n)
  BY FramesAre DEF Disconnect, Endpoint, Touching, FlowInv, FlowTypes
<1> HIDE DEF f, g
<1>4. /\ calls' \in Seq(Frame) /\ Len(calls') = 2 /\ calls'[1] = f /\ calls'[2] = g /\ calls' # << >>
      /\ \A k \in 1 .. 2 : k = 1 \/ k = 2
  BY <1>1, <1>2, <1>3
<1>5. FlowTypes' /\ FlowGraphInv'
  BY <1>1, <1>4, TypesKept, GraphKept DEF FlowInv, FlowTypes
<1>6. Touching(n)' = Touching(n)
  BY <1>1 DEF Touching
<1>7. StackInv'
  <2>1. LoopAt(1)' /\ AnnouncementAt(1)' /\ DeliveryAt(1)'
    BY <1>2, <1>3, <1>4 DEF LoopAt, AnnouncementAt, DeliveryAt, Announces
  <2>2. LoopAt(2)'
    BY <1>2, <1>3, <1>4, <1>6 DEF LoopAt
  <2>3. AnnouncementAt(2)' /\ DeliveryAt(2)'
    BY <1>3, <1>4 DEF AnnouncementAt, DeliveryAt, Announces
  <2> QED BY <1>4, <2>1, <2>2, <2>3 DEF StackInv
<1>8. ServedInv'
  BY <1>1, AtRest, HeldKept DEF ServedInv, NodeId
<1> QED BY <1>5, <1>7, <1>8 DEF FlowInv

\* A node comes back: it is connected to nothing and holds nothing.
LEMMA LoadKeeps ==
  ASSUME FlowInv, NEW n \in NodeId, NEW v \in Number, loadNode(n, v), setup' = setup
  PROVE  FlowInv'
<1>1. /\ Idle /\ n \notin nodes /\ nodes' = nodes \cup {n}
      /\ number' = [number EXCEPT ![n] = IF setup.kind[n] = "source" THEN v ELSE None]
      /\ conns' = conns /\ frozen' = frozen /\ input' = input /\ shown' = shown /\ calls' = calls
  BY DEF loadNode
<1> DEFINE w == IF setup.kind[n] = "source" THEN v ELSE None
<1>2. w \in Int \cup {None}
  BY DataFlowConstants
<1> HIDE DEF w
<1>3. number' \in [NodeId -> Int \cup {None}] /\ \A m \in NodeId : m # n => number'[m] = number[m]
  BY <1>1, <1>2 DEF FlowInv, FlowTypes, w
<1>4. nodes \subseteq NodeId /\ nodes' \subseteq NodeId
  BY <1>1 DEF FlowInv, FlowTypes
<1>5. FlowTypes'
  BY <1>1, <1>3, <1>4, TypesAre DEF FlowInv, FlowTypes
<1>6. FlowGraphInv'
  BY <1>1, LessGraph DEF FlowInv, FlowGraphInv, Arrives
<1>7. StackInv'
  <2>1. \A k \in 1 .. Len(calls') : FALSE
    BY <1>1 DEF Idle
  <2> QED BY <2>1 DEF StackInv
<1>8. \A c \in conns : c.outNodeId \in nodes /\ c.inNodeId \in nodes /\ c.outNodeId # n /\ c.inNodeId # n
  BY <1>1 DEF FlowInv, FlowGraphInv, Arrives
<1>9. ServedInv'
  <2>1. \A c \in conns : c.inNodeId \notin setup.freezable => Holds(c)'
    <3>1. ASSUME NEW c \in conns, c.inNodeId \notin setup.freezable
          PROVE  Holds(c)'
      <4>1. Holds(c) /\ number'[c.outNodeId] = number[c.outNodeId]
        BY <1>1, <1>3, <1>4, <1>8, <3>1, AtRest
      <4> QED BY <1>1, <4>1 DEF Holds, portData
    <3> QED BY <3>1
  <2>2. \A k : InPorts(k)' = InPorts(k)
    BY DEF InPorts
  <2>3. \A k \in NodeId : InPorts(k) \subseteq {0, 1}
    BY InPortsAre DEF FlowInv, FlowTypes
  <2>4. \A k \in nodes' \ setup.freezable : \A p \in InPorts(k) :
          (\A c \in conns : ~(c.inNodeId = k /\ c.inPortIndex = p)) => HoldsNothing(k, p)'
    <3>1. ASSUME NEW k \in nodes' \ setup.freezable, NEW p \in InPorts(k),
                 \A c \in conns : ~(c.inNodeId = k /\ c.inPortIndex = p)
          PROVE  HoldsNothing(k, p)
      <4>1. CASE k = n
        BY <1>1, <2>3, <4>1, AtRest DEF HoldsNothing
      <4>2. CASE k # n
        BY <1>1, <3>1, <4>2, AtRest
      <4> QED BY <4>1, <4>2
    <3> QED BY <1>1, <3>1 DEF HoldsNothing
  <2>5. \A k \in NodeId \ nodes' : shown'[k] = None /\ \A p \in {0, 1} : input'[k][p] = None
    BY <1>1, AtRest
  <2> QED BY <1>1, <2>1, <2>2, <2>4, <2>5 DEF ServedInv, NodeId
<1> QED BY <1>5, <1>6, <1>7, <1>9 DEF FlowInv

\* Only nodes that the property leaves out are frozen.
LEMMA FreezeKeeps ==
  ASSUME FlowInv, NEW n \in NodeId, NEW state \in BOOLEAN, setFrozenState(n, state), setup' = setup
  PROVE  FlowInv'
<1>1. /\ Idle /\ n \in setup.freezable /\ frozen' = [frozen EXCEPT ![n] = state]
      /\ nodes' = nodes /\ conns' = conns /\ input' = input /\ number' = number /\ shown' = shown
      /\ calls' = calls
  BY DEF setFrozenState
<1>2. FlowTypes'
  BY <1>1, TypesAre DEF FlowInv, FlowTypes
<1>3. FlowGraphInv'
  BY <1>1, GraphKept DEF FlowInv
<1>4. StackInv'
  <2>1. \A k \in 1 .. Len(calls') : FALSE
    BY <1>1 DEF Idle
  <2> QED BY <2>1 DEF StackInv
<1>5. ServedInv'
  BY <1>1, AtRest, HeldKept DEF ServedInv, NodeId
<1> QED BY <1>2, <1>3, <1>4, <1>5 DEF FlowInv

\* A call is made from the innermost one.
LEMMA PushIs ==
  ASSUME NEW s \in Seq(Frame), NEW f \in Frame
  PROVE  /\ Append(s, f) \in Seq(Frame) /\ Len(Append(s, f)) = Len(s) + 1
         /\ \A k \in 1 .. Len(s) : Append(s, f)[k] = s[k]
         /\ Append(s, f)[Len(s) + 1] = f
OBVIOUS

\* One turn of the loop of deleteNode().
LEMMA DisconnectKeeps ==
  ASSUME FlowInv, NEW c \in ConnectionId, disconnectNext(c), setup' = setup
  PROVE  FlowInv'
<1>1. /\ ~Idle /\ Top.op = "disconnect" /\ c \in Top.todo /\ conns' = conns \ {c}
      /\ calls' = Append(Without(c), Deliver(None, {c}))
      /\ UNCHANGED <<nodes, frozen, input, number, shown, setup>>
  BY DEF disconnectNext
<1>2. calls \in Seq(Frame)
  BY DEF FlowInv, FlowTypes
<1>3. Len(calls) \in Nat /\ Len(calls) >= 1 /\ Len(calls) \in 1 .. Len(calls)
  BY <1>1, <1>2, CallsAre
<1>4. LoopAt(Len(calls)) /\ LoopAt(1)
  BY <1>3 DEF FlowInv, StackInv
<1>5. Len(calls) = 2 /\ calls[1].op = "erase" /\ Top.todo = Touching(calls[1].node)
  BY <1>1, <1>4 DEF LoopAt, Top
<1>6. /\ Without(c) \in Seq(Frame) /\ Len(Without(c)) = 2 /\ Without(c)[1] = calls[1]
      /\ Without(c)[2] = Call(Top.op, Top.node, Top.data, Top.todo \ {c})
  <2>1. 1 \in 1 .. Len(calls) /\ 1 < Len(calls)
    BY <1>5
  <2> QED BY <1>1, <1>2, <1>5, <2>1, WithoutIs
<1>7. Deliver(None, {c}) \in Frame
  BY FramesAre DEF Deliver, Endpoint
<1> DEFINE w == Without(c)
           g == Deliver(None, {c})
<1> HIDE DEF w, g, FlowInv
<1>8. w \in Seq(Frame) /\ Len(w) = 2 /\ g \in Frame /\ calls' = Append(w, g)
  BY <1>1, <1>6, <1>7 DEF w, g
<1>9. /\ calls' \in Seq(Frame) /\ Len(calls') = 2 + 1 /\ calls'[2 + 1] = g
      /\ calls'[1] = w[1] /\ calls'[2] = w[2]
  <2>1. /\ Append(w, g) \in Seq(Frame) /\ Len(Append(w, g)) = Len(w) + 1
        /\ \A k \in 1 .. Len(w) : Append(w, g)[k] = w[k]
        /\ Append(w, g)[Len(w) + 1] = g
    BY <1>8, PushIs
  <2> HIDE DEF Frame
  <2> DEFINE s == Append(w, g)
  <2>2. s \in Seq(Frame) /\ Len(s) = 2 + 1 /\ s[2 + 1] = g
    BY <1>8, <2>1
  <2>3. 1 \in 1 .. Len(w) /\ 2 \in 1 .. Len(w)
    BY <1>8
  <2>4. s[1] = w[1] /\ s[2] = w[2]
    BY <2>1, <2>3
  <2> HIDE DEF s
  <2>5. calls' = s
    BY <1>8 DEF s
  <2> QED BY <2>2, <2>4, <2>5
<1>10. /\ calls'[1] = calls[1] /\ calls'[2].op = "disconnect" /\ calls'[2].todo = Top.todo \ {c}
       /\ calls'[2].op # "erase" /\ calls'[2].op # "offer"
  BY <1>1, <1>6, <1>9, FramesAre DEF w
<1>11. Touching(calls[1].node)' = Touching(calls[1].node) \ {c} /\ c \in conns
  BY <1>1, <1>5, <1>9, <1>10 DEF Touching
<1>12. LoopAt(1)'
  BY <1>4, <1>5, <1>9, <1>10 DEF LoopAt
<1>13. LoopAt(2)'
  BY <1>5, <1>10, <1>11 DEF LoopAt
<1>14. \A k \in 1 .. 2 : k = 1 \/ k = 2
  OBVIOUS
<1>15. \A k \in 1 .. 2 : calls'[k].op \in {"erase", "disconnect"} /\ LoopAt(k)'
  BY <1>5, <1>10, <1>12, <1>13, <1>14
<1>16. \A k \in 1 .. Len(calls) : calls[k].op \in {"erase", "disconnect"}
  BY <1>1, <1>5, <1>14 DEF Top
<1>17. calls'[2 + 1] = Deliver(None, {c}) /\ 2 \in Nat
  BY <1>9 DEF g
<1> QED BY <1>1, <1>9, <1>11, <1>15, <1>16, <1>17, EmptyingAdded

-----------------------------------------------------------------------------
(* What a running call does.                                               *)

\* The end of deleteNode(): no connection of the node is left.
LEMMA EraseKeeps ==
  ASSUME FlowInv, eraseNode, setup' = setup
  PROVE  FlowInv'
<1> DEFINE n == Top.node
<1>1. /\ ~Idle /\ Top.op = "erase" /\ nodes' = nodes \ {n} /\ frozen' = [frozen EXCEPT ![n] = FALSE]
      /\ number' = [number EXCEPT ![n] = None]
      /\ input' = [Expired(Replaced(input, n, None), n) EXCEPT ![n] = [p \in {0, 1} |-> None]]
      /\ shown' = [shown EXCEPT ![n] = None] /\ calls' = Below /\ conns' = conns
  BY DEF eraseNode
<1>2. calls \in Seq(Frame)
  BY DEF FlowInv, FlowTypes
<1>3. Len(calls) \in Nat /\ Len(calls) >= 1 /\ Len(calls) \in 1 .. Len(calls)
  BY <1>1, <1>2, CallsAre
<1>4. LoopAt(Len(calls))
  BY <1>3 DEF FlowInv, StackInv
<1>5. Len(calls) = 1 /\ n \in NodeId /\ Touching(n) = {}
  BY <1>1, <1>4 DEF LoopAt, Top
<1>6. calls' \in Seq(Frame) /\ Len(calls') = 0
  BY <1>1, <1>2, <1>5, CallsAre
<1> HIDE DEF n
<1> DEFINE left == Replaced(input, n, None)
           rest == Expired(left, n)
<1>7. /\ rest \in [NodeId -> [{0, 1} -> Ref]]
      /\ \A k \in NodeId : \A p \in {0, 1} : k # n /\ input[k][p] \in Endpoint /\ input[k][p] # n
           => rest[k][p] = input[k][p]
  <2>1. input \in [NodeId -> [{0, 1} -> Ref]] /\ n # None /\ None \in Ref
    BY <1>5, NodesAreNumbers DEF FlowInv, FlowTypes, Ref, Endpoint
  <2>2. /\ left \in [NodeId -> [{0, 1} -> Ref]]
        /\ \A k \in NodeId : \A p \in {0, 1} :
             (k # n \/ p # 0) /\ input[k][p] \in Endpoint => left[k][p] = input[k][p]
    BY <1>5, <2>1, ReplacedIs
  <2> HIDE DEF left
  <2>3. /\ rest \in [NodeId -> [{0, 1} -> Ref]]
        /\ \A k \in NodeId : \A p \in {0, 1} : left[k][p] # n => rest[k][p] = left[k][p]
    BY <2>1, <2>2, ExpiredIs
  <2> QED BY <2>2, <2>3
<1>22. input' = [rest EXCEPT ![n] = [p \in {0, 1} |-> None]]
  BY <1>1
<1> HIDE DEF rest
<1>8. /\ input' \in [NodeId -> [{0, 1} -> Ref]]
      /\ \A p \in {0, 1} : input'[n][p] = None
      /\ \A k \in NodeId : k # n => input'[k] = rest[k]
  BY <1>5, <1>7, <1>22 DEF Ref, Endpoint
<1>9. \A k \in NodeId : \A p \in {0, 1} : k # n =>
        /\ input[k][p] # n /\ input[k][p] \in Endpoint => input'[k][p] = input[k][p]
        /\ input[k][p] = None => input'[k][p] = None
  <2>1. None \in Endpoint /\ None # n
    BY <1>5, NodesAreNumbers DEF Endpoint
  <2> QED BY <1>7, <1>8, <2>1
<1>10. /\ number' \in [NodeId -> Int \cup {None}] /\ shown' \in [NodeId -> Int \cup {None}]
       /\ shown'[n] = None
       /\ \A k \in NodeId : k # n => number'[k] = number[k] /\ shown'[k] = shown[k]
       /\ frozen' \in [NodeId -> BOOLEAN] /\ \A k \in NodeId \ setup.freezable : ~frozen'[k]
  BY <1>1, <1>5 DEF FlowInv, FlowTypes
<1>11. FlowTypes'
  BY <1>1, <1>6, <1>8, <1>10, TypesAre DEF FlowInv, FlowTypes
<1>12. \A c \in conns : /\ c.outNodeId # n /\ c.inNodeId # n
                        /\ c.outNodeId \in NodeId /\ c.inNodeId \in NodeId
                        /\ c.inPortIndex \in {0, 1}
  BY <1>5, WireIs DEF Touching, FlowInv, FlowTypes
<1>13. FlowGraphInv'
  BY <1>1, <1>12, LessGraph DEF FlowInv, FlowGraphInv, Arrives
<1>14. \A k \in 1 .. Len(calls') : FALSE
  BY <1>6
<1>15. \A k \in 1 .. Len(calls) : calls[k].op = "erase"
  BY <1>1, <1>5 DEF Top
<1>16. \A d, k, p : ~Offered(d) /\ ~Delivered(d) /\ ~Emptied(k, p)
  <2>1. 1 \in 1 .. Len(calls)
    BY <1>3
  <2> QED BY <1>15, <2>1 DEF Offered, Delivered, Emptied
<1>17. ServedInv'
  <2>1. ASSUME NEW c \in conns, c.inNodeId \notin setup.freezable
        PROVE  Holds(c)'
    <3>1. Holds(c)
      BY <1>16, <2>1 DEF FlowInv, ServedInv
    <3>2. portData(c.outNodeId)' = portData(c.outNodeId) /\ portData(c.outNodeId) # n
      <4>1. n # None
        BY <1>5, NodesAreNumbers
      <4> QED BY <1>10, <1>12, <4>1 DEF portData
    <3>3. portData(c.outNodeId) \in Endpoint
      BY <1>12, DataIs DEF FlowInv, Endpoint
    <3> QED BY <1>9, <1>10, <1>12, <3>1, <3>2, <3>3 DEF Holds
  <2>2. \A k : InPorts(k)' = InPorts(k)
    BY DEF InPorts
  <2>3. ASSUME NEW k \in nodes' \ setup.freezable, NEW p \in InPorts(k),
               \A c \in conns : ~(c.inNodeId = k /\ c.inPortIndex = p)
        PROVE  HoldsNothing(k, p)'
    <3>1. HoldsNothing(k, p) /\ k \in NodeId /\ k # n
      BY <1>1, <1>16, <2>3 DEF FlowInv, ServedInv, FlowTypes
    <3>2. p \in {0, 1}
      BY <3>1, InPortsAre DEF FlowInv, FlowTypes
    <3> QED BY <1>9, <1>10, <3>1, <3>2 DEF HoldsNothing
  <2>4. \A k \in NodeId \ nodes' : shown'[k] = None /\ \A p \in {0, 1} : input'[k][p] = None
    <3>1. ASSUME NEW k \in NodeId \ nodes', k # n
          PROVE  shown'[k] = None /\ \A p \in {0, 1} : input'[k][p] = None
      BY <1>1, <1>9, <1>10, <3>1 DEF FlowInv, ServedInv
    <3> QED BY <1>8, <1>10, <3>1
  <2> QED BY <1>1, <2>1, <2>2, <2>3, <2>4 DEF ServedInv, NodeId
<1> QED BY <1>11, <1>13, <1>14, <1>17 DEF FlowInv, StackInv

\* A loop that has gone through all of its connections.
LEMMA ReturnKeeps ==
  ASSUME FlowInv, return, setup' = setup
  PROVE  FlowInv'
<1>1. /\ ~Idle /\ Top.op # "erase" /\ Top.todo = {} /\ calls' = Below /\ conns' = conns
      /\ nodes' = nodes /\ UNCHANGED <<nodes, conns, frozen, input, number, shown, setup>>
  BY DEF return
<1>2. calls \in Seq(Frame)
  BY DEF FlowInv, FlowTypes
<1> DEFINE m == Len(calls)
<1>3. m \in Nat /\ m >= 1 /\ calls' \in Seq(Frame) /\ Len(calls') = m - 1
      /\ \A k \in 1 .. m - 1 : calls'[k] = calls[k]
  BY <1>1, <1>2, CallsAre
<1>4. Top = calls[m]
  BY DEF Top
<1> HIDE DEF m
<1>5. FlowTypes' /\ FlowGraphInv'
  BY <1>1, <1>3, TypesKept, GraphKept DEF FlowInv, FlowTypes
<1>6. \A k \in 1 .. m : LoopAt(k) /\ AnnouncementAt(k) /\ DeliveryAt(k)
  BY DEF FlowInv, StackInv, m
<1>7. \A k \in 1 .. m - 1 : k \in 1 .. m /\ k # m
  BY <1>3
<1>8. \A d : Offered(d) => Offered(d)'
  <2>1. ASSUME NEW d, Offered(d) PROVE Offered(d)'
    <3>1. calls[1].op = "offer" /\ d \in calls[1].todo
      BY <2>1 DEF Offered
    <3>2. m # 1
      BY <1>1, <1>4, <3>1
    <3>3. 1 \in 1 .. m - 1 /\ calls' # << >>
      BY <1>3, <3>2
    <3> QED BY <1>3, <3>1, <3>3 DEF Offered
  <2> QED BY <2>1
<1>9. \A k \in 1 .. m : \A d \in calls[k].todo : k # m
  BY <1>1, <1>4
<1>10. \A k \in 1 .. m - 1 : \A d \in calls[k].todo : Current(k, d) => Current(k, d)'
  BY <1>1, <1>3, <1>7, HeldKept DEF Current, m
<1>11. StackInv'
  <2>0. \A n : Touching(n)' = Touching(n)
    BY <1>1 DEF Touching
  <2>1. ASSUME NEW k \in 1 .. m - 1
        PROVE  LoopAt(k)'
    <3>1. LoopAt(k) /\ calls'[k] = calls[k]
      BY <1>3, <1>6, <1>7
    <3>2. calls[k].op = "disconnect" => k = 2 /\ calls'[1] = calls[1]
      <4>1. k = 2 => 1 \in 1 .. m - 1
        BY <1>3
      <4> QED BY <1>3, <3>1, <4>1 DEF LoopAt
    <3>3. CASE calls[k].op = "erase"
      <4>1. k = 1 /\ m > 1 /\ 2 \in 1 .. m /\ calls[2].op = "disconnect"
        BY <1>3, <3>1, <3>3 DEF LoopAt, m
      <4>2. Len(calls') = 1 => Touching(calls[k].node)' = {}
        <5>1. m = 2 => Top.todo = Touching(calls[1].node)
          BY <1>4, <1>6, <4>1 DEF LoopAt
        <5>2. Len(calls') = 1 => m = 2
          <6>1. m \in Nat /\ Len(calls') = m - 1
            BY <1>3
          <6>2. \A l : l = m - 1 /\ l = 1 => m = 2
            BY <6>1
          <6> QED BY <6>1, <6>2
        <5>3. calls'[k].node = calls[1].node
          BY <3>1, <4>1
        <5> QED BY <1>1, <2>0, <5>1, <5>2, <5>3
      <4>3. Len(calls') > 1 => calls'[2] = calls[2]
        BY <1>3
      <4> QED BY <3>1, <3>3, <4>1, <4>2, <4>3 DEF LoopAt
    <3>4. CASE calls[k].op # "erase"
      <4> QED BY <1>1, <2>0, <3>1, <3>2, <3>4 DEF LoopAt
    <3> QED BY <3>3, <3>4
  <2>2. ASSUME NEW k \in 1 .. m - 1
        PROVE  AnnouncementAt(k)'
    <3>1. AnnouncementAt(k) /\ calls'[k] = calls[k]
      BY <1>3, <1>6, <1>7
    <3>2. \A j \in k + 1 .. m - 1 : calls'[j] = calls[j] /\ j \in k + 1 .. m
      BY <1>3
    <3>3. \A a, b : LeadsOn(a, b) => LeadsOn(a, b)'
      BY <1>1 DEF LeadsOn, Flows
    <3> QED BY <1>1, <1>3, <3>1, <3>2, <3>3, HeldKept DEF AnnouncementAt, Announces, m
  <2>3. ASSUME NEW k \in 1 .. m - 1
        PROVE  DeliveryAt(k)'
    <3>1. DeliveryAt(k) /\ calls'[k] = calls[k]
      BY <1>3, <1>6, <1>7
    <3>2. \A d : Emptying(k, d) => Emptying(k, d)'
      BY <1>1, <1>8, <3>1 DEF Emptying, Arrives, InPorts, SamePort
    <3> QED BY <1>10, <3>1, <3>2 DEF DeliveryAt
  <2> QED BY <1>3, <2>1, <2>2, <2>3 DEF StackInv
<1>12. ServedInv'
  <2>1. \A d : Delivered(d) => Delivered(d)'
    <3>1. ASSUME NEW d, Delivered(d) PROVE Delivered(d)'
      <4>1. PICK k \in 1 .. m : calls[k].op = "deliver" /\ d \in calls[k].todo /\ Current(k, d)
        BY <3>1 DEF Delivered, m
      <4>2. k \in 1 .. m - 1
        BY <1>3, <1>9, <4>1
      <4> QED BY <1>3, <1>10, <4>1, <4>2 DEF Delivered
    <3> QED BY <3>1
  <2>2. \A n, p : Emptied(n, p) => Emptied(n, p)'
    <3>1. ASSUME NEW n, NEW p, Emptied(n, p) PROVE Emptied(n, p)'
      <4>1. PICK k \in 1 .. m : /\ calls[k].op = "deliver" /\ calls[k].node = None /\ calls[k].data = None
                               /\ \E c \in calls[k].todo : c.inNodeId = n /\ c.inPortIndex = p
        BY <3>1 DEF Emptied, m
      <4>2. k \in 1 .. m - 1
        BY <1>3, <1>9, <4>1
      <4> QED BY <1>3, <4>1, <4>2 DEF Emptied
    <3> QED BY <3>1
  <2> QED BY <1>1, <1>8, <2>1, <2>2, HeldKept DEF FlowInv, ServedInv, NodeId
<1> QED BY <1>5, <1>11, <1>12 DEF FlowInv

\* The new connection's data is looked up and handed over.
LEMMA OfferDataKeeps ==
  ASSUME FlowInv, NEW c \in ConnectionId, offerData(c), setup' = setup
  PROVE  FlowInv'
<1> DEFINE w == Without(c)
           g == Deliver(portData(c.outNodeId), {c})
<1>1. /\ ~Idle /\ Top.op = "offer" /\ c \in Top.todo /\ calls' = Append(w, g) /\ conns' = conns
      /\ nodes' = nodes /\ UNCHANGED <<nodes, conns, frozen, input, number, shown, setup>>
  BY DEF offerData
<1>2. calls \in Seq(Frame)
  BY DEF FlowInv, FlowTypes
<1>3. Len(calls) \in Nat /\ Len(calls) >= 1 /\ Len(calls) \in 1 .. Len(calls)
  BY <1>1, <1>2, CallsAre
<1>4. LoopAt(Len(calls))
  BY <1>3 DEF FlowInv, StackInv
<1>5. Len(calls) = 1 /\ calls[1].op = "offer" /\ c \in calls[1].todo /\ calls[1].todo \subseteq conns
  BY <1>1, <1>4 DEF LoopAt, Top
<1>6. /\ w \in Seq(Frame) /\ Len(w) = 1 /\ w[1].op = "offer" /\ w[1].todo = calls[1].todo \ {c}
  <2>1. /\ Without(c) \in Seq(Frame) /\ Len(Without(c)) = Len(calls)
        /\ Without(c)[Len(calls)] = Call(Top.op, Top.node, Top.data, Top.todo \ {c})
    BY <1>1, <1>2, WithoutIs
  <2>2. Top = calls[1]
    BY <1>5 DEF Top
  <2> QED BY <1>1, <1>5, <2>1, <2>2, FramesAre
<1>7. /\ g \in Frame /\ g.op = "deliver" /\ g.node = None /\ g.data = portData(c.outNodeId) /\ g.todo = {c}
  <2>1. portData(c.outNodeId) \in Endpoint
    BY WireIs, DataIs DEF FlowInv, Endpoint
  <2> QED BY <2>1, FramesAre DEF Deliver, Endpoint
<1> HIDE DEF w, g
<1>8. /\ calls' \in Seq(Frame) /\ Len(calls') = 2 /\ calls'[1] = w[1] /\ calls'[2] = g /\ calls' # << >>
      /\ \A k \in 1 .. 2 : k = 1 \/ k = 2
  <2>1. /\ Append(w, g) \in Seq(Frame) /\ Len(Append(w, g)) = Len(w) + 1
        /\ \A k \in 1 .. Len(w) : Append(w, g)[k] = w[k]
        /\ Append(w, g)[Len(w) + 1] = g
    BY <1>6, <1>7, PushIs
  <2> DEFINE s == Append(w, g)
  <2>2. s \in Seq(Frame) /\ Len(s) = 2 /\ s[2] = g
    BY <1>6, <2>1
  <2>3. 1 \in 1 .. Len(w)
    BY <1>6
  <2>4. s[1] = w[1] /\ \A k \in 1 .. 2 : k = 1 \/ k = 2
    BY <2>1, <2>3
  <2> HIDE DEF s
  <2>5. calls' = s /\ s # << >>
    BY <1>1, <2>2 DEF s
  <2> QED BY <2>2, <2>4, <2>5
<1>9. FlowTypes' /\ FlowGraphInv'
  BY <1>1, <1>8, TypesKept, GraphKept DEF FlowInv, FlowTypes
<1>10. Current(2, c)'
  BY <1>1, <1>5, <1>7, <1>8, HeldKept DEF Current
<1>11. StackInv'
  <2>1. LoopAt(1)' /\ AnnouncementAt(1)' /\ DeliveryAt(1)'
    BY <1>1, <1>5, <1>6, <1>8 DEF LoopAt, AnnouncementAt, DeliveryAt, Announces
  <2>2. LoopAt(2)' /\ AnnouncementAt(2)' /\ DeliveryAt(2)'
    BY <1>7, <1>8, <1>10 DEF LoopAt, AnnouncementAt, DeliveryAt, Announces
  <2> QED BY <1>8, <2>1, <2>2 DEF StackInv
<1>12. ServedInv'
  <2>1. \A d : Offered(d) => d = c \/ Offered(d)'
    BY <1>6, <1>8 DEF Offered
  <2>2. Delivered(c)'
    BY <1>7, <1>8, <1>10 DEF Delivered
  <2>3. \A d, n, p : ~Delivered(d) /\ ~Emptied(n, p)
    BY <1>5 DEF Delivered, Emptied
  <2> QED BY <1>1, <2>1, <2>2, <2>3, HeldKept DEF FlowInv, ServedInv, NodeId
<1> QED BY <1>9, <1>11, <1>12 DEF FlowInv

(* setInData: the innermost loop goes on, and a sum makes a call of its own. *)

\* The calls afterwards: c is off the list of the innermost one, and there may be
\* one more, by which n announces what it now has.
Announcement(f, n) ==
  f.op = "deliver" /\ f.node = n /\ f.data = portData(n)' /\ f.todo = connectionsFrom(n)'
GoesOn(c, m) ==
  /\ calls' \in Seq(Frame) /\ Len(calls) \in Nat /\ Len(calls) >= 1 /\ calls' # << >>
  /\ \A k \in 1 .. Len(calls) : k < Len(calls) => calls'[k] = calls[k]
  /\ calls'[Len(calls)].op = Top.op /\ calls'[Len(calls)].node = Top.node
  /\ calls'[Len(calls)].data = Top.data /\ calls'[Len(calls)].todo = Top.todo \ {c}
  /\ m = Len(calls) \/ (m = Len(calls) + 1 /\ Announcement(calls'[m], c.inNodeId))
  /\ Len(calls') = m

\* What becomes of the inputs, results and displays.
OthersKept(c) ==
  /\ \A k \in NodeId, q \in {0, 1} : (k # c.inNodeId \/ q # c.inPortIndex) =>
       /\ input[k][q] \in Endpoint /\ input[k][q] # c.inNodeId => input'[k][q] = input[k][q]
       /\ input[k][q] = None => input'[k][q] = None
  /\ \A k \in NodeId : k # c.inNodeId => number'[k] = number[k] /\ shown'[k] = shown[k]
Taken(c) ==
  c.inNodeId \notin setup.freezable =>
    /\ setup.kind[c.inNodeId] = "sum" /\ Top.data # c.inNodeId
         => input'[c.inNodeId][c.inPortIndex] = Top.data
    /\ setup.kind[c.inNodeId] = "display" => shown'[c.inNodeId] = Read(Top.data)

\* No result is a new one: what refers to nodes stays.
NodesKept(c) ==
  \A k \in NodeId, q \in {0, 1} : (k # c.inNodeId \/ q # c.inPortIndex) /\ input[k][q] \in Endpoint
    => input'[k][q] = input[k][q]

Served(c, m) ==
  /\ ~Idle /\ Top.op = "deliver" /\ c \in Top.todo
  /\ nodes' = nodes /\ conns' = conns /\ setup' = setup
  /\ GoesOn(c, m) /\ OthersKept(c) /\ Taken(c)
  /\ m = Len(calls) => number' = number /\ NodesKept(c)

\* A frozen delegate takes nothing, and neither number nor input changes.
LEMMA QuietServes ==
  ASSUME calls \in Seq(Frame), ~Idle, NEW c, calls' = Without(c)
  PROVE  GoesOn(c, Len(calls))
<1>1. /\ Without(c) \in Seq(Frame) /\ Len(Without(c)) = Len(calls)
      /\ \A k \in 1 .. Len(calls) : k < Len(calls) => Without(c)[k] = calls[k]
      /\ Without(c)[Len(calls)] = Call(Top.op, Top.node, Top.data, Top.todo \ {c})
  BY WithoutIs
<1>2. Len(calls) \in Nat /\ Len(calls) >= 1
  BY CallsAre
<1>3. calls' # << >>
  <2>1. Len(calls') # 0
    BY <1>1, <1>2
  <2> QED BY <2>1
<1>4. \A f : f = Call(Top.op, Top.node, Top.data, Top.todo \ {c}) =>
        f.op = Top.op /\ f.node = Top.node /\ f.data = Top.data /\ f.todo = Top.todo \ {c}
  BY FramesAre
<1> QED BY <1>1, <1>2, <1>3, <1>4 DEF GoesOn

\* A sum announces its result before the call returns.
LEMMA LoudServes ==
  ASSUME calls \in Seq(Frame), ~Idle, NEW c, NEW f \in Frame, Announcement(f, c.inNodeId),
         calls' = Append(Without(c), f)
  PROVE  GoesOn(c, Len(calls) + 1)
<1> DEFINE w == Without(c)
           l == Len(calls)
<1>1. /\ w \in Seq(Frame) /\ Len(w) = l
      /\ \A k \in 1 .. l : k < l => w[k] = calls[k]
      /\ w[l] = Call(Top.op, Top.node, Top.data, Top.todo \ {c})
  BY WithoutIs
<1>2. l \in Nat /\ l >= 1
  BY CallsAre
<1> HIDE DEF w, l
<1>3. /\ Append(w, f) \in Seq(Frame) /\ Len(Append(w, f)) = Len(w) + 1
      /\ \A k \in 1 .. Len(w) : Append(w, f)[k] = w[k]
      /\ Append(w, f)[Len(w) + 1] = f
  BY <1>1, PushIs
<1>4. calls' = Append(w, f)
  BY DEF w
<1>5. calls' \in Seq(Frame) /\ Len(calls') = l + 1 /\ calls'[l + 1] = f
      /\ \A k \in 1 .. l : calls'[k] = w[k]
  BY <1>1, <1>3, <1>4
<1>6. calls' # << >>
  <2>1. Len(calls') # 0
    BY <1>2, <1>5
  <2> QED BY <2>1
<1>7. l \in 1 .. l
  BY <1>2
<1>8. calls'[l] = Call(Top.op, Top.node, Top.data, Top.todo \ {c})
  BY <1>1, <1>5, <1>7
<1>9. /\ calls'[l].op = Top.op /\ calls'[l].node = Top.node /\ calls'[l].data = Top.data
      /\ calls'[l].todo = Top.todo \ {c}
  BY <1>8, FramesAre
<1>10. \A k \in 1 .. l : k < l => calls'[k] = calls[k]
  BY <1>1, <1>5
<1>11. Announcement(calls'[l + 1], c.inNodeId)
  BY <1>5
<1> QED BY <1>2, <1>5, <1>6, <1>9, <1>10, <1>11 DEF GoesOn, l

\* What is known of the connection that is served.
LEMMA ServedWire ==
  ASSUME FlowInv, NEW c, ~Idle, Top.op = "deliver", c \in Top.todo
  PROVE  /\ Len(calls) \in Nat /\ Len(calls) >= 1 /\ Len(calls) \in 1 .. Len(calls)
         /\ c \in ConnectionId /\ c.inPortIndex \in {0, 1}
         /\ c.inNodeId \in NodeId /\ c.outNodeId \in NodeId
         /\ Arrives(c) /\ Top.data \in Endpoint
         /\ Current(Len(calls), c) \/ Emptying(Len(calls), c)
<1>1. calls \in Seq(Frame)
  BY DEF FlowInv, FlowTypes
<1>2. Len(calls) \in Nat /\ Len(calls) >= 1 /\ Len(calls) \in 1 .. Len(calls) /\ Top \in Frame
  BY <1>1, CallsAre
<1>3. Top.todo \subseteq ConnectionId /\ Top.data \in Endpoint
  BY <1>2 DEF Frame
<1>4. Current(Len(calls), c) \/ Emptying(Len(calls), c)
  BY <1>2 DEF FlowInv, StackInv, DeliveryAt, Top
<1>5. Arrives(c)
  BY <1>4 DEF Current, Emptying, FlowInv, FlowGraphInv
<1> QED BY <1>2, <1>3, <1>4, <1>5, WireIs

\* No node on the stack is handed data while it announces its own.
LEMMA NobodyWaits ==
  ASSUME FlowInv, NEW c, ~Idle, Top.op = "deliver", c \in Top.todo,
         NEW k \in 1 .. Len(calls), Announces(calls[k])
  PROVE  LeadsOn(calls[k].node, c.inNodeId) /\ calls[k].node # c.inNodeId
<1> DEFINE l == Len(calls)
<1>1. l \in Nat /\ l >= 1 /\ l \in 1 .. l
  BY ServedWire
<1>2. Announces(calls[l]) /\ (k = l \/ LeadsOn(calls[k].node, calls[l].node))
  <2>1. k = l \/ l \in k + 1 .. Len(calls)
    BY <1>1
  <2> QED BY <2>1 DEF FlowInv, StackInv, AnnouncementAt
<1>3. c \in conns /\ c.outNodeId = calls[l].node
  BY <1>1, <1>2 DEF FlowInv, StackInv, AnnouncementAt, Top
<1> HIDE DEF l
<1>4. LeadsOn(calls[k].node, c.inNodeId)
  <2>1. CASE k = l
    BY <1>3, <2>1, FirstLeadsOn
  <2>2. CASE LeadsOn(calls[k].node, calls[l].node)
    BY <1>3, <2>2, LeadsOnward
  <2> QED BY <1>2, <2>1, <2>2
<1> QED BY <1>4, NoWayBack DEF FlowInv

\* What a step that serves c leaves of the data that is under way.
LEMMA UnderWay ==
  ASSUME FlowInv, NEW c, NEW m, Served(c, m)
  PROVE  /\ \A d : Offered(d)' <=> Offered(d)
         /\ \A k \in 1 .. Len(calls) : Announces(calls[k]) =>
              portData(calls[k].node)' = portData(calls[k].node)
         /\ \A k \in 1 .. Len(calls) : calls[k].op = "deliver" => \A d \in calls'[k].todo :
              /\ d \in calls[k].todo
              /\ Current(k, d) => Current(k, d)' /\ calls[k].node = d.outNodeId
              /\ Emptying(k, d) => Emptying(k, d)'
<1> DEFINE l == Len(calls)
<1>1. /\ l \in Nat /\ l >= 1 /\ Top = calls[l] /\ ~Idle /\ Top.op = "deliver" /\ c \in Top.todo
      /\ \A k \in 1 .. l : k < l => calls'[k] = calls[k]
      /\ calls'[l].op = Top.op /\ calls'[l].node = Top.node
      /\ calls'[l].data = Top.data /\ calls'[l].todo = Top.todo \ {c}
      /\ m = l \/ m = l + 1
      /\ Len(calls') = m /\ calls' # << >> /\ calls # << >>
  BY DEF Served, GoesOn, Top, Idle
<1>2. nodes' = nodes /\ conns' = conns /\ setup' = setup
  BY DEF Served
<1> HIDE DEF l
<1>3. \A k \in 1 .. l : calls'[k].op = calls[k].op /\ calls'[k].node = calls[k].node
                        /\ calls'[k].data = calls[k].data
  <2>1. \A k \in 1 .. l : k < l \/ k = l
    BY <1>1
  <2> QED BY <1>1, <2>1
<1>4. \A d : Offered(d)' <=> Offered(d)
  <2>1. 1 \in 1 .. l /\ (1 < l \/ l = 1)
    BY <1>1
  <2>2. CASE 1 < l
    <3>1. calls'[1] = calls[1]
      BY <1>1, <2>1, <2>2
    <3> QED BY <1>1, <3>1 DEF Offered
  <2>3. CASE l = 1
    <3>1. calls[1].op = "deliver" /\ calls'[1].op = "deliver"
      BY <1>1, <2>3
    <3> QED BY <3>1 DEF Offered
  <2> QED BY <2>1, <2>2, <2>3
<1>5. ASSUME NEW k \in 1 .. l, Announces(calls[k])
      PROVE  portData(calls[k].node)' = portData(calls[k].node)
  <2>1. calls[k].node # c.inNodeId
    BY <1>1, <1>5, NobodyWaits DEF l
  <2>2. calls[k].node \in NodeId
    <3>1. calls[k] \in Frame
      BY <1>5 DEF FlowInv, FlowTypes, l
    <3>2. calls[k].node \in Endpoint
      BY <3>1 DEF Frame
    <3> QED BY <1>5, <3>2 DEF Endpoint, Announces
  <2>3. \A x \in NodeId : x # c.inNodeId => number'[x] = number[x]
    BY DEF Served, OthersKept
  <2>4. \A x \in NodeId : x # c.inNodeId => portData(x)' = portData(x)
    BY <2>3 DEF portData
  <2>5. calls'[k].node = calls[k].node
    BY <1>3, <1>5
  <2> QED BY <2>1, <2>2, <2>4, <2>5
<1>6. ASSUME NEW k \in 1 .. l, calls[k].op = "deliver", NEW d \in calls'[k].todo
      PROVE  /\ d \in calls[k].todo
             /\ Current(k, d) => Current(k, d)' /\ calls[k].node = d.outNodeId
             /\ Emptying(k, d) => Emptying(k, d)'
  <2>1. d \in calls[k].todo /\ (k = l => d # c)
    <3>1. k < l \/ k = l
      BY <1>1, <1>6
    <3> QED BY <1>1, <1>6, <3>1
  <2>2. ASSUME Current(k, d)
        PROVE  calls[k].node = d.outNodeId
    <3>1. k = l /\ calls[k].todo = {d} => d = c
      BY <1>1
    <3> QED BY <2>1, <2>2, <3>1 DEF Current, l
  <2>3. ASSUME Current(k, d)
        PROVE  Current(k, d)'
    <3>1. calls[k].node = d.outNodeId /\ d \in conns /\ calls[k].data = portData(d.outNodeId)
      BY <2>2, <2>3 DEF Current
    <3>2. d.outNodeId # None /\ d.outNodeId \in NodeId
      BY <3>1, WireIs, NodesAreNumbers DEF FlowInv, FlowTypes
    <3>3. portData(d.outNodeId)' = portData(d.outNodeId)
      <4>1. d.outNodeId # c.inNodeId
        BY <1>1, <1>6, <3>1, <3>2, NobodyWaits DEF Announces, l
      <4>2. \A x \in NodeId : x # c.inNodeId => number'[x] = number[x]
        BY DEF Served, OthersKept
      <4> QED BY <3>2, <4>1, <4>2 DEF portData
    <3> QED BY <1>2, <1>3, <1>6, <3>1, <3>3 DEF Current
  <2>4. Emptying(k, d) => Emptying(k, d)'
    BY <1>2, <1>3, <1>4, <1>6 DEF Emptying, Arrives, InPorts, SamePort
  <2> QED BY <2>1, <2>2, <2>3, <2>4
<1> QED BY <1>4, <1>5, <1>6 DEF l

\* The stack after a connection was served.
LEMMA ServedStack ==
  ASSUME FlowInv, NEW c, NEW m, Served(c, m)
  PROVE  StackInv'
<1> DEFINE l == Len(calls)
<1>1. /\ l \in Nat /\ l >= 1 /\ Top = calls[l] /\ ~Idle /\ Top.op = "deliver" /\ c \in Top.todo
      /\ \A k \in 1 .. l : k < l => calls'[k] = calls[k]
      /\ calls'[l].op = Top.op /\ calls'[l].node = Top.node
      /\ calls'[l].data = Top.data /\ calls'[l].todo = Top.todo \ {c}
      /\ m = l \/ (m = l + 1 /\ Announcement(calls'[m], c.inNodeId))
      /\ Len(calls') = m
  BY DEF Served, GoesOn, Top
<1>2. nodes' = nodes /\ conns' = conns /\ setup' = setup
  BY DEF Served
<1>3. \A k \in 1 .. l : LoopAt(k) /\ AnnouncementAt(k) /\ DeliveryAt(k)
  BY DEF FlowInv, StackInv
<1>4. /\ \A k \in 1 .. l : Announces(calls[k]) => portData(calls[k].node)' = portData(calls[k].node)
      /\ \A k \in 1 .. l : calls[k].op = "deliver" => \A d \in calls'[k].todo :
           /\ d \in calls[k].todo
           /\ Current(k, d) => Current(k, d)'
           /\ Emptying(k, d) => Emptying(k, d)'
  BY UnderWay
<1>5. c.inNodeId \in NodeId /\ c.inNodeId # None
  BY <1>1, ServedWire, NodesAreNumbers
<1>6. \A k \in 1 .. l : Announces(calls[k]) => LeadsOn(calls[k].node, c.inNodeId)
  BY <1>1, NobodyWaits
<1> HIDE DEF l
<1>7. \A k \in 1 .. l : /\ calls'[k].op = calls[k].op /\ calls'[k].node = calls[k].node
                        /\ calls'[k].data = calls[k].data
  <2>1. \A k \in 1 .. l : k < l \/ k = l
    BY <1>1
  <2> QED BY <1>1, <2>1
<1>8. /\ \A n : Touching(n)' = Touching(n)
      /\ \A a, b : LeadsOn(a, b)' <=> LeadsOn(a, b)
  BY <1>2 DEF Touching, LeadsOn, Flows
<1>9. ASSUME NEW k \in 1 .. l
      PROVE  LoopAt(k)'
  <2>1. CASE k = l
    BY <1>1, <2>1 DEF LoopAt
  <2>2. CASE k < l
    <3>1. calls'[k] = calls[k] /\ LoopAt(k)
      BY <1>1, <1>3, <1>9, <2>2
    <3>2. CASE calls[k].op = "erase"
      <4>1. k = 1 /\ calls[k].todo = {} /\ calls[k].node \in NodeId /\ calls[2].op = "disconnect"
        BY <1>1, <2>2, <3>1, <3>2 DEF LoopAt, l
      <4>2. calls'[2].op = calls[2].op
        <5>1. 2 \in 1 .. l
          BY <1>1, <2>2, <4>1
        <5> QED BY <1>7, <5>1
      <4>3. Len(calls') # 1
        BY <1>1, <2>2, <4>1
      <4> QED BY <3>1, <3>2, <4>1, <4>2, <4>3 DEF LoopAt, NodeId
    <3>3. CASE calls[k].op = "disconnect"
      <4>1. k = 2 /\ calls[1].op = "erase" /\ calls[k].todo = Touching(calls[1].node)
        BY <3>1, <3>3 DEF LoopAt
      <4>2. calls'[1] = calls[1]
        <5>1. 1 \in 1 .. l /\ 1 < l
          BY <1>1, <2>2, <4>1
        <5> QED BY <1>1, <5>1
      <4> QED BY <1>8, <3>1, <3>3, <4>1, <4>2 DEF LoopAt
    <3>4. CASE calls[k].op \notin {"erase", "disconnect"}
      BY <1>2, <3>1, <3>4 DEF LoopAt
    <3> QED BY <3>2, <3>3, <3>4
  <2>3. k < l \/ k = l
    BY <1>1, <1>9
  <2> QED BY <2>1, <2>2, <2>3
<1>10. ASSUME m = l + 1
       PROVE  Announces(calls'[m]) /\ calls'[m].node = c.inNodeId /\ calls'[m].op = "deliver"
  BY <1>1, <1>5, <1>10 DEF Announcement, Announces
<1>11. ASSUME NEW k \in 1 .. l
       PROVE  AnnouncementAt(k)'
  <2>1. SUFFICES ASSUME Announces(calls[k])
                 PROVE  AnnouncementAt(k)'
    BY <1>7, <1>11 DEF AnnouncementAt, Announces
  <2>2. AnnouncementAt(k) /\ calls[k].op = "deliver"
    BY <1>3, <1>11, <2>1 DEF Announces
  <2>3. calls'[k].data = portData(calls[k].node)' /\ calls'[k].node = calls[k].node
    BY <1>4, <1>7, <1>11, <2>1, <2>2 DEF AnnouncementAt
  <2>4. \A d \in calls'[k].todo : d \in conns' /\ d.outNodeId = calls'[k].node
    BY <1>2, <1>4, <1>7, <1>11, <2>1, <2>2 DEF AnnouncementAt
  <2>5. ASSUME NEW j \in k + 1 .. Len(calls')
        PROVE  Announces(calls'[j]) /\ LeadsOn(calls[k].node, calls'[j].node)
    <3>1. j \in k + 1 .. l \/ (j = m /\ m = l + 1)
      <4>1. k \in 1 .. l /\ j \in k + 1 .. m /\ (m = l \/ m = l + 1)
        BY <1>1, <1>11, <2>5
      <4> QED BY <1>1, <4>1
    <3>2. CASE j \in k + 1 .. l
      <4>1. j \in 1 .. l
        BY <1>1, <1>11, <3>2
      <4>2. Announces(calls[j]) /\ LeadsOn(calls[k].node, calls[j].node)
        BY <2>1, <2>2, <3>2 DEF AnnouncementAt, l
      <4> QED BY <1>7, <4>1, <4>2 DEF Announces
    <3>3. CASE j = m /\ m = l + 1
      BY <1>6, <1>10, <1>11, <2>1, <3>3
    <3> QED BY <3>1, <3>2, <3>3
  <2> QED BY <1>8, <2>3, <2>4, <2>5 DEF AnnouncementAt
<1>12. ASSUME NEW k \in 1 .. l
       PROVE  DeliveryAt(k)'
  BY <1>3, <1>4, <1>7, <1>12 DEF DeliveryAt
<1>13. ASSUME m = l + 1
       PROVE  LoopAt(m)' /\ AnnouncementAt(m)' /\ DeliveryAt(m)'
  <2>1. /\ calls'[m].op = "deliver" /\ calls'[m].node = c.inNodeId
        /\ calls'[m].data = portData(c.inNodeId)'
        /\ \A d \in calls'[m].todo : d \in conns' /\ d.outNodeId = c.inNodeId
    BY <1>1, <1>5, <1>13 DEF Announcement, connectionsFrom
  <2>2. LoopAt(m)'
    BY <2>1 DEF LoopAt
  <2>3. \A j \in m + 1 .. Len(calls') : FALSE
    BY <1>1, <1>13
  <2>4. AnnouncementAt(m)'
    BY <2>1, <2>3 DEF AnnouncementAt
  <2>5. \A d \in calls'[m].todo : Current(m, d)'
    BY <2>1 DEF Current
  <2> QED BY <2>2, <2>4, <2>5 DEF DeliveryAt
<1>14. \A k \in 1 .. Len(calls') : k \in 1 .. l \/ (k = m /\ m = l + 1)
  BY <1>1
<1> QED BY <1>9, <1>11, <1>12, <1>13, <1>14 DEF StackInv

\* The in ports after a connection was served.
LEMMA ServedPorts ==
  ASSUME FlowInv, NEW c, NEW m, Served(c, m)
  PROVE  ServedInv'
<1> DEFINE l == Len(calls)
           n == c.inNodeId
           p == c.inPortIndex
<1>1. /\ l \in Nat /\ l >= 1 /\ Top = calls[l] /\ ~Idle /\ Top.op = "deliver" /\ c \in Top.todo
      /\ \A k \in 1 .. l : k < l => calls'[k] = calls[k]
      /\ calls'[l].op = Top.op /\ calls'[l].node = Top.node
      /\ calls'[l].data = Top.data /\ calls'[l].todo = Top.todo \ {c}
      /\ m = l \/ (m = l + 1 /\ Announcement(calls'[m], n))
      /\ Len(calls') = m
  BY DEF Served, GoesOn, Top
<1>2. /\ nodes' = nodes /\ conns' = conns /\ setup' = setup /\ OthersKept(c) /\ Taken(c)
      /\ m = l => number' = number /\ NodesKept(c)
  BY DEF Served
<1>3. /\ l \in 1 .. l /\ c \in ConnectionId /\ n \in NodeId /\ c.outNodeId \in NodeId /\ p \in {0, 1}
      /\ Arrives(c) /\ Top.data \in Endpoint
      /\ Current(l, c) \/ Emptying(l, c)
  BY <1>1, ServedWire
<1>4. /\ \A d : Offered(d)' <=> Offered(d)
      /\ \A k \in 1 .. l : calls[k].op = "deliver" => \A d \in calls'[k].todo :
              Current(k, d) => Current(k, d)'
  BY UnderWay
<1>5. n # None
  BY <1>3, NodesAreNumbers
<1> HIDE DEF l
<1>6. \A k \in 1 .. l : /\ calls'[k].op = calls[k].op /\ calls'[k].node = calls[k].node
                        /\ calls'[k].data = calls[k].data
                        /\ \A d \in calls[k].todo : d = c \/ d \in calls'[k].todo
                        /\ k \in 1 .. Len(calls')
  <2>1. \A k \in 1 .. l : (k < l \/ k = l) /\ k \in 1 .. Len(calls')
    BY <1>1
  <2> QED BY <1>1, <2>1
<1>7. \A d \in conns : /\ d \in ConnectionId /\ d.inNodeId \in NodeId /\ d.outNodeId \in NodeId
                       /\ d.inPortIndex \in {0, 1} /\ d.inNodeId # d.outNodeId /\ Arrives(d)
  <2>1. \A d \in conns : ~Flows(conns, d.inNodeId, d.outNodeId) /\ Arrives(d)
    BY DEF FlowInv, FlowGraphInv
  <2>2. \A a : Flows(conns, a, a)
    BY DEF Flows
  <2> QED BY <2>1, <2>2, WireIs DEF FlowInv, FlowTypes
<1>8. \A x \in NodeId : x # n =>
        portData(x)' = portData(x) /\ number'[x] = number[x] /\ shown'[x] = shown[x]
  BY <1>2 DEF OthersKept, portData
<1>9. \A x \in NodeId : x # n => portData(x) # n
  BY <1>5 DEF portData
\* Two connections at one in port: the one that is served, or one that is offered.
<1>10. ASSUME NEW d \in conns, d.inNodeId = n, d.inPortIndex = p
       PROVE  (d = c /\ Current(l, c)) \/ Offered(d)'
  <2>1. CASE Current(l, c)
    BY <1>10, <2>1 DEF Current, FlowInv, FlowGraphInv
  <2>2. CASE Emptying(l, c)
    BY <1>4, <1>10, <2>2 DEF Emptying, SamePort
  <2> QED BY <1>3, <2>1, <2>2
<1>11. \A d : d # c /\ Delivered(d) => Delivered(d)'
  <2>1. ASSUME NEW d, d # c, Delivered(d)
        PROVE  Delivered(d)'
    <3>1. PICK k \in 1 .. l : calls[k].op = "deliver" /\ d \in calls[k].todo /\ Current(k, d)
      BY <2>1 DEF Delivered, l
    <3> QED BY <1>4, <1>6, <2>1, <3>1 DEF Delivered
  <2> QED BY <2>1
<1>12. \A k, q : (k # n \/ q # p) /\ Emptied(k, q) => Emptied(k, q)'
  <2>1. ASSUME NEW k, NEW q, k # n \/ q # p, Emptied(k, q)
        PROVE  Emptied(k, q)'
    <3>1. PICK j \in 1 .. l : /\ calls[j].op = "deliver" /\ calls[j].node = None /\ calls[j].data = None
                             /\ \E d \in calls[j].todo : d.inNodeId = k /\ d.inPortIndex = q
      BY <2>1 DEF Emptied, l
    <3>2. PICK d \in calls[j].todo : d.inNodeId = k /\ d.inPortIndex = q
      BY <3>1
    <3>3. d \in calls'[j].todo
      BY <1>6, <2>1, <3>1, <3>2
    <3> QED BY <1>6, <3>1, <3>2, <3>3 DEF Emptied
  <2> QED BY <2>1
\* A display has one in port.
<1>13. \A k \in NodeId : \A q, r :
         setup.kind[k] = "display" /\ q \in InPorts(k) /\ r \in InPorts(k) => q = r
  BY KindIs DEF FlowInv, FlowTypes
<1>14. ASSUME NEW d \in conns, n \notin setup.freezable, d = c, Current(l, c)
       PROVE  Holds(d)'
  <2>1. Top.data = portData(c.outNodeId) /\ c.outNodeId # n
    BY <1>1, <1>7, <1>14 DEF Current
  <2>2. /\ portData(c.outNodeId)' = portData(c.outNodeId) /\ portData(c.outNodeId) # n
        /\ number'[c.outNodeId] = number[c.outNodeId]
        /\ Read(portData(c.outNodeId)) = number[c.outNodeId]
    BY <1>3, <1>8, <1>9, <2>1, DataIs DEF FlowInv
  <2> QED BY <1>2, <1>14, <2>1, <2>2 DEF Taken, Holds
<1>15. ASSUME NEW d \in conns, d.outNodeId # n, d.inNodeId # n \/ d.inPortIndex # p, Holds(d)
       PROVE  Holds(d)'
  <2>1. /\ portData(d.outNodeId)' = portData(d.outNodeId) /\ portData(d.outNodeId) # n
        /\ number'[d.outNodeId] = number[d.outNodeId]
    BY <1>7, <1>8, <1>9, <1>15
  <2>2. /\ portData(d.outNodeId) \in Endpoint
        /\ input[d.inNodeId][d.inPortIndex] \in Endpoint \ {n}
             => input'[d.inNodeId][d.inPortIndex] = input[d.inNodeId][d.inPortIndex]
    BY <1>2, <1>7, <1>15, DataIs DEF OthersKept, FlowInv, Endpoint
  <2>3. setup.kind[d.inNodeId] = "display" => d.inNodeId # n
    BY <1>3, <1>7, <1>13, <1>15 DEF Arrives
  <2> QED BY <1>2, <1>7, <1>8, <1>15, <2>1, <2>2, <2>3 DEF Holds
<1>16. ASSUME NEW d \in conns, d.outNodeId = n, m = l, Holds(d)
       PROVE  Holds(d)'
  <2>1. number' = number /\ NodesKept(c) /\ shown'[d.inNodeId] = shown[d.inNodeId]
    BY <1>2, <1>7, <1>8, <1>16
  <2>2. portData(d.outNodeId) \in Endpoint /\ portData(d.outNodeId)' = portData(d.outNodeId)
    BY <1>7, <2>1, DataIs DEF FlowInv, Endpoint, portData
  <2>3. d.inNodeId # n
    BY <1>7, <1>16
  <2> QED BY <1>2, <1>7, <1>16, <2>1, <2>2, <2>3 DEF Holds, NodesKept
<1>17. ASSUME NEW d \in conns, d.outNodeId = n, m = l + 1
       PROVE  Delivered(d)'
  <2>1. /\ calls'[m].op = "deliver" /\ calls'[m].node = n /\ calls'[m].data = portData(n)'
        /\ d \in calls'[m].todo
    BY <1>1, <1>2, <1>17 DEF Announcement, connectionsFrom
  <2>2. Current(m, d)'
    BY <1>2, <1>17, <2>1 DEF Current
  <2>3. m \in 1 .. Len(calls')
    BY <1>1, <1>17
  <2> QED BY <2>1, <2>2, <2>3 DEF Delivered
<1>18. ASSUME NEW d \in conns, d.inNodeId \notin setup.freezable
       PROVE  Holds(d)' \/ Offered(d)' \/ Delivered(d)'
  <2>1. CASE d.inNodeId = n /\ d.inPortIndex = p
    BY <1>10, <1>14, <1>18, <2>1
  <2>2. CASE d.inNodeId # n \/ d.inPortIndex # p
    <3>1. d # c /\ (Holds(d) \/ Offered(d) \/ Delivered(d))
      BY <1>18, <2>2 DEF FlowInv, ServedInv
    <3>2. CASE Holds(d)
      <4>1. CASE d.outNodeId # n
        BY <1>15, <1>18, <2>2, <3>2, <4>1
      <4>2. CASE d.outNodeId = n
        <5>1. m = l \/ m = l + 1
          BY <1>1
        <5> QED BY <1>16, <1>17, <1>18, <3>2, <4>2, <5>1
      <4> QED BY <4>1, <4>2
    <3> QED BY <1>4, <1>11, <3>1, <3>2
  <2> QED BY <2>1, <2>2
<1>19. ASSUME NEW k \in nodes \ setup.freezable, NEW q \in InPorts(k),
              \A d \in conns : ~(d.inNodeId = k /\ d.inPortIndex = q)
       PROVE  HoldsNothing(k, q)' \/ Emptied(k, q)'
  <2>1. k \in NodeId /\ q \in {0, 1} /\ (HoldsNothing(k, q) \/ Emptied(k, q))
    BY <1>19, InPortsAre DEF FlowInv, ServedInv, FlowTypes
  <2>2. CASE k = n /\ q = p
    <3>1. Top.data = None
      BY <1>1, <1>3, <1>19, <2>2 DEF Current, Emptying
    <3>2. Read(None) = None
      BY DEF Read
    <3> QED BY <1>2, <1>5, <1>19, <2>2, <3>1, <3>2 DEF Taken, HoldsNothing
  <2>3. CASE k # n \/ q # p
    <3>1. setup.kind[k] = "display" => k # n
      BY <1>3, <1>13, <1>19, <2>1, <2>3 DEF Arrives
    <3>2. input[k][q] = None => input'[k][q] = None
      BY <1>2, <2>1, <2>3 DEF OthersKept
    <3>3. HoldsNothing(k, q) => HoldsNothing(k, q)'
      BY <1>2, <1>8, <2>1, <3>1, <3>2 DEF HoldsNothing
    <3> QED BY <1>12, <2>1, <2>3, <3>3
  <2> QED BY <2>2, <2>3
<1>20. ASSUME NEW k \in NodeId \ nodes
       PROVE  shown'[k] = None /\ \A q \in {0, 1} : input'[k][q] = None
  <2>1. k # n
    BY <1>3, <1>20 DEF Arrives
  <2> QED BY <1>2, <1>20, <2>1 DEF OthersKept, FlowInv, ServedInv
<1>21. \A k : InPorts(k)' = InPorts(k)
  BY <1>2 DEF InPorts
<1> QED BY <1>2, <1>18, <1>19, <1>20, <1>21 DEF ServedInv, NodeId

\* setPortData() keeps the invariant, whatever it finds.
LEMMA SetDataKeeps ==
  ASSUME FlowInv, NEW c \in ConnectionId, setInData(c), setup' = setup
  PROVE  FlowInv'
<1> DEFINE n == c.inNodeId
           p == c.inPortIndex
<1>1. /\ ~Idle /\ Top.op = "deliver" /\ c \in Top.todo
      /\ nodes' = nodes /\ conns' = conns /\ frozen' = frozen
  BY DEF setInData
<1>2. /\ n \in NodeId /\ p \in {0, 1} /\ Arrives(c) /\ Top.data \in Endpoint
  BY <1>1, ServedWire
<1>3. calls \in Seq(Frame) /\ n # None
  BY <1>2, NodesAreNumbers DEF FlowInv, FlowTypes
<1>4. ASSUME NEW m, Served(c, m), number' \in [NodeId -> Int \cup {None}],
             shown' \in [NodeId -> Int \cup {None}], input' \in [NodeId -> [{0, 1} -> Ref]]
      PROVE  FlowInv'
  <2>1. calls' \in Seq(Frame)
    BY <1>4 DEF Served, GoesOn
  <2>2. FlowTypes'
    BY <1>1, <1>4, <2>1, TypesAre DEF FlowInv, FlowTypes
  <2>3. FlowGraphInv'
    BY <1>1, GraphKept DEF FlowInv
  <2> QED BY <1>4, <2>2, <2>3, ServedStack, ServedPorts DEF FlowInv
<1>5. CASE frozen[n] /\ calls' = Without(c) /\ UNCHANGED <<input, number, shown>>
  <2>1. n \in setup.freezable
    BY <1>2, <1>5 DEF FlowInv, FlowTypes
  <2>2. Served(c, Len(calls))
    BY <1>1, <1>3, <1>5, <2>1, QuietServes DEF Served, OthersKept, Taken, NodesKept
  <2> QED BY <1>4, <1>5, <2>2 DEF FlowInv, FlowTypes
<1>6. CASE /\ setup.kind[n] = "display" /\ shown' = [shown EXCEPT ![n] = Read(Top.data)]
           /\ input' = Replaced(input, n, Top.data) /\ calls' = Without(c) /\ number' = number
  <2>1. Read(Top.data) \in Int \cup {None} /\ Top.data \in Ref
    BY <1>2, ReadIs DEF Ref, FlowInv
  <2>2. shown' \in [NodeId -> Int \cup {None}] /\ shown'[n] = Read(Top.data)
        /\ \A k \in NodeId : k # n => shown'[k] = shown[k]
    BY <1>2, <1>6, <2>1 DEF FlowInv, FlowTypes
  <2>3. /\ input' \in [NodeId -> [{0, 1} -> Ref]]
        /\ \A k \in NodeId : \A q \in {0, 1} :
             (k # n \/ q # 0) /\ input[k][q] \in Endpoint => input'[k][q] = input[k][q]
    BY <1>2, <1>6, <2>1, ReplacedIs DEF FlowInv, FlowTypes
  <2>4. p = 0
    BY <1>2, <1>6, KindIs DEF Arrives, FlowInv, FlowTypes
  <2>5. NodesKept(c) /\ OthersKept(c)
    <3>1. None \in Endpoint
      BY DEF Endpoint
    <3> QED BY <1>6, <2>2, <2>3, <2>4, <3>1 DEF NodesKept, OthersKept
  <2>6. Taken(c)
    BY <1>6, <2>2 DEF Taken
  <2>7. Served(c, Len(calls))
    BY <1>1, <1>3, <1>6, <2>5, <2>6, QuietServes DEF Served
  <2> QED BY <1>4, <1>6, <2>2, <2>3, <2>7 DEF FlowInv, FlowTypes
<1> DEFINE given == [input EXCEPT ![n][p] = Top.data]
           result == Sum(Read(given[n][0]), Read(given[n][1]))
           f == Announce(n, IF result = None THEN None ELSE n, connectionsFrom(n))
<1>7. CASE /\ setup.kind[n] = "sum" /\ input' = Expired(given, n)
           /\ number' = [number EXCEPT ![n] = result]
           /\ calls' = Append(Without(c), f) /\ shown' = shown
  <2>1. given \in [NodeId -> [{0, 1} -> Ref]] /\ given[n][p] = Top.data
        /\ \A k \in NodeId : \A q \in {0, 1} : (k # n \/ q # p) => given[k][q] = input[k][q]
    BY <1>2 DEF FlowInv, FlowTypes, Ref
  <2> HIDE DEF given
  <2>2. \A q \in {0, 1} : Read(given[n][q]) \in Int \cup {None}
    <3>1. \A q \in {0, 1} : given[n][q] \in Ref
      BY <1>2, <2>1
    <3> QED BY <3>1, ReadIs DEF FlowInv
  <2>3. result \in Int \cup {None}
    BY <2>2 DEF Sum
  <2> HIDE DEF result
  <2>4. number' \in [NodeId -> Int \cup {None}] /\ number'[n] = result
        /\ \A k \in NodeId : k # n => number'[k] = number[k]
    BY <1>2, <1>7, <2>3 DEF FlowInv, FlowTypes
  <2>5. /\ input' \in [NodeId -> [{0, 1} -> Ref]]
        /\ \A k \in NodeId : \A q \in {0, 1} :
             /\ given[k][q] # n => input'[k][q] = given[k][q]
             /\ given[k][q] = None => input'[k][q] = None
    BY <1>3, <1>7, <2>1, ExpiredIs
  <2>6. f \in Frame /\ Announcement(f, n)
    <3>1. portData(n)' = IF result = None THEN None ELSE n
      BY <2>4 DEF portData
    <3>2. connectionsFrom(n)' = connectionsFrom(n) /\ connectionsFrom(n) \subseteq ConnectionId
      BY <1>1 DEF connectionsFrom, FlowInv, FlowTypes
    <3>3. portData(n)' \in Endpoint /\ n \in Endpoint
      BY <1>2, <3>1 DEF Endpoint
    <3> QED BY <3>1, <3>2, <3>3, FramesAre DEF Announcement, Announce
  <2> HIDE DEF f
  <2>7. GoesOn(c, Len(calls) + 1)
    BY <1>1, <1>3, <1>7, <2>6, LoudServes
  <2>8. OthersKept(c) /\ Taken(c)
    BY <1>2, <1>7, <2>1, <2>4, <2>5 DEF OthersKept, Taken
  <2>9. Len(calls) + 1 # Len(calls)
    BY <1>1, ServedWire
  <2>10. Served(c, Len(calls) + 1)
    BY <1>1, <2>7, <2>8, <2>9 DEF Served
  <2>11. shown' \in [NodeId -> Int \cup {None}]
    BY <1>7 DEF FlowInv, FlowTypes
  <2> QED BY <1>4, <2>4, <2>5, <2>10, <2>11
<1> QED BY <1>5, <1>6, <1>7 DEF setInData

-----------------------------------------------------------------------------
(* The theorems.                                                           *)

\* A scene begins without connections or calls.
LEMMA FlowInit == Init => FlowInv
<1> SUFFICES ASSUME Init PROVE FlowInv
  OBVIOUS
<1>1. FlowTypes
  <2>1. NodeId \subseteq NodeId /\ conns = {} /\ setup \in Setups
    BY DEF Init
  <2>2. /\ frozen \in [NodeId -> BOOLEAN] /\ \A n \in NodeId \ setup.freezable : ~frozen[n]
        /\ shown \in [NodeId -> Int \cup {None}] /\ nodes = NodeId
    BY DEF Init
  <2>3. number \in [NodeId -> Int \cup {None}] /\ input \in [NodeId -> [{0, 1} -> Ref]]
    BY DEF Init, Endpoint, Ref
  <2>4. calls \in Seq(Frame)
    BY DEF Init
  <2> QED BY <2>1, <2>2, <2>3, <2>4 DEF FlowTypes
<1>2. FlowGraphInv /\ \A k \in 1 .. Len(calls) : FALSE
  BY DEF Init, FlowGraphInv
<1>3. ServedInv
  <2>1. \A n \in NodeId : InPorts(n) \subseteq {0, 1}
    BY InPortsAre DEF Init
  <2> QED BY <2>1 DEF Init, ServedInv, HoldsNothing
<1> QED BY <1>1, <1>2, <1>3 DEF FlowInv, StackInv

\* Each step keeps the invariant.
LEMMA FlowStep == FlowInv /\ [Next]_vars => FlowInv'
<1> SUFFICES ASSUME FlowInv, [Next]_vars PROVE FlowInv'
  OBVIOUS
<1>1. CASE UNCHANGED vars
  <2>1. /\ nodes' = nodes /\ conns' = conns /\ frozen' = frozen /\ input' = input
        /\ number' = number /\ shown' = shown /\ calls' = calls /\ setup' = setup
    BY <1>1 DEF vars
  <2>2. FlowTypes' /\ FlowGraphInv'
    BY <2>1, TypesKept, GraphKept DEF FlowInv, FlowTypes
  <2>3. StackInv'
    BY <2>1 DEF FlowInv, StackInv, LoopAt, AnnouncementAt, DeliveryAt, Announces, LeadsOn, Flows, Touching,
       Current, Emptying, Offered, SamePort, Arrives, InPorts, portData, NodeId
  <2>4. ServedInv'
    BY <2>1 DEF FlowInv, ServedInv, Holds, HoldsNothing, Offered, Delivered, Emptied, Current, portData,
       InPorts, NodeId
  <2> QED BY <2>2, <2>3, <2>4 DEF FlowInv
<1>2. CASE Next
  <2>1. setup' = setup
    BY <1>2 DEF Next
  <2>2. CASE UserNext
    BY <2>1, <2>2, EditedKeeps, AddKeeps, DeleteConnectionKeeps, ReplaceKeeps, DeleteNodeKeeps, LoadKeeps,
       FreezeKeeps DEF UserNext
  <2>3. CASE Step
    BY <2>1, <2>3, SetDataKeeps, OfferDataKeeps, DisconnectKeeps, EraseKeeps, ReturnKeeps DEF Step
  <2> QED BY <1>2, <2>2, <2>3 DEF Next
<1> QED BY <1>1, <1>2

\* FlowInv is inductive.
LEMMA FlowInvHolds == Spec => []FlowInv
BY FlowInit, FlowStep, PTL DEF Spec

\* NodeDelegateModel::dataUpdated() of the calculator's delegates, and
\* DataFlowGraphModel::onOutPortDataUpdated(): whatever was connected, replaced and
\* deleted before, a delegate that is announcing its data is handed none, because
\* the model refuses loops; the number it passes on stays the same to the end.
THEOREM CallsAreNotReentered == Spec => []NotReentered
BY FlowInvHolds, NotReenteredThen, PTL

\* setPortData(), propagateEmptyDataTo() and the publisher of a replacement: once all
\* calls have returned, every sum and display that never refused data holds what its
\* source has now, and one without a connection holds nothing.
THEOREM DataSettles == Spec => []DataSettled
BY FlowInvHolds, SettledThen, PTL
===============================================================================
