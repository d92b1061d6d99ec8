---------------------- MODULE DataFlowGraphModel_proofs ----------------------
(***************************************************************************)
(* Proofs about the graph model and about its loop search (LoopSearch),    *)
(* for any number of nodes, models, ports and connections.                 *)
(***************************************************************************)
EXTENDS LoopSearch, FiniteSetTheorems, TLAPS

-----------------------------------------------------------------------------
(* Reachability.                                                           *)

\* What can be reached stays within reach when connections are added.
LEMMA ReachesMore ==
  ASSUME NEW E, NEW F, E \subseteq F, NEW a, NEW b, Reaches(E, a, b)
  PROVE  Reaches(F, a, b)
BY DEF Reaches

(* A connection whose out node cannot be reached from its in node closes   *)
(* no loop, neither through itself nor through the ones already there.     *)
LEMMA AcyclicAdd ==
  ASSUME NEW E, NEW c, ~Reaches(E, c.inNodeId, c.outNodeId),
         \A d \in E : ~Reaches(E, d.inNodeId, d.outNodeId)
  PROVE  \A d \in E \cup {c} : ~Reaches(E \cup {c}, d.inNodeId, d.outNodeId)
<1> DEFINE closed(S, F) == \A d \in F : d.outNodeId \in S => d.inNodeId \in S
<1> SUFFICES ASSUME NEW d \in E \cup {c},
                    Reaches(E \cup {c}, d.inNodeId, d.outNodeId)
             PROVE  FALSE
  OBVIOUS
<1>0. \A S \in SUBSET NodeId :
        d.inNodeId \in S /\ closed(S, E \cup {c}) => d.outNodeId \in S
  BY DEF Reaches
<1>1. PICK T \in SUBSET NodeId :
        closed(T, E) /\ c.inNodeId \in T /\ c.outNodeId \notin T
  BY DEF Reaches
<1>2. CASE d = c
  <2>1. closed(T, E \cup {c})
    BY <1>1
  <2> QED BY <1>0, <1>1, <1>2, <2>1
<1>3. CASE d \in E
  <2>1. PICK S \in SUBSET NodeId :
          closed(S, E) /\ d.inNodeId \in S /\ d.outNodeId \notin S
    BY <1>3 DEF Reaches
  <2>2. closed(S \cup T, E \cup {c}) /\ S \cup T \in SUBSET NodeId
    BY <1>1, <2>1
  <2>3. d.outNodeId \in T
    BY <1>0, <2>1, <2>2
  <2>4. d.inNodeId \in S \cap T
    BY <1>1, <1>3, <2>1, <2>3
  <2>5. closed(S \cap T, E \cup {c}) /\ S \cap T \in SUBSET NodeId
    BY <1>1, <2>1
  <2> QED BY <1>0, <2>1, <2>4, <2>5
<1> QED BY <1>2, <1>3

\* Taking connections away closes no loop.
LEMMA AcyclicFewer ==
  ASSUME NEW E, NEW F, F \subseteq E,
         \A d \in E : ~Reaches(E, d.inNodeId, d.outNodeId)
  PROVE  \A d \in F : ~Reaches(F, d.inNodeId, d.outNodeId)
BY ReachesMore

-----------------------------------------------------------------------------
(* The inductive invariant.                                                *)

(* Between the two phases of a port edit nothing is connected from the     *)
(* first changed port on, and the ports before it stay as they are.        *)
EditInv ==
  edit # None /\ ~edit.applied =>
    /\ \A c \in conns :
         EndNode(edit.side, c) = edit.node => EndPort(edit.side, c) < edit.first
    /\ edit.first <= Len(edit.layout) /\ Len(edit.layout) <= MaxPorts
    /\ edit.first <= Len(ports[edit.node][edit.side])
    /\ \A i \in 1 .. edit.first : edit.layout[i] = ports[edit.node][edit.side][i]

Inv ==
  /\ TypeOK /\ NextIdFresh /\ EditInv
  /\ NoDangling /\ PortsNotOverbooked /\ TypesAgree /\ Acyclic /\ CacheFresh

\* The ports a new node gets are within the bound.
LEMMA LayoutOfNew ==
  ASSUME NEW m \in Model
  PROVE  /\ Layout[m] \in [Sides -> Seq(Port)]
         /\ \A side \in Sides : Len(Layout[m][side]) <= MaxPorts
BY LayoutAssumption

(* With no connection on a missing port the search walks all of them.      *)
LEMMA WalkedAll ==
  ASSUME NoDangling
  PROVE  Walked({}) = conns
BY DEF NoDangling, Walked, Sides, EndNode, EndPort

\* From the memo or from a search, the loop test answers reachability.
LEMMA LoopAnswerRight ==
  ASSUME Inv, NEW c
  PROVE  hasLoopsCached(c, {}) = Reaches(conns, c.inNodeId, c.outNodeId)
<1>1. hasLoops(c, {}) = Reaches(conns, c.inNodeId, c.outNodeId)
  BY WalkedAll DEF Inv, hasLoops
<1>2. ASSUME <<c.outNodeId, c.inNodeId>> \in DOMAIN cache
      PROVE  cache[<<c.outNodeId, c.inNodeId>>] = Reaches(conns, c.inNodeId, c.outNodeId)
  BY <1>2 DEF Inv, CacheFresh
<1> QED BY <1>1, <1>2 DEF hasLoopsCached

-----------------------------------------------------------------------------
(* Steps that add no connection.                                           *)

(* The topology stays sound when every connection that is left still has   *)
(* its nodes and its ports, and finds the same port at each end.           *)
LEMMA KeptConnections ==
  ASSUME Inv, conns' \subseteq conns,
         \A c \in conns', side \in Sides :
           /\ EndNode(side, c) \in nodes'
           /\ EndPort(side, c) < Len(ports'[EndNode(side, c)][side])
           /\ ports'[EndNode(side, c)][side][EndPort(side, c) + 1] = portAt(side, c)
  PROVE  NoDangling' /\ PortsNotOverbooked' /\ TypesAgree' /\ Acyclic'
<1> USE DEF Inv
<1>0. \A c \in conns', side \in Sides : portAt(side, c)' = portAt(side, c)
  BY DEF portAt
<1>1. NoDangling'
  BY DEF NoDangling, portCount, nodeExists
<1>2. PortsNotOverbooked'
  BY <1>0 DEF PortsNotOverbooked
<1>3. TypesAgree'
  BY <1>0 DEF TypesAgree, Sides
<1>4. Acyclic'
  BY AcyclicFewer DEF Acyclic, Reaches
<1> QED BY <1>1, <1>2, <1>3, <1>4

\* Whatever only takes connections away keeps the topology sound.
LEMMA FewerConnections ==
  ASSUME Inv, UNCHANGED <<nodes, ports>>, conns' \subseteq conns
  PROVE  NoDangling' /\ PortsNotOverbooked' /\ TypesAgree' /\ Acyclic'
<1>1. \A c \in conns', side \in Sides :
        /\ EndNode(side, c) \in nodes'
        /\ EndPort(side, c) < Len(ports'[EndNode(side, c)][side])
        /\ ports'[EndNode(side, c)][side][EndPort(side, c) + 1] = portAt(side, c)
  BY DEF Inv, NoDangling, portCount, nodeExists, portAt
<1> QED BY <1>1, KeptConnections

-----------------------------------------------------------------------------
(* Steps that add one.                                                     *)

(* A connection connectionPossible() admits keeps the topology sound, also *)
(* when it takes the place of others.                                      *)
LEMMA AdmittedConnection ==
  ASSUME Inv, UNCHANGED <<nodes, ports>>, NEW removed \in SUBSET conns, NEW c \in ConnectionId,
         basicChecks(c, removed), ~Reaches(conns \ removed, c.inNodeId, c.outNodeId),
         conns' = (conns \ removed) \cup {c}
  PROVE  NoDangling' /\ PortsNotOverbooked' /\ TypesAgree' /\ Acyclic'
<1> USE DEF Inv
<1>1. NoDangling'
  BY DEF NoDangling, portCount, nodeExists, basicChecks, Sides, EndNode, EndPort
<1>2. PortsNotOverbooked'
  <2> SUFFICES ASSUME NEW d \in conns', NEW e \in conns', NEW side \in Sides,
                      EndNode(side, d) = EndNode(side, e), EndPort(side, d) = EndPort(side, e),
                      portAt(side, d).policy = "One"
               PROVE  d = e
    BY DEF PortsNotOverbooked, portAt
  <2>1. portAt(side, e) = portAt(side, d)
    BY DEF portAt
  <2>2. ASSUME NEW x \in conns \ removed, EndNode(side, x) = EndNode(side, c),
               EndPort(side, x) = EndPort(side, c), portAt(side, c).policy = "One"
        PROVE  FALSE
    BY <2>2 DEF basicChecks, portVacant, connectionsAt
  <2>3. portAt(side, c).policy = portAt(side, d).policy \/ (d # c /\ e # c)
    BY <2>1
  <2> QED BY <2>2, <2>3 DEF PortsNotOverbooked
<1>3. TypesAgree'
  BY DEF TypesAgree, portAt, basicChecks
<1>4. Acyclic'
  <2>1. \A d \in conns \ removed : ~Reaches(conns \ removed, d.inNodeId, d.outNodeId)
    BY AcyclicFewer DEF Acyclic
  <2>2. \A d \in conns' : ~Reaches(conns', d.inNodeId, d.outNodeId)
    BY <2>1, AcyclicAdd
  <2> QED BY <2>2 DEF Acyclic, Reaches
<1> QED BY <1>1, <1>2, <1>3, <1>4

(* Answers the memo gains are right.                                       *)
LEMMA MemoAfterAsking ==
  ASSUME Inv, NEW c \in ConnectionId, cache' = CacheAfter(c, {}), UNCHANGED conns
  PROVE  /\ CacheFresh'
         /\ DOMAIN cache' \subseteq NodeId \X NodeId /\ cache' \in [DOMAIN cache' -> BOOLEAN]
<1> USE DEF Inv
<1> DEFINE key == <<c.outNodeId, c.inNodeId>>
<1>1. CASE ~basicChecks(c, {})
  BY <1>1 DEF CacheAfter, CacheFresh, TypeOK, Reaches
<1>2. CASE basicChecks(c, {})
  <2>1. cache' = [k \in DOMAIN cache \cup {key} |->
                    IF k \in DOMAIN cache THEN cache[k] ELSE hasLoops(c, {})]
    BY <1>2 DEF CacheAfter
  <2>2. key \in NodeId \X NodeId
    BY DEF ConnectionId
  <2>3. hasLoops(c, {}) = Reaches(conns, key[2], key[1]) /\ hasLoops(c, {}) \in BOOLEAN
    BY WalkedAll DEF hasLoops, Reaches
  <2>4. CacheFresh'
    <3> SUFFICES ASSUME NEW k \in DOMAIN cache'
                 PROVE  cache'[k] = Reaches(conns, k[2], k[1])
      BY DEF CacheFresh, Reaches
    <3> QED BY <2>1, <2>3 DEF CacheFresh
  <2> HIDE DEF key
  <2> QED BY <2>1, <2>2, <2>3, <2>4 DEF TypeOK
<1> QED BY <1>1, <1>2

\* A memo that has been cleared is fresh.
LEMMA EmptyMemo ==
  ASSUME cache' = NoCache
  PROVE  /\ CacheFresh'
         /\ DOMAIN cache' \subseteq NodeId \X NodeId /\ cache' \in [DOMAIN cache' -> BOOLEAN]
BY DEF NoCache, CacheFresh

-----------------------------------------------------------------------------
(* Each action preserves the invariant.                                    *)

\* The empty graph satisfies the invariant.
LEMMA InitInv == Init => Inv
<1> SUFFICES ASSUME Init PROVE Inv
  OBVIOUS
<1>1. TypeOK
  BY IdAssumption DEF Init, TypeOK, NoCache
<1>2. NextIdFresh /\ EditInv /\ NoDangling /\ PortsNotOverbooked /\ TypesAgree /\ Acyclic
  BY DEF Init, NextIdFresh, EditInv, NoDangling, PortsNotOverbooked, TypesAgree, Acyclic
<1>3. CacheFresh
  BY DEF Init, CacheFresh, NoCache
<1> QED BY <1>1, <1>2, <1>3 DEF Inv

(* A node more, with no connection of its own.                             *)
LEMMA NodeAdded ==
  ASSUME Inv, Idle, NEW n \in NodeId, ~nodeExists(n), NEW m \in Model,
         nodes' = nodes \cup {n}, ports' = WithNode(n, m), cache' = NoCache,
         UNCHANGED <<conns, shifted, edit>>,
         nextNodeId' \in 0 .. InvalidNodeId, nextNodeId' > n, nextNodeId' >= nextNodeId
  PROVE  Inv'
<1> USE DEF Inv
<1>1. TypeOK'
  <2>1. /\ ports' \in [nodes' -> [Sides -> Seq(Port)]]
        /\ \A k \in nodes', side \in Sides : Len(ports'[k][side]) <= MaxPorts
    BY LayoutOfNew DEF TypeOK, WithNode
  <2> QED BY <2>1, EmptyMemo DEF TypeOK, Idle
<1>2. NoDangling' /\ PortsNotOverbooked' /\ TypesAgree' /\ Acyclic'
  <2>1. \A c \in conns', side \in Sides :
          /\ EndNode(side, c) \in nodes'
          /\ EndPort(side, c) < Len(ports'[EndNode(side, c)][side])
          /\ ports'[EndNode(side, c)][side][EndPort(side, c) + 1] = portAt(side, c)
    BY DEF NoDangling, portCount, nodeExists, portAt, WithNode
  <2> QED BY <2>1, KeptConnections
<1>3. NextIdFresh'
  BY DEF NextIdFresh, TypeOK, NodeId
<1>4. EditInv'
  BY DEF EditInv, Idle
<1> QED BY <1>1, <1>2, <1>3, <1>4, EmptyMemo

\* A new node is under the counter and has no connection.
LEMMA addNodeInv ==
  ASSUME Inv, NEW m \in Model, addNode(m)
  PROVE  Inv'
<1> USE DEF Inv
<1>1. nextNodeId \in NodeId /\ ~nodeExists(nextNodeId)
  BY IdAssumption DEF addNode, TypeOK, NodeId, NextIdFresh, nodeExists
<1>2. nextNodeId' \in 0 .. InvalidNodeId /\ nextNodeId' > nextNodeId
  BY <1>1, IdAssumption DEF addNode, NodeId
<1>3. /\ nodes' = nodes \cup {nextNodeId} /\ ports' = WithNode(nextNodeId, m)
      /\ cache' = NoCache /\ Idle /\ UNCHANGED <<conns, shifted, edit>>
  BY DEF addNode
<1>4. nextNodeId' >= nextNodeId
  BY <1>2, <1>1 DEF NodeId
<1> QED BY <1>1, <1>2, <1>3, <1>4, NodeAdded

\* A loaded node, or a failed load, keeps the counter past every node.
LEMMA loadNodeInv ==
  ASSUME Inv, NEW n \in NodeId, NEW m \in Model,
         NEW failure \in {"none", "malformed", "delegate"}, loadNode(n, m, failure)
  PROVE  Inv'
<1> USE DEF Inv
<1>1. nextNodeId' \in 0 .. InvalidNodeId /\ nextNodeId' > n /\ nextNodeId' >= nextNodeId
  BY IdAssumption DEF loadNode, TypeOK, NodeId
<1>2. CASE failure = "none"
  BY <1>1, <1>2, NodeAdded DEF loadNode
<1>3. CASE failure # "none"
  <2>1. UNCHANGED <<nodes, ports, conns, shifted, edit>> /\ cache' \in {cache, NoCache}
    BY <1>3 DEF loadNode
  <2>2. NoDangling' /\ PortsNotOverbooked' /\ TypesAgree' /\ Acyclic'
    BY <2>1, FewerConnections
  <2>3. /\ CacheFresh'
        /\ DOMAIN cache' \subseteq NodeId \X NodeId /\ cache' \in [DOMAIN cache' -> BOOLEAN]
    <3>1. CASE cache' = cache
      BY <2>1, <3>1 DEF CacheFresh, Reaches, TypeOK
    <3> QED BY <2>1, <3>1, EmptyMemo
  <2>4. TypeOK'
    BY <2>1, <2>3, <1>1 DEF TypeOK
  <2>5. NextIdFresh' /\ EditInv'
    BY <2>1, <1>1 DEF TypeOK, NodeId, NextIdFresh, EditInv
  <2> QED BY <2>2, <2>3, <2>4, <2>5
<1> QED BY <1>2, <1>3

\* The node goes with all its connections.
LEMMA deleteNodeInv ==
  ASSUME Inv, NEW n \in NodeId, deleteNode(n)
  PROVE  Inv'
<1> USE DEF Inv
<1>1. TypeOK'
  <2>1. /\ ports' \in [nodes' -> [Sides -> Seq(Port)]]
        /\ \A k \in nodes', side \in Sides : Len(ports'[k][side]) <= MaxPorts
    BY DEF TypeOK, deleteNode
  <2>2. cache' = NoCache
    BY DEF deleteNode
  <2> QED BY <2>1, <2>2, EmptyMemo DEF TypeOK, deleteNode, Idle
<1>2. NoDangling' /\ PortsNotOverbooked' /\ TypesAgree' /\ Acyclic'
  <2>1. \A c \in conns', side \in Sides :
          /\ EndNode(side, c) \in nodes'
          /\ EndPort(side, c) < Len(ports'[EndNode(side, c)][side])
          /\ ports'[EndNode(side, c)][side][EndPort(side, c) + 1] = portAt(side, c)
    BY DEF NoDangling, portCount, nodeExists, portAt, deleteNode, allConnectionIds, EndNode
  <2>2. conns' \subseteq conns
    BY DEF deleteNode
  <2> QED BY <2>1, <2>2, KeptConnections
<1>3. NextIdFresh' /\ EditInv'
  BY DEF NextIdFresh, EditInv, Idle, deleteNode
<1>4. cache' = NoCache
  BY DEF deleteNode
<1> QED BY <1>1, <1>2, <1>3, <1>4, EmptyMemo

\* Asking puts only right answers into the memo.
LEMMA askPossibleInv ==
  ASSUME Inv, NEW c \in ConnectionId, askPossible(c)
  PROVE  Inv'
<1> USE DEF Inv
<1>1. UNCHANGED <<nodes, ports, conns, nextNodeId, shifted, edit>> /\ cache' = CacheAfter(c, {})
  BY DEF askPossible
<1>2. NoDangling' /\ PortsNotOverbooked' /\ TypesAgree' /\ Acyclic'
  BY <1>1, FewerConnections
<1>3. /\ CacheFresh'
      /\ DOMAIN cache' \subseteq NodeId \X NodeId /\ cache' \in [DOMAIN cache' -> BOOLEAN]
  BY <1>1, MemoAfterAsking
<1>4. TypeOK'
  BY <1>1, <1>3 DEF TypeOK
<1>5. NextIdFresh' /\ EditInv'
  BY <1>1 DEF NextIdFresh, EditInv
<1> QED BY <1>2, <1>3, <1>4, <1>5

(* addConnection(), called by the user or by the restoring loop.           *)
LEMMA ConnectInv ==
  ASSUME Inv, NEW c \in ConnectionId, Connect(c), UNCHANGED <<nodes, ports>>
  PROVE  /\ NoDangling' /\ PortsNotOverbooked' /\ TypesAgree' /\ Acyclic' /\ CacheFresh'
         /\ DOMAIN cache' \subseteq NodeId \X NodeId /\ cache' \in [DOMAIN cache' -> BOOLEAN]
         /\ conns' \subseteq ConnectionId
<1> USE DEF Inv
<1>1. CASE c \notin conns /\ connectionPossible(c, {})
  <2>1. conns' = conns \cup {c} /\ cache' = NoCache
    BY <1>1 DEF Connect
  <2>2. basicChecks(c, {}) /\ ~Reaches(conns, c.inNodeId, c.outNodeId)
    BY <1>1, LoopAnswerRight DEF connectionPossible
  <2>3. conns \ {} = conns
    OBVIOUS
  <2>4. NoDangling' /\ PortsNotOverbooked' /\ TypesAgree' /\ Acyclic'
    BY <2>1, <2>2, <2>3, AdmittedConnection
  <2> QED BY <2>1, <2>4, EmptyMemo DEF TypeOK
<1>2. CASE ~(c \notin conns /\ connectionPossible(c, {}))
  <2>1. conns' = conns /\ cache' \in {cache, CacheAfter(c, {})}
    BY <1>2 DEF Connect
  <2>2. NoDangling' /\ PortsNotOverbooked' /\ TypesAgree' /\ Acyclic'
    BY <2>1, FewerConnections
  <2>3. /\ CacheFresh'
        /\ DOMAIN cache' \subseteq NodeId \X NodeId /\ cache' \in [DOMAIN cache' -> BOOLEAN]
    <3>1. CASE cache' = cache
      BY <2>1, <3>1 DEF CacheFresh, Reaches, TypeOK
    <3> QED BY <2>1, <3>1, MemoAfterAsking
  <2> QED BY <2>1, <2>2, <2>3 DEF TypeOK
<1> QED BY <1>1, <1>2

\* A connection that is admitted keeps the topology sound.
LEMMA addConnectionInv ==
  ASSUME Inv, NEW c \in ConnectionId, addConnection(c)
  PROVE  Inv'
<1> USE DEF Inv
<1>1. Connect(c) /\ Idle /\ UNCHANGED <<nodes, ports, nextNodeId, shifted, edit>>
  BY DEF addConnection
<1>2. TypeOK'
  BY <1>1, ConnectInv DEF TypeOK
<1>3. NextIdFresh' /\ EditInv'
  BY <1>1 DEF NextIdFresh, EditInv, Idle
<1> QED BY <1>1, <1>2, <1>3, ConnectInv

\* So does one that a port edit puts back.
LEMMA restoreShiftedInv ==
  ASSUME Inv, NEW c \in ConnectionId, restoreShifted(c)
  PROVE  Inv'
<1> USE DEF Inv
<1>1. /\ Connect(c) /\ edit.applied /\ shifted' \subseteq shifted
      /\ UNCHANGED <<nodes, ports, nextNodeId, edit>>
  BY DEF restoreShifted
<1>2. TypeOK'
  BY <1>1, ConnectInv DEF TypeOK
<1>3. NextIdFresh' /\ EditInv'
  BY <1>1 DEF NextIdFresh, EditInv
<1> QED BY <1>1, <1>2, <1>3, ConnectInv

\* A connection goes, and the memo with it.
LEMMA deleteConnectionInv ==
  ASSUME Inv, NEW c \in ConnectionId, deleteConnection(c)
  PROVE  Inv'
<1> USE DEF Inv
<1>1. /\ UNCHANGED <<nodes, ports, nextNodeId, shifted, edit>> /\ Idle
      /\ conns' \subseteq conns /\ cache' = NoCache
  BY DEF deleteConnection
<1>2. NoDangling' /\ PortsNotOverbooked' /\ TypesAgree' /\ Acyclic'
  BY <1>1, FewerConnections
<1>3. TypeOK'
  BY <1>1, EmptyMemo DEF TypeOK
<1>4. NextIdFresh' /\ EditInv'
  BY <1>1 DEF NextIdFresh, EditInv, Idle
<1> QED BY <1>1, <1>2, <1>3, <1>4, EmptyMemo

\* The new connection is admitted without the ones it replaces.
LEMMA replaceConnectionInv ==
  ASSUME Inv, NEW removed \in SUBSET conns, NEW c \in ConnectionId,
         replaceConnection(removed, c)
  PROVE  Inv'
<1> USE DEF Inv
<1>1. /\ UNCHANGED <<nodes, ports, nextNodeId, shifted, edit>> /\ Idle
      /\ conns' = (conns \ removed) \cup {c} /\ cache' = NoCache
      /\ basicChecks(c, removed) /\ ~hasLoopsCached(c, removed)
  BY DEF replaceConnection, connectionPossible
<1>2. ~Reaches(conns \ removed, c.inNodeId, c.outNodeId)
  <2>1. CASE removed = {}
    <3>1. conns \ removed = conns
      BY <2>1
    <3> QED BY <2>1, <3>1, <1>1, LoopAnswerRight
  <2>2. CASE removed # {}
    <3>1. Walked(removed) = conns \ removed
      BY DEF NoDangling, Walked, Sides, EndNode, EndPort
    <3> QED BY <2>2, <3>1, <1>1 DEF hasLoopsCached, hasLoops
  <2> QED BY <2>1, <2>2
<1>3. NoDangling' /\ PortsNotOverbooked' /\ TypesAgree' /\ Acyclic'
  BY <1>1, <1>2, AdmittedConnection
<1>4. TypeOK'
  BY <1>1, EmptyMemo DEF TypeOK
<1>5. NextIdFresh' /\ EditInv'
  BY <1>1 DEF NextIdFresh, EditInv, Idle
<1> QED BY <1>1, <1>3, <1>4, <1>5, EmptyMemo

(* What both begin handlers owe the rest of the edit: the moved ids are    *)
(* ids, and nothing is left on the ports from the first changed one on.    *)
LEMMA BeginEditInv ==
  ASSUME Inv, NEW n \in nodes, NEW side \in Sides, NEW first \in PortIndex,
         NEW gone, NEW moving, NEW by, NEW layout \in Seq(Port),
         gone \subseteq conns, moving \subseteq conns,
         BeginEdit(n, side, first, gone, moving, by, layout),
         \A c \in moving : Shift(c, side, by) \in ConnectionId,
         \A c \in conns : EndNode(side, c) = n /\ EndPort(side, c) >= first
                           => c \in gone \cup moving,
         first <= Len(layout), Len(layout) <= MaxPorts, first <= Len(ports[n][side]),
         \A i \in 1 .. first : layout[i] = ports[n][side][i]
  PROVE  Inv'
<1> USE DEF Inv
<1> DEFINE moved == {Shift(c, side, by) : c \in moving}
<1>1. /\ UNCHANGED <<nodes, ports, nextNodeId>>
      /\ conns' = conns \ (gone \cup moving)
      /\ shifted' = moved
      /\ edit' = [node |-> n, side |-> side, first |-> first, layout |-> layout,
                  applied |-> FALSE, due |-> (conns \ (gone \cup moving)) \cup moved]
      /\ cache' = IF gone \cup moving = {} THEN cache ELSE NoCache
  BY DEF BeginEdit
<1>2. NoDangling' /\ PortsNotOverbooked' /\ TypesAgree' /\ Acyclic'
  BY <1>1, FewerConnections
<1>3. /\ CacheFresh'
      /\ DOMAIN cache' \subseteq NodeId \X NodeId /\ cache' \in [DOMAIN cache' -> BOOLEAN]
  <2>1. CASE gone \cup moving = {}
    <3>1. cache' = cache /\ conns' = conns
      BY <1>1, <2>1
    <3> QED BY <3>1 DEF CacheFresh, Reaches, TypeOK
  <2> QED BY <1>1, <2>1, EmptyMemo
<1>4. TypeOK'
  <2>1. moved \subseteq ConnectionId
    OBVIOUS
  <2> HIDE DEF moved
  <2> QED BY <1>1, <1>3, <2>1 DEF TypeOK
<1>5. EditInv'
  <2>1. \A c \in conns' : EndNode(side, c) = n => EndPort(side, c) < first
    <3>1. \A c \in conns : EndPort(side, c) \in PortIndex
      BY DEF TypeOK, ConnectionId, EndPort
    <3> QED BY <1>1, <3>1 DEF PortIndex
  <2> HIDE DEF moved
  <2> QED BY <1>1, <2>1 DEF EditInv
<1>6. NextIdFresh'
  BY <1>1 DEF NextIdFresh
<1> QED BY <1>2, <1>3, <1>4, <1>5, <1>6

\* Nothing is left on the ports that go, or behind them.
LEMMA portsAboutToBeDeletedInv ==
  ASSUME Inv, NEW n \in NodeId, NEW side \in Sides, NEW first \in PortIndex,
         NEW last \in 0 .. MaxPorts, portsAboutToBeDeleted(n, side, first, last)
  PROVE  Inv'
<1> USE DEF Inv
<1> DEFINE count == portCount(n, side)
           end == IF last < count - 1 THEN last ELSE count - 1
           by == end - first + 1
           gone == OnPorts(n, side, first, end)
           moving == OnPorts(n, side, end + 1, count - 1)
           layout == [i \in 1 .. count - by |->
                        ports[n][side][IF i <= first THEN i ELSE i + by]]
<1>1. /\ n \in nodes /\ first < count /\ first <= last
      /\ BeginEdit(n, side, first, gone, moving, -by, layout)
  BY DEF portsAboutToBeDeleted, nodeExists
<1>2. /\ ports[n][side] \in Seq(Port) /\ count = Len(ports[n][side])
      /\ count \in Nat /\ count <= MaxPorts
  BY <1>1 DEF TypeOK, portCount, nodeExists
<1>3. /\ first \in Nat /\ last \in Nat /\ MaxPorts \in Nat
      /\ end \in first .. count - 1 /\ by \in 1 .. count - first
  <2>1. first \in Nat /\ last \in Nat /\ MaxPorts \in Nat
    BY IdAssumption DEF PortIndex
  <2>2. end \in first .. count - 1
    BY <1>1, <1>2, <2>1
  <2> HIDE DEF end
  <2>3. by \in 1 .. count - first
    BY <1>2, <2>1, <2>2
  <2> QED BY <2>1, <2>2, <2>3
<1> HIDE DEF count, end, by
<1>4. /\ layout \in Seq(Port) /\ Len(layout) = count - by
      /\ \A i \in 1 .. first : layout[i] = ports[n][side][i]
  <2>1. count - by \in Nat /\ first <= count - by
    BY <1>2, <1>3
  <2>2. \A i \in 1 .. count - by : (IF i <= first THEN i ELSE i + by) \in 1 .. count
    BY <1>2, <1>3
  <2>3. \A i \in 1 .. count - by : ports[n][side][IF i <= first THEN i ELSE i + by] \in Port
    BY <1>2, <2>2
  <2>4. layout \in Seq(Port) /\ Len(layout) = count - by
    BY <2>1, <2>3
  <2>5. \A i \in 1 .. first : i \in 1 .. count - by /\ i <= first
    BY <1>3, <2>1
  <2> QED BY <2>4, <2>5
<1> HIDE DEF layout
<1>5. \A c \in conns : c \in ConnectionId /\ EndPort(side, c) \in Nat
                        /\ (EndNode(side, c) = n => EndPort(side, c) < count)
  BY <1>1, <1>2 DEF TypeOK, ConnectionId, PortIndex, EndPort, NoDangling, portCount, nodeExists
<1>6. \A c \in moving : Shift(c, side, -by) \in ConnectionId
  <2> SUFFICES ASSUME NEW c \in moving PROVE Shift(c, side, -by) \in ConnectionId
    OBVIOUS
  <2>1. c \in ConnectionId /\ EndPort(side, c) \in end + 1 .. count - 1
    BY <1>5 DEF OnPorts
  <2>2. EndPort(side, c) + -by \in PortIndex
    BY <1>2, <1>3, <2>1 DEF PortIndex, by
  <2> QED BY <2>1, <2>2 DEF Shift, EndPort, ConnectionId
<1>7. /\ gone \subseteq conns /\ moving \subseteq conns
      /\ \A c \in conns : EndNode(side, c) = n /\ EndPort(side, c) >= first
                          => c \in gone \cup moving
  BY <1>2, <1>3, <1>5 DEF OnPorts
<1> HIDE DEF gone, moving
<1>8. first <= Len(layout) /\ Len(layout) <= MaxPorts /\ first <= Len(ports[n][side])
  <2>1. first <= count - by /\ count - by <= MaxPorts /\ first <= count
    BY <1>2, <1>3
  <2>2. Len(layout) = count - by /\ Len(ports[n][side]) = count
    BY <1>2, <1>4
  <2> QED BY <2>1, <2>2
<1> QED BY <1>1, <1>4, <1>6, <1>7, <1>8, BeginEditInv

\* Nothing is left at or behind the place of insertion.
LEMMA portsAboutToBeInsertedInv ==
  ASSUME Inv, NEW n \in NodeId, NEW side \in Sides, NEW first \in PortIndex,
         NEW number \in 1 .. MaxPorts, NEW p \in NewPort,
         portsAboutToBeInserted(n, side, first, number, p)
  PROVE  Inv'
<1> USE DEF Inv
<1> DEFINE count == portCount(n, side)
           moving == OnPorts(n, side, first, count - 1)
           layout == [i \in 1 .. count + number |->
                        IF i <= first THEN ports[n][side][i]
                        ELSE IF i <= first + number THEN p
                        ELSE ports[n][side][i - number]]
<1>1. /\ n \in nodes /\ first <= count /\ count + number <= MaxPorts
      /\ BeginEdit(n, side, first, {}, moving, number, layout)
  BY DEF portsAboutToBeInserted, nodeExists
<1>2. /\ ports[n][side] \in Seq(Port) /\ count = Len(ports[n][side]) /\ count \in Nat
      /\ first \in Nat /\ MaxPorts \in Nat /\ p \in Port
  BY <1>1, IdAssumption, LayoutAssumption DEF TypeOK, portCount, nodeExists, PortIndex
<1> HIDE DEF count
<1>3. /\ layout \in Seq(Port) /\ Len(layout) = count + number
      /\ \A i \in 1 .. first : layout[i] = ports[n][side][i]
  <2>1. \A i \in 1 .. count + number : layout[i] \in Port
    BY <1>1, <1>2
  <2> QED BY <1>1, <1>2, <2>1
<1> HIDE DEF layout
<1>4. \A c \in conns : c \in ConnectionId /\ EndPort(side, c) \in Nat
                        /\ (EndNode(side, c) = n => EndPort(side, c) < count)
  BY <1>1, <1>2 DEF TypeOK, ConnectionId, PortIndex, EndPort, NoDangling, portCount, nodeExists
<1>5. \A c \in moving : Shift(c, side, number) \in ConnectionId
  <2> SUFFICES ASSUME NEW c \in moving PROVE Shift(c, side, number) \in ConnectionId
    OBVIOUS
  <2>1. c \in ConnectionId /\ EndPort(side, c) \in first .. count - 1
    BY <1>4 DEF OnPorts
  <2>2. EndPort(side, c) + number \in PortIndex
    BY <1>1, <1>2, <2>1 DEF PortIndex
  <2> QED BY <2>1, <2>2 DEF Shift, EndPort, ConnectionId
<1>6. /\ moving \subseteq conns
      /\ \A c \in conns : EndNode(side, c) = n /\ EndPort(side, c) >= first
                          => c \in {} \cup moving
  BY <1>2, <1>4 DEF OnPorts
<1> HIDE DEF moving
<1>7. first <= Len(layout) /\ Len(layout) <= MaxPorts /\ first <= Len(ports[n][side])
  BY <1>1, <1>2, <1>3
<1>8. \A nothing : nothing = {} => Inv'
  <2> SUFFICES ASSUME NEW nothing, nothing = {} PROVE Inv'
    OBVIOUS
  <2>1. /\ BeginEdit(n, side, first, nothing, moving, number, layout) /\ nothing \subseteq conns
        /\ \A c \in conns : EndNode(side, c) = n /\ EndPort(side, c) >= first
                            => c \in nothing \cup moving
    BY <1>1, <1>6
  <2> QED BY <1>1, <1>3, <1>5, <1>6, <1>7, <2>1, BeginEditInv
<1> QED BY <1>8

\* The delegate changes only ports without connections.
LEMMA applyEditInv ==
  ASSUME Inv, applyEdit
  PROVE  Inv'
<1> USE DEF Inv
<1>1. /\ edit.node \in nodes /\ edit.side \in Sides /\ edit.layout \in Seq(Port)
      /\ edit.first \in Nat
  BY DEF applyEdit, TypeOK, PortIndex
<1>2. /\ UNCHANGED <<nodes, conns, nextNodeId, cache, shifted>>
      /\ ports' = [ports EXCEPT ![edit.node][edit.side] = edit.layout]
      /\ edit' = [edit EXCEPT !.applied = TRUE]
  BY DEF applyEdit
<1>3. /\ \A c \in conns : EndNode(edit.side, c) = edit.node => EndPort(edit.side, c) < edit.first
      /\ edit.first <= Len(edit.layout) /\ Len(edit.layout) <= MaxPorts
      /\ edit.first <= Len(ports[edit.node][edit.side])
      /\ \A i \in 1 .. edit.first : edit.layout[i] = ports[edit.node][edit.side][i]
  BY DEF applyEdit, EditInv
<1>4. \A k \in nodes, side \in Sides :
        ports'[k][side] = IF k = edit.node /\ side = edit.side THEN edit.layout ELSE ports[k][side]
  BY <1>1, <1>2 DEF TypeOK
<1>5. TypeOK'
  <2>1. ports' \in [nodes' -> [Sides -> Seq(Port)]]
    BY <1>1, <1>2 DEF TypeOK
  <2>2. \A k \in nodes', side \in Sides : Len(ports'[k][side]) <= MaxPorts
    BY <1>2, <1>3, <1>4 DEF TypeOK
  <2>3. edit' \in [node : nodes, side : Sides, first : PortIndex,
                   layout : Seq(Port), applied : BOOLEAN, due : SUBSET ConnectionId]
    BY <1>2 DEF TypeOK, applyEdit
  <2> QED BY <1>2, <2>1, <2>2, <2>3 DEF TypeOK
<1>6. NoDangling' /\ PortsNotOverbooked' /\ TypesAgree' /\ Acyclic'
  <2> SUFFICES ASSUME NEW c \in conns, NEW side \in Sides
               PROVE  /\ EndNode(side, c) \in nodes'
                      /\ EndPort(side, c) < Len(ports'[EndNode(side, c)][side])
                      /\ ports'[EndNode(side, c)][side][EndPort(side, c) + 1] = portAt(side, c)
    BY <1>2, KeptConnections
  <2>1. /\ EndNode(side, c) \in nodes
        /\ EndPort(side, c) < Len(ports[EndNode(side, c)][side])
        /\ EndPort(side, c) \in Nat
    BY DEF NoDangling, portCount, nodeExists, TypeOK, ConnectionId, PortIndex, EndPort
  <2>2. CASE EndNode(side, c) = edit.node /\ side = edit.side
    <3>1. EndPort(side, c) < edit.first
      BY <1>3, <2>2
    <3>2. ports'[EndNode(side, c)][side] = edit.layout
      BY <1>4, <2>1, <2>2
    <3>3. EndPort(side, c) + 1 \in 1 .. edit.first
      BY <1>1, <2>1, <3>1
    <3>4. edit.layout[EndPort(side, c) + 1] = ports[EndNode(side, c)][side][EndPort(side, c) + 1]
      BY <1>3, <2>2, <3>3
    <3>5. EndPort(side, c) < Len(edit.layout)
      BY <1>1, <1>3, <2>1, <3>1
    <3> QED BY <1>2, <2>1, <3>2, <3>4, <3>5 DEF portAt
  <2>3. CASE ~(EndNode(side, c) = edit.node /\ side = edit.side)
    BY <1>2, <1>4, <2>1, <2>3 DEF portAt
  <2> QED BY <2>2, <2>3
<1>7. CacheFresh' /\ NextIdFresh'
  BY <1>2 DEF CacheFresh, Reaches, NextIdFresh
<1>8. EditInv'
  <2>1. edit'.applied
    BY <1>2 DEF TypeOK, applyEdit
  <2> QED BY <2>1 DEF EditInv
<1> QED BY <1>5, <1>6, <1>7, <1>8

\* The end of an edit changes nothing the invariant is about.
LEMMA portsChangedInv ==
  ASSUME Inv, UNCHANGED <<nodes, ports, conns, nextNodeId, cache, shifted>>,
         edit' \in {None, edit}
  PROVE  Inv'
<1> USE DEF Inv
<1>1. NoDangling' /\ PortsNotOverbooked' /\ TypesAgree' /\ Acyclic'
  BY FewerConnections
<1>2. TypeOK' /\ EditInv'
  BY DEF TypeOK, EditInv
<1> QED BY <1>1, <1>2 DEF CacheFresh, Reaches, NextIdFresh

-----------------------------------------------------------------------------
(* The theorems.                                                           *)

\* Every step keeps the invariant.
LEMMA InvInductive == Inv /\ [Next]_vars => Inv'
<1> SUFFICES ASSUME Inv, [Next]_vars PROVE Inv'
  OBVIOUS
<1>1. ASSUME NEW m \in Model, addNode(m) PROVE Inv'
  BY <1>1, addNodeInv
<1>2. ASSUME NEW n \in NodeId, NEW m \in Model, NEW f \in {"none", "malformed", "delegate"},
             loadNode(n, m, f)
      PROVE  Inv'
  BY <1>2, loadNodeInv
<1>3. ASSUME NEW n \in NodeId, deleteNode(n) PROVE Inv'
  BY <1>3, deleteNodeInv
<1>4. ASSUME NEW c \in ConnectionId,
             askPossible(c) \/ addConnection(c) \/ deleteConnection(c) \/ restoreShifted(c)
      PROVE  Inv'
  BY <1>4, askPossibleInv, addConnectionInv, deleteConnectionInv, restoreShiftedInv
<1>5. ASSUME NEW removed \in SUBSET conns, NEW c \in ConnectionId, replaceConnection(removed, c)
      PROVE  Inv'
  BY <1>5, replaceConnectionInv
<1>6. ASSUME NEW n \in NodeId, NEW side \in Sides, NEW first \in PortIndex,
             NEW last \in 0 .. MaxPorts, portsAboutToBeDeleted(n, side, first, last)
      PROVE  Inv'
  BY <1>6, portsAboutToBeDeletedInv
<1>7. ASSUME NEW n \in NodeId, NEW side \in Sides, NEW first \in PortIndex,
             NEW k \in 1 .. MaxPorts, NEW p \in NewPort,
             portsAboutToBeInserted(n, side, first, k, p)
      PROVE  Inv'
  BY <1>7, portsAboutToBeInsertedInv
<1>8. CASE applyEdit
  BY <1>8, applyEditInv
<1>9. CASE portsChanged
  BY <1>9, portsChangedInv DEF portsChanged
<1>10. CASE UNCHANGED vars
  BY <1>10, portsChangedInv DEF vars
<1> QED BY <1>1, <1>2, <1>3, <1>4, <1>5, <1>6, <1>7, <1>8, <1>9, <1>10 DEF Next

\* The invariant from which the properties of the graph model follow.
THEOREM InvHolds == Spec => []Inv
BY InitInv, InvInductive, PTL DEF Spec

(* Node ids, port lists, connections and the memo keep their types: in     *)
(* particular no delegate's port list outgrows its bound.                  *)
THEOREM TypesHold == Spec => []TypeOK
<1>1. Inv => TypeOK
  BY DEF Inv
<1> QED BY <1>1, InvHolds, PTL

(* Deleting nodes and ports never leaves a connection behind that joins    *)
(* something that is gone.                                                 *)
THEOREM NothingDangles == Spec => []NoDangling
<1>1. Inv => NoDangling
  BY DEF Inv
<1> QED BY <1>1, InvHolds, PTL

(* A port of policy One carries one connection at most, whichever way its  *)
(* connection came: a connect, a replacement, a port edit.                 *)
THEOREM PolicyRespected == Spec => []PortsNotOverbooked
<1>1. Inv => PortsNotOverbooked
  BY DEF Inv
<1> QED BY <1>1, InvHolds, PTL

(* Both ends of a connection carry the same type of data, also after the   *)
(* ports of either end have changed.                                       *)
THEOREM TypesMatch == Spec => []TypesAgree
<1>1. Inv => TypesAgree
  BY DEF Inv
<1> QED BY <1>1, InvHolds, PTL

(* The data-flow graph never has a loop, although the loop test answers    *)
(* from a memo and walks only the ports a node has at the moment.          *)
THEOREM NoLoops == Spec => []Acyclic
<1>1. Inv => Acyclic
  BY DEF Inv
<1> QED BY <1>1, InvHolds, PTL

(* The memo of the loop test is never stale.                               *)
THEOREM MemoIsFresh == Spec => []CacheFresh
<1>1. Inv => CacheFresh
  BY DEF Inv
<1> QED BY <1>1, InvHolds, PTL

(* The id counter is past every node of the graph.                         *)
THEOREM IdsAreFresh == Spec => []NextIdFresh
<1>1. Inv => NextIdFresh
  BY DEF Inv
<1> QED BY <1>1, InvHolds, PTL

-----------------------------------------------------------------------------
(* A port edit keeps every connection.  Before the delegate changes its    *)
(* ports, the connections the edit is to end with are already a sound      *)
(* graph on the ports it will have; whatever part of them is in place, the *)
(* next one is then admitted.                                              *)

PortOf(P, side, c) == P[EndNode(side, c)][side][EndPort(side, c) + 1]

Sound(E, P) ==
  /\ \A c \in E, side \in Sides :
       EndNode(side, c) \in DOMAIN P /\ EndPort(side, c) < Len(P[EndNode(side, c)][side])
  /\ \A c, d \in E, side \in Sides :
       /\ EndNode(side, c) = EndNode(side, d) /\ EndPort(side, c) = EndPort(side, d)
       /\ PortOf(P, side, c).policy = "One"
       => c = d
  /\ \A c \in E : PortOf(P, "Out", c).type = PortOf(P, "In", c).type
  /\ \A c \in E : ~Reaches(E, c.inNodeId, c.outNodeId)

PortsAfter == IF edit.applied THEN ports ELSE [ports EXCEPT ![edit.node][edit.side] = edit.layout]

DueInv ==
  edit # None => conns \cup shifted = edit.due /\ Sound(edit.due, PortsAfter)

\* The graph is sound all along.
LEMMA SoundNow == ASSUME Inv PROVE Sound(conns, ports)
<1>1. DOMAIN ports = nodes
  BY DEF Inv, TypeOK
<1>2. \A c \in conns, side \in Sides :
        EndNode(side, c) \in DOMAIN ports /\ EndPort(side, c) < Len(ports[EndNode(side, c)][side])
  BY <1>1 DEF Inv, NoDangling, portCount, nodeExists
<1>3. \A c, d \in conns, side \in Sides :
        /\ EndNode(side, c) = EndNode(side, d) /\ EndPort(side, c) = EndPort(side, d)
        /\ PortOf(ports, side, c).policy = "One"
        => c = d
  BY DEF Inv, PortsNotOverbooked, PortOf, portAt
<1>4. \A c \in conns : PortOf(ports, "Out", c).type = PortOf(ports, "In", c).type
  BY DEF Inv, TypesAgree, PortOf, portAt
<1>5. \A c \in conns : ~Reaches(conns, c.inNodeId, c.outNodeId)
  BY DEF Inv, Acyclic
<1> QED BY <1>2, <1>3, <1>4, <1>5 DEF Sound

\* That a connection d of F on the ports Q stands where o[d] stood on P.
StandsFor(o, d, P, Q) ==
  \A side \in Sides :
    /\ EndNode(side, d) = EndNode(side, o[d])
    /\ EndNode(side, d) \in DOMAIN Q
    /\ EndPort(side, d) < Len(Q[EndNode(side, d)][side])
    /\ PortOf(Q, side, d) = PortOf(P, side, o[d])

\* Connections that have moved with their ports, no two to one place, are as
\* sound as they were.
LEMMA MovedSound ==
  ASSUME NEW E, NEW P, Sound(E, P), NEW F, NEW Q, NEW o \in [F -> E],
         \A d \in F : StandsFor(o, d, P, Q),
         \A d, e \in F, side \in Sides :
           EndNode(side, d) = EndNode(side, e) /\ EndPort(side, d) = EndPort(side, e)
             => EndPort(side, o[d]) = EndPort(side, o[e]),
         \A d, e \in F : o[d] = o[e] => d = e
  PROVE  Sound(F, Q)
<1>1. \A d \in F, side \in Sides :
        EndNode(side, d) \in DOMAIN Q /\ EndPort(side, d) < Len(Q[EndNode(side, d)][side])
  BY DEF StandsFor
<1>2. ASSUME NEW d \in F, NEW e \in F, NEW side \in Sides,
             EndNode(side, d) = EndNode(side, e), EndPort(side, d) = EndPort(side, e),
             PortOf(Q, side, d).policy = "One"
      PROVE  d = e
  <2>1. /\ EndNode(side, o[d]) = EndNode(side, o[e]) /\ EndPort(side, o[d]) = EndPort(side, o[e])
        /\ PortOf(P, side, o[d]).policy = "One"
    BY <1>2 DEF StandsFor
  <2>2. o[d] \in E /\ o[e] \in E
    OBVIOUS
  <2>3. o[d] = o[e]
    BY <2>1, <2>2 DEF Sound
  <2> QED BY <2>3
<1>3. ASSUME NEW d \in F PROVE PortOf(Q, "Out", d).type = PortOf(Q, "In", d).type
  <2>1. PortOf(Q, "Out", d) = PortOf(P, "Out", o[d]) /\ PortOf(Q, "In", d) = PortOf(P, "In", o[d])
    BY DEF StandsFor, Sides
  <2>2. o[d] \in E
    OBVIOUS
  <2> QED BY <2>1, <2>2 DEF Sound
<1>4. \A d \in F : d.inNodeId = o[d].inNodeId /\ d.outNodeId = o[d].outNodeId
  BY DEF StandsFor, Sides, EndNode
<1>5. ASSUME NEW d \in F PROVE ~Reaches(F, d.inNodeId, d.outNodeId)
  <2>1. \A S \in SUBSET NodeId :
          (\A c \in E : c.outNodeId \in S => c.inNodeId \in S)
            => (\A c \in F : c.outNodeId \in S => c.inNodeId \in S)
    BY <1>4
  <2>2. Reaches(F, d.inNodeId, d.outNodeId) => Reaches(E, d.inNodeId, d.outNodeId)
    BY <2>1 DEF Reaches
  <2>3. ~Reaches(E, o[d].inNodeId, o[d].outNodeId)
    BY DEF Sound
  <2> QED BY <1>4, <2>2, <2>3
<1> QED BY <1>1, <1>2, <1>3, <1>5 DEF Sound

\* What moving an end does to a connection.
LEMMA ShiftIs ==
  ASSUME NEW c \in ConnectionId, NEW side \in Sides, NEW by \in Int
  PROVE  /\ EndPort(side, Shift(c, side, by)) = EndPort(side, c) + by
         /\ \A s \in Sides : EndNode(s, Shift(c, side, by)) = EndNode(s, c)
         /\ \A s \in Sides : s # side => EndPort(s, Shift(c, side, by)) = EndPort(s, c)
         /\ Shift(Shift(c, side, by), side, -by) = c
<1>1. EndPort(side, c) \in Int /\ EndPort(side, c) + by + -by = EndPort(side, c)
  BY DEF ConnectionId, PortIndex, EndPort
<1>2. CASE side = "In"
  BY <1>1, <1>2 DEF Shift, EndPort, EndNode, ConnectionId, Sides
<1>3. CASE side # "In"
  BY <1>1, <1>3 DEF Shift, EndPort, EndNode, ConnectionId, Sides
<1> QED BY <1>2, <1>3

\* The ports with one list exchanged.
LEMMA EditedPorts ==
  ASSUME TypeOK, NEW n \in nodes, NEW side \in Sides, NEW layout
  PROVE  /\ DOMAIN [ports EXCEPT ![n][side] = layout] = nodes
         /\ \A k \in nodes, s \in Sides :
              [ports EXCEPT ![n][side] = layout][k][s] =
                IF k = n /\ s = side THEN layout ELSE ports[k][s]
BY DEF TypeOK

(* What both begin handlers owe the connections: one that stays sits below *)
(* the ports that change, and one that moves finds its own port where it   *)
(* goes, at or behind the first that changes.                              *)
LEMMA BeginDue ==
  ASSUME Inv, NEW n \in nodes, NEW side \in Sides, NEW first \in Int,
         NEW gone, NEW moving, NEW by \in Int, NEW layout,
         moving \subseteq conns,
         BeginEdit(n, side, first, gone, moving, by, layout),
         \A c \in conns \ (gone \cup moving) : EndNode(side, c) = n => EndPort(side, c) < first,
         first <= Len(layout), Len(layout) \in Nat,
         \A i \in 1 .. first : layout[i] = ports[n][side][i],
         \A c \in moving :
           /\ EndNode(side, c) = n
           /\ first <= EndPort(side, c) + by /\ EndPort(side, c) + by < Len(layout)
           /\ layout[EndPort(side, c) + by + 1] = ports[n][side][EndPort(side, c) + 1]
  PROVE  DueInv'
<1> DEFINE kept == conns \ (gone \cup moving)
           moved == {Shift(c, side, by) : c \in moving}
           due == kept \cup moved
           after == [ports EXCEPT ![n][side] = layout]
           o == [d \in due |-> IF d \in kept THEN d ELSE Shift(d, side, -by)]
<1>1. /\ conns' = kept /\ shifted' = moved /\ edit'.due = due /\ edit'.applied = FALSE
      /\ PortsAfter' = after
  BY DEF BeginEdit, PortsAfter
<1>2. /\ conns \subseteq ConnectionId /\ DOMAIN ports = nodes
      /\ \A c \in conns, s \in Sides : EndPort(s, c) \in Nat /\ EndNode(s, c) \in nodes
                                      /\ EndPort(s, c) < Len(ports[EndNode(s, c)][s])
  <2>1. conns \subseteq ConnectionId /\ DOMAIN ports = nodes
    BY DEF Inv, TypeOK
  <2>2. \A c \in conns, s \in Sides : EndPort(s, c) \in Nat
    BY <2>1 DEF ConnectionId, EndPort, PortIndex
  <2> QED BY <2>1, <2>2, SoundNow DEF Sound
<1>3. /\ DOMAIN after = nodes
      /\ \A k \in nodes, s \in Sides : after[k][s] = IF k = n /\ s = side THEN layout ELSE ports[k][s]
  BY EditedPorts DEF Inv
<1> HIDE DEF after
<1>4. ASSUME NEW d \in kept, NEW s \in Sides
      PROVE  /\ EndNode(s, d) \in DOMAIN after /\ EndPort(s, d) < Len(after[EndNode(s, d)][s])
             /\ PortOf(after, s, d) = PortOf(ports, s, d)
             /\ (s = side /\ EndNode(s, d) = n => EndPort(s, d) < first)
  <2>1. d \in conns /\ EndNode(s, d) \in nodes /\ EndPort(s, d) \in Nat
        /\ EndPort(s, d) < Len(ports[EndNode(s, d)][s])
    BY <1>2
  <2>2. CASE EndNode(s, d) = n /\ s = side
    <3>1. EndPort(s, d) < first /\ after[EndNode(s, d)][s] = layout
      BY <1>3, <2>1, <2>2
    <3>2. EndPort(s, d) + 1 \in 1 .. first
      BY <2>1, <3>1
    <3>3. layout[EndPort(s, d) + 1] = ports[n][side][EndPort(s, d) + 1]
      BY <3>2
    <3>4. EndPort(s, d) < Len(layout)
      BY <2>1, <3>1
    <3> QED BY <1>3, <2>1, <2>2, <3>1, <3>3, <3>4 DEF PortOf
  <2>3. CASE ~(EndNode(s, d) = n /\ s = side)
    <3>1. after[EndNode(s, d)][s] = ports[EndNode(s, d)][s]
      BY <1>3, <2>1, <2>3
    <3> QED BY <1>3, <2>1, <2>3, <3>1 DEF PortOf
  <2> QED BY <2>2, <2>3
<1>5. ASSUME NEW c \in moving
      PROVE  /\ c \in conns /\ c \in ConnectionId
             /\ Shift(Shift(c, side, by), side, -by) = c
             /\ EndNode(side, Shift(c, side, by)) = n
             /\ EndPort(side, Shift(c, side, by)) = EndPort(side, c) + by
             /\ EndPort(side, Shift(c, side, by)) >= first
             /\ \A s \in Sides : s # side => EndPort(s, Shift(c, side, by)) = EndPort(s, c)
             /\ \A s \in Sides :
                  /\ EndNode(s, Shift(c, side, by)) = EndNode(s, c)
                  /\ EndNode(s, c) \in DOMAIN after
                  /\ EndPort(s, Shift(c, side, by)) < Len(after[EndNode(s, c)][s])
                  /\ PortOf(after, s, Shift(c, side, by)) = PortOf(ports, s, c)
  <2> DEFINE d == Shift(c, side, by)
  <2>1. c \in conns /\ c \in ConnectionId
    BY <1>2
  <2>2. /\ EndPort(side, d) = EndPort(side, c) + by
        /\ \A s \in Sides : EndNode(s, d) = EndNode(s, c)
        /\ \A s \in Sides : s # side => EndPort(s, d) = EndPort(s, c)
        /\ Shift(d, side, -by) = c
    BY <2>1, ShiftIs
  <2> HIDE DEF d
  <2>3. EndNode(side, c) = n /\ first <= EndPort(side, d) /\ EndPort(side, d) < Len(layout)
        /\ layout[EndPort(side, d) + 1] = ports[n][side][EndPort(side, c) + 1]
    BY <2>2
  <2>4. ASSUME NEW s \in Sides
        PROVE  /\ EndNode(s, c) \in DOMAIN after /\ EndPort(s, d) < Len(after[EndNode(s, c)][s])
               /\ PortOf(after, s, d) = PortOf(ports, s, c)
    <3>1. EndNode(s, c) \in nodes /\ EndPort(s, c) < Len(ports[EndNode(s, c)][s])
      BY <1>2, <2>1
    <3>2. CASE s = side
      <4>1. after[n][s] = layout
        BY <1>3, <3>2
      <4> QED BY <1>3, <2>2, <2>3, <3>1, <3>2, <4>1 DEF PortOf
    <3>3. CASE s # side
      <4>1. after[EndNode(s, c)][s] = ports[EndNode(s, c)][s] /\ EndPort(s, d) = EndPort(s, c)
        BY <1>3, <2>2, <3>1, <3>3
      <4> QED BY <1>3, <2>2, <3>1, <4>1 DEF PortOf
    <3> QED BY <3>2, <3>3
  <2>5. EndNode(side, d) = n /\ EndPort(side, d) >= first
    BY <1>2, <2>1, <2>2, <2>3
  <2> QED BY <2>1, <2>2, <2>4, <2>5 DEF d
<1>6. ASSUME NEW d \in due
      PROVE  \/ d \in kept /\ o[d] = d
             \/ d \notin kept /\ \E c \in moving : d = Shift(c, side, by) /\ o[d] = c
  <2>1. CASE d \in kept
    BY <2>1
  <2>2. CASE d \notin kept
    <3>1. PICK c \in moving : d = Shift(c, side, by)
      BY <2>2
    <3>2. o[d] = Shift(d, side, -by)
      BY <2>2
    <3>3. Shift(d, side, -by) = c
      BY <3>1, <1>5
    <3> QED BY <2>2, <3>1, <3>2, <3>3
  <2> QED BY <2>1, <2>2
<1>7. o \in [due -> conns]
  <2>1. \A d \in due : o[d] \in conns
    BY <1>5, <1>6
  <2>2. o = [d \in due |-> o[d]]
    OBVIOUS
  <2> HIDE DEF o, due
  <2> QED BY <2>1, <2>2
<1> HIDE DEF o, due, kept, moved
<1>8. ASSUME NEW d \in due PROVE StandsFor(o, d, ports, after)
  <2>1. CASE d \in kept /\ o[d] = d
    BY <1>4, <2>1 DEF StandsFor
  <2>2. CASE \E c \in moving : d = Shift(c, side, by) /\ o[d] = c
    BY <1>5, <2>2 DEF StandsFor
  <2> QED BY <1>6, <2>1, <2>2
<1>9. ASSUME NEW d \in due, NEW e \in due, NEW s \in Sides,
             EndNode(s, d) = EndNode(s, e), EndPort(s, d) = EndPort(s, e)
      PROVE  EndPort(s, o[d]) = EndPort(s, o[e])
  <2>1. \A c \in due : \/ c \in kept /\ o[c] = c /\ (s = side /\ EndNode(s, c) = n => EndPort(s, c) < first)
                       \/ /\ s = side /\ EndNode(s, c) = n /\ EndPort(s, c) >= first
                          /\ EndPort(s, c) = EndPort(s, o[c]) + by
                       \/ s # side /\ EndPort(s, o[c]) = EndPort(s, c)
    <3> SUFFICES ASSUME NEW c \in due
                 PROVE  \/ c \in kept /\ o[c] = c /\ (s = side /\ EndNode(s, c) = n => EndPort(s, c) < first)
                        \/ /\ s = side /\ EndNode(s, c) = n /\ EndPort(s, c) >= first
                           /\ EndPort(s, c) = EndPort(s, o[c]) + by
                        \/ s # side /\ EndPort(s, o[c]) = EndPort(s, c)
      OBVIOUS
    <3>1. CASE c \in kept /\ o[c] = c
      BY <1>4, <3>1
    <3>2. CASE \E b \in moving : c = Shift(b, side, by) /\ o[c] = b
      BY <1>5, <3>2
    <3> QED BY <1>6, <3>1, <3>2
  <2>2. \A c \in due : EndPort(s, o[c]) \in Int
    BY <1>2, <1>7
  <2>3. CASE s = side /\ EndNode(s, d) = n
    <3>1. CASE EndPort(s, d) < first
      <4>1. o[d] = d /\ o[e] = e
        BY <1>9, <2>1, <2>2, <2>3, <3>1
      <4> QED BY <1>9, <4>1
    <3>2. CASE ~(EndPort(s, d) < first)
      <4>1. EndPort(s, d) = EndPort(s, o[d]) + by /\ EndPort(s, e) = EndPort(s, o[e]) + by
        BY <1>9, <2>1, <2>3, <3>2
      <4>2. EndPort(s, o[d]) + by = EndPort(s, o[e]) + by
        BY <1>9, <4>1
      <4> QED BY <2>2, <4>2
    <3> QED BY <3>1, <3>2
  <2>4. CASE ~(s = side /\ EndNode(s, d) = n)
    BY <1>9, <2>1, <2>4
  <2> QED BY <2>3, <2>4
<1>10. ASSUME NEW d \in due, NEW e \in due, o[d] = o[e] PROVE d = e
  <2>1. \A c \in due : o[c] \in kept => c \in kept
    BY <1>6 DEF kept
  <2>2. \A c \in due : c \in kept => o[c] = c
    BY <1>6
  <2>3. \A c \in due : c \notin kept => c = Shift(o[c], side, by)
    BY <1>6
  <2> QED BY <1>10, <2>1, <2>2, <2>3
<1>11. Sound(conns, ports)
  BY SoundNow
<1>12. Sound(due, after)
  BY <1>7, <1>8, <1>9, <1>10, <1>11, MovedSound
<1> QED BY <1>1, <1>12 DEF DueInv, due

\* Deleting ports: what sits behind them moves down with its port.
LEMMA portsAboutToBeDeletedDue ==
  ASSUME Inv, NEW n \in NodeId, NEW side \in Sides, NEW first \in PortIndex,
         NEW last \in 0 .. MaxPorts, portsAboutToBeDeleted(n, side, first, last)
  PROVE  DueInv'
<1> DEFINE count == portCount(n, side)
           end == IF last < count - 1 THEN last ELSE count - 1
           by == end - first + 1
           gone == OnPorts(n, side, first, end)
           moving == OnPorts(n, side, end + 1, count - 1)
           layout == [i \in 1 .. count - by |->
                        ports[n][side][IF i <= first THEN i ELSE i + by]]
<1>1. /\ n \in nodes /\ first < count /\ first <= last
      /\ BeginEdit(n, side, first, gone, moving, -by, layout)
  BY DEF portsAboutToBeDeleted, nodeExists
<1>2. /\ ports[n][side] \in Seq(Port) /\ count = Len(ports[n][side])
      /\ count \in Nat /\ count <= MaxPorts
  BY <1>1 DEF Inv, TypeOK, portCount, nodeExists
<1>3. /\ first \in Nat /\ last \in Nat /\ MaxPorts \in Nat
      /\ end \in first .. count - 1 /\ by \in 1 .. count - first
  <2>1. first \in Nat /\ last \in Nat /\ MaxPorts \in Nat
    BY IdAssumption DEF PortIndex
  <2>2. end \in first .. count - 1
    BY <1>1, <1>2, <2>1
  <2> HIDE DEF end
  <2>3. by \in 1 .. count - first
    BY <1>2, <2>1, <2>2
  <2> QED BY <2>1, <2>2, <2>3
<1>4. \A c \in conns : EndPort(side, c) \in Nat /\ (EndNode(side, c) = n => EndPort(side, c) < count)
  BY <1>1, <1>2 DEF Inv, TypeOK, ConnectionId, PortIndex, EndPort, NoDangling, portCount, nodeExists
<1>5. by = end - first + 1
  OBVIOUS
<1> HIDE DEF count, end, by
<1>6. /\ Len(layout) = count - by /\ Len(layout) \in Nat /\ first <= count - by
      /\ \A i \in 1 .. first : layout[i] = ports[n][side][i]
      /\ \A i \in first + 1 .. count - by : layout[i] = ports[n][side][i + by]
  <2>1. count - by \in Nat /\ first <= count - by
    BY <1>2, <1>3
  <2>2. \A i \in 1 .. first : i \in 1 .. count - by
    BY <1>3, <2>1
  <2>3. \A i \in first + 1 .. count - by : i \in 1 .. count - by /\ ~(i <= first)
    BY <1>3, <2>1
  <2>4. Len(layout) = count - by
    BY <2>1
  <2>5. \A i \in 1 .. first : layout[i] = ports[n][side][i]
    BY <1>3, <2>2
  <2>6. \A i \in first + 1 .. count - by : layout[i] = ports[n][side][i + by]
    BY <2>3
  <2> QED BY <2>1, <2>4, <2>5, <2>6
<1> HIDE DEF layout
<1>7. ASSUME NEW c \in conns \ (gone \cup moving), EndNode(side, c) = n
      PROVE  EndPort(side, c) < first
  <2>1. c \in conns /\ EndPort(side, c) \notin first .. end /\ EndPort(side, c) \notin end + 1 .. count - 1
    BY <1>7 DEF OnPorts
  <2>2. EndPort(side, c) \in Nat /\ EndPort(side, c) < count
    BY <1>4, <1>7
  <2> QED BY <1>2, <1>3, <2>1, <2>2
<1>8. ASSUME NEW c \in moving
      PROVE  /\ EndNode(side, c) = n
             /\ first <= EndPort(side, c) + -by /\ EndPort(side, c) + -by < Len(layout)
             /\ layout[EndPort(side, c) + -by + 1] = ports[n][side][EndPort(side, c) + 1]
  <2> DEFINE port == EndPort(side, c)
  <2>1. EndNode(side, c) = n /\ port \in end + 1 .. count - 1
    BY DEF OnPorts
  <2> HIDE DEF port
  <2>2. /\ port \in Nat /\ first <= port + -by /\ port + -by < count - by
    BY <1>2, <1>3, <1>5, <2>1
  <2>3. port + -by + 1 \in first + 1 .. count - by /\ (port + -by + 1) + by = port + 1
    BY <1>2, <1>3, <2>2
  <2>4. layout[port + -by + 1] = ports[n][side][port + 1]
    BY <1>6, <2>3
  <2> QED BY <1>6, <2>1, <2>2, <2>4 DEF port
<1>9. moving \subseteq conns
  BY DEF OnPorts
<1>10. -by \in Int /\ first \in Int /\ first <= Len(layout)
  BY <1>2, <1>3, <1>6
<1> HIDE DEF gone, moving
<1> QED BY <1>1, <1>6, <1>7, <1>8, <1>9, <1>10, BeginDue

\* Inserting ports: what sits at their place or behind moves up with its port.
LEMMA portsAboutToBeInsertedDue ==
  ASSUME Inv, NEW n \in NodeId, NEW side \in Sides, NEW first \in PortIndex,
         NEW number \in 1 .. MaxPorts, NEW p \in NewPort,
         portsAboutToBeInserted(n, side, first, number, p)
  PROVE  DueInv'
<1> DEFINE count == portCount(n, side)
           moving == OnPorts(n, side, first, count - 1)
           layout == [i \in 1 .. count + number |->
                        IF i <= first THEN ports[n][side][i]
                        ELSE IF i <= first + number THEN p
                        ELSE ports[n][side][i - number]]
<1>1. /\ n \in nodes /\ first <= count
      /\ BeginEdit(n, side, first, {}, moving, number, layout)
  BY DEF portsAboutToBeInserted, nodeExists
<1>2. /\ count \in Nat /\ first \in Nat /\ number \in Nat
  BY <1>1, IdAssumption DEF Inv, TypeOK, portCount, nodeExists, PortIndex
<1>3. \A c \in conns : EndPort(side, c) \in Nat /\ (EndNode(side, c) = n => EndPort(side, c) < count)
  BY <1>1, <1>2 DEF Inv, TypeOK, ConnectionId, PortIndex, EndPort, NoDangling, portCount, nodeExists
<1> HIDE DEF count
<1>4. /\ Len(layout) = count + number /\ Len(layout) \in Nat
      /\ \A i \in 1 .. first : layout[i] = ports[n][side][i]
      /\ \A i \in first + number + 1 .. count + number : layout[i] = ports[n][side][i - number]
  BY <1>1, <1>2
<1> HIDE DEF layout
<1>5. ASSUME NEW c \in conns, c \notin moving, EndNode(side, c) = n
      PROVE  EndPort(side, c) < first
  <2>1. EndPort(side, c) \notin first .. count - 1
    BY <1>5 DEF OnPorts
  <2>2. EndPort(side, c) \in Nat /\ EndPort(side, c) < count
    BY <1>3, <1>5
  <2> QED BY <1>2, <2>1, <2>2
<1>6. ASSUME NEW c \in moving
      PROVE  /\ EndNode(side, c) = n
             /\ first <= EndPort(side, c) + number /\ EndPort(side, c) + number < Len(layout)
             /\ layout[EndPort(side, c) + number + 1] = ports[n][side][EndPort(side, c) + 1]
  <2> DEFINE port == EndPort(side, c)
  <2>1. EndNode(side, c) = n /\ port \in first .. count - 1
    BY DEF OnPorts
  <2> HIDE DEF port
  <2>2. port \in Nat /\ first <= port + number /\ port + number < count + number
    BY <1>2, <2>1
  <2>3. port + number + 1 \in first + number + 1 .. count + number
        /\ (port + number + 1) - number = port + 1
    BY <1>2, <2>1, <2>2
  <2>4. layout[port + number + 1] = ports[n][side][port + 1]
    BY <1>4, <2>3
  <2> QED BY <1>4, <2>1, <2>2, <2>4 DEF port
<1>7. moving \subseteq conns
  BY DEF OnPorts
<1>8. number \in Int /\ first \in Int /\ first <= Len(layout)
  BY <1>1, <1>2, <1>4
<1> HIDE DEF moving
<1>9. \A nothing : nothing = {} => DueInv'
  <2> SUFFICES ASSUME NEW nothing, nothing = {} PROVE DueInv'
    OBVIOUS
  <2>1. BeginEdit(n, side, first, nothing, moving, number, layout)
    BY <1>1
  <2>2. \A c \in conns \ (nothing \cup moving) : EndNode(side, c) = n => EndPort(side, c) < first
    BY <1>5
  <2> QED BY <1>1, <1>4, <1>6, <1>7, <1>8, <2>1, <2>2, BeginDue
<1> QED BY <1>9

\* The delegate's ports become the ones the edit was made for.
LEMMA applyEditDue ==
  ASSUME Inv, DueInv, applyEdit
  PROVE  DueInv'
<1>1. /\ edit # None /\ ~edit.applied /\ UNCHANGED <<conns, shifted>>
      /\ ports' = [ports EXCEPT ![edit.node][edit.side] = edit.layout]
      /\ edit' = [edit EXCEPT !.applied = TRUE]
  BY DEF applyEdit
<1>2. edit'.applied = TRUE /\ edit'.due = edit.due
  BY <1>1 DEF Inv, TypeOK
<1>3. PortsAfter' = PortsAfter
  BY <1>1, <1>2 DEF PortsAfter
<1>4. conns \cup shifted = edit.due /\ Sound(edit.due, PortsAfter)
  BY <1>1 DEF DueInv
<1>5. conns' \cup shifted' = edit'.due /\ Sound(edit'.due, PortsAfter')
  BY <1>1, <1>2, <1>3, <1>4
<1> QED BY <1>5 DEF DueInv

(* A connection that is due is admitted: nothing else sits on its ports,   *)
(* which are there again, and it closes no loop with the others.           *)
LEMMA restoreShiftedDue ==
  ASSUME Inv, DueInv, NEW c \in ConnectionId, restoreShifted(c)
  PROVE  DueInv'
<1>1. /\ edit # None /\ edit.applied /\ c \in shifted /\ Connect(c)
      /\ shifted' = shifted \ {c} /\ UNCHANGED <<nodes, ports, edit>>
  BY DEF restoreShifted
<1>2. conns \cup shifted = edit.due /\ Sound(edit.due, ports) /\ c \in edit.due
  BY <1>1 DEF DueInv, PortsAfter
<1>3. DOMAIN ports = nodes /\ conns \subseteq edit.due
  BY <1>2 DEF Inv, TypeOK
<1>4. \A side \in Sides : /\ EndNode(side, c) \in nodes
                          /\ EndPort(side, c) < Len(ports[EndNode(side, c)][side])
  BY <1>2, <1>3 DEF Sound
<1>5. ASSUME c \notin conns PROVE connectionPossible(c, {})
  <2>1. nodeExists(c.outNodeId) /\ nodeExists(c.inNodeId)
    BY <1>4 DEF Sides, EndNode, nodeExists
  <2>2. \A side \in Sides : EndPort(side, c) < portCount(EndNode(side, c), side)
    BY <1>4 DEF portCount, nodeExists
  <2>3. portAt("Out", c).type = portAt("In", c).type
    BY <1>2 DEF Sound, PortOf, portAt
  <2>4. ASSUME NEW side \in Sides PROVE portVacant(side, c, {})
    <3>1. portAt(side, c) \in Port
      <4>1. ports[EndNode(side, c)][side] \in Seq(Port) /\ EndPort(side, c) \in Nat
        BY <1>4 DEF Inv, TypeOK, ConnectionId, PortIndex, EndPort
      <4> QED BY <1>4, <4>1 DEF portAt
    <3>2. portAt(side, c).policy \in {"One", "Many"}
      BY <3>1 DEF Port
    <3>3. CASE portAt(side, c).policy = "One"
      <4>1. PortOf(ports, side, c).policy = "One"
        BY <3>3 DEF PortOf, portAt
      <4>2. \A d \in conns : EndNode(side, c) = EndNode(side, d) /\ EndPort(side, c) = EndPort(side, d)
                                => c = d
        BY <1>2, <1>3, <4>1 DEF Sound
      <4>3. connectionsAt(side, EndNode(side, c), EndPort(side, c)) = {}
        BY <1>5, <4>2 DEF connectionsAt
      <4> QED BY <4>3 DEF portVacant
    <3> QED BY <3>2, <3>3 DEF portVacant
  <2>5. basicChecks(c, {})
    BY <1>5, <2>1, <2>2, <2>3, <2>4 DEF basicChecks
  <2>6. ~Reaches(conns, c.inNodeId, c.outNodeId)
    BY <1>2, <1>3, ReachesMore DEF Sound
  <2> QED BY <2>5, <2>6, LoopAnswerRight DEF connectionPossible
<1>6. conns' = conns \cup {c}
  BY <1>1, <1>5 DEF Connect
<1>7. PortsAfter' = PortsAfter
  BY <1>1 DEF PortsAfter
<1>8. conns' \cup shifted' = edit'.due
  BY <1>1, <1>2, <1>6
<1> QED BY <1>1, <1>7, <1>8 DEF DueInv

LEMMA DueInductive == Inv /\ DueInv /\ [Next]_vars => DueInv'
<1> SUFFICES ASSUME Inv, DueInv, [Next]_vars PROVE DueInv'
  OBVIOUS
<1>1. ASSUME edit' = None PROVE DueInv'
  BY <1>1 DEF DueInv
<1>2. ASSUME UNCHANGED <<ports, conns, shifted, edit>> PROVE DueInv'
  BY <1>2 DEF DueInv, PortsAfter
<1>3. ASSUME NEW m \in Model, addNode(m) PROVE DueInv'
  BY <1>1, <1>3 DEF addNode, Idle
<1>4. ASSUME NEW n \in NodeId, NEW m \in Model, NEW f \in {"none", "malformed", "delegate"},
             loadNode(n, m, f)
      PROVE  DueInv'
  BY <1>1, <1>4 DEF loadNode, Idle
<1>5. ASSUME NEW n \in NodeId, deleteNode(n) PROVE DueInv'
  BY <1>1, <1>5 DEF deleteNode, Idle
<1>6. ASSUME NEW c \in ConnectionId, askPossible(c) PROVE DueInv'
  BY <1>2, <1>6 DEF askPossible
<1>7. ASSUME NEW c \in ConnectionId, addConnection(c) \/ deleteConnection(c) PROVE DueInv'
  BY <1>1, <1>7 DEF addConnection, deleteConnection, Idle
<1>8. ASSUME NEW removed \in SUBSET conns, NEW c \in ConnectionId, replaceConnection(removed, c)
      PROVE  DueInv'
  BY <1>1, <1>8 DEF replaceConnection, Idle
<1>9. ASSUME NEW n \in NodeId, NEW side \in Sides, NEW first \in PortIndex,
             NEW last \in 0 .. MaxPorts, portsAboutToBeDeleted(n, side, first, last)
      PROVE  DueInv'
  BY <1>9, portsAboutToBeDeletedDue
<1>10. ASSUME NEW n \in NodeId, NEW side \in Sides, NEW first \in PortIndex,
              NEW k \in 1 .. MaxPorts, NEW p \in NewPort,
              portsAboutToBeInserted(n, side, first, k, p)
       PROVE  DueInv'
  BY <1>10, portsAboutToBeInsertedDue
<1>11. CASE applyEdit
  BY <1>11, applyEditDue
<1>12. ASSUME NEW c \in ConnectionId, restoreShifted(c) PROVE DueInv'
  BY <1>12, restoreShiftedDue
<1>13. CASE portsChanged
  BY <1>1, <1>13 DEF portsChanged
<1>14. CASE UNCHANGED vars
  BY <1>2, <1>14 DEF vars
<1> QED BY <1>3, <1>4, <1>5, <1>6, <1>7, <1>8, <1>9, <1>10, <1>11, <1>12, <1>13, <1>14 DEF Next

(* However a delegate inserts or deletes ports, on a node with however     *)
(* many connections: each connection behind the changed ports moves with   *)
(* its port, and none is refused by the checks when it is put back.        *)
THEOREM PortEditsLoseNothing == Spec => []PortEditKeepsConnections
<1>1. Init => DueInv
  BY DEF Init, DueInv
<1>2. DueInv => PortEditKeepsConnections
  BY DEF DueInv, PortEditKeepsConnections
<1> QED BY <1>1, <1>2, InvHolds, DueInductive, PTL DEF Spec

-----------------------------------------------------------------------------
(* LoopSearch: the search answers what hasLoops() is taken for, on every   *)
(* graph.                                                                  *)

Members(s) == {s[i] : i \in DOMAIN s}

\* Popping loses no entry of the stack but its top.
LEMMA MembersOfTail ==
  ASSUME NEW S, NEW s \in Seq(S), s # <<>>
  PROVE  /\ Head(s) \in S /\ Head(s) \in Members(s) /\ Tail(s) \in Seq(S)
         /\ Members(s) \subseteq {Head(s)} \cup Members(Tail(s))
         /\ Members(Tail(s)) \subseteq Members(s)
<1>1. /\ Len(s) \in Nat \ {0} /\ Head(s) = s[1] /\ Tail(s) \in Seq(S)
      /\ Len(Tail(s)) = Len(s) - 1 /\ \A i \in 1 .. Len(s) - 1 : Tail(s)[i] = s[i + 1]
  OBVIOUS
<1>2. DOMAIN s = 1 .. Len(s) /\ DOMAIN Tail(s) = 1 .. Len(s) - 1
  BY <1>1
<1>3. Members(s) \subseteq {Head(s)} \cup Members(Tail(s))
  <2> SUFFICES ASSUME NEW i \in 1 .. Len(s), i # 1 PROVE s[i] \in Members(Tail(s))
    BY <1>1, <1>2 DEF Members
  <2>1. i - 1 \in 1 .. Len(s) - 1 /\ Tail(s)[i - 1] = s[i]
    BY <1>1
  <2> QED BY <1>2, <2>1 DEF Members
<1>4. Members(Tail(s)) \subseteq Members(s)
  BY <1>1, <1>2 DEF Members
<1> QED BY <1>1, <1>2, <1>3, <1>4 DEF Members

\* Pushing adds the pushed entries and no others.
LEMMA MembersOfConcat ==
  ASSUME NEW S, NEW s \in Seq(S), NEW t \in Seq(S)
  PROVE  Members(s \o t) = Members(s) \cup Members(t) /\ s \o t \in Seq(S)
<1>1. /\ s \o t \in Seq(S) /\ Len(s \o t) = Len(s) + Len(t)
      /\ Len(s) \in Nat /\ Len(t) \in Nat
      /\ \A i \in 1 .. Len(s) + Len(t) :
           (s \o t)[i] = IF i <= Len(s) THEN s[i] ELSE t[i - Len(s)]
  OBVIOUS
<1>2. DOMAIN s = 1 .. Len(s) /\ DOMAIN t = 1 .. Len(t) /\ DOMAIN (s \o t) = 1 .. Len(s) + Len(t)
  BY <1>1
<1>3. Members(s \o t) \subseteq Members(s) \cup Members(t)
  <2> SUFFICES ASSUME NEW i \in 1 .. Len(s) + Len(t)
               PROVE  (s \o t)[i] \in Members(s) \cup Members(t)
    BY <1>2 DEF Members
  <2>1. CASE i <= Len(s)
    <3>1. i \in 1 .. Len(s) /\ (s \o t)[i] = s[i]
      BY <1>1, <2>1
    <3> QED BY <1>2, <3>1 DEF Members
  <2>2. CASE ~(i <= Len(s))
    <3>1. i - Len(s) \in 1 .. Len(t) /\ (s \o t)[i] = t[i - Len(s)]
      BY <1>1, <2>2
    <3> QED BY <1>2, <3>1 DEF Members
  <2> QED BY <2>1, <2>2
<1>4. Members(s) \subseteq Members(s \o t)
  <2> SUFFICES ASSUME NEW i \in 1 .. Len(s) PROVE s[i] \in Members(s \o t)
    BY <1>2 DEF Members
  <2>1. i \in 1 .. Len(s) + Len(t) /\ (s \o t)[i] = s[i]
    BY <1>1
  <2> QED BY <1>2, <2>1 DEF Members
<1>5. Members(t) \subseteq Members(s \o t)
  <2> SUFFICES ASSUME NEW i \in 1 .. Len(t) PROVE t[i] \in Members(s \o t)
    BY <1>2 DEF Members
  <2>1. i + Len(s) \in 1 .. Len(s) + Len(t) /\ (s \o t)[i + Len(s)] = t[i]
    BY <1>1
  <2> QED BY <1>2, <2>1 DEF Members
<1> QED BY <1>1, <1>3, <1>4, <1>5

\* There are finitely many connections, so Expand can list some.
LEMMA FiniteConnectionId == IsFiniteSet(ConnectionId)
<1> DEFINE End == NodeId \X PortIndex
           id == [e \in End \X End |-> [outNodeId |-> e[1][1], outPortIndex |-> e[1][2],
                                       inNodeId |-> e[2][1], inPortIndex |-> e[2][2]]]
<1>1. IsFiniteSet(NodeId) /\ IsFiniteSet(PortIndex)
  BY IdAssumption, FS_Interval DEF NodeId, PortIndex
<1>2. IsFiniteSet(End \X End)
  BY <1>1, FS_Product
<1>3. id \in Surjection(End \X End, ConnectionId)
  <2>1. id \in [End \X End -> ConnectionId]
    BY DEF ConnectionId
  <2>2. ASSUME NEW c \in ConnectionId PROVE \E e \in End \X End : id[e] = c
    <3> DEFINE e == <<<<c.outNodeId, c.outPortIndex>>, <<c.inNodeId, c.inPortIndex>>>>
    <3>1. e \in End \X End
      BY DEF ConnectionId
    <3>2. id[e] = c
      BY <3>1 DEF ConnectionId
    <3> QED BY <3>1, <3>2
  <2> QED BY <2>1, <2>2 DEF Surjection
<1> QED BY <1>2, <1>3, FS_Surjection

-----------------------------------------------------------------------------
Edges == Walked(asked.replaced)
Found == visited \cup Members(filo)

SearchTypeOK ==
  /\ conns \subseteq ConnectionId
  /\ asked.c \in ConnectionId
  /\ filo \in Seq(NodeId)
  /\ visited \subseteq NodeId

(* While the search runs, the visited nodes are closed but for what is on  *)
(* the stack, and the start reaches all that was found.                    *)
SearchInv ==
  /\ SearchTypeOK
  /\ AnswerIsReachability
  /\ answer = None =>
       /\ asked.c.inNodeId \in Found
       /\ \A d \in Edges : d.outNodeId \in visited => d.inNodeId \in Found
       /\ asked.c.outNodeId \notin visited
       /\ \A n \in Found : Reaches(Edges, asked.c.inNodeId, n)

\* What follows from a node in reach is in reach.
LEMMA ReachesNext ==
  ASSUME NEW E, NEW a, NEW d \in E, Reaches(E, a, d.outNodeId)
  PROVE  Reaches(E, a, d.inNodeId)
BY DEF Reaches

\* The search starts with the in node on the stack.
LEMMA SearchInitInv == SearchInit => SearchInv
<1> SUFFICES ASSUME SearchInit PROVE SearchInv
  OBVIOUS
<1>1. /\ asked.c \in ConnectionId /\ filo = <<asked.c.inNodeId>> /\ visited = {} /\ answer = None
      /\ conns \subseteq ConnectionId
  BY DEF SearchInit
<1>2. asked.c.inNodeId \in NodeId
  BY <1>1 DEF ConnectionId
<1>3. SearchTypeOK
  BY <1>1, <1>2 DEF SearchTypeOK
<1>4. Found = {asked.c.inNodeId}
  BY <1>1 DEF Found, Members
<1>5. Reaches(Edges, asked.c.inNodeId, asked.c.inNodeId)
  BY DEF Reaches
<1> QED BY <1>1, <1>3, <1>4, <1>5 DEF SearchInv, AnswerIsReachability

(* What every turn of the loop starts from.                                *)
LEMMA TopOfStack ==
  ASSUME SearchInv, answer = None, filo # <<>>
  PROVE  /\ Head(filo) \in NodeId /\ Tail(filo) \in Seq(NodeId)
         /\ Found = visited \cup {Head(filo)} \cup Members(Tail(filo))
         /\ Reaches(Edges, asked.c.inNodeId, Head(filo))
<1>1. filo \in Seq(NodeId)
  BY DEF SearchInv, SearchTypeOK
<1> QED BY <1>1, MembersOfTail DEF SearchInv, Found

\* A visited node on the stack may be dropped.
LEMMA SkipVisitedInv ==
  ASSUME SearchInv, SkipVisited, UNCHANGED vars
  PROVE  SearchInv'
<1>1. /\ answer = None /\ filo # <<>> /\ Head(filo) \in visited /\ filo' = Tail(filo)
      /\ UNCHANGED <<asked, visited, answer>> /\ UNCHANGED <<nodes, ports, conns>>
  BY DEF SkipVisited, vars
<1>2. Found' = Found
  BY <1>1, TopOfStack DEF Found, Members
<1>3. Edges' = Edges
  BY <1>1 DEF Edges, Walked, portCount, nodeExists
<1>4. SearchTypeOK'
  BY <1>1, TopOfStack DEF SearchInv, SearchTypeOK
<1> QED BY <1>1, <1>2, <1>3, <1>4 DEF SearchInv, AnswerIsReachability, Reaches

\* The out node has been found, and all found nodes are in reach.
LEMMA FindLoopInv ==
  ASSUME SearchInv, FindLoop, UNCHANGED vars
  PROVE  SearchInv'
<1>1. /\ answer = None /\ filo # <<>> /\ Head(filo) = asked.c.outNodeId /\ filo' = Tail(filo)
      /\ visited' = visited \cup {Head(filo)} /\ answer' = TRUE
      /\ asked' = asked /\ UNCHANGED <<nodes, ports, conns>>
  BY DEF FindLoop, vars
<1>2. hasLoops(asked.c, asked.replaced)' = hasLoops(asked.c, asked.replaced)
  BY <1>1 DEF hasLoops, Reaches, Walked, portCount, nodeExists
<1>3. hasLoops(asked.c, asked.replaced) = TRUE
  BY <1>1, TopOfStack DEF hasLoops, Edges, Reaches
<1>4. SearchTypeOK'
  BY <1>1, TopOfStack DEF SearchInv, SearchTypeOK
<1>5. AnswerIsReachability'
  BY <1>1, <1>2, <1>3 DEF AnswerIsReachability
<1>6. answer' # None
  BY <1>1, NoAnswerAssumption
<1> QED BY <1>4, <1>5, <1>6 DEF SearchInv

\* All that follows from the expanded node gets on the stack.
LEMMA ExpandInv ==
  ASSUME SearchInv, Expand, UNCHANGED vars
  PROVE  SearchInv'
<1> DEFINE top == Head(filo)
<1>1. PICK s \in PushOrders(top) : filo' = [i \in DOMAIN s |-> s[i].inNodeId] \o Tail(filo)
  BY DEF Expand
<1> DEFINE pushed == [i \in DOMAIN s |-> s[i].inNodeId]
<1>2. /\ answer = None /\ filo # <<>> /\ top # asked.c.outNodeId
      /\ visited' = visited \cup {top} /\ answer' = None
      /\ asked' = asked /\ UNCHANGED <<nodes, ports, conns>>
  BY DEF Expand, vars
<1>3. /\ DOMAIN s = 1 .. Cardinality(OutConnections(top))
      /\ \A i \in DOMAIN s : s[i] \in OutConnections(top)
      /\ \A c \in OutConnections(top) : \E i \in DOMAIN s : s[i] = c
  BY DEF PushOrders
<1>4. OutConnections(top) = {c \in Edges : c.outNodeId = top} /\ Edges \subseteq ConnectionId
  BY DEF OutConnections, Edges, Walked, SearchInv, SearchTypeOK
<1>5. Members(pushed) = {c.inNodeId : c \in OutConnections(top)}
  BY <1>3 DEF Members
<1>6. pushed \in Seq(NodeId)
  <2>1. \A i \in DOMAIN s : s[i].inNodeId \in NodeId
    BY <1>3, <1>4 DEF ConnectionId
  <2>2. Cardinality(OutConnections(top)) \in Nat
    <3>1. IsFiniteSet(OutConnections(top))
      BY <1>4, FiniteConnectionId, FS_Subset
    <3> QED BY <3>1, FS_CardinalityType
  <2> QED BY <1>3, <2>1, <2>2
<1> HIDE DEF pushed, top
<1>7. /\ filo' \in Seq(NodeId) /\ Members(filo') = Members(pushed) \cup Members(Tail(filo))
      /\ top \in NodeId /\ Found = visited \cup {top} \cup Members(Tail(filo))
      /\ Reaches(Edges, asked.c.inNodeId, top)
  BY <1>1, <1>2, <1>6, TopOfStack, MembersOfConcat DEF pushed, top
<1>8. Edges' = Edges /\ Found' = Found \cup {c.inNodeId : c \in OutConnections(top)}
  BY <1>2, <1>5, <1>7 DEF Edges, Walked, portCount, nodeExists, Found
<1>9. SearchTypeOK'
  BY <1>2, <1>7 DEF SearchInv, SearchTypeOK
<1>10. \A n \in Found' : Reaches(Edges, asked.c.inNodeId, n)
  <2>1. \A n \in Found : Reaches(Edges, asked.c.inNodeId, n)
    BY <1>2 DEF SearchInv
  <2>2. ASSUME NEW c \in OutConnections(top) PROVE Reaches(Edges, asked.c.inNodeId, c.inNodeId)
    BY <1>4, <1>7, ReachesNext
  <2> QED BY <1>8, <2>1, <2>2
<1>11. \A d \in Edges : d.outNodeId \in visited' => d.inNodeId \in Found'
  BY <1>2, <1>4, <1>8 DEF SearchInv
<1>12. asked.c.outNodeId \notin visited' /\ asked.c.inNodeId \in Found'
  BY <1>2, <1>8 DEF SearchInv
<1>13. (\A n \in Found : Reaches(Edges, asked.c.inNodeId, n))'
  BY <1>2, <1>8, <1>10 DEF Reaches
<1> QED BY <1>2, <1>8, <1>9, <1>11, <1>12, <1>13 DEF SearchInv, AnswerIsReachability

\* With an empty stack the visited nodes are a closed set without the
\* out node.
LEMMA FindNoneInv ==
  ASSUME SearchInv, FindNone, UNCHANGED vars
  PROVE  SearchInv'
<1>1. /\ answer = None /\ filo = <<>> /\ answer' = FALSE
      /\ UNCHANGED <<asked, filo, visited>> /\ UNCHANGED <<nodes, ports, conns>>
  BY DEF FindNone, vars
<1>2. Found = visited
  BY <1>1 DEF Found, Members
<1>3. ~Reaches(Edges, asked.c.inNodeId, asked.c.outNodeId)
  BY <1>1, <1>2 DEF SearchInv, SearchTypeOK, Reaches
<1>4. hasLoops(asked.c, asked.replaced)' = FALSE
  BY <1>1, <1>3 DEF hasLoops, Edges, Reaches, Walked, portCount, nodeExists
<1>5. AnswerIsReachability' /\ answer' # None
  BY <1>1, <1>4, NoAnswerAssumption DEF AnswerIsReachability
<1>6. SearchTypeOK'
  BY <1>1 DEF SearchInv, SearchTypeOK
<1> QED BY <1>5, <1>6 DEF SearchInv

\* Every turn of the loop keeps the invariant.
LEMMA SearchIsInv == SearchSpec => []SearchInv
<1>1. SearchInv /\ [SearchNext]_<<vars, searchVars>> => SearchInv'
  <2> SUFFICES ASSUME SearchInv, [SearchNext]_<<vars, searchVars>> PROVE SearchInv'
    OBVIOUS
  <2>1. CASE SearchNext
    BY <2>1, SkipVisitedInv, FindLoopInv, ExpandInv, FindNoneInv DEF SearchNext, SearchStep
  <2>2. CASE UNCHANGED <<vars, searchVars>>
    <3>1. UNCHANGED <<nodes, ports, conns>> /\ UNCHANGED <<asked, filo, visited, answer>>
      BY <2>2 DEF vars, searchVars
    <3>2. /\ Edges' = Edges /\ Found' = Found
          /\ hasLoops(asked.c, asked.replaced)' = hasLoops(asked.c, asked.replaced)
      BY <3>1 DEF Edges, Found, Members, hasLoops, Reaches, Walked, portCount, nodeExists
    <3> QED BY <3>1, <3>2 DEF SearchInv, SearchTypeOK, AnswerIsReachability, Reaches
  <2> QED BY <2>1, <2>2
<1> QED BY <1>1, SearchInitInv, PTL DEF SearchSpec

(* For any graph, any candidate and any set of replaced connections, what  *)
(* the search returns is what the graph model takes hasLoops() for.        *)
THEOREM SearchIsRight == SearchSpec => []AnswerIsReachability
<1>1. SearchInv => AnswerIsReachability
  BY DEF SearchInv
<1> QED BY <1>1, SearchIsInv, PTL

-----------------------------------------------------------------------------
(* The bound of the stack.  A connection is pushed when the node it leaves *)
(* is expanded, which happens once: what is on the stack and what is still *)
(* to be pushed are together never more than the connections there are,    *)
(* but for the start, which nothing has pushed.                            *)
Unpushed == {c \in Edges : c.outNodeId \notin visited}

StackInv ==
  \/ Len(filo) = 1 /\ visited = {}
  \/ Len(filo) + Cardinality(Unpushed) <= Cardinality(conns)

\* The sets that are counted are finite.
LEMMA Counted ==
  ASSUME SearchTypeOK, NEW S \in SUBSET conns
  PROVE  IsFiniteSet(S) /\ Cardinality(S) \in Nat /\ Cardinality(conns) \in Nat
         /\ Cardinality(S) <= Cardinality(conns)
<1>1. IsFiniteSet(conns)
  BY FiniteConnectionId, FS_Subset DEF SearchTypeOK
<1> QED BY <1>1, FS_Subset, FS_CardinalityType

\* Pushing the connections of a node takes them off those still to be pushed.
LEMMA PushedOnce ==
  ASSUME SearchTypeOK, NEW n, n \notin visited, visited' = visited \cup {n},
         UNCHANGED <<nodes, ports, conns, asked>>
  PROVE  /\ Cardinality(OutConnections(n)) \in Nat /\ Cardinality(Unpushed) \in Nat
         /\ Cardinality(Unpushed') \in Nat /\ Cardinality(Unpushed) <= Cardinality(conns)
         /\ Cardinality(OutConnections(n)) + Cardinality(Unpushed') = Cardinality(Unpushed)
<1>1. /\ Unpushed' = {c \in Unpushed : c.outNodeId # n}
      /\ OutConnections(n) = {c \in Unpushed : c.outNodeId = n}
      /\ Unpushed \subseteq conns
  BY DEF Unpushed, Edges, Walked, OutConnections, portCount, nodeExists
<1> DEFINE U == Unpushed
           V == Unpushed'
           W == OutConnections(n)
<1>2. V \cup W = U /\ V \cap W = {} /\ U \subseteq conns /\ V \subseteq conns /\ W \subseteq conns
  BY <1>1
<1> HIDE DEF U, V, W
<1>3. /\ IsFiniteSet(V) /\ IsFiniteSet(W) /\ Cardinality(U) \in Nat /\ Cardinality(V) \in Nat
      /\ Cardinality(W) \in Nat /\ Cardinality(U) <= Cardinality(conns)
  BY <1>2, Counted
<1>4. Cardinality(V \cup W) = Cardinality(V) + Cardinality(W) - Cardinality(V \cap W)
  BY <1>3, FS_Union
<1>5. Cardinality(V \cap W) = 0
  BY <1>2, FS_EmptySet
<1>6. Cardinality(V \cup W) = Cardinality(U)
  BY <1>2, Zenon
<1>7. Cardinality(W) + Cardinality(V) = Cardinality(U)
  BY <1>3, <1>4, <1>5, <1>6
<1> QED BY <1>3, <1>7 DEF U, V, W

\* The search starts with its start alone.
LEMMA SearchInitStack == SearchInit => StackInv
BY DEF SearchInit, StackInv

\* What every turn of the loop takes off.
LEMMA OneOff ==
  ASSUME SearchTypeOK, filo # <<>>
  PROVE  Len(filo) \in Nat /\ Len(filo) > 0 /\ Len(Tail(filo)) = Len(filo) - 1
<1>1. filo \in Seq(NodeId)
  BY DEF SearchTypeOK
<1> QED BY <1>1

\* A turn of the loop keeps the count.
LEMMA SearchStepStack ==
  ASSUME SearchTypeOK, StackInv, SearchStep, UNCHANGED vars
  PROVE  StackInv'
<1>1. UNCHANGED <<nodes, ports, conns>>
  BY DEF vars
<1>2. Unpushed \subseteq conns
  BY DEF Unpushed, Edges, Walked
<1>3. Cardinality(Unpushed) \in Nat /\ Cardinality(conns) \in Nat
      /\ Cardinality(Unpushed) <= Cardinality(conns)
  BY <1>2, Counted
<1>4. CASE SkipVisited
  <2>1. /\ filo # <<>> /\ visited # {} /\ filo' = Tail(filo) /\ visited' = visited /\ asked' = asked
    BY <1>4 DEF SkipVisited
  <2>2. Unpushed' = Unpushed
    BY <1>1, <2>1 DEF Unpushed, Edges, Walked, portCount, nodeExists
  <2>3. Len(filo) \in Nat /\ Len(filo') = Len(filo) - 1
    BY <2>1, OneOff
  <2>4. Len(filo) + Cardinality(Unpushed) <= Cardinality(conns)
    BY <2>1 DEF StackInv
  <2>5. Len(filo') + Cardinality(Unpushed') <= Cardinality(conns')
    BY <1>1, <1>3, <2>2, <2>3, <2>4
  <2> QED BY <2>5 DEF StackInv
<1>5. CASE FindLoop
  <2>1. /\ filo # <<>> /\ Head(filo) \notin visited /\ visited' = visited \cup {Head(filo)}
        /\ filo' = Tail(filo) /\ asked' = asked
    BY <1>5 DEF FindLoop
  <2>2. /\ Cardinality(OutConnections(Head(filo))) \in Nat /\ Cardinality(Unpushed') \in Nat
        /\ Cardinality(OutConnections(Head(filo))) + Cardinality(Unpushed') = Cardinality(Unpushed)
    BY <1>1, <2>1, PushedOnce
  <2>3. Len(filo) \in Nat /\ Len(filo) > 0 /\ Len(filo') = Len(filo) - 1
    BY <2>1, OneOff
  <2>4. Len(filo) = 1 \/ Len(filo) + Cardinality(Unpushed) <= Cardinality(conns)
    BY DEF StackInv
  <2>5. Len(filo') + Cardinality(Unpushed') <= Cardinality(conns')
    BY <1>1, <1>3, <2>2, <2>3, <2>4
  <2> QED BY <2>5 DEF StackInv
<1>6. CASE Expand
  <2> DEFINE top == Head(filo)
  <2>1. /\ filo # <<>> /\ top \notin visited /\ visited' = visited \cup {top} /\ asked' = asked
    BY <1>6 DEF Expand
  <2>2. PICK s \in PushOrders(top) : filo' = [i \in DOMAIN s |-> s[i].inNodeId] \o Tail(filo)
    BY <1>6 DEF Expand
  <2>3. /\ Cardinality(OutConnections(top)) \in Nat /\ Cardinality(Unpushed') \in Nat
        /\ Cardinality(OutConnections(top)) + Cardinality(Unpushed') = Cardinality(Unpushed)
    BY <1>1, <2>1, PushedOnce
  <2>4. Len(filo) \in Nat /\ Len(filo) > 0 /\ Len(Tail(filo)) = Len(filo) - 1
    BY <2>1, OneOff
  <2>5. Len(filo') = Cardinality(OutConnections(top)) + Len(Tail(filo))
    <3>1. s \in [1 .. Cardinality(OutConnections(top)) -> OutConnections(top)]
      BY DEF PushOrders
    <3>2. OutConnections(top) \subseteq ConnectionId
      BY DEF OutConnections, SearchTypeOK
    <3> DEFINE pushed == [i \in DOMAIN s |-> s[i].inNodeId]
    <3>3. \A i \in DOMAIN s : s[i].inNodeId \in NodeId
      BY <3>1, <3>2 DEF ConnectionId
    <3>4. pushed \in Seq(NodeId) /\ Len(pushed) = Cardinality(OutConnections(top))
      BY <2>3, <3>1, <3>3
    <3>5. Tail(filo) \in Seq(NodeId)
      BY <2>1 DEF SearchTypeOK
    <3> HIDE DEF pushed, top
    <3>6. Len(pushed \o Tail(filo)) = Len(pushed) + Len(Tail(filo))
      BY <3>4, <3>5
    <3> QED BY <2>2, <3>4, <3>6 DEF pushed
  <2>6. Len(filo) = 1 \/ Len(filo) + Cardinality(Unpushed) <= Cardinality(conns)
    BY DEF StackInv
  <2> DEFINE out == Cardinality(OutConnections(top))
  <2> HIDE DEF top
  <2>7. Len(filo') = out + Len(filo) - 1
    BY <2>3, <2>4, <2>5 DEF top
  <2>8. out \in Nat /\ out + Cardinality(Unpushed') = Cardinality(Unpushed)
    BY <2>3
  <2> HIDE DEF out
  <2>9. Len(filo') + Cardinality(Unpushed') = Cardinality(Unpushed) + Len(filo) - 1
    BY <1>3, <2>3, <2>4, <2>7, <2>8
  <2>10. Cardinality(Unpushed) + Len(filo) - 1 <= Cardinality(conns)
    <3>1. CASE Len(filo) = 1
      BY <1>3, <3>1
    <3>2. CASE Len(filo) + Cardinality(Unpushed) <= Cardinality(conns)
      BY <1>3, <2>4, <3>2
    <3> QED BY <2>6, <3>1, <3>2
  <2>11. Len(filo') + Cardinality(Unpushed') <= Cardinality(conns)
    BY <2>9, <2>10
  <2> QED BY <1>1, <2>11 DEF StackInv
<1>7. CASE FindNone
  <2>1. UNCHANGED <<asked, filo, visited>>
    BY <1>7 DEF FindNone
  <2>2. Unpushed' = Unpushed
    BY <1>1, <2>1 DEF Unpushed, Edges, Walked, portCount, nodeExists
  <2> QED BY <1>1, <2>1, <2>2 DEF StackInv
<1> QED BY <1>4, <1>5, <1>6, <1>7 DEF SearchStep

(* On every graph the stack of the search never outgrows the number of     *)
(* connections: no node's connections are pushed twice.                    *)
THEOREM StackStaysBounded == SearchSpec => []StackBounded
<1>1. SearchInv /\ StackInv /\ [SearchNext]_<<vars, searchVars>> => StackInv'
  <2> SUFFICES ASSUME SearchInv, StackInv, [SearchNext]_<<vars, searchVars>> PROVE StackInv'
    OBVIOUS
  <2>1. CASE SearchNext
    BY <2>1, SearchStepStack DEF SearchNext, SearchInv
  <2>2. CASE UNCHANGED <<vars, searchVars>>
    <3>1. UNCHANGED <<nodes, ports, conns>> /\ UNCHANGED <<asked, filo, visited, answer>>
      BY <2>2 DEF vars, searchVars
    <3>2. Unpushed' = Unpushed
      BY <3>1 DEF Unpushed, Edges, Walked, portCount, nodeExists
    <3> QED BY <3>1, <3>2 DEF StackInv
  <2> QED BY <2>1, <2>2
<1>2. SearchInv /\ StackInv => StackBounded
  <2> SUFFICES ASSUME SearchInv, StackInv PROVE StackBounded
    OBVIOUS
  <2>1. SearchTypeOK /\ filo \in Seq(NodeId) /\ Unpushed \subseteq conns
    BY DEF SearchInv, SearchTypeOK, Unpushed, Edges, Walked
  <2>2. IsFiniteSet(conns) /\ Cardinality(Unpushed) \in Nat /\ Cardinality(conns) \in Nat
    BY <2>1, Counted
  <2>3. conns # {} => Cardinality(conns) >= 1
    BY <2>2, FS_EmptySet
  <2>4. conns = {} => Cardinality(conns) = 0
    BY FS_EmptySet
  <2>5. Len(filo) \in Nat
    BY <2>1
  <2>6. Len(filo) <= 1 \/ Len(filo) <= Cardinality(conns)
    <3>1. CASE Len(filo) = 1
      BY <3>1
    <3>2. CASE Len(filo) + Cardinality(Unpushed) <= Cardinality(conns)
      BY <2>2, <2>5, <3>2
    <3> QED BY <3>1, <3>2 DEF StackInv
  <2>7. CASE conns = {}
    <3>1. Len(filo) <= 1
      BY <2>4, <2>5, <2>6, <2>7
    <3> QED BY <2>7, <3>1 DEF StackBounded
  <2>8. CASE conns # {}
    <3>1. Len(filo) <= Cardinality(conns)
      BY <2>2, <2>3, <2>5, <2>6, <2>8
    <3> QED BY <2>8, <3>1 DEF StackBounded
  <2> QED BY <2>7, <2>8
<1> QED BY <1>1, <1>2, SearchIsInv, SearchInitStack, PTL DEF SearchSpec

=============================================================================
