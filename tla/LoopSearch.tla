------------------------------ MODULE LoopSearch ------------------------------
(***************************************************************************)
(* The depth-first search of connectionPossible() as the state machine it  *)
(* is: a stack, a set of visited nodes, and an answer.  It runs on a graph *)
(* that does not change meanwhile (one thread, no callback), so the graph  *)
(* is any that DataFlowGraphModel can be in, and the module shows that the *)
(* answer is the hasLoops() DataFlowGraphModel takes it for.               *)
(***************************************************************************)
EXTENDS DataFlowGraphModel

VARIABLES
  asked,      \* [c, replaced]: connectionId and replacedConnectionIds
  filo,       \* the stack, its top first
  visited,
  answer      \* what hasLoops() has returned, or None while it runs

ASSUME NoAnswerAssumption == None \notin BOOLEAN

searchVars == <<asked, filo, visited, answer>>

\* Every node set, every connection set that keeps the model's promises, and
\* every candidate that gets as far as the loop test.
SearchInit ==
  /\ nodes \in SUBSET NodeId
  /\ \E kind \in [nodes -> Model] : ports = [n \in nodes |-> Layout[kind[n]]]
  /\ conns \in SUBSET {c \in ConnectionId :
                         \A side \in Sides : EndPort(side, c) < portCount(EndNode(side, c), side)}
  /\ PortsNotOverbooked /\ TypesAgree /\ Acyclic
  /\ nextNodeId = InvalidNodeId /\ cache = NoCache /\ shifted = {} /\ edit = None
  /\ \E c \in ConnectionId, replaced \in SUBSET conns :
       /\ basicChecks(c, replaced)
       /\ asked = [c |-> c, replaced |-> replaced]
       /\ filo = <<c.inNodeId>>
  /\ visited = {}
  /\ answer = None

\* Mutant: a node that has been dealt with stays on the stack.
SkipVisitedInPlace ==
  /\ answer = None /\ filo # <<>>
  /\ Head(filo) \in visited
  /\ UNCHANGED <<asked, filo, visited, answer>>

\* "!visited.insert(id).second": the node has been dealt with.
SkipVisited ==
  /\ answer = None /\ filo # <<>>
  /\ Head(filo) \in visited
  /\ filo' = Tail(filo)
  /\ UNCHANGED <<asked, visited, answer>>

FindLoop ==
  /\ answer = None /\ filo # <<>>
  /\ Head(filo) \notin visited
  /\ Head(filo) = asked.c.outNodeId
  /\ filo' = Tail(filo)
  /\ visited' = visited \cup {Head(filo)}
  /\ answer' = TRUE
  /\ UNCHANGED asked

\* Mutant: the replaced connections are followed as well.
OutConnectionsAll(n) ==
  {c \in conns : c.outNodeId = n /\ c.outPortIndex < portCount(n, "Out")}

\* The connections to follow from node n.
OutConnections(n) ==
  {c \in conns \ asked.replaced :
     c.outNodeId = n /\ c.outPortIndex < portCount(n, "Out")}

\* The orders they may be pushed in: port after port, and each port's as its
\* hash set happens to hold them.
PushOrders(n) ==
  {s \in [1 .. Cardinality(OutConnections(n)) -> OutConnections(n)] :
     /\ \A c \in OutConnections(n) : \E i \in DOMAIN s : s[i] = c
     /\ \A i, j \in DOMAIN s : i < j => s[i].outPortIndex >= s[j].outPortIndex}

\* Mutant: the node is not taken off the stack.
ExpandWithoutPop ==
  /\ answer = None /\ filo # <<>>
  /\ Head(filo) \notin visited
  /\ Head(filo) # asked.c.outNodeId
  /\ visited' = visited \cup {Head(filo)}
  /\ \E s \in PushOrders(Head(filo)) : filo' = [i \in DOMAIN s |-> s[i].inNodeId] \o filo
  /\ UNCHANGED <<asked, answer>>

Expand ==
  /\ answer = None /\ filo # <<>>
  /\ Head(filo) \notin visited
  /\ Head(filo) # asked.c.outNodeId
  /\ visited' = visited \cup {Head(filo)}
  /\ \E s \in PushOrders(Head(filo)) :
       filo' = [i \in DOMAIN s |-> s[i].inNodeId] \o Tail(filo)
  /\ UNCHANGED <<asked, answer>>

FindNone ==
  /\ answer = None /\ filo = <<>>
  /\ answer' = FALSE
  /\ UNCHANGED <<asked, filo, visited>>

SearchStep == SkipVisited \/ FindLoop \/ Expand \/ FindNone
SearchNext == SearchStep /\ UNCHANGED vars

\* The loop is one function call: nothing keeps it from its next turn.
SearchSpec ==
  /\ SearchInit
  /\ [][SearchNext]_<<vars, searchVars>>
  /\ WF_<<vars, searchVars>>(SearchNext)

-----------------------------------------------------------------------------
(* The search says "loop" exactly if the in node of the new connection     *)
(* reaches its out node without the replaced connections.                  *)
AnswerIsReachability ==
  answer # None => answer = hasLoops(asked.c, asked.replaced)

(* A node is expanded once and taken off first, so the stack never holds   *)
(* more entries than there are connections, or the start alone.            *)
StackBounded == Len(filo) <= IF conns = {} THEN 1 ELSE Cardinality(conns)

(* The search ends, on every graph.                                        *)
SearchEnds == <>(answer # None)
=============================================================================
