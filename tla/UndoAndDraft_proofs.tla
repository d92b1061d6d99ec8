-------------------------- MODULE UndoAndDraft_proofs --------------------------
(******************************************************************************)
(* Proofs about UndoHistory and DraftConnection, for every scene, every number*)
(* of nodes and ports and every number of commands.                           *)
(*                                                                            *)
(* In UndoHistory each command leads from one sound graph to another (Makes), *)
(* and the recorded graphs are the trail of the commands on the stack, on both*)
(* sides of its index (Track).  What a file brings into the graph must leave  *)
(* the sets that replacements keep alone (FileSparesReplacements).            *)
(*                                                                            *)
(* In DraftConnection what a command of the stack makes is what the model, the*)
(* scene and the stack have at its index (Course), so that undo and redo find *)
(* the board they were made on.                                               *)
(******************************************************************************)
EXTENDS UndoHistory, DraftConnection, UndoStack_proofs, FiniteSetTheorems

-----------------------------------------------------------------------------
(* UndoHistory: legal graphs.                                              *)

NodeMaps == UNION {[S -> Model] : S \in SUBSET NodeId}
Sound(ns, cs) == ns \in NodeMaps /\ IsLegal([nodes |-> ns, conns |-> cs])

\* What soundness says.
LEMMA SoundIs ==
  ASSUME NEW ns, NEW cs
  PROVE  Sound(ns, cs) <=>
           /\ ns \in NodeMaps /\ cs \subseteq ConnectionId
           /\ \A c \in cs : Joins(ns, c) /\ ~Reach(cs, c.inNodeId, c.outNodeId)
           /\ \A c, d \in cs : c = d \/ Apart(ns, c, d)
<1> DEFINE g == [nodes |-> ns, conns |-> cs]
<1>1. g.nodes = ns /\ g.conns = cs
  OBVIOUS
<1>2. ns \in NodeMaps => \E S \in SUBSET NodeId : ns \in [S -> Model]
  BY DEF NodeMaps
<1>3. Sound(ns, cs) <=> ns \in NodeMaps /\ IsLegal(g)
  BY DEF Sound
<1> HIDE DEF g
<1> QED BY <1>1, <1>2, <1>3 DEF IsLegal, IsSaved

LEMMA NodeMapIs ==
  ASSUME NEW ns
  PROVE  ns \in NodeMaps <=> DOMAIN ns \subseteq NodeId /\ ns \in [DOMAIN ns -> Model]
<1>1. ASSUME ns \in NodeMaps PROVE DOMAIN ns \subseteq NodeId /\ ns \in [DOMAIN ns -> Model]
  BY <1>1 DEF NodeMaps
<1>2. ASSUME DOMAIN ns \subseteq NodeId, ns \in [DOMAIN ns -> Model] PROVE ns \in NodeMaps
  BY <1>2 DEF NodeMaps
<1> QED BY <1>1, <1>2

LEMMA ConnectionIs ==
  ConnectionId = [outNodeId : NodeId, outPortIndex : 0 .. MaxPorts - 1,
                  inNodeId : NodeId, inPortIndex : 0 .. MaxPorts - 1]
BY DEF ConnectionId, Topology!ConnectionId, Topology!NodeId, Topology!PortIndex, NodeId

\* connectionPossible() on a graph all of whose connections join ports.
Admits(ns, cs, c, R) ==
  /\ Joins(ns, c) /\ c \notin cs \ R
  /\ \A d \in cs \ R : Apart(ns, c, d)
  /\ ~Reach(cs \ R, c.inNodeId, c.outNodeId)

LEMMA PossibleIs ==
  ASSUME NEW g, NEW ns, NEW cs, g.nodes = ns, g.conns = cs, ns \in NodeMaps,
         cs \subseteq ConnectionId,
         \A d \in cs : Joins(ns, d), NEW c \in ConnectionId, NEW R
  PROVE  Possible(g, c, R) <=> Admits(ns, cs, c, R)
<1> DEFINE ports == [n \in DOMAIN ns |-> Layout[ns[n]]]
<1>1. DOMAIN ns \subseteq NodeId /\ ns \in [DOMAIN ns -> Model]
  BY NodeMapIs
<1>2. \A d \in ConnectionId : d.outPortIndex \in Nat /\ d.inPortIndex \in Nat
  BY ConnectionIs, HistoryConstants
<1>3. \A n \in DOMAIN ns : ports[n] = Layout[ns[n]]
      /\ Layout[ns[n]]["In"] \in Seq([type : STRING, policy : {"One", "Many"}])
         /\ Layout[ns[n]]["Out"] \in Seq([type : STRING, policy : {"One", "Many"}])
  BY <1>1, HistoryConstants
<1>4. Topology(ns, cs)!basicChecks(c, R) <=> 
          /\ Joins(ns, c) /\ c \notin cs \ R
          /\ \A d \in cs \ R : Apart(ns, c, d)
  BY <1>1, <1>2, <1>3 DEF Joins, Apart, OutPort, InPort, Topology!basicChecks,
     Topology!nodeExists, Topology!portCount, Topology!EndPort, Topology!EndNode,
     Topology!portAt, Topology!portVacant, Topology!connectionsAt, Topology!Sides
<1>5. Topology(ns, cs)!Walked(R) = cs \ R
  BY <1>1, <1>2, <1>3 DEF Joins, Topology!Walked, Topology!portCount, Topology!nodeExists
<1>6. Topology(ns, cs)!hasLoopsCached(c, R) <=> Reach(cs \ R, c.inNodeId, c.outNodeId)
  <2>1. <<c.outNodeId, c.inNodeId>> \notin DOMAIN [k \in {} |-> FALSE]
    OBVIOUS
  <2>2. Topology(ns, cs)!hasLoopsCached(c, R) = Topology(ns, cs)!hasLoops(c, R)
    BY <2>1 DEF Topology!hasLoopsCached
  <2>3. Topology(ns, cs)!hasLoops(c, R) <=> Reach(cs \ R, c.inNodeId, c.outNodeId)
    BY <1>5 DEF Topology!hasLoops, Topology!Reaches, Reach, Topology!NodeId, NodeId
  <2> QED BY <2>2, <2>3
<1>7. Possible(g, c, R) <=> Topology(ns, cs)!basicChecks(c, R)
      /\ ~Topology(ns, cs)!hasLoopsCached(c, R)
  BY DEF Possible, Topology!connectionPossible
<1> QED BY <1>4, <1>6, <1>7 DEF Admits

-----------------------------------------------------------------------------
\* Adding what is admitted keeps a graph sound.
LEMMA ReachMore ==
  ASSUME NEW E, NEW F, E \subseteq F, NEW a, NEW b, Reach(E, a, b)
  PROVE  Reach(F, a, b)
BY DEF Reach

LEMMA FewerSound ==
  ASSUME NEW ns, NEW cs, Sound(ns, cs), NEW ds \in SUBSET cs
  PROVE  Sound(ns, ds)
<1>1. /\ ns \in NodeMaps /\ cs \subseteq ConnectionId
      /\ \A c \in cs : Joins(ns, c) /\ ~Reach(cs, c.inNodeId, c.outNodeId)
      /\ \A c, d \in cs : c = d \/ Apart(ns, c, d)
  BY SoundIs
<1>2. \A c \in ds : ~Reach(ds, c.inNodeId, c.outNodeId)
  BY <1>1, ReachMore
<1>3. ds \subseteq ConnectionId
  BY <1>1
<1> QED BY <1>1, <1>2, <1>3, SoundIs

LEMMA ClosesNoLoop ==
  ASSUME NEW E \in SUBSET ConnectionId, NEW c \in ConnectionId,
         ~Reach(E, c.inNodeId, c.outNodeId),
         \A d \in E : ~Reach(E, d.inNodeId, d.outNodeId)
  PROVE  \A d \in E \cup {c} : ~Reach(E \cup {c}, d.inNodeId, d.outNodeId)
<1> DEFINE F == E \cup {c}
<1>1. SUFFICES ASSUME NEW d \in F, Reach(F, d.inNodeId, d.outNodeId) PROVE FALSE
  OBVIOUS
<1>2. PICK S \in SUBSET NodeId : /\ c.inNodeId \in S /\ c.outNodeId \notin S
                                /\ \A x \in E : x.outNodeId \in S => x.inNodeId \in S
  BY DEF Reach
<1>3. \A x \in F : x.outNodeId \in S => x.inNodeId \in S
  BY <1>2
<1>4. d # c
  BY <1>1, <1>2, <1>3 DEF Reach
<1>5. PICK T \in SUBSET NodeId : /\ d.inNodeId \in T /\ d.outNodeId \notin T
                                /\ \A x \in E : x.outNodeId \in T => x.inNodeId \in T
  BY <1>1, <1>4 DEF Reach
<1>6. \A x \in F : x.outNodeId \in S \cup T => x.inNodeId \in S \cup T
  BY <1>2, <1>5
<1>7. d.outNodeId \in S \cup T
  BY <1>1, <1>5, <1>6 DEF Reach
<1>8. d.outNodeId \in S /\ d.inNodeId \in S
  BY <1>2, <1>4, <1>5, <1>7
<1>9. \A x \in F : x.outNodeId \in S \cap T => x.inNodeId \in S \cap T
  BY <1>2, <1>3, <1>5
<1>10. d.outNodeId \in S \cap T
  BY <1>1, <1>5, <1>8, <1>9 DEF Reach
<1> QED BY <1>5, <1>10

LEMMA AddedSound ==
  ASSUME NEW ns, NEW cs, Sound(ns, cs), NEW R, NEW c \in ConnectionId, Admits(ns, cs, c, R)
  PROVE  Sound(ns, (cs \ R) \cup {c})
<1>1. Sound(ns, cs \ R)
  BY FewerSound
<1>2. /\ ns \in NodeMaps /\ cs \ R \subseteq ConnectionId
      /\ \A d \in cs \ R : Joins(ns, d) /\ ~Reach(cs \ R, d.inNodeId, d.outNodeId)
      /\ \A d, e \in cs \ R : d = e \/ Apart(ns, d, e)
  BY <1>1, SoundIs
<1> DEFINE E == cs \ R
           F == E \cup {c}
<1>3. \A d \in F : ~Reach(F, d.inNodeId, d.outNodeId)
  BY <1>2, ClosesNoLoop DEF Admits
<1>4. \A d \in F : Joins(ns, d)
  BY <1>2 DEF Admits
<1>5. \A d, e \in F : d = e \/ Apart(ns, d, e)
  <2>1. \A d \in E : Apart(ns, c, d)
    BY DEF Admits
  <2>2. \A d \in E : Apart(ns, d, c)
    BY <2>1 DEF Apart, OutPort, InPort
  <2> QED BY <1>2, <2>1, <2>2
<1>6. F \subseteq ConnectionId
  BY <1>2
<1> HIDE DEF F
<1>7. Sound(ns, F)
  BY <1>2, <1>3, <1>4, <1>5, <1>6, SoundIs
<1> QED BY <1>7 DEF F

-----------------------------------------------------------------------------
(* Graphs the scene draws as they are, and what the commands do to them.   *)

Graph(ns, cs) == [nodes |-> ns, conns |-> cs, drawn |-> cs]

Becomes(g, F) == [g EXCEPT !.conns = F, !.drawn = F]

LEMMA BecomesIs ==
  ASSUME NEW ns, NEW cs, NEW F
  PROVE  Becomes(Graph(ns, cs), F) = Graph(ns, F)
<1> DEFINE g == Graph(ns, cs)
           h == [g EXCEPT !.conns = F]
<1>1. h = [nodes |-> ns, conns |-> F, drawn |-> cs]
  BY DEF Graph
<1> HIDE DEF g
<1>2. Becomes(g, F) = [h EXCEPT !.drawn = F]
  BY DEF Becomes
<1> HIDE DEF h
<1>3. [h EXCEPT !.drawn = F] = Graph(ns, F)
  BY <1>1 DEF Graph
<1> QED BY <1>2, <1>3 DEF g

\* The operator that adds saved connections, for a fold.
adding(unused, c, g) == addConnection(g, c)
Adding == INSTANCE FoldFacts WITH Op <- adding

AllAdded(g, S) == FoldSet(LAMBDA c, h : addConnection(h, c), g, S)

LEMMA AddingIs ==
  \A g, S : AllAdded(g, S) = Adding!Fold(None, g, S)
BY DEF AllAdded, adding, FoldSet, MapThenFoldSet, Adding!Fold, Adding!FoldSet,
   Adding!MapThenFoldSet

LEMMA ConnectionsAreFinite == IsFiniteSet(NodeId) /\ IsFiniteSet(ConnectionId)
<1> DEFINE P == 0 .. MaxPorts - 1
           D == (NodeId \X P) \X (NodeId \X P)
           f == [e \in D |-> [outNodeId |-> e[1][1], outPortIndex |-> e[1][2],
                              inNodeId |-> e[2][1], inPortIndex |-> e[2][2]]]
<1>1. IsFiniteSet(NodeId) /\ IsFiniteSet(P)
  <2>1. 0 \in Int /\ InvalidNodeId - 1 \in Int /\ MaxPorts - 1 \in Int
    BY HistoryConstants
  <2> QED BY <2>1, FS_Interval DEF NodeId
<1> HIDE DEF P
<1>2. IsFiniteSet(NodeId \X P)
  BY <1>1, FS_Product
<1>3. IsFiniteSet(D)
  BY <1>2, FS_Product
<1>4. ConnectionId = [outNodeId : NodeId, outPortIndex : P, inNodeId : NodeId, inPortIndex : P]
  BY ConnectionIs DEF P
<1>5. f \in [D -> ConnectionId]
  BY <1>4
<1>6. ASSUME NEW c \in ConnectionId PROVE \E d \in D : f[d] = c
  <2> DEFINE d == <<<<c.outNodeId, c.outPortIndex>>, <<c.inNodeId, c.inPortIndex>>>>
  <2>1. d \in D
    BY <1>4
  <2>2. f[d] = c
    BY <1>4, <2>1
  <2> QED BY <2>1, <2>2
<1>7. f \in Surjection(D, ConnectionId)
  BY <1>5, <1>6 DEF Surjection
<1> HIDE DEF f, D
<1> QED BY <1>1, <1>3, <1>7, FS_Surjection

\* A connection of a sound graph is never refused.
LEMMA AddedIs ==
  ASSUME NEW ns, NEW cs, NEW c \in ConnectionId, Sound(ns, cs \cup {c})
  PROVE  addConnection(Graph(ns, cs), c) = Graph(ns, cs \cup {c})
<1> DEFINE g == Graph(ns, cs)
           F == cs \cup {c}
<1>1. g.nodes = ns /\ g.conns = cs /\ g.drawn = cs
  BY DEF Graph
<1>2. CASE c \in cs
  <2>1. cs \cup {c} = cs
    BY <1>2
  <2> QED BY <1>1, <1>2, <2>1 DEF addConnection
<1>3. CASE c \notin cs
  <2>1. /\ ns \in NodeMaps /\ F \subseteq ConnectionId
        /\ \A d \in F : Joins(ns, d) /\ ~Reach(F, d.inNodeId, d.outNodeId)
        /\ \A d, e \in F : d = e \/ Apart(ns, d, e)
    BY SoundIs
  <2>2. ~Reach(cs, c.inNodeId, c.outNodeId)
    BY <2>1, ReachMore
  <2>3. cs \ {} = cs
    OBVIOUS
  <2>4. Admits(ns, cs, c, {})
    BY <1>3, <2>1, <2>2, <2>3 DEF Admits
  <2>5. Possible(g, c, {})
    BY <1>1, <2>1, <2>4, PossibleIs
  <2>6. addConnection(g, c) = Becomes(g, F)
    BY <1>1, <1>3, <2>5 DEF addConnection, Becomes
  <2> QED BY <2>6, BecomesIs
<1> QED BY <1>2, <1>3

LEMMA ConnectionsAdded ==
  ASSUME NEW ns, NEW cs, NEW S \in SUBSET ConnectionId, Sound(ns, cs \cup S)
  PROVE  AllAdded(Graph(ns, cs), S) = Graph(ns, cs \cup S)
<1>1. IsFiniteSet(S)
  BY ConnectionsAreFinite, FS_Subset
<1> DEFINE R == {r \in (SUBSET S) \X {Graph(ns, cs \cup x) : x \in SUBSET S} : r[2]
                  = Graph(ns, cs \cup r[1])}
<1>2. \A x \in SUBSET S : \A t : <<x, t>> \in R <=> t = Graph(ns, cs \cup x)
  OBVIOUS
<1> HIDE DEF R
<1>3. <<{}, Graph(ns, cs)>> \in R
  <2>1. cs \cup {} = cs
    OBVIOUS
  <2> QED BY <1>2, <2>1
<1>4. ASSUME NEW x \in SUBSET S, NEW c \in S, NEW t, c \notin x, <<x, t>> \in R
      PROVE  <<x \cup {c}, adding(None, c, t)>> \in R
  <2> DEFINE E == cs \cup x
  <2>1. (cs \cup x) \cup {c} = cs \cup (x \cup {c}) /\ x \cup {c} \in SUBSET S
    OBVIOUS
  <2>2. E \cup {c} \in SUBSET (cs \cup S)
    OBVIOUS
  <2>3. Sound(ns, E \cup {c})
    BY <2>2, FewerSound
  <2>4. t = Graph(ns, E)
    BY <1>2, <1>4
  <2> HIDE DEF E
  <2>5. addConnection(Graph(ns, E), c) = Graph(ns, E \cup {c})
    BY <2>3, AddedIs
  <2> QED BY <1>2, <2>1, <2>4, <2>5 DEF adding, E
<1>5. <<S, Adding!Fold(None, Graph(ns, cs), S)>> \in R
  BY <1>1, <1>3, <1>4, Adding!FoldRelates DEF Adding!IsFiniteSet, IsFiniteSet
<1> QED BY <1>2, <1>5, AddingIs

LEMMA InsertedIs ==
  ASSUME NEW ns, NEW cs, NEW saved, NEW ms, ms = Over(saved.nodes, ns),
         saved.conns \in SUBSET ConnectionId, Sound(ms, cs \cup saved.conns)
  PROVE  insertSerializedItems(Graph(ns, cs), saved) = Graph(ms, cs \cup saved.conns)
<1>1. loadNodes(Graph(ns, cs), saved.nodes) = Graph(ms, cs)
  BY DEF loadNodes, Graph
<1> DEFINE S == saved.conns
<1>2. S \in SUBSET ConnectionId /\ Sound(ms, cs \cup S)
  OBVIOUS
<1>3. insertSerializedItems(Graph(ns, cs), saved) = AllAdded(Graph(ms, cs), S)
  BY <1>1 DEF insertSerializedItems, AllAdded
<1> HIDE DEF S
<1>4. AllAdded(Graph(ms, cs), S) = Graph(ms, cs \cup S)
  BY <1>2, ConnectionsAdded
<1> QED BY <1>3, <1>4 DEF S

LEMMA ConnectionsDeleted ==
  ASSUME NEW ns, NEW cs, NEW ds
  PROVE  deleteConnections(Graph(ns, cs), ds) = Graph(ns, cs \ ds)
<1> DEFINE F == cs \ ds
<1>1. cs \ (ds \cap cs) = F
  OBVIOUS
<1> DEFINE g == Graph(ns, cs)
<1>2. g.conns = cs /\ g.drawn = cs
  BY DEF Graph
<1> HIDE DEF g
<1>3. deleteConnections(g, ds) = Becomes(g, F)
  BY <1>1, <1>2 DEF deleteConnections, Becomes
<1> QED BY <1>3, BecomesIs DEF g

\* Nodes that no connection touches go alone.
LEMMA NodesDeleted ==
  ASSUME NEW ns, NEW cs, NEW S, \A c \in cs : c.inNodeId \notin S /\ c.outNodeId \notin S
  PROVE  deleteNodes(Graph(ns, cs), S) = Graph(Restrict(ns, DOMAIN ns \ S), cs)
<1> DEFINE left == deleteConnections(Graph(ns, cs),
                   ConnectionsOf(Graph(ns, cs), S \cap Nodes(Graph(ns, cs))))
<1>1. ConnectionsOf(Graph(ns, cs), S \cap Nodes(Graph(ns, cs))) = {}
  BY DEF ConnectionsOf, Graph
<1>2. cs \ {} = cs
  OBVIOUS
<1>3. left = Graph(ns, cs)
  BY <1>1, <1>2, ConnectionsDeleted
<1> HIDE DEF left
<1>4. deleteNodes(Graph(ns, cs), S)
        = [left EXCEPT !.nodes = Restrict(left.nodes, Nodes(Graph(ns, cs)) \ S)]
  BY DEF deleteNodes, left
<1>5. Nodes(Graph(ns, cs)) = DOMAIN ns /\ left.nodes = ns
  BY <1>3 DEF Nodes, Graph
<1> DEFINE ms == Restrict(ns, DOMAIN ns \ S)
<1> HIDE DEF ms
<1>6. [Graph(ns, cs) EXCEPT !.nodes = ms] = Graph(ms, cs)
  BY DEF Graph
<1> QED BY <1>3, <1>4, <1>5, <1>6 DEF ms

-----------------------------------------------------------------------------
(* Commands.  Each leads from one sound graph to another.                  *)

EditKinds == {"create", "delete", "paste", "connect", "disconnect"}
Replacements ==
  [kind : {"replace"}, removed : SUBSET ConnectionId, added : SUBSET ConnectionId,
   spare : SUBSET ConnectionId]
\* A file with connections is no companion for a replacement.
FileConnects == GroupFile # None /\ GroupFile.conns # {}
EditCommand ==
  [kind : EditKinds, nodes : NodeMaps, conns : SUBSET ConnectionId]
    \cup {cmd \in Replacements : ~FileConnects}
Snapshots == [nodes : NodeMaps, conns : SUBSET ConnectionId]

\* B is A with what cmd has saved.
Adds(cmd, A, B) ==
  /\ DOMAIN cmd.nodes \cap DOMAIN A.nodes = {} /\ cmd.conns \cap A.conns = {}
  /\ B.nodes = Over(cmd.nodes, A.nodes) /\ B.conns = A.conns \cup cmd.conns

\* cmd makes B of A.
Makes(cmd, A, B) ==
  /\ A \in Snapshots /\ B \in Snapshots /\ Sound(A.nodes, A.conns) /\ Sound(B.nodes, B.conns)
  /\ cmd.kind \in {"create", "paste", "connect"} => Adds(cmd, A, B)
  /\ cmd.kind \in {"delete", "disconnect"} => Adds(cmd, B, A)
  /\ cmd.kind = "create" => cmd.conns = {}
  /\ cmd.kind \in {"connect", "disconnect"} => cmd.nodes = NoNodes
  /\ cmd.kind = "replace" =>
       /\ A.nodes = B.nodes /\ cmd.removed \subseteq A.conns /\ cmd.added \cap A.conns = {}
       /\ B.conns = (A.conns \ cmd.removed) \cup cmd.added

\* d is cmd, but a replacement keeps the connections cs.
Retains(d, cmd, cs) ==
  /\ d \in EditCommand /\ d.kind = cmd.kind
  /\ cmd.kind # "replace" => d = cmd
  /\ cmd.kind = "replace" => d.removed = cmd.removed /\ d.added = cmd.added /\ d.spare = cs

Whole(A) == Graph(A.nodes, A.conns)

LEMMA InsertMakes ==
  ASSUME NEW cmd, cmd.conns \in SUBSET ConnectionId, NEW A, NEW B, Adds(cmd, A, B),
         Sound(B.nodes, B.conns)
  PROVE  insertSerializedItems(Whole(A), cmd) = Whole(B)
<1> DEFINE ms == Over(cmd.nodes, A.nodes)
<1>1. B.nodes = ms /\ B.conns = A.conns \cup cmd.conns
  BY DEF Adds
<1>2. Sound(ms, A.conns \cup cmd.conns)
  BY <1>1
<1>3. insertSerializedItems(Graph(A.nodes, A.conns), cmd) = Graph(ms, A.conns \cup cmd.conns)
  BY <1>2, InsertedIs
<1> HIDE DEF ms
<1> QED BY <1>1, <1>3 DEF Whole

\* Taking out what was added.
LEMMA TakenOut ==
  ASSUME NEW ms, NEW ns \in NodeMaps, DOMAIN ms \cap DOMAIN ns = {}
  PROVE  Restrict(Over(ms, ns), DOMAIN Over(ms, ns) \ DOMAIN ms) = ns
<1>1. DOMAIN Over(ms, ns) \ DOMAIN ms = DOMAIN ns
  BY DEF Over
<1>2. \A n \in DOMAIN ns : Over(ms, ns)[n] = ns[n]
  BY DEF Over
<1>3. Restrict(Over(ms, ns), DOMAIN ns) = [n \in DOMAIN ns |-> ns[n]]
  BY <1>2 DEF Restrict
<1>4. ns = [n \in DOMAIN ns |-> ns[n]]
  BY NodeMapIs
<1> QED BY <1>1, <1>3, <1>4

LEMMA NothingOver ==
  ASSUME NEW ns \in NodeMaps
  PROVE  Over(NoNodes, ns) = ns
<1>1. ns = [n \in DOMAIN ns |-> ns[n]]
  BY NodeMapIs
<1> QED BY <1>1 DEF Over, NoNodes

LEMMA Untouched ==
  ASSUME NEW A \in Snapshots, Sound(A.nodes, A.conns), NEW S, S \cap DOMAIN A.nodes = {}
  PROVE  \A c \in A.conns : c.inNodeId \notin S /\ c.outNodeId \notin S
<1>1. \A c \in A.conns : Joins(A.nodes, c)
  BY SoundIs
<1> QED BY <1>1 DEF Joins

LEMMA NodesGone ==
  ASSUME NEW cmd, NEW A \in Snapshots, NEW B, Adds(cmd, A, B), Sound(A.nodes, A.conns)
  PROVE  deleteNodes(Graph(B.nodes, A.conns), DOMAIN cmd.nodes) = Whole(A)
<1> DEFINE S == DOMAIN cmd.nodes
<1>1. \A c \in A.conns : c.inNodeId \notin S /\ c.outNodeId \notin S
  BY Untouched DEF Adds
<1>2. Restrict(B.nodes, DOMAIN B.nodes \ S) = A.nodes
  BY TakenOut DEF Adds, Snapshots
<1> HIDE DEF S
<1>3. deleteNodes(Graph(B.nodes, A.conns), S)
        = Graph(Restrict(B.nodes, DOMAIN B.nodes \ S), A.conns)
  BY <1>1, NodesDeleted
<1> QED BY <1>2, <1>3 DEF S, Whole

LEMMA DeleteMakes ==
  ASSUME NEW cmd, NEW A \in Snapshots, NEW B, Adds(cmd, A, B), Sound(A.nodes, A.conns)
  PROVE  deleteSerializedItems(Whole(B), cmd) = Whole(A)
<1>1. B.conns \ cmd.conns = A.conns
  BY DEF Adds
<1>2. deleteConnections(Whole(B), cmd.conns) = Graph(B.nodes, A.conns)
  BY <1>1, ConnectionsDeleted DEF Whole
<1> QED BY <1>2, NodesGone DEF deleteSerializedItems

LEMMA SwapMakes ==
  ASSUME NEW ns, NEW cs, NEW ds, NEW gone, NEW come, ds = (cs \ gone) \cup come
  PROVE  swap(Graph(ns, cs), ds, gone, come) = Graph(ns, ds)
<1> DEFINE g == Graph(ns, cs)
<1>1. g.drawn = cs
  BY DEF Graph
<1> HIDE DEF g
<1>2. swap(g, ds, gone, come) = Becomes(g, ds)
  BY <1>1 DEF swap, Becomes
<1> QED BY <1>2, BecomesIs DEF g

LEMMA ConnectMakes ==
  ASSUME NEW cmd, cmd.conns \in SUBSET ConnectionId, NEW A \in Snapshots, NEW B,
         Adds(cmd, A, B),
         cmd.nodes = NoNodes, Sound(B.nodes, B.conns)
  PROVE  /\ AllAdded(Whole(A), cmd.conns) = Whole(B)
         /\ deleteConnections(Whole(B), cmd.conns) = Whole(A)
<1>1. B.nodes = A.nodes /\ B.conns = A.conns \cup cmd.conns /\ B.conns \ cmd.conns = A.conns
  BY NothingOver DEF Adds, Snapshots
<1>2. Sound(A.nodes, A.conns \cup cmd.conns)
  BY <1>1
<1>3. AllAdded(Graph(A.nodes, A.conns), cmd.conns) = Graph(A.nodes, A.conns \cup cmd.conns)
  BY <1>2, ConnectionsAdded
<1>4. deleteConnections(Graph(B.nodes, B.conns), cmd.conns)
        = Graph(B.nodes, B.conns \ cmd.conns)
  BY ConnectionsDeleted
<1> QED BY <1>1, <1>3, <1>4 DEF Whole

LEMMA EditCommandIs ==
  ASSUME NEW cmd \in EditCommand
  PROVE  /\ cmd.kind \in {"create", "delete", "paste", "connect", "disconnect", "replace"}
         /\ cmd.kind # "replace" => cmd.nodes \in NodeMaps /\ cmd.conns \in SUBSET ConnectionId
         /\ cmd.kind = "replace" =>
              /\ cmd \in [kind : {"replace"}, removed : SUBSET ConnectionId,
                 added : SUBSET ConnectionId,
                          spare : SUBSET ConnectionId]
              /\ ~FileConnects
BY DEF EditCommand, EditKinds, Replacements

LEMMA SpareKept ==
  ASSUME NEW cmd \in EditCommand, cmd.kind = "replace", NEW cs \in SUBSET ConnectionId
  PROVE  Retains([cmd EXCEPT !.spare = cs], cmd, cs)
<1>1. cmd \in [kind : {"replace"}, removed : SUBSET ConnectionId, added : SUBSET ConnectionId,
               spare : SUBSET ConnectionId] /\ ~FileConnects
  BY EditCommandIs
<1> DEFINE d == [cmd EXCEPT !.spare = cs]
<1>2. /\ d \in [kind : {"replace"}, removed : SUBSET ConnectionId, added : SUBSET ConnectionId,
               spare : SUBSET ConnectionId]
      /\ d.kind = cmd.kind /\ d.removed = cmd.removed /\ d.added = cmd.added /\ d.spare = cs
  BY <1>1
<1> HIDE DEF d
<1>3. d \in EditCommand
  BY <1>1, <1>2 DEF EditCommand, Replacements
<1>4. Retains(d, cmd, cs)
  BY <1>2, <1>3 DEF Retains
<1> QED BY <1>4 DEF d

\* redo() makes what the command is to make, and undo() takes it back.
LEMMA RedoMakes ==
  ASSUME NEW cmd \in EditCommand, NEW A, NEW B, Makes(cmd, A, B),
         cmd.kind = "replace" => cmd.spare = B.conns
  PROVE  /\ redoOf(cmd, Whole(A)).graph = Whole(B)
         /\ Retains(redoOf(cmd, Whole(A)).cmd, cmd, A.conns)
<1>0. /\ cmd.kind \in {"create", "delete", "paste", "connect", "disconnect", "replace"}
      /\ cmd.kind # "replace" => cmd.nodes \in NodeMaps /\ cmd.conns \in SUBSET ConnectionId
      /\ A \in Snapshots /\ B \in Snapshots /\ Sound(A.nodes, A.conns)
         /\ Sound(B.nodes, B.conns)
  BY EditCommandIs DEF Makes
<1>1. cmd.kind # "replace" => Retains(cmd, cmd, A.conns)
  BY DEF Retains
<1>2. CASE cmd.kind \in {"create", "paste"}
  <2>1. Adds(cmd, A, B)
    BY <1>2 DEF Makes
  <2>2. redoOf(cmd, Whole(A)) = [graph |-> insertSerializedItems(Whole(A), cmd), cmd |-> cmd]
    BY <1>2 DEF redoOf, redoCreate, redoPaste, undoDelete
  <2>3. insertSerializedItems(Whole(A), cmd) = Whole(B)
    BY <1>0, <1>2, <2>1, InsertMakes
  <2> QED BY <1>1, <1>2, <2>2, <2>3
<1>3. CASE cmd.kind = "delete"
  <2>1. Adds(cmd, B, A)
    BY <1>3 DEF Makes
  <2>2. redoOf(cmd, Whole(A)) = [graph |-> deleteSerializedItems(Whole(A), cmd), cmd |-> cmd]
    BY <1>3 DEF redoOf, redoDelete
  <2>3. deleteSerializedItems(Whole(A), cmd) = Whole(B)
    BY <1>0, <2>1, DeleteMakes
  <2> QED BY <1>1, <1>3, <2>2, <2>3
<1>4. CASE cmd.kind = "connect"
  <2>1. Adds(cmd, A, B) /\ cmd.nodes = NoNodes
    BY <1>4 DEF Makes
  <2>2. redoOf(cmd, Whole(A)) = [graph |-> AllAdded(Whole(A), cmd.conns), cmd |-> cmd]
    BY <1>4 DEF redoOf, redoConnect, AllAdded
  <2>3. AllAdded(Whole(A), cmd.conns) = Whole(B)
    BY <1>0, <1>4, <2>1, ConnectMakes
  <2> QED BY <1>1, <1>4, <2>2, <2>3
<1>5. CASE cmd.kind = "disconnect"
  <2>1. Adds(cmd, B, A) /\ cmd.nodes = NoNodes
    BY <1>5 DEF Makes
  <2>2. redoOf(cmd, Whole(A)) = [graph |-> deleteConnections(Whole(A), cmd.conns), cmd |-> cmd]
    BY <1>5 DEF redoOf, redoDisconnect, undoConnect
  <2>3. deleteConnections(Whole(A), cmd.conns) = Whole(B)
    BY <1>0, <1>5, <2>1, ConnectMakes
  <2> QED BY <1>1, <1>5, <2>2, <2>3
<1>6. CASE cmd.kind = "replace"
  <2>1. A.nodes = B.nodes /\ B.conns = (A.conns \ cmd.removed) \cup cmd.added
    BY <1>6 DEF Makes
  <2> DEFINE d == [cmd EXCEPT !.spare = A.conns]
  <2>2. redoOf(cmd, Whole(A))
          = [graph |-> swap(Whole(A), B.conns, cmd.removed, cmd.added), cmd |-> d]
    BY <1>6 DEF redoOf, redoReplace, Whole, Graph
  <2>3. swap(Whole(A), B.conns, cmd.removed, cmd.added) = Whole(B)
    BY <2>1, SwapMakes DEF Whole
  <2>4. Retains(d, cmd, A.conns)
    BY <1>0, <1>6, SpareKept DEF Snapshots
  <2> HIDE DEF d
  <2> QED BY <2>2, <2>3, <2>4
<1> QED BY <1>0, <1>2, <1>3, <1>4, <1>5, <1>6

LEMMA UndoMakes ==
  ASSUME NEW cmd \in EditCommand, NEW A, NEW B, Makes(cmd, A, B),
         cmd.kind = "replace" => cmd.spare = A.conns
  PROVE  /\ undoOf(cmd, Whole(B)).graph = Whole(A)
         /\ Retains(undoOf(cmd, Whole(B)).cmd, cmd, B.conns)
<1>0. /\ cmd.kind \in {"create", "delete", "paste", "connect", "disconnect", "replace"}
      /\ cmd.kind # "replace" => cmd.nodes \in NodeMaps /\ cmd.conns \in SUBSET ConnectionId
      /\ A \in Snapshots /\ B \in Snapshots /\ Sound(A.nodes, A.conns)
         /\ Sound(B.nodes, B.conns)
  BY EditCommandIs DEF Makes
<1>1. cmd.kind # "replace" => Retains(cmd, cmd, B.conns)
  BY DEF Retains
<1>2. CASE cmd.kind = "create"
  <2>1. Adds(cmd, A, B) /\ cmd.conns = {}
    BY <1>2 DEF Makes
  <2>2. undoOf(cmd, Whole(B)) = [graph |-> deleteNodes(Whole(B), DOMAIN cmd.nodes), cmd |-> cmd]
    BY <1>2 DEF undoOf, undoCreate
  <2>3. B.conns = A.conns
    BY <2>1 DEF Adds
  <2>4. deleteNodes(Graph(B.nodes, A.conns), DOMAIN cmd.nodes) = Whole(A)
    BY <1>0, <2>1, NodesGone
  <2> QED BY <1>1, <1>2, <2>2, <2>3, <2>4 DEF Whole
<1>3. CASE cmd.kind = "paste"
  <2>1. Adds(cmd, A, B)
    BY <1>3 DEF Makes
  <2>2. undoOf(cmd, Whole(B)) = [graph |-> deleteSerializedItems(Whole(B), cmd), cmd |-> cmd]
    BY <1>3 DEF undoOf, undoPaste, redoDelete
  <2>3. deleteSerializedItems(Whole(B), cmd) = Whole(A)
    BY <1>0, <2>1, DeleteMakes
  <2> QED BY <1>1, <1>3, <2>2, <2>3
<1>4. CASE cmd.kind = "delete"
  <2>1. Adds(cmd, B, A)
    BY <1>4 DEF Makes
  <2>2. undoOf(cmd, Whole(B)) = [graph |-> insertSerializedItems(Whole(B), cmd), cmd |-> cmd]
    BY <1>4 DEF undoOf, undoDelete
  <2>3. insertSerializedItems(Whole(B), cmd) = Whole(A)
    BY <1>0, <1>4, <2>1, InsertMakes
  <2> QED BY <1>1, <1>4, <2>2, <2>3
<1>5. CASE cmd.kind = "connect"
  <2>1. Adds(cmd, A, B) /\ cmd.nodes = NoNodes
    BY <1>5 DEF Makes
  <2>2. undoOf(cmd, Whole(B)) = [graph |-> deleteConnections(Whole(B), cmd.conns), cmd |-> cmd]
    BY <1>5 DEF undoOf, undoConnect
  <2>3. deleteConnections(Whole(B), cmd.conns) = Whole(A)
    BY <1>0, <1>5, <2>1, ConnectMakes
  <2> QED BY <1>1, <1>5, <2>2, <2>3
<1>6. CASE cmd.kind = "disconnect"
  <2>1. Adds(cmd, B, A) /\ cmd.nodes = NoNodes
    BY <1>6 DEF Makes
  <2>2. undoOf(cmd, Whole(B)) = [graph |-> AllAdded(Whole(B), cmd.conns), cmd |-> cmd]
    BY <1>6 DEF undoOf, undoDisconnect, redoConnect, AllAdded
  <2>3. AllAdded(Whole(B), cmd.conns) = Whole(A)
    BY <1>0, <1>6, <2>1, ConnectMakes
  <2> QED BY <1>1, <1>6, <2>2, <2>3
<1>7. CASE cmd.kind = "replace"
  <2>1. A.nodes = B.nodes /\ A.conns = (B.conns \ cmd.added) \cup cmd.removed
    BY <1>7 DEF Makes
  <2> DEFINE d == [cmd EXCEPT !.spare = B.conns]
  <2>2. undoOf(cmd, Whole(B))
          = [graph |-> swap(Whole(B), A.conns, cmd.added, cmd.removed), cmd |-> d]
    BY <1>7 DEF undoOf, undoReplace, Whole, Graph
  <2>3. swap(Whole(B), A.conns, cmd.added, cmd.removed) = Whole(A)
    BY <2>1, SwapMakes DEF Whole
  <2>4. Retains(d, cmd, B.conns)
    BY <1>0, <1>7, SpareKept DEF Snapshots
  <2> HIDE DEF d
  <2> QED BY <2>2, <2>3, <2>4
<1> QED BY <1>0, <1>2, <1>3, <1>4, <1>5, <1>6, <1>7

-----------------------------------------------------------------------------
(* The recorded graphs are the trail of the commands, on both sides of the *)
(* index; a replacement keeps the connections of the side it is not on.    *)

Track(N, h, A) ==
  /\ N \in Seq(Snapshots) /\ Len(N) = Len(h.cmds) + 1 /\ N[h.index + 1] = A
  /\ \A i \in 1 .. Len(N) : Sound(N[i].nodes, N[i].conns)
  /\ \A i \in 1 .. Len(h.cmds) :
       /\ Makes(h.cmds[i], N[i], N[i + 1])
       /\ h.cmds[i].kind = "replace" =>
            h.cmds[i].spare = IF i <= h.index THEN N[i].conns ELSE N[i + 1].conns

\* Every id in use was handed out.
Below(N, k) == \A i \in 1 .. Len(N) : DOMAIN N[i].nodes \subseteq 0 .. k - 1

HistoryInv ==
  /\ nextNodeId \in 0 .. InvalidNodeId
  /\ graph = Graph(graph.nodes, graph.conns)
  /\ StackOf(history, EditCommand)
  /\ Track(recorded, history, Snapshot(graph)) /\ Below(recorded, nextNodeId)
  /\ Sound(clipboard.nodes, clipboard.conns)

\* The part of the trail that is done.
LEMMA StartOf ==
  ASSUME NEW h, StackOf(h, EditCommand), NEW N, NEW A, Track(N, h, A)
  PROVE  LET M == SubSeq(N, 1, h.index + 1)
         IN  /\ M \in Seq(Snapshots) /\ Len(M) = h.index + 1 /\ M[h.index + 1] = A
             /\ \A i \in 1 .. h.index + 1 : M[i] = N[i] /\ i \in 1 .. Len(N)
             /\ \A i \in 1 .. h.index :
                  /\ i \in 1 .. h.index + 1 /\ i + 1 \in 1 .. h.index + 1
                     /\ i \in 1 .. Len(h.cmds)
                  /\ i <= h.index
<1>1. h.index \in Nat /\ h.index <= Len(h.cmds) /\ Len(h.cmds) \in Nat
  BY DEF StackOf
<1>2. N \in Seq(Snapshots) /\ Len(N) = Len(h.cmds) + 1 /\ N[h.index + 1] = A
  BY DEF Track
<1> DEFINE j == h.index
           M == SubSeq(N, 1, j + 1)
<1>3. j + 1 <= Len(N) /\ j + 1 \in Nat
  BY <1>1, <1>2
<1> HIDE DEF j
<1>4. M \in Seq(Snapshots) /\ Len(M) = j + 1 /\ \A i \in 1 .. j + 1 : M[i] = N[i]
  BY <1>2, <1>3
<1>5. \A i \in 1 .. j + 1 : i \in 1 .. Len(N)
  BY <1>1, <1>2, <1>3
<1>6. j + 1 \in 1 .. j + 1
  BY <1>1 DEF j
<1>7. \A i \in 1 .. j : /\ i \in 1 .. j + 1 /\ i + 1 \in 1 .. j + 1 /\ i \in 1 .. Len(h.cmds)
      /\ i <= j
  BY <1>1 DEF j
<1> HIDE DEF M
<1> QED BY <1>2, <1>4, <1>5, <1>6, <1>7 DEF j, M

LEMMA TrackPushed ==
  ASSUME NEW h, StackOf(h, EditCommand), NEW N, NEW A, Track(N, h, A),
         NEW d \in EditCommand, NEW q, PushedLike(q, h, d), NEW B, Makes(d, A, B),
         d.kind = "replace" => d.spare = A.conns
  PROVE  Track(Append(SubSeq(N, 1, h.index + 1), B), q, B)
<1> DEFINE j == h.index
           M == SubSeq(N, 1, j + 1)
           L == Append(M, B)
<1>1. /\ M \in Seq(Snapshots) /\ Len(M) = j + 1 /\ M[j + 1] = A
      /\ \A i \in 1 .. j + 1 : M[i] = N[i] /\ i \in 1 .. Len(N)
      /\ \A i \in 1 .. j :
           /\ i \in 1 .. j + 1 /\ i + 1 \in 1 .. j + 1 /\ i \in 1 .. Len(h.cmds)
           /\ i <= j
  BY StartOf
<1>2. j \in Nat
  BY DEF StackOf
<1>3. /\ \A i \in 1 .. Len(N) : Sound(N[i].nodes, N[i].conns)
      /\ \A i \in 1 .. Len(h.cmds) :
           /\ Makes(h.cmds[i], N[i], N[i + 1])
           /\ h.cmds[i].kind = "replace" =>
                h.cmds[i].spare = IF i <= j THEN N[i].conns ELSE N[i + 1].conns
  BY DEF Track
<1>4. q.index = j + 1 /\ Len(q.cmds) = j + 1 /\ q.cmds[j + 1] = d
      /\ \A i \in 1 .. j : q.cmds[i] = h.cmds[i]
  BY DEF PushedLike
<1>5. B \in Snapshots /\ Sound(B.nodes, B.conns)
  BY DEF Makes
<1> HIDE DEF j, M
<1>6. /\ L \in Seq(Snapshots) /\ Len(L) = (j + 1) + 1 /\ L[(j + 1) + 1] = B
      /\ \A i \in 1 .. j + 1 : L[i] = M[i]
  BY <1>1, <1>2, <1>5
<1> HIDE DEF L
<1>7. \A i \in 1 .. Len(L) : Sound(L[i].nodes, L[i].conns)
  <2>1. \A i \in 1 .. (j + 1) + 1 : i \in 1 .. j + 1 \/ i = (j + 1) + 1
    BY <1>2
  <2> QED BY <1>1, <1>3, <1>5, <1>6, <2>1
<1>8. ASSUME NEW i \in 1 .. j + 1
      PROVE  /\ Makes(q.cmds[i], L[i], L[i + 1])
             /\ q.cmds[i].kind = "replace" => q.cmds[i].spare = L[i].conns
             /\ i <= j + 1
  <2>1. CASE i = j + 1
    <3>1. i \in 1 .. j + 1 /\ i <= j + 1
      BY <1>2
    <3>2. L[i] = A /\ L[i + 1] = B
      BY <1>1, <1>6, <2>1, <3>1
    <3> QED BY <1>4, <2>1, <3>1, <3>2
  <2>2. CASE i # j + 1
    <3>1. i \in 1 .. j /\ i <= j + 1
      BY <1>2, <2>2
    <3>2. L[i] = N[i] /\ L[i + 1] = N[i + 1]
      BY <1>1, <1>6, <3>1
    <3> QED BY <1>1, <1>3, <1>4, <3>1, <3>2
  <2> QED BY <2>1, <2>2
<1>9. Track(L, q, B)
  BY <1>4, <1>6, <1>7, <1>8 DEF Track
<1> QED BY <1>9 DEF L, M, j

LEMMA TrackDropped ==
  ASSUME NEW h, StackOf(h, EditCommand), NEW N, NEW A, Track(N, h, A)
  PROVE  Track(SubSeq(N, 1, h.index + 1), PushedObsolete(h), A)
<1> DEFINE j == h.index
           M == SubSeq(N, 1, j + 1)
           q == PushedObsolete(h)
<1>1. /\ M \in Seq(Snapshots) /\ Len(M) = j + 1 /\ M[j + 1] = A
      /\ \A i \in 1 .. j + 1 : M[i] = N[i] /\ i \in 1 .. Len(N)
      /\ \A i \in 1 .. j :
           /\ i \in 1 .. j + 1 /\ i + 1 \in 1 .. j + 1 /\ i \in 1 .. Len(h.cmds)
           /\ i <= j
  BY StartOf
<1>2. q.index = j /\ Len(q.cmds) = j /\ \A i \in 1 .. j : q.cmds[i] = h.cmds[i]
  BY PushedObsoleteIs
<1>3. /\ \A i \in 1 .. Len(N) : Sound(N[i].nodes, N[i].conns)
      /\ \A i \in 1 .. Len(h.cmds) :
           /\ Makes(h.cmds[i], N[i], N[i + 1])
           /\ h.cmds[i].kind = "replace" =>
                h.cmds[i].spare = IF i <= j THEN N[i].conns ELSE N[i + 1].conns
  BY DEF Track
<1> HIDE DEF j, M, q
<1>4. \A i \in 1 .. Len(M) : Sound(M[i].nodes, M[i].conns)
  BY <1>1, <1>3
<1>5. ASSUME NEW i \in 1 .. j
      PROVE  /\ Makes(q.cmds[i], M[i], M[i + 1])
             /\ q.cmds[i].kind = "replace" =>
                  q.cmds[i].spare = IF i <= j THEN M[i].conns ELSE M[i + 1].conns
  BY <1>1, <1>2, <1>3
<1>6. Track(M, q, A)
  BY <1>1, <1>2, <1>4, <1>5 DEF Track
<1> QED BY <1>6 DEF M, j, q

LEMMA TrackMoved ==
  ASSUME NEW h, StackOf(h, EditCommand), NEW N, NEW A, Track(N, h, A),
         NEW q, NEW j \in 1 .. Len(h.cmds), NEW d, TurnedInto(q, h, j, d),
         Retains(d, h.cmds[j], A.conns),
         \/ j = h.index /\ q.index = h.index - 1
         \/ j = h.index + 1 /\ q.index = h.index + 1
  PROVE  Track(N, q, N[q.index + 1])
<1>1. h.index \in Nat /\ h.index <= Len(h.cmds) /\ Len(h.cmds) \in Nat
  BY DEF StackOf
<1>2. /\ N \in Seq(Snapshots) /\ Len(N) = Len(h.cmds) + 1 /\ N[h.index + 1] = A
      /\ \A i \in 1 .. Len(N) : Sound(N[i].nodes, N[i].conns)
      /\ \A i \in 1 .. Len(h.cmds) :
           /\ Makes(h.cmds[i], N[i], N[i + 1])
           /\ h.cmds[i].kind = "replace" =>
                h.cmds[i].spare = IF i <= h.index THEN N[i].conns ELSE N[i + 1].conns
  BY DEF Track
<1>3. /\ Len(q.cmds) = Len(h.cmds) /\ q.cmds[j] = d
      /\ \A i \in 1 .. Len(h.cmds) : i # j => q.cmds[i] = h.cmds[i]
  BY DEF TurnedInto
<1>4. ASSUME NEW i \in 1 .. Len(h.cmds)
      PROVE  /\ Makes(q.cmds[i], N[i], N[i + 1])
             /\ q.cmds[i].kind = "replace" =>
                  q.cmds[i].spare = IF i <= q.index THEN N[i].conns ELSE N[i + 1].conns
  <2>1. CASE i # j
    <3>1. i <= h.index <=> i <= q.index
      BY <1>1, <2>1
    <3> QED BY <1>2, <1>3, <2>1, <3>1
  <2>2. CASE i = j
    <3>1. Makes(d, N[i], N[i + 1])
      <4>1. CASE d.kind = "replace"
        BY <1>2, <2>2, <4>1 DEF Makes, Retains
      <4>2. CASE d.kind # "replace"
        BY <1>2, <2>2, <4>2 DEF Retains
      <4> QED BY <4>1, <4>2
    <3>2. A.conns = IF i <= q.index THEN N[i].conns ELSE N[i + 1].conns
      BY <1>1, <1>2, <2>2
    <3> QED BY <1>3, <2>2, <3>1, <3>2 DEF Retains
  <2> QED BY <2>1, <2>2
<1> QED BY <1>2, <1>3, <1>4 DEF Track

-----------------------------------------------------------------------------
(* Graphs made of others.                                                  *)

\* A part of a graph, or the same connections in a larger one.
LEMMA CarriedSound ==
  ASSUME NEW ns, NEW cs, Sound(ns, cs), NEW ms \in NodeMaps, NEW ds \in SUBSET cs,
         \A n \in DOMAIN ms \cap DOMAIN ns : ms[n] = ns[n],
         \A c \in ds : c.inNodeId \in DOMAIN ms /\ c.outNodeId \in DOMAIN ms
  PROVE  Sound(ms, ds)
<1>1. Sound(ns, ds)
  BY FewerSound
<1>2. /\ ns \in NodeMaps /\ ds \subseteq ConnectionId
      /\ \A c \in ds : Joins(ns, c) /\ ~Reach(ds, c.inNodeId, c.outNodeId)
      /\ \A c, d \in ds : c = d \/ Apart(ns, c, d)
  BY <1>1, SoundIs
<1>3. \A c \in ds : ms[c.inNodeId] = ns[c.inNodeId] /\ ms[c.outNodeId] = ns[c.outNodeId]
  BY <1>2 DEF Joins
<1>4. \A c \in ds : Joins(ms, c)
  BY <1>2, <1>3 DEF Joins, OutPort, InPort
<1>5. \A c, d \in ds : c = d \/ Apart(ms, c, d)
  BY <1>2, <1>3 DEF Apart, OutPort, InPort
<1> QED BY <1>2, <1>4, <1>5, SoundIs

LEMMA OverIs ==
  ASSUME NEW ms \in NodeMaps, NEW ns \in NodeMaps
  PROVE  /\ Over(ms, ns) \in NodeMaps /\ DOMAIN Over(ms, ns) = DOMAIN ms \cup DOMAIN ns
         /\ \A n \in DOMAIN ms : Over(ms, ns)[n] = ms[n]
         /\ \A n \in DOMAIN ns \ DOMAIN ms : Over(ms, ns)[n] = ns[n]
<1>1. /\ DOMAIN ms \subseteq NodeId /\ ms \in [DOMAIN ms -> Model]
      /\ DOMAIN ns \subseteq NodeId /\ ns \in [DOMAIN ns -> Model]
  BY NodeMapIs
<1>2. Over(ms, ns) \in [DOMAIN ms \cup DOMAIN ns -> Model]
  BY <1>1 DEF Over
<1>3. DOMAIN Over(ms, ns) = DOMAIN ms \cup DOMAIN ns
  BY DEF Over
<1>4. Over(ms, ns) \in NodeMaps
  BY <1>1, <1>2, <1>3, NodeMapIs
<1> QED BY <1>3, <1>4 DEF Over

\* No path leads out of a part of the graph that no connection leaves.
LEMMA ReachWithin ==
  ASSUME NEW E, NEW F, NEW S \in SUBSET NodeId, NEW a \in S, NEW b,
         \A c \in E : c.inNodeId \in S, \A c \in F : c.outNodeId \notin S,
         Reach(E \cup F, a, b)
  PROVE  Reach(E, a, b)
<1>1. SUFFICES ASSUME NEW T \in SUBSET NodeId, a \in T, \A c \in E : c.outNodeId \in T
                        => c.inNodeId \in T
               PROVE  b \in T
  BY DEF Reach
<1>2. \A c \in E \cup F : c.outNodeId \in S \cap T => c.inNodeId \in S \cap T
  BY <1>1
<1>3. b \in S \cap T
  BY <1>1, <1>2 DEF Reach
<1> QED BY <1>3

LEMMA UnionSound ==
  ASSUME NEW ns, NEW cs, Sound(ns, cs), NEW ms, NEW ds, Sound(ms, ds),
         DOMAIN ms \cap DOMAIN ns = {}
  PROVE  Sound(Over(ms, ns), cs \cup ds)
<1> DEFINE os == Over(ms, ns)
           es == cs \cup ds
<1>1. /\ ns \in NodeMaps /\ cs \subseteq ConnectionId
      /\ \A c \in cs : Joins(ns, c) /\ ~Reach(cs, c.inNodeId, c.outNodeId)
      /\ ms \in NodeMaps /\ ds \subseteq ConnectionId
      /\ \A c \in ds : Joins(ms, c) /\ ~Reach(ds, c.inNodeId, c.outNodeId)
  BY SoundIs
<1>2. /\ os \in NodeMaps /\ DOMAIN os = DOMAIN ms \cup DOMAIN ns
      /\ \A n \in DOMAIN ms : os[n] = ms[n]
      /\ \A n \in DOMAIN ns : os[n] = ns[n]
  BY <1>1, OverIs
<1> HIDE DEF os
<1>3. \A c \in cs : c.inNodeId \in DOMAIN ns /\ c.outNodeId \in DOMAIN ns
  BY <1>1 DEF Joins
<1>4. \A c \in ds : c.inNodeId \in DOMAIN ms /\ c.outNodeId \in DOMAIN ms
  BY <1>1 DEF Joins
<1>5. Sound(os, cs) /\ Sound(os, ds)
  <2>1. \A c \in cs : c.inNodeId \in DOMAIN os /\ c.outNodeId \in DOMAIN os
    BY <1>2, <1>3
  <2>2. \A c \in ds : c.inNodeId \in DOMAIN os /\ c.outNodeId \in DOMAIN os
    BY <1>2, <1>4
  <2>3. \A n \in DOMAIN os \cap DOMAIN ns : os[n] = ns[n]
    BY <1>2
  <2>4. \A n \in DOMAIN os \cap DOMAIN ms : os[n] = ms[n]
    BY <1>2
  <2>5. Sound(os, cs)
    BY <1>2, <2>1, <2>3, CarriedSound
  <2>6. Sound(os, ds)
    BY <1>2, <2>2, <2>4, CarriedSound
  <2> QED BY <2>5, <2>6
<1>6. /\ \A c \in cs : Joins(os, c)
      /\ \A c, d \in cs : c = d \/ Apart(os, c, d)
      /\ \A c \in ds : Joins(os, c)
      /\ \A c, d \in ds : c = d \/ Apart(os, c, d)
  BY <1>5, SoundIs
<1>7. \A c, d \in es : c = d \/ Apart(os, c, d)
  <2>1. \A c \in cs, d \in ds : Apart(os, c, d) /\ Apart(os, d, c)
    BY <1>3, <1>4 DEF Apart
  <2> QED BY <1>6, <2>1
<1>8. DOMAIN ns \subseteq NodeId /\ DOMAIN ms \subseteq NodeId
  BY <1>1, NodeMapIs
<1>9. ASSUME NEW c \in cs PROVE ~Reach(es, c.inNodeId, c.outNodeId)
  <2>1. \A d \in ds : d.outNodeId \notin DOMAIN ns
    BY <1>4
  <2>2. Reach(cs \cup ds, c.inNodeId, c.outNodeId) => Reach(cs, c.inNodeId, c.outNodeId)
    BY <1>3, <1>8, <2>1, ReachWithin
  <2> QED BY <1>1, <2>2
<1>10. ASSUME NEW c \in ds PROVE ~Reach(es, c.inNodeId, c.outNodeId)
  <2>1. \A d \in cs : d.outNodeId \notin DOMAIN ms
    BY <1>3
  <2>2. Reach(ds \cup cs, c.inNodeId, c.outNodeId) => Reach(ds, c.inNodeId, c.outNodeId)
    BY <1>4, <1>8, <2>1, ReachWithin
  <2>3. ds \cup cs = es
    OBVIOUS
  <2> QED BY <1>1, <2>2, <2>3
<1>11. es \subseteq ConnectionId
  BY <1>1
<1>12. Sound(os, es)
  BY <1>2, <1>6, <1>7, <1>9, <1>10, <1>11, SoundIs
<1> QED BY <1>12 DEF os

-----------------------------------------------------------------------------
(* New ids for a copy.                                                     *)

LEMMA NewIdIs ==
  ASSUME NEW ns \in SUBSET NodeId, nextNodeId \in Nat
  PROVE  /\ \A n \in ns : NewId(ns, n) \in nextNodeId .. nextNodeId + Cardinality(ns) - 1
         /\ \A n, m \in ns : NewId(ns, n) = NewId(ns, m) => n = m
<1> DEFINE B(n) == {k \in ns : k < n}
<1>1. IsFiniteSet(ns) /\ Cardinality(ns) \in Nat
  BY ConnectionsAreFinite, FS_Subset, FS_CardinalityType
<1>2. \A n \in ns : n \in Int
  BY HistoryConstants DEF NodeId
<1>3. ASSUME NEW n \in ns PROVE IsFiniteSet(B(n)) /\ Cardinality(B(n)) \in Nat
  BY <1>1, FS_Subset, FS_CardinalityType
<1>4. ASSUME NEW n \in ns, NEW S \in SUBSET ns, B(n) \cup {n} \subseteq S
      PROVE  Cardinality(B(n)) + 1 <= Cardinality(S) /\ Cardinality(S) \in Nat
  <2>1. n \notin B(n)
    BY <1>2
  <2>2. Cardinality(B(n) \cup {n}) = Cardinality(B(n)) + 1
    BY <1>3, <2>1, FS_AddElement
  <2>3. IsFiniteSet(S)
    BY <1>1, FS_Subset
  <2>4. Cardinality(B(n) \cup {n}) <= Cardinality(S) /\ Cardinality(S) \in Nat
    BY <1>4, <2>3, FS_Subset, FS_CardinalityType
  <2> QED BY <2>2, <2>4
<1>5. \A n \in ns : NewId(ns, n) = nextNodeId + Cardinality(B(n))
  BY DEF NewId
<1>6. ASSUME NEW n \in ns PROVE NewId(ns, n) \in nextNodeId .. nextNodeId + Cardinality(ns) - 1
  <2>1. B(n) \cup {n} \subseteq ns
    OBVIOUS
  <2>2. Cardinality(B(n)) + 1 <= Cardinality(ns)
    BY <1>4, <2>1
  <2>3. Cardinality(B(n)) \in Nat
    BY <1>3
  <2> HIDE DEF B
  <2> QED BY <1>1, <1>5, <2>2, <2>3
<1>7. ASSUME NEW n \in ns, NEW m \in ns, n < m PROVE NewId(ns, n) # NewId(ns, m)
  <2>1. B(n) \cup {n} \subseteq B(m) /\ B(m) \in SUBSET ns
    BY <1>2, <1>7
  <2>2. Cardinality(B(n)) + 1 <= Cardinality(B(m))
    BY <1>4, <2>1
  <2>3. Cardinality(B(n)) \in Nat /\ Cardinality(B(m)) \in Nat
    BY <1>3
  <2> HIDE DEF B
  <2> QED BY <1>5, <2>2, <2>3
<1>8. \A n, m \in ns : n = m \/ n < m \/ m < n
  BY <1>2
<1> QED BY <1>6, <1>7, <1>8

LEMMA FreshNodes ==
  ASSUME NEW saved, saved.nodes \in NodeMaps, nextNodeId \in Nat,
         nextNodeId + Cardinality(DOMAIN saved.nodes) <= InvalidNodeId
  PROVE  LET ns == DOMAIN saved.nodes
             fresh == makeNewNodeIds(saved).nodes
         IN  /\ fresh \in NodeMaps /\ DOMAIN fresh = {NewId(ns, n) : n \in ns}
             /\ DOMAIN fresh \subseteq nextNodeId .. nextNodeId + Cardinality(ns) - 1
             /\ \A n \in ns : fresh[NewId(ns, n)] = saved.nodes[n]
<1> DEFINE ns == DOMAIN saved.nodes
           D == {NewId(ns, n) : n \in ns}
           f == [k \in D |-> saved.nodes[CHOOSE n \in ns : NewId(ns, n) = k]]
<1>1. ns \in SUBSET NodeId /\ saved.nodes \in [ns -> Model]
  BY NodeMapIs
<1>2. /\ \A n \in ns : NewId(ns, n) \in nextNodeId .. nextNodeId + Cardinality(ns) - 1
      /\ \A n, m \in ns : NewId(ns, n) = NewId(ns, m) => n = m
  BY <1>1, NewIdIs
<1>3. Cardinality(ns) \in Nat
  BY <1>1, ConnectionsAreFinite, FS_Subset, FS_CardinalityType
<1>4. makeNewNodeIds(saved).nodes = f
  BY DEF makeNewNodeIds
<1> HIDE DEF ns
<1>5. D \subseteq nextNodeId .. nextNodeId + Cardinality(ns) - 1
  BY <1>2
<1>6. nextNodeId .. nextNodeId + Cardinality(ns) - 1 \subseteq NodeId
  <2>1. nextNodeId + Cardinality(ns) <= InvalidNodeId
    BY DEF ns
  <2> QED BY <1>3, <2>1, HistoryConstants DEF NodeId
<1>7. ASSUME NEW n \in ns PROVE (CHOOSE m \in ns : NewId(ns, m) = NewId(ns, n)) = n
  BY <1>2
<1>8. \A n \in ns : f[NewId(ns, n)] = saved.nodes[n]
  BY <1>7
<1>9. \A k \in D : f[k] \in Model
  BY <1>1, <1>8
<1>10. f \in NodeMaps
  <2>1. DOMAIN f = D /\ D \subseteq NodeId
    BY <1>5, <1>6
  <2>2. f \in [D -> Model]
    BY <1>9
  <2> HIDE DEF f, D
  <2> QED BY <2>1, <2>2, NodeMapIs
<1>11. DOMAIN f = D
  OBVIOUS
<1> HIDE DEF f
<1> QED BY <1>4, <1>5, <1>8, <1>10, <1>11 DEF ns

LEMMA RenamedIs ==
  ASSUME NEW c \in ConnectionId, NEW ns
  PROVE  /\ Renamed(c, ns).outNodeId = NewId(ns, c.outNodeId)
         /\ Renamed(c, ns).inNodeId = NewId(ns, c.inNodeId)
         /\ Renamed(c, ns).outPortIndex = c.outPortIndex
            /\ Renamed(c, ns).inPortIndex = c.inPortIndex
         /\ NewId(ns, c.outNodeId) \in NodeId /\ NewId(ns, c.inNodeId) \in NodeId
              => Renamed(c, ns) \in ConnectionId
<1> DEFINE u == NewId(ns, c.outNodeId)
           v == NewId(ns, c.inNodeId)
           d == [c EXCEPT !.outNodeId = u]
<1>1. c = [outNodeId |-> c.outNodeId, outPortIndex |-> c.outPortIndex,
           inNodeId |-> c.inNodeId, inPortIndex |-> c.inPortIndex]
      /\ c.outPortIndex \in 0 .. MaxPorts - 1 /\ c.inPortIndex \in 0 .. MaxPorts - 1
  BY ConnectionIs
<1>2. Renamed(c, ns) = [c EXCEPT !.outNodeId = u, !.inNodeId = v]
  BY DEF Renamed
<1> HIDE DEF u, v
<1>3. d = [outNodeId |-> u, outPortIndex |-> c.outPortIndex,
           inNodeId |-> c.inNodeId, inPortIndex |-> c.inPortIndex]
  BY <1>1
<1>4. [c EXCEPT !.outNodeId = u, !.inNodeId = v] = [d EXCEPT !.inNodeId = v]
  OBVIOUS
<1> HIDE DEF d
<1>5. Renamed(c, ns) = [outNodeId |-> u, outPortIndex |-> c.outPortIndex,
                        inNodeId |-> v, inPortIndex |-> c.inPortIndex]
  BY <1>2, <1>3, <1>4
<1> QED BY <1>1, <1>5, ConnectionIs DEF u, v

LEMMA FreshSound ==
  ASSUME NEW saved, Sound(saved.nodes, saved.conns), nextNodeId \in Nat,
         nextNodeId + Cardinality(DOMAIN saved.nodes) <= InvalidNodeId
  PROVE  Sound(makeNewNodeIds(saved).nodes, makeNewNodeIds(saved).conns)
<1> DEFINE ns == DOMAIN saved.nodes
           cs == saved.conns
           f == makeNewNodeIds(saved).nodes
           F == makeNewNodeIds(saved).conns
           New(n) == NewId(ns, n)
           Ren(c) == Renamed(c, ns)
<1>1. /\ saved.nodes \in NodeMaps /\ cs \subseteq ConnectionId
      /\ \A c \in cs : Joins(saved.nodes, c) /\ ~Reach(cs, c.inNodeId, c.outNodeId)
      /\ \A c, d \in cs : c = d \/ Apart(saved.nodes, c, d)
  BY SoundIs
<1>2. /\ f \in NodeMaps /\ DOMAIN f = {New(n) : n \in ns}
      /\ \A n \in ns : f[New(n)] = saved.nodes[n]
  BY <1>1, FreshNodes
<1>3. ns \in SUBSET NodeId /\ \A n, m \in ns : New(n) = New(m) => n = m
  BY <1>1, NodeMapIs, NewIdIs
<1>4. \A c \in cs : c.outNodeId \in ns /\ c.inNodeId \in ns
  BY <1>1 DEF Joins
<1>5. F = {Ren(c) : c \in cs}
  BY <1>4 DEF makeNewNodeIds
<1>6. \A n \in ns : New(n) \in NodeId
  BY <1>2, NodeMapIs
<1> HIDE DEF ns, cs, New, f, F
<1>7. \A c \in cs : /\ Ren(c).outNodeId = New(c.outNodeId) /\ Ren(c).inNodeId = New(c.inNodeId)
                    /\ Ren(c).outPortIndex = c.outPortIndex
                       /\ Ren(c).inPortIndex = c.inPortIndex
                    /\ Ren(c) \in ConnectionId
  BY <1>1, <1>4, <1>6, RenamedIs DEF New
<1> HIDE DEF Ren
<1>8. ASSUME NEW c \in cs
      PROVE  Joins(f, Ren(c)) /\ OutPort(f, Ren(c)) = OutPort(saved.nodes, c)
             /\ InPort(f, Ren(c)) = InPort(saved.nodes, c)
  <2>1. f[Ren(c).outNodeId] = saved.nodes[c.outNodeId]
        /\ f[Ren(c).inNodeId] = saved.nodes[c.inNodeId]
    BY <1>2, <1>4, <1>7
  <2>2. Ren(c).outNodeId \in DOMAIN f /\ Ren(c).inNodeId \in DOMAIN f
    BY <1>2, <1>4, <1>7
  <2>3. OutPort(f, Ren(c)) = OutPort(saved.nodes, c)
        /\ InPort(f, Ren(c)) = InPort(saved.nodes, c)
    BY <1>7, <2>1 DEF OutPort, InPort
  <2>4. Joins(saved.nodes, c)
    BY <1>1
  <2> QED BY <1>7, <2>1, <2>2, <2>3, <2>4 DEF Joins
<1>9. ASSUME NEW c \in cs, NEW d \in cs PROVE Ren(c) = Ren(d) \/ Apart(f, Ren(c), Ren(d))
  <2>1. CASE c = d
    BY <2>1
  <2>2. CASE Apart(saved.nodes, c, d)
    <3>1. /\ Ren(c).outNodeId = Ren(d).outNodeId => c.outNodeId = d.outNodeId
          /\ Ren(c).inNodeId = Ren(d).inNodeId => c.inNodeId = d.inNodeId
      BY <1>3, <1>4, <1>7
    <3> QED BY <1>7, <1>8, <2>2, <3>1 DEF Apart
  <2> QED BY <1>1, <2>1, <2>2
<1>10. ASSUME NEW c \in cs PROVE ~Reach(F, Ren(c).inNodeId, Ren(c).outNodeId)
  <2>1. PICK S \in SUBSET NodeId : /\ c.inNodeId \in S /\ c.outNodeId \notin S
                                   /\ \A d \in cs : d.outNodeId \in S => d.inNodeId \in S
    BY <1>1 DEF Reach
  <2> DEFINE T == {New(n) : n \in S \cap ns}
  <2>2. T \in SUBSET NodeId
    BY <1>6
  <2>3. ASSUME NEW d \in cs, Ren(d).outNodeId \in T PROVE Ren(d).inNodeId \in T
    <3>1. PICK n \in S \cap ns : Ren(d).outNodeId = New(n)
      BY <2>3
    <3>2. d.outNodeId = n
      BY <1>3, <1>4, <1>7, <3>1
    <3> QED BY <1>4, <1>7, <2>1, <3>2
  <2>4. \A e \in F : e.outNodeId \in T => e.inNodeId \in T
    BY <1>5, <2>3
  <2>5. Ren(c).inNodeId \in T
    BY <1>4, <1>7, <2>1
  <2>6. Ren(c).outNodeId \notin T
    <3>1. SUFFICES ASSUME NEW n \in S \cap ns, New(c.outNodeId) = New(n) PROVE FALSE
      BY <1>7
    <3> QED BY <1>3, <1>4, <2>1, <3>1
  <2> HIDE DEF T
  <2> QED BY <2>2, <2>4, <2>5, <2>6 DEF Reach
<1>11. /\ F \subseteq ConnectionId
       /\ \A e \in F : Joins(f, e) /\ ~Reach(F, e.inNodeId, e.outNodeId)
       /\ \A e, d \in F : e = d \/ Apart(f, e, d)
  BY <1>5, <1>7, <1>8, <1>9, <1>10
<1>12. Sound(f, F)
  BY <1>2, <1>11, SoundIs
<1> QED BY <1>12 DEF f, F

-----------------------------------------------------------------------------
(* The gestures.                                                           *)

LEMMA IdsGrow ==
  ASSUME NEW a \in Nat, NEW b \in 0 .. InvalidNodeId, a <= b
  PROVE  0 .. a - 1 \subseteq 0 .. b - 1 /\ a .. b - 1 \subseteq 0 .. b - 1 /\ b \in Nat
<1>1. b \in Nat
  BY HistoryConstants
<1> QED BY <1>1

\* What the invariant says of the state itself.
LEMMA GraphIs ==
  ASSUME HistoryInv
  PROVE  LET A == Snapshot(graph)
         IN  /\ graph = Whole(A) /\ A.nodes = graph.nodes /\ A.conns = graph.conns
             /\ A \in Snapshots /\ Sound(A.nodes, A.conns) /\ graph.drawn = graph.conns
             /\ DOMAIN A.nodes \subseteq 0 .. nextNodeId - 1 /\ nextNodeId \in Nat
             /\ Track(recorded, history, A) /\ StackOf(history, EditCommand)
<1> DEFINE A == Snapshot(graph)
           j == history.index + 1
<1>1. A.nodes = graph.nodes /\ A.conns = graph.conns
  BY DEF Snapshot
<1>2. graph = Graph(graph.nodes, graph.conns)
  BY DEF HistoryInv
<1>3. graph.drawn = graph.conns
  BY <1>2 DEF Graph
<1>4. Track(recorded, history, A) /\ StackOf(history, EditCommand)
  BY DEF HistoryInv
<1>5. j \in 1 .. Len(recorded) /\ recorded[j] = A /\ recorded \in Seq(Snapshots)
      /\ \A i \in 1 .. Len(recorded) : Sound(recorded[i].nodes, recorded[i].conns)
  BY <1>4 DEF Track, StackOf
<1>6. A \in Snapshots /\ Sound(A.nodes, A.conns)
  BY <1>5
<1>7. DOMAIN A.nodes \subseteq 0 .. nextNodeId - 1
  BY <1>5 DEF HistoryInv, Below
<1>8. nextNodeId \in Nat
  BY HistoryConstants DEF HistoryInv
<1> HIDE DEF A
<1>9. graph = Whole(A)
  BY <1>1, <1>2 DEF Whole
<1> QED BY <1>1, <1>3, <1>4, <1>6, <1>7, <1>8, <1>9 DEF A

LEMMA WholeIs ==
  ASSUME NEW B \in Snapshots
  PROVE  Snapshot(Whole(B)) = B /\ Whole(B) = Graph(Whole(B).nodes, Whole(B).conns)
BY DEF Snapshots, Snapshot, Whole, Graph

\* A pushed command that makes a graph of the present one.
LEMMA PushInv ==
  ASSUME HistoryInv, NEW cmd \in EditCommand, NEW B, Makes(cmd, Snapshot(graph), B),
         cmd.kind = "replace" => cmd.spare = B.conns, Push(cmd),
         nextNodeId' \in 0 .. InvalidNodeId, nextNodeId <= nextNodeId',
         DOMAIN B.nodes \subseteq 0 .. nextNodeId' - 1,
         Sound(clipboard'.nodes, clipboard'.conns)
  PROVE  HistoryInv'
<1> DEFINE A == Snapshot(graph)
           after == redoOf(cmd, graph)
           d == after.cmd
<1>1. /\ graph = Whole(A) /\ nextNodeId \in Nat /\ A \in Snapshots
      /\ Track(recorded, history, A) /\ StackOf(history, EditCommand)
  BY GraphIs
<1>2. B \in Snapshots
  BY DEF Makes
<1>3. graph' = after.graph /\ history' = Pushed(history, d)
      /\ recorded' = Append(SubSeq(recorded, 1, history.index + 1), Snapshot(graph'))
  BY DEF Push, Roll
<1>4. after.graph = Whole(B) /\ Retains(d, cmd, A.conns)
  BY <1>1, RedoMakes
<1> HIDE DEF A, after, d
<1>5. graph' = Whole(B) /\ Snapshot(graph') = B /\ graph' = Graph(graph'.nodes, graph'.conns)
  BY <1>2, <1>3, <1>4, WholeIs
<1>6. d \in EditCommand
  BY <1>4 DEF Retains
<1>7. StackOf(history', EditCommand) /\ PushedLike(history', history, d)
  BY <1>1, <1>3, <1>6, PushedIs
<1>8. Makes(d, A, B) /\ (d.kind = "replace" => d.spare = A.conns)
  <2>1. Makes(cmd, A, B)
    BY DEF A
  <2>2. CASE d.kind = "replace"
    BY <1>4, <2>1, <2>2 DEF Makes, Retains
  <2>3. CASE d.kind # "replace"
    BY <1>4, <2>1, <2>3 DEF Retains
  <2> QED BY <2>2, <2>3
<1>9. recorded' = Append(SubSeq(recorded, 1, history.index + 1), B)
  BY <1>3, <1>5
<1>10. Track(recorded', history', B)
  BY <1>1, <1>6, <1>7, <1>8, <1>9, TrackPushed
<1>11. Below(recorded', nextNodeId')
  <2> DEFINE j == history.index
             M == SubSeq(recorded, 1, j + 1)
  <2>1. /\ M \in Seq(Snapshots) /\ Len(M) = j + 1
        /\ \A i \in 1 .. j + 1 : M[i] = recorded[i] /\ i \in 1 .. Len(recorded)
    BY <1>1, StartOf
  <2>2. j \in Nat
    BY <1>1 DEF StackOf
  <2>3. recorded' = Append(M, B)
    BY <1>9
  <2> HIDE DEF M, j
  <2>4. Len(recorded') = (j + 1) + 1 /\ recorded'[(j + 1) + 1] = B
        /\ \A i \in 1 .. j + 1 : recorded'[i] = recorded[i] /\ i \in 1 .. Len(recorded)
    BY <1>2, <2>1, <2>2, <2>3
  <2>5. \A i \in 1 .. (j + 1) + 1 : i \in 1 .. j + 1 \/ i = (j + 1) + 1
    BY <2>2
  <2>6. 0 .. nextNodeId - 1 \subseteq 0 .. nextNodeId' - 1
    BY <1>1, IdsGrow
  <2>7. \A i \in 1 .. Len(recorded) : DOMAIN recorded[i].nodes \subseteq 0 .. nextNodeId' - 1
    BY <2>6 DEF HistoryInv, Below
  <2> QED BY <2>4, <2>5, <2>7 DEF Below
<1> QED BY <1>5, <1>7, <1>10, <1>11 DEF HistoryInv

\* A command that calls itself obsolete leaves the graph as it is.
LEMMA ObsoleteInv ==
  ASSUME HistoryInv, UNCHANGED graph, history' = PushedObsolete(history),
         recorded' = SubSeq(recorded, 1, history.index + 1),
         nextNodeId' \in 0 .. InvalidNodeId, nextNodeId <= nextNodeId',
         Sound(clipboard'.nodes, clipboard'.conns)
  PROVE  HistoryInv'
<1> DEFINE A == Snapshot(graph)
           j == history.index
<1>1. /\ Track(recorded, history, A) /\ StackOf(history, EditCommand)
      /\ nextNodeId \in Nat
  BY GraphIs
<1>2. Track(recorded', history', A)
  BY <1>1, TrackDropped
<1>3. StackOf(history', EditCommand)
  BY <1>1, PushedObsoleteIs
<1>4. Snapshot(graph') = A /\ graph' = Graph(graph'.nodes, graph'.conns)
  BY DEF HistoryInv
<1>5. Below(recorded', nextNodeId')
  <2>1. /\ Len(recorded') = j + 1
        /\ \A i \in 1 .. j + 1 : recorded'[i] = recorded[i] /\ i \in 1 .. Len(recorded)
    BY <1>1, StartOf
  <2>2. 0 .. nextNodeId - 1 \subseteq 0 .. nextNodeId' - 1
    BY <1>1, IdsGrow
  <2> QED BY <2>1, <2>2 DEF HistoryInv, Below
<1> HIDE DEF A
<1> QED BY <1>2, <1>3, <1>4, <1>5 DEF HistoryInv

LEMMA HistoryInitInv == Init => HistoryInv
<1> SUFFICES ASSUME Init PROVE HistoryInv
  OBVIOUS
<1> DEFINE A == Snapshot(graph)
<1>1. /\ graph = Graph(Start.nodes, Start.conns) /\ nextNodeId = Cardinality(DOMAIN Start.nodes)
      /\ history = [cmds |-> <<>>, index |-> 0] /\ clipboard = [nodes |-> NoNodes, conns |-> {}]
      /\ recorded = <<A>>
  BY DEF Init, Graph, EmptyStack
<1>2. IsSaved(Start) /\ IsLegal(Start)
  BY StartIsLegal DEF IsLegal
<1>3. A = [nodes |-> Start.nodes, conns |-> Start.conns]
  BY <1>1 DEF Snapshot, Graph
<1>4. Start.nodes \in NodeMaps
  BY <1>2 DEF IsSaved, NodeMaps
<1>5. Sound(Start.nodes, Start.conns)
  <2>1. /\ Start.conns \subseteq ConnectionId
        /\ \A c \in Start.conns : Joins(Start.nodes, c)
           /\ ~Reach(Start.conns, c.inNodeId, c.outNodeId)
        /\ \A c, d \in Start.conns : c = d \/ Apart(Start.nodes, c, d)
    BY <1>2 DEF IsLegal, IsSaved
  <2> QED BY <1>4, <2>1, SoundIs
<1>6. A \in Snapshots /\ Sound(A.nodes, A.conns)
  BY <1>2, <1>3, <1>4, <1>5 DEF IsSaved, Snapshots
<1>7. PICK k \in 0 .. InvalidNodeId : DOMAIN Start.nodes = 0 .. k - 1
  BY StartIsLegal
<1>8. nextNodeId = k
  <2>1. k \in Nat /\ 0 \in Int /\ k - 1 \in Int
    BY <1>7, HistoryConstants
  <2>2. Cardinality(0 .. k - 1) = IF 0 > k - 1 THEN 0 ELSE (k - 1) - 0 + 1
    BY <2>1, FS_Interval
  <2> QED BY <1>1, <1>7, <2>1, <2>2
<1> HIDE DEF A
<1>9. StackOf(history, EditCommand) /\ history.index = 0 /\ Len(history.cmds) = 0
  BY <1>1 DEF StackOf
<1>10. Len(recorded) = 1 /\ recorded[1] = A /\ recorded \in Seq(Snapshots)
  BY <1>1, <1>6
<1>11. Track(recorded, history, A)
  BY <1>6, <1>9, <1>10 DEF Track
<1>12. Below(recorded, nextNodeId)
  BY <1>3, <1>7, <1>8, <1>10 DEF Below
<1>13. Sound(clipboard.nodes, clipboard.conns)
  <2>1. NoNodes \in NodeMaps
    BY NodeMapIs DEF NoNodes
  <2>2. clipboard.nodes = NoNodes /\ clipboard.conns = {}
    BY <1>1
  <2> QED BY <2>1, <2>2, SoundIs
<1>14. graph = Graph(graph.nodes, graph.conns)
  BY <1>1 DEF Graph
<1> QED BY <1>7, <1>8, <1>9, <1>11, <1>12, <1>13, <1>14 DEF HistoryInv, A

\* Nodes no connection is at.
LEMMA BareSound ==
  ASSUME NEW ns \in NodeMaps
  PROVE  Sound(ns, {})
BY SoundIs

\* A command of nodes and connections that are in the graph nowhere.
LEMMA AddingMakes ==
  ASSUME HistoryInv, NEW cmd, cmd.kind \in {"create", "paste"},
         cmd.kind = "create" => cmd.conns = {},
         Sound(cmd.nodes, cmd.conns),
         NEW k, k \in 0 .. InvalidNodeId, nextNodeId <= k,
         DOMAIN cmd.nodes \subseteq nextNodeId .. k - 1
  PROVE  \E B : Makes(cmd, Snapshot(graph), B) /\ DOMAIN B.nodes \subseteq 0 .. k - 1
<1> DEFINE A == Snapshot(graph)
           B == [nodes |-> Over(cmd.nodes, A.nodes), conns |-> A.conns \cup cmd.conns]
<1>1. /\ A \in Snapshots /\ Sound(A.nodes, A.conns)
      /\ DOMAIN A.nodes \subseteq 0 .. nextNodeId - 1 /\ nextNodeId \in Nat
  BY GraphIs
<1>2. /\ A.nodes \in NodeMaps /\ A.conns \subseteq ConnectionId /\ cmd.nodes \in NodeMaps
      /\ cmd.conns \subseteq ConnectionId
      /\ \A c \in A.conns : Joins(A.nodes, c)
      /\ \A c \in cmd.conns : Joins(cmd.nodes, c)
  BY <1>1, SoundIs
<1> HIDE DEF A
<1>3. DOMAIN cmd.nodes \cap DOMAIN A.nodes = {}
  BY <1>1
<1>4. cmd.conns \cap A.conns = {}
  BY <1>2, <1>3 DEF Joins
<1>5. Sound(B.nodes, B.conns)
  BY <1>1, <1>3, UnionSound
<1>6. Adds(cmd, A, B)
  BY <1>3, <1>4 DEF Adds
<1>7. /\ Over(cmd.nodes, A.nodes) \in NodeMaps
      /\ DOMAIN Over(cmd.nodes, A.nodes) = DOMAIN cmd.nodes \cup DOMAIN A.nodes
  BY <1>2, OverIs
<1>8. B \in Snapshots /\ DOMAIN B.nodes \subseteq 0 .. k - 1
  <2>1. B \in Snapshots
    BY <1>2, <1>7 DEF Snapshots
  <2>2. nextNodeId .. k - 1 \subseteq 0 .. k - 1 /\ 0 .. nextNodeId - 1 \subseteq 0 .. k - 1
    BY <1>1, IdsGrow
  <2>3. DOMAIN B.nodes \subseteq 0 .. k - 1
    BY <1>1, <1>7, <2>2
  <2> QED BY <2>1, <2>3
<1> HIDE DEF B
<1>9. Makes(cmd, A, B)
  BY <1>1, <1>5, <1>6, <1>8 DEF Makes
<1> QED BY <1>8, <1>9 DEF A

LEMMA CreateInv ==
  ASSUME HistoryInv, NEW m \in Model, Create(m)
  PROVE  HistoryInv'
<1> DEFINE ns == [n \in {nextNodeId} |-> m]
           cmd == [kind |-> "create", nodes |-> ns, conns |-> {}]
<1>1. /\ nextNodeId + 1 <= InvalidNodeId /\ nextNodeId' = nextNodeId + 1 /\ Push(cmd)
      /\ UNCHANGED clipboard
  BY DEF Create, TakeIds
<1>2. nextNodeId \in Nat
  BY GraphIs
<1>3. nextNodeId' \in 0 .. InvalidNodeId /\ nextNodeId <= nextNodeId' /\ nextNodeId \in NodeId
      /\ {nextNodeId} \subseteq nextNodeId .. nextNodeId' - 1
  BY <1>1, <1>2, HistoryConstants DEF NodeId
<1>4. ns \in NodeMaps /\ DOMAIN ns = {nextNodeId}
  <2>1. DOMAIN ns = {nextNodeId} /\ ns \in [{nextNodeId} -> Model]
    OBVIOUS
  <2> HIDE DEF ns
  <2> QED BY <1>3, <2>1, NodeMapIs
<1>5. Sound(ns, {})
  BY <1>4, BareSound
<1> HIDE DEF ns
<1>6. cmd.kind = "create" /\ cmd.nodes = ns /\ cmd.conns = {} /\ cmd \in EditCommand
  BY <1>4 DEF EditCommand, EditKinds
<1> HIDE DEF cmd
<1>7. PICK B : Makes(cmd, Snapshot(graph), B) /\ DOMAIN B.nodes \subseteq 0 .. nextNodeId' - 1
  <2>1. /\ cmd.kind \in {"create", "paste"} /\ (cmd.kind = "create" => cmd.conns = {})
        /\ Sound(cmd.nodes, cmd.conns)
           /\ DOMAIN cmd.nodes \subseteq nextNodeId .. nextNodeId' - 1
    BY <1>3, <1>4, <1>5, <1>6
  <2> QED BY <1>3, <2>1, AddingMakes
<1>8. Sound(clipboard'.nodes, clipboard'.conns)
  BY <1>1 DEF HistoryInv
<1>9. cmd.kind # "replace"
  BY <1>6
<1> QED BY <1>1, <1>3, <1>6, <1>7, <1>8, <1>9, PushInv

LEMMA PasteInv ==
  ASSUME HistoryInv, Paste
  PROVE  HistoryInv'
<1> DEFINE fresh == makeNewNodeIds(clipboard)
           cmd == [kind |-> "paste", nodes |-> fresh.nodes, conns |-> fresh.conns]
           size == Cardinality(DOMAIN clipboard.nodes)
<1>1. /\ nextNodeId + size <= InvalidNodeId /\ nextNodeId' = nextNodeId + size /\ Push(cmd)
      /\ UNCHANGED clipboard
  BY DEF Paste, TakeIds
<1>2. nextNodeId \in Nat /\ Sound(clipboard.nodes, clipboard.conns)
  BY GraphIs DEF HistoryInv
<1>3. clipboard.nodes \in NodeMaps
  BY <1>2, SoundIs
<1>4. size \in Nat
  BY <1>3, NodeMapIs, ConnectionsAreFinite, FS_Subset, FS_CardinalityType
<1>5. fresh.nodes \in NodeMaps
      /\ DOMAIN fresh.nodes \subseteq nextNodeId .. nextNodeId + size - 1
  BY <1>1, <1>2, <1>3, FreshNodes
<1>6. Sound(fresh.nodes, fresh.conns)
  BY <1>1, <1>2, FreshSound
<1> HIDE DEF fresh, size
<1>7. cmd.kind = "paste" /\ cmd.nodes = fresh.nodes /\ cmd.conns = fresh.conns
      /\ cmd \in EditCommand
  <2>1. fresh.conns \subseteq ConnectionId
    BY <1>6, SoundIs
  <2> QED BY <1>5, <2>1 DEF EditCommand, EditKinds
<1> HIDE DEF cmd
<1>8. nextNodeId' \in 0 .. InvalidNodeId /\ nextNodeId <= nextNodeId'
  BY <1>1, <1>2, <1>4, HistoryConstants
<1>9. PICK B : Makes(cmd, Snapshot(graph), B) /\ DOMAIN B.nodes \subseteq 0 .. nextNodeId' - 1
  <2>1. /\ cmd.kind \in {"create", "paste"} /\ (cmd.kind = "create" => cmd.conns = {})
    BY <1>7
  <2>2. Sound(cmd.nodes, cmd.conns)
    BY <1>6, <1>7
  <2>3. DOMAIN cmd.nodes \subseteq nextNodeId .. nextNodeId' - 1
    <3>1. nextNodeId' = nextNodeId + size
      BY <1>1
    <3>2. DOMAIN cmd.nodes \subseteq nextNodeId .. nextNodeId + size - 1
      BY <1>5, <1>7
    <3>3. nextNodeId' - 1 = nextNodeId + size - 1
      BY <1>2, <1>4, <3>1
    <3> QED BY <3>2, <3>3
  <2> QED BY <1>8, <2>1, <2>2, <2>3, AddingMakes
<1>10. Sound(clipboard'.nodes, clipboard'.conns)
  BY <1>1, <1>2
<1>11. cmd.kind # "replace"
  BY <1>7
<1> QED BY <1>1, <1>7, <1>8, <1>9, <1>10, <1>11, PushInv

\* What has been loaded of a clipboard that cannot be loaded whole goes again.
LEMMA PasteFailsInv ==
  ASSUME HistoryInv, NEW loaded, PasteFails(loaded)
  PROVE  HistoryInv'
<1> DEFINE A == Snapshot(graph)
           fresh == makeNewNodeIds(clipboard)
           size == Cardinality(DOMAIN clipboard.nodes)
           part == Restrict(fresh.nodes, loaded)
           cmd == [nodes |-> part, conns |-> {}]
           B == [nodes |-> Over(part, A.nodes), conns |-> A.conns]
<1>1. /\ loaded \subseteq DOMAIN fresh.nodes
      /\ nextNodeId + size <= InvalidNodeId /\ nextNodeId' = nextNodeId + size
      /\ graph' = deleteNodes(loadNodes(graph, part), loaded)
         /\ history' = PushedObsolete(history)
      /\ recorded' = SubSeq(recorded, 1, history.index + 1) /\ UNCHANGED clipboard
  BY DEF PasteFails, TakeIds
<1>2. nextNodeId \in Nat /\ Sound(clipboard.nodes, clipboard.conns)
  BY GraphIs DEF HistoryInv
<1>3. clipboard.nodes \in NodeMaps
  BY <1>2, SoundIs
<1>4. size \in Nat
  BY <1>3, NodeMapIs, ConnectionsAreFinite, FS_Subset, FS_CardinalityType
<1>5. DOMAIN fresh.nodes \subseteq nextNodeId .. nextNodeId + size - 1
  BY <1>1, <1>2, <1>3, FreshNodes
<1>6. /\ graph = Whole(A) /\ A \in Snapshots /\ Sound(A.nodes, A.conns)
      /\ DOMAIN A.nodes \subseteq 0 .. nextNodeId - 1
  BY GraphIs
<1> HIDE DEF fresh, size, A
<1>7. DOMAIN part = loaded /\ loaded \cap DOMAIN A.nodes = {}
  BY <1>1, <1>2, <1>5, <1>6 DEF Restrict
<1> HIDE DEF part
<1>8. Adds(cmd, A, B)
  BY <1>7 DEF Adds
<1>9. deleteNodes(Graph(B.nodes, A.conns), DOMAIN cmd.nodes) = Whole(A)
  BY <1>6, <1>8, NodesGone
<1>10. loadNodes(graph, part) = Graph(B.nodes, A.conns)
  BY <1>6 DEF loadNodes, Whole, Graph
<1>11. UNCHANGED graph
  BY <1>1, <1>6, <1>7, <1>9, <1>10
<1>12. nextNodeId' \in 0 .. InvalidNodeId /\ nextNodeId <= nextNodeId'
  BY <1>1, <1>2, <1>4, HistoryConstants
<1>13. Sound(clipboard'.nodes, clipboard'.conns)
  BY <1>1, <1>2
<1> QED BY <1>1, <1>11, <1>12, <1>13, ObsoleteInv

\* A part of the nodes.
LEMMA PartIs ==
  ASSUME NEW ns \in NodeMaps, NEW S \in SUBSET DOMAIN ns
  PROVE  /\ Restrict(ns, S) \in NodeMaps /\ DOMAIN Restrict(ns, S) = S
         /\ \A n \in S : Restrict(ns, S)[n] = ns[n]
<1>1. DOMAIN ns \subseteq NodeId /\ ns \in [DOMAIN ns -> Model]
  BY NodeMapIs
<1> DEFINE ms == Restrict(ns, S)
<1>2. DOMAIN ms = S /\ \A n \in S : ms[n] = ns[n]
  BY DEF Restrict
<1>3. ms \in [S -> Model]
  BY <1>1 DEF Restrict
<1> HIDE DEF ms
<1>4. ms \in NodeMaps
  BY <1>1, <1>2, <1>3, NodeMapIs
<1> QED BY <1>2, <1>4 DEF ms

LEMMA PartsAreAll ==
  ASSUME NEW ns \in NodeMaps, NEW S \in SUBSET DOMAIN ns
  PROVE  Over(Restrict(ns, S), Restrict(ns, DOMAIN ns \ S)) = ns
<1> DEFINE f == Restrict(ns, S)
           g == Restrict(ns, DOMAIN ns \ S)
<1>1. DOMAIN f = S /\ (\A n \in S : f[n] = ns[n])
  BY PartIs
<1>2. DOMAIN g = DOMAIN ns \ S /\ (\A n \in DOMAIN ns \ S : g[n] = ns[n])
  <2> DEFINE T == DOMAIN ns \ S
  <2>1. T \in SUBSET DOMAIN ns
    OBVIOUS
  <2> HIDE DEF T
  <2>2. DOMAIN Restrict(ns, T) = T /\ (\A n \in T : Restrict(ns, T)[n] = ns[n])
    BY <2>1, PartIs
  <2> QED BY <2>2 DEF T
<1> HIDE DEF f, g
<1>3. Over(f, g) = [n \in DOMAIN ns |-> ns[n]]
  BY <1>1, <1>2 DEF Over
<1>4. ns = [n \in DOMAIN ns |-> ns[n]]
  BY DEF NodeMaps
<1> QED BY <1>3, <1>4 DEF f, g

LEMMA DeleteInv ==
  ASSUME HistoryInv, NEW ns \in SUBSET Nodes(graph),
         NEW cs \in SUBSET (graph.conns \ ConnectionsOf(graph, ns)), Delete(ns, cs)
  PROVE  HistoryInv'
<1> DEFINE A == Snapshot(graph)
           saved == cs \cup ConnectionsOf(graph, ns)
           kept == A.conns \ saved
           rest == DOMAIN A.nodes \ ns
           B == [nodes |-> Restrict(A.nodes, rest), conns |-> kept]
           cmd == [kind |-> "delete", nodes |-> Restrict(graph.nodes, ns), conns |-> saved]
<1>1. /\ A.nodes = graph.nodes /\ A.conns = graph.conns
      /\ A \in Snapshots /\ Sound(A.nodes, A.conns)
      /\ DOMAIN A.nodes \subseteq 0 .. nextNodeId - 1 /\ nextNodeId \in Nat
  BY GraphIs
<1>2. /\ IF ns = {} /\ saved = {} THEN PushObsolete ELSE Push(cmd)
      /\ nextNodeId' = nextNodeId /\ clipboard' = clipboard
  BY DEF Delete
<1>3. nextNodeId' \in 0 .. InvalidNodeId /\ nextNodeId <= nextNodeId'
  BY <1>1, <1>2 DEF HistoryInv
<1>4. Sound(clipboard'.nodes, clipboard'.conns)
  BY <1>2 DEF HistoryInv
<1>5. CASE ns = {} /\ saved = {}
  <2>1. PushObsolete
    BY <1>2, <1>5
  <2> QED BY <1>3, <1>4, <2>1, ObsoleteInv DEF PushObsolete
<1>6. CASE ~(ns = {} /\ saved = {})
  <2>1. saved \subseteq A.conns /\ ns \subseteq DOMAIN A.nodes /\ rest \in SUBSET DOMAIN A.nodes
    BY <1>1 DEF ConnectionsOf, Nodes
  <2>2. A.nodes \in NodeMaps /\ A.conns \subseteq ConnectionId
        /\ \A c \in A.conns : Joins(A.nodes, c)
    BY <1>1, SoundIs
  <2>3. \A c \in kept : c.inNodeId \in rest /\ c.outNodeId \in rest
    BY <1>1, <2>2 DEF Joins, ConnectionsOf
  <2>4. kept \in SUBSET A.conns /\ saved \cap kept = {} /\ A.conns = kept \cup saved
    BY <2>1
  <2>5. Push(cmd)
    BY <1>2, <1>6
  <2>6. cmd.kind = "delete" /\ cmd.nodes = Restrict(A.nodes, ns) /\ cmd.conns = saved
    BY <1>1
  <2>7. B.nodes = Restrict(A.nodes, rest) /\ B.conns = kept
        /\ B = [nodes |-> B.nodes, conns |-> B.conns]
    OBVIOUS
  <2>8. Over(Restrict(A.nodes, ns), Restrict(A.nodes, rest)) = A.nodes
    BY <2>1, <2>2, PartsAreAll
  <2>9. rest \cap ns = {}
    OBVIOUS
  <2>10. cmd = [kind |-> "delete", nodes |-> cmd.nodes, conns |-> cmd.conns]
    OBVIOUS
  <2> HIDE DEF A, saved, kept, rest, B, cmd
  <2>11. /\ cmd.nodes \in NodeMaps /\ DOMAIN cmd.nodes = ns
    BY <2>1, <2>2, <2>6, PartIs
  <2>12. /\ B.nodes \in NodeMaps /\ DOMAIN B.nodes = rest
            /\ \A n \in rest : B.nodes[n] = A.nodes[n]
    BY <2>1, <2>2, <2>7, PartIs
  <2>13. Sound(B.nodes, kept)
    <3>1. \A n \in DOMAIN B.nodes \cap DOMAIN A.nodes : B.nodes[n] = A.nodes[n]
      BY <2>12
    <3>2. \A c \in kept : c.inNodeId \in DOMAIN B.nodes /\ c.outNodeId \in DOMAIN B.nodes
      BY <2>3, <2>12
    <3> QED BY <1>1, <2>4, <2>12, <3>1, <3>2, CarriedSound
  <2>14. Adds(cmd, B, A)
    BY <2>4, <2>6, <2>7, <2>8, <2>9, <2>11, <2>12 DEF Adds
  <2>15. cmd \in EditCommand
    <3>1. cmd.conns \in SUBSET ConnectionId
      BY <2>1, <2>2, <2>6
    <3> QED BY <2>10, <2>11, <3>1 DEF EditCommand, EditKinds
  <2>16. B \in Snapshots
    BY <2>2, <2>4, <2>7, <2>12 DEF Snapshots
  <2>17. Makes(cmd, A, B)
    BY <1>1, <2>6, <2>7, <2>13, <2>14, <2>16 DEF Makes
  <2>18. DOMAIN B.nodes \subseteq 0 .. nextNodeId' - 1
    BY <1>1, <1>2, <2>1, <2>12
  <2> QED BY <1>3, <1>4, <2>5, <2>6, <2>15, <2>17, <2>18, PushInv DEF A
<1> QED BY <1>5, <1>6

LEMMA CopyInv ==
  ASSUME HistoryInv, NEW ns \in SUBSET Nodes(graph), Copy(ns)
  PROVE  HistoryInv'
<1> DEFINE among == {c \in graph.conns : c.inNodeId \in ns /\ c.outNodeId \in ns}
           part == Restrict(graph.nodes, ns)
<1>1. Sound(graph.nodes, graph.conns)
  BY GraphIs
<1>2. graph.nodes \in NodeMaps
  BY <1>1, SoundIs
<1>3. part \in NodeMaps /\ DOMAIN part = ns /\ \A n \in ns : part[n] = graph.nodes[n]
  BY <1>2, PartIs DEF Nodes
<1>4. among \in SUBSET graph.conns /\ \A c \in among : c.inNodeId \in ns /\ c.outNodeId \in ns
  OBVIOUS
<1>5. clipboard' = IF ns = {} THEN clipboard ELSE [nodes |-> part, conns |-> among]
  BY DEF Copy
<1> HIDE DEF part, among
<1>6. Sound(part, among)
  BY <1>1, <1>3, <1>4, CarriedSound
<1>7. Sound(clipboard'.nodes, clipboard'.conns)
  <2>1. CASE ns = {}
    BY <1>5, <2>1 DEF HistoryInv
  <2>2. CASE ns # {}
    BY <1>5, <1>6, <2>2
  <2> QED BY <2>1, <2>2
<1>8. nextNodeId' \in 0 .. InvalidNodeId /\ nextNodeId <= nextNodeId'
  BY GraphIs DEF Copy, HistoryInv
<1> QED BY <1>7, <1>8, ObsoleteInv DEF Copy, PushObsolete

\* Gestures that push a command which calls itself obsolete, and nothing else.
LEMMA NothingInv ==
  ASSUME HistoryInv, PushObsolete, UNCHANGED <<nextNodeId, clipboard>>
  PROVE  HistoryInv'
<1>1. nextNodeId' \in 0 .. InvalidNodeId /\ nextNodeId <= nextNodeId'
  BY GraphIs DEF HistoryInv
<1>2. Sound(clipboard'.nodes, clipboard'.conns)
  BY DEF HistoryInv
<1> QED BY <1>1, <1>2, ObsoleteInv DEF PushObsolete

LEMMA DisconnectInv ==
  ASSUME HistoryInv, NEW c \in ConnectionId, Disconnect(c)
  PROVE  HistoryInv'
<1> DEFINE A == Snapshot(graph)
           rest == A.conns \ {c}
           B == [nodes |-> A.nodes, conns |-> rest]
           cmd == [kind |-> "disconnect", nodes |-> NoNodes, conns |-> {c}]
<1>1. /\ A.conns = graph.conns /\ A \in Snapshots /\ Sound(A.nodes, A.conns)
      /\ DOMAIN A.nodes \subseteq 0 .. nextNodeId - 1 /\ nextNodeId \in Nat
  BY GraphIs
<1>2. c \in A.conns /\ Push(cmd) /\ nextNodeId' = nextNodeId /\ clipboard' = clipboard
  BY <1>1 DEF Disconnect
<1>3. nextNodeId' \in 0 .. InvalidNodeId /\ nextNodeId <= nextNodeId'
  BY <1>1, <1>2 DEF HistoryInv
<1>4. Sound(clipboard'.nodes, clipboard'.conns)
  BY <1>2 DEF HistoryInv
<1>5. NoNodes \in NodeMaps /\ DOMAIN NoNodes = {}
  BY NodeMapIs DEF NoNodes
<1>6. cmd \in EditCommand /\ cmd.kind = "disconnect" /\ cmd.nodes = NoNodes /\ cmd.conns = {c}
  BY <1>5 DEF EditCommand, EditKinds
<1> HIDE DEF A, cmd
<1>7. A.nodes \in NodeMaps /\ A.conns \subseteq ConnectionId
  BY <1>1 DEF Snapshots
<1>8. Sound(B.nodes, B.conns)
  BY <1>1, FewerSound
<1>9. Adds(cmd, B, A)
  <2>1. Over(NoNodes, A.nodes) = A.nodes
    BY <1>7, NothingOver
  <2> QED BY <1>2, <1>5, <1>6, <2>1 DEF Adds
<1>10. B \in Snapshots
  BY <1>7 DEF Snapshots
<1>11. DOMAIN B.nodes \subseteq 0 .. nextNodeId' - 1
  BY <1>1, <1>2
<1> HIDE DEF B
<1>12. Makes(cmd, A, B)
  BY <1>1, <1>6, <1>8, <1>9, <1>10 DEF Makes
<1> QED BY <1>2, <1>3, <1>4, <1>6, <1>11, <1>12, PushInv DEF A

(* What the theorems assume of the group file: its graph is legal, and if  *)
(* it has connections, no out port replaces its connection by another.     *)
FileSparesReplacements ==
  GroupFile # None =>
    /\ IsLegal(GroupFile)
    /\ \/ GroupFile.conns = {}
       \/ \A m \in Model : \A i \in 1 .. Len(Layout[m]["Out"]) : Layout[m]["Out"][i].policy
         = "Many"

\* What tryConnect() replaces is what a port for one connection has.
LEMMA OccupantsAre ==
  ASSUME HistoryInv, NEW c \in ConnectionId, Joins(graph.nodes, c)
  PROVE  /\ Occupants(c) \subseteq graph.conns
         /\ Occupants(c) # {} => OutPort(graph.nodes, c).policy = "One"
         /\ Occupants(c) # {} /\ c \in graph.conns => Occupants(c) = {c}
<1>1. \A d, e \in graph.conns : d = e \/ Apart(graph.nodes, d, e)
  <2>1. Sound(graph.nodes, graph.conns)
    BY GraphIs
  <2> QED BY <2>1, SoundIs
<1>2. Occupants(c) = IF OutPort(graph.nodes, c).policy # "One" THEN {}
                     ELSE {d \in graph.conns : d.outNodeId = c.outNodeId
                     /\ d.outPortIndex = c.outPortIndex}
  BY DEF Occupants, OutPort
<1>3. ASSUME Occupants(c) # {}, c \in graph.conns PROVE Occupants(c) = {c}
  <2>1. OutPort(graph.nodes, c).policy = "One"
    BY <1>2, <1>3
  <2>2. \A d \in graph.conns :
          d.outNodeId = c.outNodeId /\ d.outPortIndex = c.outPortIndex => d = c
    <3>1. ASSUME NEW d \in graph.conns, d.outNodeId = c.outNodeId,
                 d.outPortIndex = c.outPortIndex, d # c
          PROVE  FALSE
      <4>1. Apart(graph.nodes, c, d)
        BY <1>1, <1>3, <3>1
      <4>2. OutPort(graph.nodes, c).policy = "Many"
        BY <3>1, <4>1 DEF Apart
      <4> QED BY <2>1, <4>2
    <3> QED BY <3>1
  <2> QED BY <1>2, <1>3, <2>1, <2>2
<1> QED BY <1>2, <1>3

LEMMA TryConnectInv ==
  ASSUME HistoryInv, FileSparesReplacements, NEW c \in ConnectionId, NEW from,
         TryConnect(c, from)
  PROVE  HistoryInv'
<1> DEFINE A == Snapshot(graph)
           R == IF from = "Out" THEN Occupants(c) ELSE {}
           ds == (A.conns \ R) \cup {c}
           B == [nodes |-> A.nodes, conns |-> ds]
           adding1 == [kind |-> "connect", nodes |-> NoNodes, conns |-> {c}]
           replacing == [kind |-> "replace", removed |-> R, added |-> {c},
                         spare |-> (graph.conns \ R) \cup {c}]
<1>1. /\ A.nodes = graph.nodes /\ A.conns = graph.conns
      /\ A \in Snapshots /\ Sound(A.nodes, A.conns)
      /\ DOMAIN A.nodes \subseteq 0 .. nextNodeId - 1 /\ nextNodeId \in Nat
  BY GraphIs
<1>2. /\ Possible(graph, c, R)
      /\ IF R = {} THEN Push(adding1) ELSE IF R = {c} THEN PushObsolete ELSE Push(replacing)
      /\ nextNodeId' = nextNodeId /\ clipboard' = clipboard
  BY DEF TryConnect
<1>3. nextNodeId' \in 0 .. InvalidNodeId /\ nextNodeId <= nextNodeId'
  BY <1>1, <1>2 DEF HistoryInv
<1>4. Sound(clipboard'.nodes, clipboard'.conns)
  BY <1>2 DEF HistoryInv
<1>5. A.nodes \in NodeMaps /\ A.conns \subseteq ConnectionId
      /\ \A d \in A.conns : Joins(A.nodes, d)
  BY <1>1, SoundIs
<1>6. R \subseteq A.conns /\ (c \in A.conns /\ R # {} => R = {c})
      /\ (R # {} => OutPort(A.nodes, c).policy = "One") /\ Admits(A.nodes, A.conns, c, R)
  <2> DEFINE S == R
  <2>1. Possible(graph, c, S)
    BY <1>2
  <2> HIDE DEF S, A
  <2>2. Admits(A.nodes, A.conns, c, S)
    BY <1>1, <1>5, <2>1, PossibleIs
  <2>3. Joins(graph.nodes, c)
    BY <1>1, <2>2 DEF Admits
  <2> QED BY <1>1, <2>2, <2>3, OccupantsAre DEF S
<1>7. B.nodes = A.nodes /\ B.conns = ds
  OBVIOUS
<1>8. replacing.kind = "replace" /\ replacing.removed = R /\ replacing.added = {c}
      /\ replacing.spare = ds
  BY <1>1
<1>9. adding1.kind = "connect" /\ adding1.nodes = NoNodes /\ adding1.conns = {c}
  OBVIOUS
<1> HIDE DEF A
<1>10. B \in Snapshots /\ ds \in SUBSET ConnectionId
  <2>1. ds \in SUBSET ConnectionId
    BY <1>5
  <2> QED BY <1>5, <2>1 DEF Snapshots
<1> HIDE DEF R
<1>11. Sound(B.nodes, B.conns)
  BY <1>1, <1>6, AddedSound
<1>12. DOMAIN B.nodes \subseteq 0 .. nextNodeId' - 1
  BY <1>1, <1>2
<1>13. CASE R = {}
  <2>1. c \notin A.conns /\ ds = A.conns \cup {c}
    BY <1>6, <1>13 DEF Admits
  <2>2. NoNodes \in NodeMaps /\ DOMAIN NoNodes = {} /\ Over(NoNodes, A.nodes) = A.nodes
    BY <1>5, NodeMapIs, NothingOver DEF NoNodes
  <2>3. adding1 \in EditCommand
    BY <2>2 DEF EditCommand, EditKinds
  <2>4. Push(adding1)
    BY <1>2, <1>13
  <2> HIDE DEF adding1, ds, B
  <2>5. Adds(adding1, A, B)
    BY <1>7, <1>9, <2>1, <2>2 DEF Adds
  <2>6. Makes(adding1, A, B)
    BY <1>1, <1>9, <1>10, <1>11, <2>5 DEF Makes
  <2> QED BY <1>3, <1>4, <1>9, <1>12, <2>3, <2>4, <2>6, PushInv DEF A
<1>14. CASE R # {} /\ R = {c}
  BY <1>2, <1>14, NothingInv
<1>15. CASE R # {} /\ R # {c}
  <2>1. c \notin A.conns
    BY <1>6, <1>15
  <2>2. Push(replacing)
    BY <1>2, <1>15
  <2>3. ~FileConnects
    <3>1. SUFFICES ASSUME FileConnects PROVE FALSE
      OBVIOUS
    <3>2. Joins(A.nodes, c) /\ OutPort(A.nodes, c).policy = "One"
      BY <1>6, <1>15 DEF Admits
    <3>3. A.nodes[c.outNodeId] \in Model
      BY <1>5, <3>2, NodeMapIs DEF Joins
    <3>4. c.outPortIndex + 1 \in 1 .. Len(Layout[A.nodes[c.outNodeId]]["Out"])
      <4>1. c.outPortIndex \in Nat
        BY ConnectionIs, HistoryConstants
      <4>2. c.outPortIndex < Len(Layout[A.nodes[c.outNodeId]]["Out"])
        BY <3>2 DEF Joins
      <4>3. Len(Layout[A.nodes[c.outNodeId]]["Out"]) \in Nat
        BY <3>3, HistoryConstants
      <4> QED BY <4>1, <4>2, <4>3
    <3>5. Layout[A.nodes[c.outNodeId]]["Out"][c.outPortIndex + 1].policy = "Many"
      BY <3>1, <3>3, <3>4 DEF FileConnects, FileSparesReplacements
    <3> QED BY <3>2, <3>5 DEF OutPort
  <2>4. replacing \in EditCommand
    <3>1. R \in SUBSET ConnectionId /\ (graph.conns \ R) \cup {c} \in SUBSET ConnectionId
      BY <1>1, <1>5, <1>6
    <3>2. replacing \in Replacements
      BY <3>1 DEF Replacements
    <3> QED BY <2>3, <3>2 DEF EditCommand
  <2> HIDE DEF replacing
  <2>5. Makes(replacing, A, B)
    BY <1>1, <1>6, <1>7, <1>8, <1>10, <1>11, <2>1 DEF Makes
  <2>6. replacing.spare = B.conns
    BY <1>7, <1>8
  <2> HIDE DEF ds, B
  <2> QED BY <1>3, <1>4, <1>12, <2>2, <2>4, <2>5, <2>6, PushInv DEF A
<1> QED BY <1>13, <1>14, <1>15

LEMMA UndoInv ==
  ASSUME HistoryInv, Undo
  PROVE  HistoryInv'
<1> DEFINE A == Snapshot(graph)
           j == history.index
           cmd == LastDone(history)
           after == undoOf(cmd, graph)
           d == after.cmd
           B == recorded[j]
           q == Undone(history, d)
<1>1. /\ graph = Whole(A) /\ Track(recorded, history, A) /\ StackOf(history, EditCommand)
      /\ nextNodeId \in Nat
  BY GraphIs
<1>2. CanUndo(history) /\ graph' = after.graph /\ history' = q
      /\ UNCHANGED <<nextNodeId, clipboard, recorded>>
  BY DEF Undo
<1>3. cmd \in EditCommand /\ cmd = history.cmds[j] /\ j \in 1 .. Len(history.cmds)
  BY <1>1, <1>2 DEF StackOf, CanUndo, LastDone
<1>4. Makes(cmd, B, A) /\ (cmd.kind = "replace" => cmd.spare = B.conns)
  <2>1. recorded[j + 1] = A
    BY <1>1 DEF Track
  <2>2. j <= j
    BY <1>3
  <2> HIDE DEF A
  <2> QED BY <1>1, <1>3, <2>1, <2>2 DEF Track
<1>5. after.graph = Whole(B) /\ Retains(d, cmd, A.conns)
  <2> HIDE DEF A, B, cmd
  <2> QED BY <1>1, <1>3, <1>4, UndoMakes
<1>6. d \in EditCommand
  BY <1>5 DEF Retains
<1>7. StackOf(q, EditCommand) /\ q.index = j - 1 /\ TurnedInto(q, history, j, d)
  BY <1>1, <1>2, <1>6, UndoneAs
<1> HIDE DEF A, cmd, after, d, q
<1>8. Track(recorded, q, recorded[q.index + 1])
  BY <1>1, <1>3, <1>5, <1>7, TrackMoved
<1>9. recorded[q.index + 1] = B
  BY <1>3, <1>7
<1>10. B \in Snapshots
  BY <1>4 DEF Makes
<1> HIDE DEF B
<1>11. graph' = Whole(B) /\ Snapshot(graph') = B /\ graph' = Graph(graph'.nodes, graph'.conns)
  BY <1>2, <1>5, <1>10, WholeIs
<1> QED BY <1>2, <1>7, <1>8, <1>9, <1>11 DEF HistoryInv

LEMMA RedoInv ==
  ASSUME HistoryInv, Redo
  PROVE  HistoryInv'
<1> DEFINE A == Snapshot(graph)
           j == history.index
           cmd == NextUndone(history)
           after == redoOf(cmd, graph)
           d == after.cmd
           B == recorded[(j + 1) + 1]
           q == Redone(history, d)
<1>1. /\ graph = Whole(A) /\ Track(recorded, history, A) /\ StackOf(history, EditCommand)
      /\ nextNodeId \in Nat
  BY GraphIs
<1>2. CanRedo(history) /\ graph' = after.graph /\ history' = q
      /\ UNCHANGED <<nextNodeId, clipboard, recorded>>
  BY DEF Redo
<1>3. cmd \in EditCommand /\ cmd = history.cmds[j + 1] /\ j + 1 \in 1 .. Len(history.cmds)
      /\ j \in Nat
  BY <1>1, <1>2 DEF StackOf, CanRedo, NextUndone
<1>4. Makes(cmd, A, B) /\ (cmd.kind = "replace" => cmd.spare = B.conns)
  <2>1. recorded[j + 1] = A
    BY <1>1 DEF Track
  <2>2. ~(j + 1 <= j)
    BY <1>3
  <2> HIDE DEF A
  <2> QED BY <1>1, <1>3, <2>1, <2>2 DEF Track
<1>5. after.graph = Whole(B) /\ Retains(d, cmd, A.conns)
  <2> HIDE DEF A, B, cmd
  <2> QED BY <1>1, <1>3, <1>4, RedoMakes
<1>6. d \in EditCommand
  BY <1>5 DEF Retains
<1>7. StackOf(q, EditCommand) /\ q.index = j + 1 /\ TurnedInto(q, history, j + 1, d)
  BY <1>1, <1>2, <1>6, RedoneAs
<1> HIDE DEF A, cmd, after, d, q
<1>8. Track(recorded, q, recorded[q.index + 1])
  BY <1>1, <1>3, <1>5, <1>7, TrackMoved
<1>9. recorded[q.index + 1] = B
  BY <1>3, <1>7
<1>10. B \in Snapshots
  BY <1>4 DEF Makes
<1> HIDE DEF B
<1>11. graph' = Whole(B) /\ Snapshot(graph') = B /\ graph' = Graph(graph'.nodes, graph'.conns)
  BY <1>2, <1>5, <1>10, WholeIs
<1> QED BY <1>2, <1>7, <1>8, <1>9, <1>11 DEF HistoryInv

\* A graph with the nodes and connections of a file.
Grown(A, f, F) == [nodes |-> Over(f, A.nodes), conns |-> F \cup A.conns]

\* A file's nodes are new to a graph, and its connections are among them.
LEMMA GrownIs ==
  ASSUME NEW A \in Snapshots, Sound(A.nodes, A.conns), NEW f, NEW F, Sound(f, F),
         DOMAIN f \cap DOMAIN A.nodes = {}
  PROVE  /\ Grown(A, f, F) \in Snapshots
         /\ Sound(Grown(A, f, F).nodes, Grown(A, f, F).conns)
         /\ Grown(A, f, F).nodes = Over(f, A.nodes) /\ Grown(A, f, F).conns = F \cup A.conns
         /\ F \cap A.conns = {}
         /\ DOMAIN Grown(A, f, F).nodes = DOMAIN f \cup DOMAIN A.nodes
<1> DEFINE G == Grown(A, f, F)
<1>1. G.nodes = Over(f, A.nodes) /\ G.conns = F \cup A.conns
      /\ G = [nodes |-> G.nodes, conns |-> G.conns]
  BY DEF Grown
<1>2. /\ f \in NodeMaps /\ F \subseteq ConnectionId /\ (\A c \in F : Joins(f, c))
      /\ A.nodes \in NodeMaps /\ A.conns \subseteq ConnectionId
         /\ \A c \in A.conns : Joins(A.nodes, c)
  BY SoundIs
<1>3. Over(f, A.nodes) \in NodeMaps /\ DOMAIN Over(f, A.nodes) = DOMAIN f \cup DOMAIN A.nodes
  BY <1>2, OverIs
<1> DEFINE cs == A.conns \cup F
<1>4. Sound(Over(f, A.nodes), cs)
  BY UnionSound
<1>5. F \cap A.conns = {}
  BY <1>2 DEF Joins
<1>6. cs = F \cup A.conns /\ F \cup A.conns \in SUBSET ConnectionId
  BY <1>2
<1> HIDE DEF G, cs
<1>7. G \in Snapshots
  BY <1>1, <1>3, <1>6 DEF Snapshots
<1>8. Sound(G.nodes, G.conns)
  BY <1>1, <1>4, <1>6
<1> QED BY <1>1, <1>3, <1>5, <1>7, <1>8 DEF G

\* What a command saved is as far from a file's nodes as the graph it was saved from.
LEMMA GrownAdds ==
  ASSUME NEW cmd, NEW A \in Snapshots, NEW B \in Snapshots, Sound(A.nodes, A.conns),
         Sound(B.nodes, B.conns),
         NEW f, NEW F, Sound(f, F), DOMAIN f \cap DOMAIN A.nodes = {},
         DOMAIN f \cap DOMAIN B.nodes = {},
         Adds(cmd, A, B)
  PROVE  Adds(cmd, Grown(A, f, F), Grown(B, f, F))
<1> DEFINE G == Grown(A, f, F)
           H == Grown(B, f, F)
<1>1. G.nodes = Over(f, A.nodes) /\ G.conns = F \cup A.conns
      /\ DOMAIN G.nodes = DOMAIN f \cup DOMAIN A.nodes
  BY GrownIs
<1>2. H.nodes = Over(f, B.nodes) /\ H.conns = F \cup B.conns /\ F \cap B.conns = {}
  BY GrownIs
<1> HIDE DEF G, H
<1>3. /\ DOMAIN cmd.nodes \cap DOMAIN A.nodes = {} /\ cmd.conns \cap A.conns = {}
      /\ B.nodes = Over(cmd.nodes, A.nodes) /\ B.conns = A.conns \cup cmd.conns
  BY DEF Adds
<1>4. DOMAIN B.nodes = DOMAIN cmd.nodes \cup DOMAIN A.nodes
  BY <1>3 DEF Over
<1>5. DOMAIN cmd.nodes \cap DOMAIN f = {}
  BY <1>4
<1>6. Over(f, Over(cmd.nodes, A.nodes)) = Over(cmd.nodes, Over(f, A.nodes))
  <2>1. DOMAIN Over(f, A.nodes) = DOMAIN f \cup DOMAIN A.nodes
        /\ DOMAIN Over(cmd.nodes, A.nodes) = DOMAIN cmd.nodes \cup DOMAIN A.nodes
    BY DEF Over
  <2> DEFINE D == DOMAIN f \cup DOMAIN cmd.nodes \cup DOMAIN A.nodes
             l == Over(f, Over(cmd.nodes, A.nodes))
             r == Over(cmd.nodes, Over(f, A.nodes))
  <2>2. DOMAIN l = D /\ DOMAIN r = D
    BY <2>1 DEF Over
  <2>3. ASSUME NEW n \in D PROVE l[n] = r[n]
    <3>1. CASE n \in DOMAIN f
      BY <1>5, <2>1, <3>1 DEF Over
    <3>2. CASE n \in DOMAIN cmd.nodes
      BY <1>5, <2>1, <3>2 DEF Over
    <3>3. CASE n \in DOMAIN A.nodes
      BY <1>5, <2>1, <3>3 DEF Over
    <3> QED BY <3>1, <3>2, <3>3
  <2>4. l = [n \in DOMAIN l |-> l[n]] /\ r = [n \in DOMAIN r |-> r[n]]
    BY DEF Over
  <2> HIDE DEF l, r
  <2>5. l = r
    BY <2>2, <2>3, <2>4
  <2> QED BY <2>5 DEF l, r
<1>7. H.nodes = Over(cmd.nodes, G.nodes)
  BY <1>1, <1>2, <1>3, <1>6
<1>8. DOMAIN cmd.nodes \cap DOMAIN G.nodes = {} /\ cmd.conns \cap G.conns = {}
      /\ H.conns = G.conns \cup cmd.conns
  BY <1>1, <1>2, <1>3, <1>5
<1>9. Adds(cmd, G, H)
  BY <1>7, <1>8 DEF Adds
<1> QED BY <1>9 DEF G, H

\* A command does to the larger graphs what it did.
LEMMA GrownMakes ==
  ASSUME NEW cmd, NEW A, NEW B, Makes(cmd, A, B), NEW f, NEW F, Sound(f, F),
         DOMAIN f \cap DOMAIN A.nodes = {}, DOMAIN f \cap DOMAIN B.nodes = {},
         cmd.kind = "replace" => F = {}
  PROVE  Makes(cmd, Grown(A, f, F), Grown(B, f, F))
<1> DEFINE G == Grown(A, f, F)
           H == Grown(B, f, F)
<1>1. A \in Snapshots /\ B \in Snapshots /\ Sound(A.nodes, A.conns) /\ Sound(B.nodes, B.conns)
  BY DEF Makes
<1>2. /\ G \in Snapshots /\ Sound(G.nodes, G.conns)
      /\ G.nodes = Over(f, A.nodes) /\ G.conns = F \cup A.conns
  BY <1>1, GrownIs
<1>3. /\ H \in Snapshots /\ Sound(H.nodes, H.conns)
      /\ H.nodes = Over(f, B.nodes) /\ H.conns = F \cup B.conns
  BY <1>1, GrownIs
<1>4. cmd.kind \in {"create", "paste", "connect"} => Adds(cmd, G, H)
  <2>1. SUFFICES ASSUME cmd.kind \in {"create", "paste", "connect"} PROVE Adds(cmd, G, H)
    OBVIOUS
  <2>2. Adds(cmd, A, B)
    BY <2>1 DEF Makes
  <2> QED BY <1>1, <2>2, GrownAdds
<1>5. cmd.kind \in {"delete", "disconnect"} => Adds(cmd, H, G)
  <2>1. SUFFICES ASSUME cmd.kind \in {"delete", "disconnect"} PROVE Adds(cmd, H, G)
    OBVIOUS
  <2>2. Adds(cmd, B, A)
    BY <2>1 DEF Makes
  <2> QED BY <1>1, <2>2, GrownAdds
<1> HIDE DEF G, H
<1>6. /\ cmd.kind = "create" => cmd.conns = {}
      /\ cmd.kind \in {"connect", "disconnect"} => cmd.nodes = NoNodes
  BY DEF Makes
<1>7. cmd.kind = "replace" =>
        /\ G.nodes = H.nodes /\ cmd.removed \subseteq G.conns /\ cmd.added \cap G.conns = {}
        /\ H.conns = (G.conns \ cmd.removed) \cup cmd.added
  <2>1. SUFFICES ASSUME cmd.kind = "replace"
                 PROVE  /\ G.nodes = H.nodes /\ cmd.removed \subseteq G.conns
                           /\ cmd.added \cap G.conns = {}
                        /\ H.conns = (G.conns \ cmd.removed) \cup cmd.added
    OBVIOUS
  <2>2. /\ A.nodes = B.nodes /\ cmd.removed \subseteq A.conns /\ cmd.added \cap A.conns = {}
        /\ B.conns = (A.conns \ cmd.removed) \cup cmd.added
    BY <2>1 DEF Makes
  <2>3. G.conns = A.conns /\ H.conns = B.conns
    BY <1>2, <1>3, <2>1
  <2> QED BY <1>2, <1>3, <2>2, <2>3
<1>8. Makes(cmd, G, H)
  BY <1>2, <1>3, <1>4, <1>5, <1>6, <1>7 DEF Makes
<1> QED BY <1>8 DEF G, H

LEMMA LoadGroupFileInv ==
  ASSUME HistoryInv, FileSparesReplacements, LoadGroupFile
  PROVE  HistoryInv'
<1> DEFINE A == Snapshot(graph)
           fresh == makeNewNodeIds(GroupFile)
           f == fresh.nodes
           F == fresh.conns
           size == Cardinality(DOMAIN GroupFile.nodes)
           R(i) == Grown(recorded[i], f, F)
           G == Grown(A, f, F)
           j == history.index
<1>1. /\ graph = Whole(A) /\ A \in Snapshots /\ Sound(A.nodes, A.conns)
      /\ Track(recorded, history, A) /\ StackOf(history, EditCommand) /\ nextNodeId \in Nat
  BY GraphIs
<1>2. /\ GroupFile # None /\ nextNodeId + size <= InvalidNodeId
         /\ nextNodeId' = nextNodeId + size
      /\ graph' = insertSerializedItems(graph, fresh)
      /\ history' = history /\ clipboard' = clipboard
  BY DEF LoadGroupFile, TakeIds
<1>3. recorded' = [i \in DOMAIN recorded |-> R(i)]
  BY DEF LoadGroupFile, Grown
<1>4. Sound(GroupFile.nodes, GroupFile.conns)
  <2>1. IsLegal(GroupFile)
    BY <1>2 DEF FileSparesReplacements
  <2>2. GroupFile.nodes \in NodeMaps /\ GroupFile.conns \subseteq ConnectionId
    BY <2>1 DEF IsLegal, IsSaved, NodeMaps
  <2>3. /\ \A c \in GroupFile.conns : Joins(GroupFile.nodes, c)
           /\ ~Reach(GroupFile.conns, c.inNodeId, c.outNodeId)
        /\ \A c, d \in GroupFile.conns : c = d \/ Apart(GroupFile.nodes, c, d)
    BY <2>1 DEF IsLegal
  <2> QED BY <2>2, <2>3, SoundIs
<1>5. GroupFile.nodes \in NodeMaps
  BY <1>4, SoundIs
<1>6. size \in Nat
  BY <1>5, NodeMapIs, ConnectionsAreFinite, FS_Subset, FS_CardinalityType
<1>7. Sound(f, F) /\ DOMAIN f \subseteq nextNodeId .. nextNodeId + size - 1
  BY <1>1, <1>2, <1>4, <1>5, FreshSound, FreshNodes
<1>8. ~FileConnects => F = {}
  BY <1>2 DEF FileConnects, makeNewNodeIds
<1>9. F \subseteq ConnectionId
  BY <1>7, SoundIs
<1>10. /\ recorded \in Seq(Snapshots) /\ Len(recorded) = Len(history.cmds) + 1
          /\ recorded[j + 1] = A
       /\ \A i \in 1 .. Len(recorded) : Sound(recorded[i].nodes, recorded[i].conns)
       /\ \A i \in 1 .. Len(history.cmds) :
            /\ Makes(history.cmds[i], recorded[i], recorded[i + 1])
            /\ history.cmds[i].kind = "replace" =>
                 history.cmds[i].spare
                   = IF i <= j THEN recorded[i].conns ELSE recorded[i + 1].conns
  BY <1>1 DEF Track
<1>11. Len(history.cmds) \in Nat /\ j \in Nat /\ j <= Len(history.cmds)
       /\ \A i \in 1 .. Len(history.cmds) : history.cmds[i] \in EditCommand
  BY <1>1 DEF StackOf
<1> HIDE DEF A, size, fresh
<1>12. \A i \in 1 .. Len(recorded) : /\ recorded[i] \in Snapshots
                                     /\ DOMAIN recorded[i].nodes \subseteq 0 .. nextNodeId - 1
                                     /\ DOMAIN f \cap DOMAIN recorded[i].nodes = {}
  <2>1. \A i \in 1 .. Len(recorded) : DOMAIN recorded[i].nodes \subseteq 0 .. nextNodeId - 1
    BY DEF HistoryInv, Below
  <2>2. \A n \in 0 .. nextNodeId - 1 : n \notin nextNodeId .. nextNodeId + size - 1
    BY <1>1, <1>6
  <2>3. \A n \in DOMAIN f : n \notin 0 .. nextNodeId - 1
    BY <1>7, <2>2
  <2> QED BY <1>10, <2>1, <2>3
<1> DEFINE g == f
           C == F
<1>13. \A i \in 1 .. Len(recorded) : R(i) = Grown(recorded[i], g, C)
  OBVIOUS
<1>14. /\ Sound(g, C) /\ (~FileConnects => C = {})
       /\ \A i \in 1 .. Len(recorded) : DOMAIN g \cap DOMAIN recorded[i].nodes = {}
       /\ G = Grown(A, g, C) /\ DOMAIN g \subseteq nextNodeId .. nextNodeId + size - 1
  BY <1>7, <1>8, <1>12
<1>15. fresh.nodes = g /\ fresh.conns = C /\ C \in SUBSET ConnectionId
  BY <1>9
<1> HIDE DEF g, C, R, G
<1>16. \A i \in 1 .. Len(recorded) :
         /\ R(i) \in Snapshots /\ Sound(R(i).nodes, R(i).conns)
            /\ R(i).conns = C \cup recorded[i].conns
         /\ DOMAIN R(i).nodes = DOMAIN g \cup DOMAIN recorded[i].nodes
  BY <1>10, <1>12, <1>13, <1>14, GrownIs
<1>17. Len(recorded') = Len(recorded) /\ (\A i \in 1 .. Len(recorded) : recorded'[i] = R(i))
       /\ recorded' \in Seq(Snapshots)
  <2>1. DOMAIN recorded = 1 .. Len(recorded) /\ Len(recorded) \in Nat
    BY <1>10
  <2>2. recorded' = [i \in 1 .. Len(recorded) |-> R(i)]
    BY <1>3, <2>1
  <2>3. \A i \in 1 .. Len(recorded) : recorded'[i] = R(i)
    BY <2>2
  <2>4. recorded' \in [1 .. Len(recorded) -> Snapshots]
    BY <1>16, <2>2
  <2>5. recorded' \in Seq(Snapshots) /\ Len(recorded') = Len(recorded)
    BY <2>1, <2>4
  <2> QED BY <2>3, <2>5
<1>18. R(j + 1) = G
  BY <1>10, <1>11, <1>13, <1>14
<1>19. ASSUME NEW i \in 1 .. Len(history.cmds)
       PROVE  /\ Makes(history.cmds[i], recorded'[i], recorded'[i + 1])
              /\ history.cmds[i].kind = "replace" =>
                   history.cmds[i].spare
                     = IF i <= j THEN recorded'[i].conns ELSE recorded'[i + 1].conns
  <2>1. i \in 1 .. Len(recorded) /\ i + 1 \in 1 .. Len(recorded)
    BY <1>10, <1>11
  <2>2. history.cmds[i].kind = "replace" => C = {}
    BY <1>11, <1>14, EditCommandIs
  <2>3. Makes(history.cmds[i], recorded[i], recorded[i + 1])
    BY <1>10
  <2>4. Makes(history.cmds[i], R(i), R(i + 1))
    BY <1>13, <1>14, <2>1, <2>2, <2>3, GrownMakes
  <2>5. ASSUME history.cmds[i].kind = "replace"
        PROVE  history.cmds[i].spare = IF i <= j THEN R(i).conns ELSE R(i + 1).conns
    <3>1. R(i).conns = recorded[i].conns /\ R(i + 1).conns = recorded[i + 1].conns
      BY <1>16, <2>1, <2>2, <2>5
    <3> QED BY <1>10, <2>5, <3>1
  <2> QED BY <1>17, <2>1, <2>4, <2>5
<1>20. Track(recorded', history, G)
  <2>1. recorded'[j + 1] = G
    BY <1>10, <1>11, <1>17, <1>18
  <2>2. \A i \in 1 .. Len(recorded') : Sound(recorded'[i].nodes, recorded'[i].conns)
    BY <1>16, <1>17
  <2> QED BY <1>10, <1>17, <1>19, <2>1, <2>2 DEF Track
<1>21. nextNodeId' \in 0 .. InvalidNodeId
  BY <1>1, <1>2, <1>6, HistoryConstants
<1>22. Below(recorded', nextNodeId')
  <2>1. 0 .. nextNodeId - 1 \subseteq 0 .. nextNodeId' - 1
        /\ nextNodeId .. nextNodeId' - 1 \subseteq 0 .. nextNodeId' - 1
    <3>1. nextNodeId <= nextNodeId'
      BY <1>1, <1>2, <1>6
    <3> QED BY <1>1, <1>21, <3>1, IdsGrow
  <2>2. nextNodeId' - 1 = nextNodeId + size - 1
    BY <1>1, <1>2, <1>6
  <2>3. DOMAIN g \subseteq 0 .. nextNodeId' - 1
    BY <1>14, <2>1, <2>2
  <2> QED BY <1>12, <1>16, <1>17, <2>1, <2>3 DEF Below
<1>23. graph' = Whole(G) /\ G \in Snapshots
  <2>1. j + 1 \in 1 .. Len(recorded)
    BY <1>10, <1>11
  <2>2. DOMAIN g \cap DOMAIN A.nodes = {}
    BY <1>10, <1>14, <2>1
  <2>3. /\ G \in Snapshots /\ Sound(G.nodes, G.conns) /\ C \cap A.conns = {}
        /\ G.nodes = Over(g, A.nodes) /\ G.conns = C \cup A.conns
    BY <1>1, <1>14, <2>2, GrownIs
  <2>4. Adds(fresh, A, G)
    BY <1>15, <2>2, <2>3 DEF Adds
  <2>5. insertSerializedItems(Whole(A), fresh) = Whole(G)
    BY <1>15, <2>3, <2>4, InsertMakes
  <2> QED BY <1>1, <1>2, <2>3, <2>5
<1>24. Snapshot(graph') = G /\ graph' = Graph(graph'.nodes, graph'.conns)
  BY <1>23, WholeIs
<1>25. Sound(clipboard'.nodes, clipboard'.conns)
  BY <1>2 DEF HistoryInv
<1>26. StackOf(history', EditCommand) /\ Track(recorded', history', G)
  BY <1>1, <1>2, <1>20
<1> QED BY <1>21, <1>22, <1>24, <1>25, <1>26 DEF HistoryInv

\* Every step keeps the trail: commands that are pushed, undone and redone, and files.
LEMMA HistoryStep ==
  ASSUME FileSparesReplacements, HistoryInv, [Next]_vars
  PROVE  HistoryInv'
<1>1. CASE \E m \in Model : Create(m)
  BY <1>1, CreateInv
<1>2. CASE \E ns \in SUBSET Nodes(graph) :
             \E cs \in SUBSET (graph.conns \ ConnectionsOf(graph, ns)) : Delete(ns, cs)
  BY <1>2, DeleteInv
<1>3. CASE \E ns \in SUBSET Nodes(graph) : Copy(ns)
  BY <1>3, CopyInv
<1>4. CASE PasteNothing
  BY <1>4, NothingInv DEF PasteNothing
<1>5. CASE Paste
  BY <1>5, PasteInv
<1>6. CASE \E loaded \in SUBSET NodeId : PasteFails(loaded)
  BY <1>6, PasteFailsInv
<1>7. CASE \E c \in ConnectionId, from \in {"In", "Out"} : TryConnect(c, from)
  BY <1>7, TryConnectInv
<1>8. CASE \E c \in ConnectionId : ReplaceRefused(c)
  BY <1>8, NothingInv DEF ReplaceRefused
<1>9. CASE \E c \in ConnectionId : Disconnect(c)
  BY <1>9, DisconnectInv
<1>10. CASE Undo
  BY <1>10, UndoInv
<1>11. CASE Redo
  BY <1>11, RedoInv
<1>12. CASE LoadGroupFile
  BY <1>12, LoadGroupFileInv
<1>13. CASE UNCHANGED vars
  BY <1>13 DEF HistoryInv, vars
<1> QED BY <1>1, <1>2, <1>3, <1>4, <1>5, <1>6, <1>7, <1>8, <1>9, <1>10, <1>11, <1>12, <1>13
      DEF Next

(* For every scene whose group file spares the replacements, the commands  *)
(* on the stack lead from each recorded graph to the next (UndoCommands.cpp *)
(* asks none of them to look at the graph it finds).                       *)
THEOREM HistoryInvariant ==
  ASSUME FileSparesReplacements
  PROVE  Spec => []HistoryInv
<1>1. HistoryInv /\ [Next]_vars => HistoryInv'
  BY HistoryStep
<1> QED BY HistoryInitInv, <1>1, PTL DEF Spec

(* The undo index and the graph cannot diverge: at every index, the graph  *)
(* is the one that was there when the stack was last pushed to it.         *)
THEOREM HistoryIsFaithful ==
  ASSUME FileSparesReplacements
  PROVE  Spec => []HistoryFaithful
<1>1. HistoryInv => HistoryFaithful
  BY DEF HistoryInv, Track, HistoryFaithful
<1> QED BY <1>1, HistoryInvariant, PTL

(* The scene draws the connections of the model, whatever was pushed,      *)
(* undone and redone.                                                      *)
THEOREM SceneIsAMirror ==
  ASSUME FileSparesReplacements
  PROVE  Spec => []SceneMirrorsModel
<1>1. HistoryInv => SceneMirrorsModel
  BY GraphIs DEF SceneMirrorsModel
<1> QED BY <1>1, HistoryInvariant, PTL

(* Undoing a deletion and redoing a creation find their node ids free.     *)
THEOREM RestoringFindsItsIds ==
  ASSUME FileSparesReplacements
  PROVE  Spec => []RestoredIdsAreFree
<1>1. ASSUME HistoryInv PROVE RestoredIdsAreFree
  <2> DEFINE A == Snapshot(graph)
             j == history.index
  <2>1. A.nodes = graph.nodes /\ Track(recorded, history, A) /\ StackOf(history, EditCommand)
    BY <1>1, GraphIs
  <2>2. /\ recorded[j + 1] = A /\ j \in 0 .. Len(history.cmds) /\ Len(history.cmds) \in Nat
        /\ \A i \in 1 .. Len(history.cmds) :
             Makes(history.cmds[i], recorded[i], recorded[i + 1])
    BY <2>1 DEF Track, StackOf
  <2> HIDE DEF A
  <2>3. ASSUME CanUndo(history), LastDone(history).kind = "delete"
        PROVE  DOMAIN LastDone(history).nodes \cap Nodes(graph) = {}
    <3>1. j \in 1 .. Len(history.cmds)
      BY <2>2, <2>3 DEF CanUndo
    <3>2. Makes(LastDone(history), recorded[j], A)
      BY <2>2, <3>1 DEF LastDone
    <3>3. Adds(LastDone(history), A, recorded[j])
      BY <2>3, <3>2 DEF Makes
    <3> QED BY <2>1, <3>3 DEF Adds, Nodes
  <2>4. ASSUME CanRedo(history), NextUndone(history).kind \in {"create", "paste"}
        PROVE  DOMAIN NextUndone(history).nodes \cap Nodes(graph) = {}
    <3>1. j + 1 \in 1 .. Len(history.cmds)
      BY <2>2, <2>4 DEF CanRedo
    <3>2. Makes(NextUndone(history), A, recorded[(j + 1) + 1])
      BY <2>2, <3>1 DEF NextUndone
    <3>3. Adds(NextUndone(history), A, recorded[(j + 1) + 1])
      BY <2>4, <3>2 DEF Makes
    <3> QED BY <2>1, <3>3 DEF Adds, Nodes
  <2> QED BY <2>3, <2>4 DEF RestoredIdsAreFree
<1> QED BY <1>1, HistoryInvariant, PTL

\* A sound graph is one the model calls legal.
LEMMA SoundIsLegal ==
  ASSUME NEW ns, NEW cs, Sound(ns, cs)
  PROVE  /\ Topology(ns, cs)!NoDangling /\ Topology(ns, cs)!PortsNotOverbooked
         /\ Topology(ns, cs)!Acyclic
<1>1. /\ ns \in NodeMaps /\ cs \subseteq ConnectionId
      /\ \A c \in cs : Joins(ns, c) /\ ~Reach(cs, c.inNodeId, c.outNodeId)
      /\ \A c, d \in cs : c = d \/ Apart(ns, c, d)
  BY SoundIs
<1>2. DOMAIN ns \subseteq NodeId /\ ns \in [DOMAIN ns -> Model]
  BY <1>1, NodeMapIs
<1>3. \A c \in cs : /\ c.outNodeId \in DOMAIN ns /\ c.inNodeId \in DOMAIN ns
                    /\ c.outPortIndex < Len(Layout[ns[c.outNodeId]]["Out"])
                    /\ c.inPortIndex < Len(Layout[ns[c.inNodeId]]["In"])
  BY <1>1 DEF Joins
<1> DEFINE ports == [n \in DOMAIN ns |-> Layout[ns[n]]]
<1>4. \A n \in DOMAIN ns : ports[n] = Layout[ns[n]]
  OBVIOUS
<1> HIDE DEF ports
<1>5. Topology(ns, cs)!NoDangling
  BY <1>3, <1>4 DEF ports, Topology!NoDangling, Topology!Sides, Topology!EndNode,
     Topology!EndPort,
                    Topology!portCount, Topology!nodeExists
<1>6. Topology(ns, cs)!PortsNotOverbooked
  BY <1>1, <1>3, <1>4 DEF ports, Topology!PortsNotOverbooked, Topology!Sides, Topology!EndNode,
                          Topology!EndPort, Topology!portAt, Apart, OutPort, InPort
<1>7. Topology(ns, cs)!Acyclic
  BY <1>1 DEF Topology!Acyclic, Topology!Reaches, Reach, Topology!NodeId, NodeId
<1> QED BY <1>5, <1>6, <1>7

(* Undo and redo keep the topology legal: no connection without its ports, *)
(* no port with more connections than its policy has, no loop.             *)
THEOREM TopologyStaysLegal ==
  ASSUME FileSparesReplacements
  PROVE  Spec => []TopologyLegal
<1>1. HistoryInv => TopologyLegal
  BY GraphIs, SoundIsLegal DEF TopologyLegal
<1> QED BY <1>1, HistoryInvariant, PTL

-----------------------------------------------------------------------------
(* DraftConnection: model, scene and selection together.                   *)

\* The operators the module folds with.
wiring(unused, c, s) == withWire(s, c)
unwiring(unused, c, s) == withoutWire(s, c)
placing(unused, n, s) == restoredNode(s, n)
removing(unused, n, s) == withoutNode(s, n)

Wiring == INSTANCE FoldFacts WITH Op <- wiring
Unwiring == INSTANCE FoldFacts WITH Op <- unwiring
Placing == INSTANCE FoldFacts WITH Op <- placing
Removing == INSTANCE FoldFacts WITH Op <- removing

LEMMA BoardFoldsAre ==
  /\ \A s, S : FoldSet(LAMBDA c, t : withWire(t, c), s, S) = Wiring!Fold(NoDraft, s, S)
  /\ \A s, S : FoldSet(LAMBDA c, t : withoutWire(t, c), s, S) = Unwiring!Fold(NoDraft, s, S)
  /\ \A s, S : FoldSet(LAMBDA n, t : restoredNode(t, n), s, S) = Placing!Fold(NoDraft, s, S)
  /\ \A s, S : FoldSet(LAMBDA n, t : withoutNode(t, n), s, S) = Removing!Fold(NoDraft, s, S)
BY DEF wiring, unwiring, placing, removing, FoldSet, MapThenFoldSet,
       Wiring!Fold, Wiring!FoldSet, Wiring!MapThenFoldSet,
       Unwiring!Fold, Unwiring!FoldSet, Unwiring!MapThenFoldSet,
       Placing!Fold, Placing!FoldSet, Placing!MapThenFoldSet,
       Removing!Fold, Removing!FoldSet, Removing!MapThenFoldSet

State(ns, cs, k, sn, sw, p, q) ==
  [board |-> [nodes |-> ns, conns |-> cs, nextId |-> k],
   shown |-> [nodes |-> sn, wires |-> sw], picked |-> [nodes |-> p, wires |-> q]]

\* What each operator does to the parts of a state.
LEMMA WithWireOf ==
  ASSUME NEW ns, NEW cs, NEW k, NEW sn, NEW sw, NEW p, NEW q, NEW c
  PROVE  withWire(State(ns, cs, k, sn, sw, p, q), c)
           = State(ns, cs \cup {c}, k, sn, sw \cup {c}, p, q)
<1> DEFINE u == cs \cup {c}
           v == sw \cup {c}
<1> HIDE DEF u, v
<1> DEFINE s == State(ns, cs, k, sn, sw, p, q)
           s1 == State(ns, u, k, sn, sw, p, q)
           s2 == State(ns, u, k, sn, v, p, q)
<1>1. [s EXCEPT !.board.conns = u] = s1 /\ s.board.conns = cs
  BY DEF State
<1>2. [s1 EXCEPT !.shown.wires = v] = s2 /\ s.shown.wires = sw
  BY DEF State
<1> HIDE DEF s, s1, s2
<1>3. [s EXCEPT !.board.conns = u, !.shown.wires = v]
        = [[s EXCEPT !.board.conns = u] EXCEPT !.shown.wires = v]
  OBVIOUS
<1>4. [s EXCEPT !.board.conns = u, !.shown.wires = v] = s2
  BY <1>1, <1>2, <1>3, Zenon
<1>5. withWire(s, c) = [s EXCEPT !.board.conns = u, !.shown.wires = v]
  BY <1>1, <1>2 DEF withWire, u, v
<1> QED BY <1>4, <1>5 DEF s, s2, u, v

\* A connection goes with its graphics object.
LEMMA WithoutWireOf ==
  ASSUME NEW ns, NEW cs, NEW k, NEW sn, NEW sw, NEW p, NEW q, NEW c, c \in cs
  PROVE  withoutWire(State(ns, cs, k, sn, sw, p, q), c)
           = State(ns, cs \ {c}, k, sn, sw \ {c}, p, q \ {c})
<1> DEFINE u == cs \ {c}
           v == sw \ {c}
           w == q \ {c}
<1> HIDE DEF u, v, w
<1> DEFINE s == State(ns, cs, k, sn, sw, p, q)
           s1 == State(ns, u, k, sn, sw, p, q)
           s2 == State(ns, u, k, sn, v, p, q)
           s3 == State(ns, u, k, sn, v, p, w)
<1>1. [s EXCEPT !.board.conns = u] = s1 /\ s.board.conns = cs
  BY DEF State
<1>2. [s1 EXCEPT !.shown.wires = v] = s2 /\ s.shown.wires = sw
  BY DEF State
<1>3. [s2 EXCEPT !.picked.wires = w] = s3 /\ s.picked.wires = q
  BY DEF State
<1> HIDE DEF s, s1, s2, s3
<1>4. [s EXCEPT !.board.conns = u, !.shown.wires = v, !.picked.wires = w]
        = [[[s EXCEPT !.board.conns = u] EXCEPT !.shown.wires = v] EXCEPT !.picked.wires = w]
  OBVIOUS
<1>5. [s EXCEPT !.board.conns = u, !.shown.wires = v, !.picked.wires = w] = s3
  BY <1>1, <1>2, <1>3, <1>4, Zenon
<1>6. withoutWire(s, c) = [s EXCEPT !.board.conns = u, !.shown.wires = v, !.picked.wires = w]
  BY <1>1, <1>2, <1>3 DEF withoutWire, u, v, w
<1> QED BY <1>5, <1>6 DEF s, s3, u, v, w

\* A restored node is selected, and moves the counter.
LEMMA RestoredNodeOf ==
  ASSUME NEW ns, NEW cs, NEW k, NEW sn, NEW sw, NEW p, NEW q, NEW n
  PROVE  restoredNode(State(ns, cs, k, sn, sw, p, q), n)
           = State(ns \cup {n}, cs, Max({k, n + 1}), sn \cup {n}, sw, p \cup {n}, q)
<1> DEFINE u == ns \cup {n}
           v == Max({k, n + 1})
           w == sn \cup {n}
           x == p \cup {n}
<1> HIDE DEF u, v, w, x
<1> DEFINE s == State(ns, cs, k, sn, sw, p, q)
           s1 == State(u, cs, k, sn, sw, p, q)
           s2 == State(u, cs, v, sn, sw, p, q)
           s3 == State(u, cs, v, w, sw, p, q)
           s4 == State(u, cs, v, w, sw, x, q)
<1>1. [s EXCEPT !.board.nodes = u] = s1 /\ s.board.nodes = ns
  BY DEF State
<1>2. [s1 EXCEPT !.board.nextId = v] = s2 /\ s.board.nextId = k
  BY DEF State
<1>3. [s2 EXCEPT !.shown.nodes = w] = s3 /\ s.shown.nodes = sn
  BY DEF State
<1>4. [s3 EXCEPT !.picked.nodes = x] = s4 /\ s.picked.nodes = p
  BY DEF State
<1> HIDE DEF s, s1, s2, s3, s4
<1>5. [s EXCEPT !.board.nodes = u, !.board.nextId = v, !.shown.nodes = w, !.picked.nodes = x]
        = [[[[s EXCEPT !.board.nodes = u] EXCEPT !.board.nextId = v] EXCEPT !.shown.nodes
          = w] EXCEPT !.picked.nodes = x]
  OBVIOUS
<1>6. [s EXCEPT !.board.nodes = u, !.board.nextId = v, !.shown.nodes = w, !.picked.nodes = x]
        = s4
  BY <1>1, <1>2, <1>3, <1>4, <1>5, Zenon
<1>7. restoredNode(s, n)
        = [s EXCEPT !.board.nodes = u, !.board.nextId = v, !.shown.nodes = w,
        !.picked.nodes = x]
  BY <1>1, <1>2, <1>3, <1>4 DEF restoredNode, u, v, w, x
<1> QED BY <1>6, <1>7 DEF s, s4, u, v, w, x

\* An exchange sets the connections and announces the rest.
LEMMA ExchangedOf ==
  ASSUME NEW ns, NEW cs, NEW k, NEW sn, NEW sw, NEW p, NEW q, NEW ds, NEW gone, NEW come
  PROVE  exchanged(State(ns, cs, k, sn, sw, p, q), ds, gone, come)
           = State(ns, ds, k, sn, (sw \ gone) \cup come, p, q \ gone)
<1> DEFINE u == ds
           v == (sw \ gone) \cup come
           w == q \ gone
<1> HIDE DEF u, v, w
<1> DEFINE s == State(ns, cs, k, sn, sw, p, q)
           s1 == State(ns, u, k, sn, sw, p, q)
           s2 == State(ns, u, k, sn, v, p, q)
           s3 == State(ns, u, k, sn, v, p, w)
<1>1. [s EXCEPT !.board.conns = u] = s1 /\ s.board.conns = cs
  BY DEF State
<1>2. [s1 EXCEPT !.shown.wires = v] = s2 /\ s.shown.wires = sw
  BY DEF State
<1>3. [s2 EXCEPT !.picked.wires = w] = s3 /\ s.picked.wires = q
  BY DEF State
<1> HIDE DEF s, s1, s2, s3
<1>4. [s EXCEPT !.board.conns = u, !.shown.wires = v, !.picked.wires = w]
        = [[[s EXCEPT !.board.conns = u] EXCEPT !.shown.wires = v] EXCEPT !.picked.wires = w]
  OBVIOUS
<1>5. [s EXCEPT !.board.conns = u, !.shown.wires = v, !.picked.wires = w] = s3
  BY <1>1, <1>2, <1>3, <1>4, Zenon
<1>6. exchanged(s, ds, gone, come)
        = [s EXCEPT !.board.conns = u, !.shown.wires = v, !.picked.wires = w]
  BY <1>1, <1>2, <1>3 DEF exchanged, u, v, w
<1> QED BY <1>5, <1>6 DEF s, s3, u, v, w

LeavesOut(s, n) ==
  [s EXCEPT !.board.nodes = @ \ {n}, !.shown.nodes = @ \ {n}, !.picked.nodes = @ \ {n}]

\* A node goes from all three.
LEMMA NodeGoneOf ==
  ASSUME NEW ns, NEW cs, NEW k, NEW sn, NEW sw, NEW p, NEW q, NEW n
  PROVE  LeavesOut(State(ns, cs, k, sn, sw, p, q), n)
           = State(ns \ {n}, cs, k, sn \ {n}, sw, p \ {n}, q)
<1> DEFINE u == ns \ {n}
           v == sn \ {n}
           w == p \ {n}
<1> HIDE DEF u, v, w
<1> DEFINE s == State(ns, cs, k, sn, sw, p, q)
           s1 == State(u, cs, k, sn, sw, p, q)
           s2 == State(u, cs, k, v, sw, p, q)
           s3 == State(u, cs, k, v, sw, w, q)
<1>1. [s EXCEPT !.board.nodes = u] = s1 /\ s.board.nodes = ns
  BY DEF State
<1>2. [s1 EXCEPT !.shown.nodes = v] = s2 /\ s.shown.nodes = sn
  BY DEF State
<1>3. [s2 EXCEPT !.picked.nodes = w] = s3 /\ s.picked.nodes = p
  BY DEF State
<1> HIDE DEF s, s1, s2, s3
<1>4. [s EXCEPT !.board.nodes = u, !.shown.nodes = v, !.picked.nodes = w]
        = [[[s EXCEPT !.board.nodes = u] EXCEPT !.shown.nodes = v] EXCEPT !.picked.nodes = w]
  OBVIOUS
<1>5. [s EXCEPT !.board.nodes = u, !.shown.nodes = v, !.picked.nodes = w] = s3
  BY <1>1, <1>2, <1>3, <1>4, Zenon
<1>6. LeavesOut(s, n) = [s EXCEPT !.board.nodes = u, !.shown.nodes = v, !.picked.nodes = w]
  BY <1>1, <1>2, <1>3 DEF LeavesOut, u, v, w
<1> QED BY <1>5, <1>6 DEF s, s3, u, v, w

SelectsToo(s, cs) == [s EXCEPT !.picked.wires = @ \cup cs]

\* Connections are selected.
LEMMA PickedOf ==
  ASSUME NEW ns, NEW cs, NEW k, NEW sn, NEW sw, NEW p, NEW q, NEW cs2
  PROVE  SelectsToo(State(ns, cs, k, sn, sw, p, q), cs2)
           = State(ns, cs, k, sn, sw, p, q \cup cs2)
<1> DEFINE u == q \cup cs2
<1> HIDE DEF u
<1> DEFINE s == State(ns, cs, k, sn, sw, p, q)
           s1 == State(ns, cs, k, sn, sw, p, u)
<1>1. [s EXCEPT !.picked.wires = u] = s1 /\ s.picked.wires = q
  BY DEF State
<1> HIDE DEF s, s1
<1>2. [s EXCEPT !.picked.wires = u] = s1
  BY <1>1, Zenon
<1>3. SelectsToo(s, cs2) = [s EXCEPT !.picked.wires = u]
  BY <1>1 DEF SelectsToo, u
<1> QED BY <1>2, <1>3 DEF s, s1, u

\* A state in which the scene shows the model, with the nodes ns and connections cs,
\* and the id k next; some of it is selected.
Shows(s, ns, cs, k) ==
  /\ k \in 0 .. BoardIds /\ ns \subseteq 0 .. k - 1 /\ cs \subseteq BoardWire
  /\ \E p \in SUBSET ns, q \in SUBSET cs : s = State(ns, cs, k, ns, cs, p, q)

\* The parts of such a state.
LEMMA ShownParts ==
  ASSUME NEW s, NEW ns, NEW cs, NEW k, Shows(s, ns, cs, k)
  PROVE  /\ s.board.nodes = ns /\ s.board.conns = cs /\ s.board.nextId = k
<1>1. PICK p \in SUBSET ns, q \in SUBSET cs : s = State(ns, cs, k, ns, cs, p, q)
  BY DEF Shows
<1>2. /\ s.board = [nodes |-> ns, conns |-> cs, nextId |-> k]
      /\ s.shown = [nodes |-> ns, wires |-> cs] /\ s.picked = [nodes |-> p, wires |-> q]
  BY <1>1 DEF State
<1> QED BY <1>2

\* The set of all such states.
BoardStates ==
  [board : [nodes : SUBSET BoardId, conns : SUBSET BoardWire, nextId : 0 .. BoardIds],
   shown : [nodes : SUBSET BoardId, wires : SUBSET BoardWire],
   picked : [nodes : SUBSET BoardId, wires : SUBSET BoardWire]]

LEMMA ShownIsState ==
  ASSUME NEW s, NEW ns, NEW cs, NEW k, Shows(s, ns, cs, k)
  PROVE  s \in BoardStates /\ ns \in SUBSET BoardId
<1>1. PICK p \in SUBSET ns, q \in SUBSET cs : s = State(ns, cs, k, ns, cs, p, q)
  BY DEF Shows
<1>2. 0 .. k - 1 \subseteq BoardId /\ k \in 0 .. BoardIds /\ cs \in SUBSET BoardWire
  BY BoardConstants DEF Shows, BoardId
<1>3. ns \in SUBSET BoardId /\ p \in SUBSET BoardId /\ q \in SUBSET BoardWire
  BY <1>2 DEF Shows
<1> QED BY <1>1, <1>2, <1>3 DEF State, BoardStates

\* One signal of the model leaves model and scene equal.
LEMMA WithWireShows ==
  ASSUME NEW s, NEW ns, NEW cs, NEW k, Shows(s, ns, cs, k), NEW c \in BoardWire
  PROVE  Shows(withWire(s, c), ns, cs \cup {c}, k)
<1>1. PICK p \in SUBSET ns, q \in SUBSET cs : s = State(ns, cs, k, ns, cs, p, q)
  BY DEF Shows
<1>2. withWire(s, c) = State(ns, cs \cup {c}, k, ns, cs \cup {c}, p, q)
  BY <1>1, WithWireOf
<1>3. q \in SUBSET (cs \cup {c}) /\ cs \cup {c} \subseteq BoardWire
  BY DEF Shows
<1> QED BY <1>2, <1>3 DEF Shows

LEMMA WithoutWireShows ==
  ASSUME NEW s, NEW ns, NEW cs, NEW k, Shows(s, ns, cs, k), NEW c
  PROVE  Shows(withoutWire(s, c), ns, cs \ {c}, k)
<1>1. PICK p \in SUBSET ns, q \in SUBSET cs : s = State(ns, cs, k, ns, cs, p, q)
  BY DEF Shows
<1>2. CASE c \in cs
  <2>1. withoutWire(s, c) = State(ns, cs \ {c}, k, ns, cs \ {c}, p, q \ {c})
    BY <1>1, <1>2, WithoutWireOf
  <2>2. q \ {c} \in SUBSET (cs \ {c}) /\ cs \ {c} \subseteq BoardWire
    BY DEF Shows
  <2> QED BY <2>1, <2>2 DEF Shows
<1>3. CASE c \notin cs
  <2>1. withoutWire(s, c) = s
    BY <1>3, ShownParts DEF withoutWire
  <2>2. cs \ {c} = cs
    BY <1>3
  <2> QED BY <2>1, <2>2
<1> QED BY <1>2, <1>3

LEMMA RestoredNodeShows ==
  ASSUME NEW s, NEW ns, NEW cs, NEW k, Shows(s, ns, cs, k), NEW n \in 0 .. k - 1
  PROVE  Shows(restoredNode(s, n), ns \cup {n}, cs, k)
<1>1. PICK p \in SUBSET ns, q \in SUBSET cs : s = State(ns, cs, k, ns, cs, p, q)
  BY DEF Shows
<1>2. k \in Nat /\ n \in Nat /\ n + 1 <= k
  BY BoardConstants DEF Shows
<1>3. Max({k, n + 1}) = k
  <2>1. \A x \in {k, n + 1} : k >= x
    BY <1>2
  <2>2. \A m \in {k, n + 1} : (\A x \in {k, n + 1} : m >= x) => m = k
    BY <1>2
  <2> QED BY <2>1, <2>2 DEF Max
<1>4. restoredNode(s, n) = State(ns \cup {n}, cs, k, ns \cup {n}, cs, p \cup {n}, q)
  BY <1>1, <1>3, RestoredNodeOf
<1>5. p \cup {n} \in SUBSET (ns \cup {n}) /\ ns \cup {n} \subseteq 0 .. k - 1
  BY DEF Shows
<1> QED BY <1>4, <1>5 DEF Shows

\* A node without connections goes alone.
LEMMA WithoutNodeShows ==
  ASSUME NEW s, NEW ns, NEW cs, NEW k, Shows(s, ns, cs, k), NEW n,
         \A c \in cs : n \notin {c.out.node, c.in.node}
  PROVE  Shows(withoutNode(s, n), ns \ {n}, cs, k)
<1>1. PICK p \in SUBSET ns, q \in SUBSET cs : s = State(ns, cs, k, ns, cs, p, q)
  BY DEF Shows
<1>2. {c \in s.board.conns : n \in {c.out.node, c.in.node}} = {}
  <2>1. s.board.conns = cs
    BY ShownParts
  <2> QED BY <2>1
<1>3. FoldSet(LAMBDA c, u : withoutWire(u, c), s, {}) = s
  <2>1. IsFiniteSet({})
    BY FS_EmptySet
  <2>2. \A x \in {}, u \in {s} : unwiring(NoDraft, x, u) \in {s}
    OBVIOUS
  <2>3. Unwiring!Fold(NoDraft, s, {}) \in {s}
    BY <2>1, <2>2, Unwiring!FoldStays DEF Unwiring!IsFiniteSet, IsFiniteSet
  <2> QED BY <2>3, BoardFoldsAre
<1>4. withoutNode(s, n) = LeavesOut(s, n)
  BY <1>2, <1>3 DEF withoutNode, LeavesOut
<1>5. withoutNode(s, n) = State(ns \ {n}, cs, k, ns \ {n}, cs, p \ {n}, q)
  BY <1>1, <1>4, NodeGoneOf
<1>6. p \ {n} \in SUBSET (ns \ {n}) /\ ns \ {n} \subseteq 0 .. k - 1
  BY DEF Shows
<1> QED BY <1>5, <1>6 DEF Shows

LEMMA ExchangedShows ==
  ASSUME NEW s, NEW ns, NEW cs, NEW k, Shows(s, ns, cs, k), NEW ds, NEW gone, NEW come,
         ds = (cs \ gone) \cup come, ds \subseteq BoardWire
  PROVE  Shows(exchanged(s, ds, gone, come), ns, ds, k)
<1>1. PICK p \in SUBSET ns, q \in SUBSET cs : s = State(ns, cs, k, ns, cs, p, q)
  BY DEF Shows
<1>2. exchanged(s, ds, gone, come) = State(ns, ds, k, ns, ds, p, q \ gone)
  BY <1>1, ExchangedOf
<1>3. q \ gone \in SUBSET ds
  OBVIOUS
<1> QED BY <1>2, <1>3 DEF Shows

LEMMA SelectsTooShows ==
  ASSUME NEW s, NEW ns, NEW cs, NEW k, Shows(s, ns, cs, k), NEW ds, ds \subseteq cs
  PROVE  Shows(SelectsToo(s, ds), ns, cs, k)
<1>1. PICK p \in SUBSET ns, q \in SUBSET cs : s = State(ns, cs, k, ns, cs, p, q)
  BY DEF Shows
<1>2. SelectsToo(s, ds) = State(ns, cs, k, ns, cs, p, q \cup ds)
  BY <1>1, PickedOf
<1>3. q \cup ds \in SUBSET cs
  OBVIOUS
<1> QED BY <1>2, <1>3 DEF Shows

-----------------------------------------------------------------------------
(* The commands' folds.                                                    *)

LEMMA BoardIsFinite == IsFiniteSet(BoardId) /\ IsFiniteSet(BoardWire)
<1>1. IsFiniteSet(BoardId) /\ \A side \in {"in", "out"} : IsFiniteSet(PortNumber(side))
  <2>1. BoardIds \in Int /\ \A side \in {"in", "out"} : BoardPorts[side] \in Int
    BY BoardConstants
  <2>2. 0 \in Int /\ BoardIds - 1 \in Int
        /\ \A side \in {"in", "out"} : BoardPorts[side] - 1 \in Int
    BY <2>1
  <2> QED BY <2>2, FS_Interval DEF BoardId, PortNumber
<1>2. ASSUME NEW side \in {"in", "out"} PROVE IsFiniteSet(End(side))
  <2> DEFINE D == BoardId \X PortNumber(side)
             f == [e \in D |-> [node |-> e[1], port |-> e[2]]]
  <2>1. IsFiniteSet(D)
    BY <1>1, FS_Product
  <2>2. f \in Surjection(D, End(side))
    <3>1. f \in [D -> End(side)]
      BY DEF End
    <3>2. ASSUME NEW e \in End(side) PROVE \E d \in D : f[d] = e
      <4>1. <<e.node, e.port>> \in D
        BY DEF End
      <4>2. f[<<e.node, e.port>>] = e
        BY <4>1 DEF End
      <4> QED BY <4>1, <4>2
    <3> QED BY <3>1, <3>2 DEF Surjection
  <2> QED BY <2>1, <2>2, FS_Surjection
<1>3. IsFiniteSet(BoardWire)
  <2> DEFINE D == End("out") \X End("in")
             f == [e \in D |-> [out |-> e[1], in |-> e[2]]]
  <2>1. IsFiniteSet(D)
    BY <1>2, FS_Product
  <2>2. f \in Surjection(D, BoardWire)
    <3>1. f \in [D -> BoardWire]
      BY DEF BoardWire
    <3>2. ASSUME NEW e \in BoardWire PROVE \E d \in D : f[d] = e
      <4>1. <<e.out, e.in>> \in D
        BY DEF BoardWire
      <4>2. f[<<e.out, e.in>>] = e
        BY <4>1 DEF BoardWire
      <4> QED BY <4>1, <4>2
    <3> QED BY <3>1, <3>2 DEF Surjection
  <2> QED BY <2>1, <2>2, FS_Surjection
<1> QED BY <1>1, <1>3

\* Adding connections one by one adds them all.
LEMMA WiresAdded ==
  ASSUME NEW s, NEW ns, NEW cs, NEW k, Shows(s, ns, cs, k), NEW S \in SUBSET BoardWire
  PROVE  Shows(FoldSet(LAMBDA c, t : withWire(t, c), s, S), ns, cs \cup S, k)
<1>1. IsFiniteSet(S)
  BY BoardIsFinite, FS_Subset
<1> DEFINE R == {r \in (SUBSET S) \X BoardStates : Shows(r[2], ns, cs \cup r[1], k)}
<1>2. \A x \in SUBSET S : \A t : <<x, t>> \in R <=> Shows(t, ns, cs \cup x, k)
  BY ShownIsState
<1> HIDE DEF R
<1>3. <<{}, s>> \in R
  <2>1. cs \cup {} = cs
    OBVIOUS
  <2> QED BY <1>2, <2>1
<1>4. ASSUME NEW x \in SUBSET S, NEW c \in S, NEW t, c \notin x, <<x, t>> \in R
      PROVE  <<x \cup {c}, wiring(NoDraft, c, t)>> \in R
  <2>1. Shows(withWire(t, c), ns, (cs \cup x) \cup {c}, k)
    BY <1>2, <1>4, WithWireShows
  <2>2. (cs \cup x) \cup {c} = cs \cup (x \cup {c}) /\ x \cup {c} \in SUBSET S
    OBVIOUS
  <2> QED BY <1>2, <2>1, <2>2 DEF wiring
<1>5. <<S, Wiring!Fold(NoDraft, s, S)>> \in R
  BY <1>1, <1>3, <1>4, Wiring!FoldRelates DEF Wiring!IsFiniteSet, IsFiniteSet
<1> QED BY <1>2, <1>5, BoardFoldsAre

\* Taking connections out one by one takes them all out.
LEMMA WiresRemoved ==
  ASSUME NEW s, NEW ns, NEW cs, NEW k, Shows(s, ns, cs, k), NEW S \in SUBSET BoardWire
  PROVE  Shows(FoldSet(LAMBDA c, t : withoutWire(t, c), s, S), ns, cs \ S, k)
<1>1. IsFiniteSet(S)
  BY BoardIsFinite, FS_Subset
<1> DEFINE R == {r \in (SUBSET S) \X BoardStates : Shows(r[2], ns, cs \ r[1], k)}
<1>2. \A x \in SUBSET S : \A t : <<x, t>> \in R <=> Shows(t, ns, cs \ x, k)
  BY ShownIsState
<1> HIDE DEF R
<1>3. <<{}, s>> \in R
  <2>1. cs \ {} = cs
    OBVIOUS
  <2> QED BY <1>2, <2>1
<1>4. ASSUME NEW x \in SUBSET S, NEW c \in S, NEW t, c \notin x, <<x, t>> \in R
      PROVE  <<x \cup {c}, unwiring(NoDraft, c, t)>> \in R
  <2>1. Shows(withoutWire(t, c), ns, (cs \ x) \ {c}, k)
    BY <1>2, <1>4, WithoutWireShows
  <2>2. (cs \ x) \ {c} = cs \ (x \cup {c}) /\ x \cup {c} \in SUBSET S
    OBVIOUS
  <2> QED BY <1>2, <2>1, <2>2 DEF unwiring
<1>5. <<S, Unwiring!Fold(NoDraft, s, S)>> \in R
  BY <1>1, <1>3, <1>4, Unwiring!FoldRelates DEF Unwiring!IsFiniteSet, IsFiniteSet
<1> QED BY <1>2, <1>5, BoardFoldsAre

\* Restored nodes are all there.
LEMMA NodesPlaced ==
  ASSUME NEW s, NEW ns, NEW cs, NEW k, Shows(s, ns, cs, k), NEW S \in SUBSET (0 .. k - 1)
  PROVE  Shows(FoldSet(LAMBDA n, t : restoredNode(t, n), s, S), ns \cup S, cs, k)
<1>1. IsFiniteSet(S)
  <2>1. 0 .. k - 1 \subseteq BoardId
    BY BoardConstants DEF Shows, BoardId
  <2> QED BY <2>1, BoardIsFinite, FS_Subset
<1> DEFINE R == {r \in (SUBSET S) \X BoardStates : Shows(r[2], ns \cup r[1], cs, k)}
<1>2. \A x \in SUBSET S : \A t : <<x, t>> \in R <=> Shows(t, ns \cup x, cs, k)
  BY ShownIsState
<1> HIDE DEF R
<1>3. <<{}, s>> \in R
  <2>1. ns \cup {} = ns
    OBVIOUS
  <2> QED BY <1>2, <2>1
<1>4. ASSUME NEW x \in SUBSET S, NEW n \in S, NEW t, n \notin x, <<x, t>> \in R
      PROVE  <<x \cup {n}, placing(NoDraft, n, t)>> \in R
  <2>0. n \in 0 .. k - 1
    OBVIOUS
  <2>1. Shows(restoredNode(t, n), (ns \cup x) \cup {n}, cs, k)
    BY <1>2, <1>4, <2>0, RestoredNodeShows
  <2>2. (ns \cup x) \cup {n} = ns \cup (x \cup {n}) /\ x \cup {n} \in SUBSET S
    OBVIOUS
  <2> QED BY <1>2, <2>1, <2>2 DEF placing
<1>5. <<S, Placing!Fold(NoDraft, s, S)>> \in R
  BY <1>1, <1>3, <1>4, Placing!FoldRelates DEF Placing!IsFiniteSet, IsFiniteSet
<1> QED BY <1>2, <1>5, BoardFoldsAre

\* Nodes without connections go alone.
LEMMA NodesRemoved ==
  ASSUME NEW s, NEW ns, NEW cs, NEW k, Shows(s, ns, cs, k), NEW S \in SUBSET BoardId,
         \A c \in cs : {c.out.node, c.in.node} \cap S = {}
  PROVE  Shows(FoldSet(LAMBDA n, t : withoutNode(t, n), s, S), ns \ S, cs, k)
<1>1. IsFiniteSet(S)
  BY BoardIsFinite, FS_Subset
<1> DEFINE R == {r \in (SUBSET S) \X BoardStates : Shows(r[2], ns \ r[1], cs, k)}
<1>2. \A x \in SUBSET S : \A t : <<x, t>> \in R <=> Shows(t, ns \ x, cs, k)
  BY ShownIsState
<1> HIDE DEF R
<1>3. <<{}, s>> \in R
  <2>1. ns \ {} = ns
    OBVIOUS
  <2> QED BY <1>2, <2>1
<1>4. ASSUME NEW x \in SUBSET S, NEW n \in S, NEW t, n \notin x, <<x, t>> \in R
      PROVE  <<x \cup {n}, removing(NoDraft, n, t)>> \in R
  <2>0. \A c \in cs : n \notin {c.out.node, c.in.node}
    OBVIOUS
  <2>1. Shows(withoutNode(t, n), (ns \ x) \ {n}, cs, k)
    BY <1>2, <1>4, <2>0, WithoutNodeShows
  <2>2. (ns \ x) \ {n} = ns \ (x \cup {n}) /\ x \cup {n} \in SUBSET S
    OBVIOUS
  <2> QED BY <1>2, <2>1, <2>2 DEF removing
<1>5. <<S, Removing!Fold(NoDraft, s, S)>> \in R
  BY <1>1, <1>3, <1>4, Removing!FoldRelates DEF Removing!IsFiniteSet, IsFiniteSet
<1> QED BY <1>2, <1>5, BoardFoldsAre

-----------------------------------------------------------------------------
(* Commands.  Whatever is on the stack leads from one legal set of         *)
(* connections to the next; undo() and redo() walk along these sets, for   *)
(* what is not recorded adds nodes and nothing else.                       *)

Legal == {C \in SUBSET BoardWire :
            \A c, d \in C : \A side \in {"in", "out"} : c[side] = d[side] => c = d}

BoardCommand ==
  [kind : {"connect", "disconnect", "delete", "replace"}, nodes : SUBSET BoardId,
   conns : SUBSET BoardWire, replaced : SUBSET BoardWire, spare : SUBSET BoardWire]

\* cmd makes B of the connections A.
Leads(cmd, A, B) ==
  /\ A \in Legal /\ B \in Legal
  /\ cmd.kind # "delete" => cmd.nodes = {}
  /\ cmd.kind = "connect" => cmd.conns \cap A = {} /\ B = A \cup cmd.conns
  /\ cmd.kind \in {"disconnect", "delete"} => cmd.conns \subseteq A /\ B = A \ cmd.conns
  /\ cmd.kind = "delete" => \A c \in B : {c.out.node, c.in.node} \cap cmd.nodes = {}
  /\ cmd.kind = "replace" =>
       cmd.replaced \subseteq A /\ cmd.conns \cap A = {}
       /\ B = (A \ cmd.replaced) \cup cmd.conns

LEMMA RemoveShows ==
  ASSUME NEW s, NEW ns, NEW cs, NEW k, Shows(s, ns, cs, k), NEW cmd \in BoardCommand,
         \A c \in cs \ cmd.conns : {c.out.node, c.in.node} \cap cmd.nodes = {}
  PROVE  Shows(remove(s, cmd), ns \ cmd.nodes, cs \ cmd.conns, k)
<1>1. cmd.conns \in SUBSET BoardWire /\ cmd.nodes \in SUBSET BoardId
  BY DEF BoardCommand
<1> DEFINE t == FoldSet(LAMBDA c, u : withoutWire(u, c), s, cmd.conns)
<1>2. Shows(t, ns, cs \ cmd.conns, k)
  BY <1>1, WiresRemoved
<1>3. remove(s, cmd) = FoldSet(LAMBDA n, u : withoutNode(u, n), t, cmd.nodes)
  BY DEF remove
<1> HIDE DEF t
<1>4. Shows(FoldSet(LAMBDA n, u : withoutNode(u, n), t, cmd.nodes), ns \ cmd.nodes,
      cs \ cmd.conns, k)
  BY <1>1, <1>2, NodesRemoved
<1> QED BY <1>3, <1>4

LEMMA InsertShows ==
  ASSUME NEW s, NEW ns, NEW cs, NEW k, Shows(s, ns, cs, k), NEW cmd \in BoardCommand,
         cmd.nodes \subseteq 0 .. k - 1
  PROVE  \E ms : Shows(insert(s, cmd), ms, cs \cup cmd.conns, k)
<1>1. cmd.conns \in SUBSET BoardWire /\ cmd.nodes \in SUBSET (0 .. k - 1)
  BY DEF BoardCommand
<1> DEFINE t == FoldSet(LAMBDA n, u : restoredNode(u, n), s, cmd.nodes)
           w == FoldSet(LAMBDA c, u : withWire(u, c), t, cmd.conns)
<1>2. Shows(t, ns \cup cmd.nodes, cs, k)
  BY <1>1, NodesPlaced
<1>3. insert(s, cmd) = SelectsToo(w, cmd.conns)
  BY DEF insert, SelectsToo
<1> HIDE DEF t
<1>4. Shows(w, ns \cup cmd.nodes, cs \cup cmd.conns, k)
  BY <1>1, <1>2, WiresAdded
<1> HIDE DEF w
<1>5. Shows(SelectsToo(w, cmd.conns), ns \cup cmd.nodes, cs \cup cmd.conns, k)
  BY <1>4, SelectsTooShows
<1> QED BY <1>3, <1>5

\* redo() makes what the command is to make.
LEMMA RedoneShows ==
  ASSUME NEW s, NEW ns, NEW A, NEW k, Shows(s, ns, A, k), NEW cmd \in BoardCommand, NEW B,
         Leads(cmd, A, B), cmd.kind = "replace" => cmd.spare = B
  PROVE  \E ms : Shows(stepRedone(s, cmd), ms, B, k)
<1>0. cmd.kind \in {"connect", "disconnect", "delete", "replace"}
      /\ cmd.conns \in SUBSET BoardWire
      /\ B \subseteq BoardWire
  BY DEF BoardCommand, Leads, Legal
<1>1. CASE cmd.kind = "connect"
  <2>1. stepRedone(s, cmd) = FoldSet(LAMBDA c, t : withWire(t, c), s, cmd.conns)
    BY <1>1 DEF stepRedone
  <2>2. B = A \cup cmd.conns
    BY <1>1 DEF Leads
  <2>3. Shows(FoldSet(LAMBDA c, t : withWire(t, c), s, cmd.conns), ns, A \cup cmd.conns, k)
    BY <1>0, WiresAdded
  <2> QED BY <2>1, <2>2, <2>3
<1>2. CASE cmd.kind = "replace"
  <2>1. stepRedone(s, cmd) = exchanged(s, B, cmd.replaced, cmd.conns)
    BY <1>2 DEF stepRedone
  <2>2. B = (A \ cmd.replaced) \cup cmd.conns
    BY <1>2 DEF Leads
  <2> QED BY <1>0, <2>1, <2>2, ExchangedShows
<1>3. CASE cmd.kind \in {"disconnect", "delete"}
  <2>1. stepRedone(s, cmd) = remove(s, cmd)
    BY <1>3 DEF stepRedone
  <2>2. B = A \ cmd.conns
        /\ \A c \in A \ cmd.conns : {c.out.node, c.in.node} \cap cmd.nodes = {}
    BY <1>3 DEF Leads
  <2>3. Shows(remove(s, cmd), ns \ cmd.nodes, A \ cmd.conns, k)
    BY <2>2, RemoveShows
  <2> QED BY <2>1, <2>2, <2>3
<1> QED BY <1>0, <1>1, <1>2, <1>3

\* undo() makes what there was before.
LEMMA UndoneShows ==
  ASSUME NEW s, NEW ns, NEW A, NEW k, NEW cmd \in BoardCommand, NEW B, Shows(s, ns, B, k),
         Leads(cmd, A, B), cmd.kind = "replace" => cmd.spare = A, cmd.nodes \subseteq 0 .. k - 1
  PROVE  \E ms : Shows(stepUndone(s, cmd), ms, A, k)
<1>0. cmd.kind \in {"connect", "disconnect", "delete", "replace"}
      /\ cmd.conns \in SUBSET BoardWire
      /\ A \subseteq BoardWire
  BY DEF BoardCommand, Leads, Legal
<1>1. CASE cmd.kind = "connect"
  <2>1. stepUndone(s, cmd) = remove(s, cmd)
    BY <1>1 DEF stepUndone
  <2>2. A = B \ cmd.conns
        /\ \A c \in B \ cmd.conns : {c.out.node, c.in.node} \cap cmd.nodes = {}
    BY <1>1 DEF Leads
  <2>3. Shows(remove(s, cmd), ns \ cmd.nodes, B \ cmd.conns, k)
    BY <2>2, RemoveShows
  <2> QED BY <2>1, <2>2, <2>3
<1>2. CASE cmd.kind = "disconnect"
  <2>1. stepUndone(s, cmd) = FoldSet(LAMBDA c, t : withWire(t, c), s, cmd.conns)
    BY <1>2 DEF stepUndone
  <2>2. A = B \cup cmd.conns
    BY <1>2 DEF Leads
  <2>3. Shows(FoldSet(LAMBDA c, t : withWire(t, c), s, cmd.conns), ns, B \cup cmd.conns, k)
    BY <1>0, WiresAdded
  <2> QED BY <2>1, <2>2, <2>3
<1>3. CASE cmd.kind = "delete"
  <2>1. stepUndone(s, cmd) = insert(s, cmd)
    BY <1>3 DEF stepUndone
  <2>2. A = B \cup cmd.conns
    BY <1>3 DEF Leads
  <2> QED BY <2>1, <2>2, InsertShows
<1>4. CASE cmd.kind = "replace"
  <2>1. stepUndone(s, cmd) = exchanged(s, A, cmd.conns, cmd.replaced)
    BY <1>4 DEF stepUndone
  <2>2. A = (B \ cmd.conns) \cup cmd.replaced
    BY <1>4 DEF Leads
  <2> QED BY <1>0, <2>1, <2>2, ExchangedShows
<1> QED BY <1>0, <1>1, <1>2, <1>3, <1>4

-----------------------------------------------------------------------------
\* The connections of nodes with an id below k.
Met(k) == {c \in BoardWire : c.out.node < k /\ c.in.node < k}

\* N are the connections before and after each command, all of nodes that have been; a
\* replacement keeps those of the side it is not on.
Course(N, h, cs, k) ==
  /\ N \in [0 .. Len(h.cmds) -> Legal] /\ N[h.index] = cs
  /\ \A i \in 0 .. Len(h.cmds) : N[i] \subseteq Met(k)
  /\ \A i \in 1 .. Len(h.cmds) :
       /\ Leads(h.cmds[i], N[i - 1], N[i])
       /\ h.cmds[i].kind = "replace"
            => h.cmds[i].spare = IF i <= h.index THEN N[i - 1] ELSE N[i]

DraftOK ==
  \/ draft = NoDraft
  \/ /\ draft.needs \in {"in", "out"}
     /\ draft.at \in End(Opposite[draft.needs]) /\ draft.at.node < board.nextId

BoardInv ==
  /\ \E ns : Shows(Now, ns, board.conns, board.nextId)
  /\ StackOf(steps, BoardCommand)
  /\ \A i \in 1 .. Len(steps.cmds) : steps.cmds[i].nodes \subseteq 0 .. board.nextId - 1
  /\ \E N : Course(N, steps, board.conns, board.nextId)
  /\ DraftOK

LEMMA CoursePushed ==
  ASSUME NEW h, StackOf(h, BoardCommand), NEW N, NEW cs, NEW k, Course(N, h, cs, k),
         NEW cmd \in BoardCommand, NEW q, PushedLike(q, h, cmd), NEW ds, Leads(cmd, cs, ds),
         cmd.kind = "replace" => cmd.spare = cs, ds \subseteq Met(k)
  PROVE  \E M : Course(M, q, ds, k)
<1> DEFINE j == h.index
           M == [i \in 0 .. j + 1 |-> IF i = j + 1 THEN ds ELSE N[i]]
<1>1. j \in Nat /\ j <= Len(h.cmds) /\ Len(h.cmds) \in Nat
  BY DEF StackOf
<1>9. \A i \in 0 .. Len(h.cmds) : N[i] \subseteq Met(k)
  BY DEF Course
<1>2. N \in [0 .. Len(h.cmds) -> Legal] /\ N[j] = cs
      /\ \A i \in 1 .. Len(h.cmds) :
           /\ Leads(h.cmds[i], N[i - 1], N[i])
           /\ h.cmds[i].kind = "replace" => h.cmds[i].spare = IF i <= j THEN N[i - 1] ELSE N[i]
  BY DEF Course
<1>3. q.index = j + 1 /\ Len(q.cmds) = j + 1 /\ q.cmds[j + 1] = cmd
      /\ \A i \in 1 .. j : q.cmds[i] = h.cmds[i]
  BY DEF PushedLike
<1> HIDE DEF j
<1>4. ds \in Legal
  BY DEF Leads
<1>5. M \in [0 .. j + 1 -> Legal] /\ M[j + 1] = ds /\ M[j] = cs
      /\ \A i \in 0 .. j : M[i] = N[i]
  <2>1. \A i \in 0 .. j + 1 : i # j + 1 => i \in 0 .. j /\ i \in 0 .. Len(h.cmds)
    BY <1>1
  <2>2. \A i \in 0 .. j + 1 : i # j + 1 => N[i] \in Legal
    BY <1>2, <2>1
  <2>3. j + 1 \in 0 .. j + 1 /\ j \in 0 .. j + 1 /\ j # j + 1
        /\ \A i \in 0 .. j : i \in 0 .. j + 1 /\ i # j + 1
    BY <1>1
  <2> QED BY <1>2, <1>4, <2>2, <2>3
<1> HIDE DEF M
<1>6. ASSUME NEW i \in 1 .. j + 1
      PROVE  /\ Leads(q.cmds[i], M[i - 1], M[i])
             /\ q.cmds[i].kind = "replace" => q.cmds[i].spare = M[i - 1]
  <2>1. CASE i = j + 1
    <3>1. i - 1 = j
      BY <1>1, <2>1
    <3> QED BY <1>3, <1>5, <2>1, <3>1
  <2>2. CASE i # j + 1
    <3>1. i \in 1 .. j /\ i \in 0 .. j /\ i - 1 \in 0 .. j /\ i \in 1 .. Len(h.cmds) /\ i <= j
      BY <1>1, <2>2
    <3> QED BY <1>2, <1>3, <1>5, <3>1
  <2> QED BY <2>1, <2>2
<1>7. \A i \in 1 .. j + 1 : i <= j + 1
  BY <1>1
<1>8. \A i \in 0 .. j + 1 : M[i] \subseteq Met(k)
  <2>1. \A i \in 0 .. j + 1 : i = j + 1 \/ (i \in 0 .. j /\ i \in 0 .. Len(h.cmds))
    BY <1>1
  <2> QED BY <1>5, <1>9, <2>1
<1> QED BY <1>3, <1>5, <1>6, <1>7, <1>8 DEF Course

LEMMA CourseDropped ==
  ASSUME NEW h, StackOf(h, BoardCommand), NEW N, NEW cs, NEW k, Course(N, h, cs, k)
  PROVE  \E M : Course(M, PushedObsolete(h), cs, k)
<1> DEFINE j == h.index
           q == PushedObsolete(h)
           M == [i \in 0 .. j |-> N[i]]
<1>1. j \in Nat /\ j <= Len(h.cmds) /\ Len(h.cmds) \in Nat
  BY DEF StackOf
<1>2. q.index = j /\ Len(q.cmds) = j /\ \A i \in 1 .. j : q.cmds[i] = h.cmds[i]
  BY PushedObsoleteIs
<1>9. \A i \in 0 .. Len(h.cmds) : N[i] \subseteq Met(k)
  BY DEF Course
<1>3. N \in [0 .. Len(h.cmds) -> Legal] /\ N[j] = cs
      /\ \A i \in 1 .. Len(h.cmds) :
           /\ Leads(h.cmds[i], N[i - 1], N[i])
           /\ h.cmds[i].kind = "replace" => h.cmds[i].spare = IF i <= j THEN N[i - 1] ELSE N[i]
  BY DEF Course
<1> HIDE DEF j, q
<1>4. M \in [0 .. j -> Legal] /\ M[j] = cs /\ \A i \in 0 .. j : M[i] = N[i]
  <2>1. \A i \in 0 .. j : i \in 0 .. Len(h.cmds)
    BY <1>1
  <2>2. \A i \in 0 .. j : N[i] \in Legal
    BY <1>3, <2>1
  <2>3. j \in 0 .. j
    BY <1>1
  <2> QED BY <1>3, <2>2, <2>3
<1> HIDE DEF M
<1>5. ASSUME NEW i \in 1 .. j
      PROVE  /\ Leads(q.cmds[i], M[i - 1], M[i])
             /\ q.cmds[i].kind = "replace"
                  => q.cmds[i].spare = IF i <= j THEN M[i - 1] ELSE M[i]
  <2>1. i \in 0 .. j /\ i - 1 \in 0 .. j /\ i \in 1 .. Len(h.cmds) /\ i <= j
    BY <1>1
  <2> QED BY <1>2, <1>3, <1>4, <2>1
<1>6. \A i \in 0 .. j : M[i] \subseteq Met(k)
  <2>1. \A i \in 0 .. j : i \in 0 .. Len(h.cmds)
    BY <1>1
  <2> QED BY <1>4, <1>9, <2>1
<1>7. q.index = j /\ Len(q.cmds) = j
  BY <1>2
<1> QED BY <1>4, <1>5, <1>6, <1>7 DEF Course, q

\* d is cmd but for what it keeps, and keeps cs.
Keeps(d, cmd, cs) ==
  /\ d \in BoardCommand /\ d.kind = cmd.kind /\ d.nodes = cmd.nodes /\ d.conns = cmd.conns
  /\ d.replaced = cmd.replaced /\ (d.kind = "replace" => d.spare = cs)

LEMMA WithSpareKeeps ==
  ASSUME NEW cmd \in BoardCommand, board.conns \subseteq BoardWire
  PROVE  Keeps(withSpare(cmd), cmd, board.conns)
BY DEF withSpare, Keeps, BoardCommand

\* Undoing and redoing move along the course.
LEMMA CourseMoved ==
  ASSUME NEW h, StackOf(h, BoardCommand), NEW N, NEW cs, NEW k, Course(N, h, cs, k),
         NEW q, NEW j \in 1 .. Len(h.cmds), NEW d, TurnedInto(q, h, j, d),
         Keeps(d, h.cmds[j], cs),
         \/ j = h.index /\ q.index = h.index - 1
         \/ j = h.index + 1 /\ q.index = h.index + 1
  PROVE  Course(N, q, N[q.index], k)
<1>1. h.index \in Nat /\ h.index <= Len(h.cmds) /\ Len(h.cmds) \in Nat
  BY DEF StackOf
<1>2. /\ N \in [0 .. Len(h.cmds) -> Legal] /\ N[h.index] = cs
      /\ \A i \in 0 .. Len(h.cmds) : N[i] \subseteq Met(k)
      /\ \A i \in 1 .. Len(h.cmds) :
           /\ Leads(h.cmds[i], N[i - 1], N[i])
           /\ h.cmds[i].kind = "replace"
                => h.cmds[i].spare = IF i <= h.index THEN N[i - 1] ELSE N[i]
  BY DEF Course
<1>3. /\ Len(q.cmds) = Len(h.cmds) /\ q.cmds[j] = d
      /\ \A i \in 1 .. Len(h.cmds) : i # j => q.cmds[i] = h.cmds[i]
  BY DEF TurnedInto
<1>4. ASSUME NEW i \in 1 .. Len(h.cmds)
      PROVE  /\ Leads(q.cmds[i], N[i - 1], N[i])
             /\ q.cmds[i].kind = "replace"
                  => q.cmds[i].spare = IF i <= q.index THEN N[i - 1] ELSE N[i]
  <2>1. CASE i # j
    <3>1. i <= h.index <=> i <= q.index
      BY <1>1, <2>1
    <3> QED BY <1>2, <1>3, <2>1, <3>1
  <2>2. CASE i = j
    <3>1. Leads(d, N[i - 1], N[i])
      BY <1>2, <2>2 DEF Leads, Keeps
    <3>2. cs = IF i <= q.index THEN N[i - 1] ELSE N[i]
      BY <1>1, <1>2, <2>2
    <3> QED BY <1>3, <2>2, <3>1, <3>2 DEF Keeps
  <2> QED BY <2>1, <2>2
<1> QED BY <1>2, <1>3, <1>4 DEF Course

-----------------------------------------------------------------------------
(* The actions.                                                            *)

LEMMA Becoming ==
  ASSUME NEW s, NEW ns, NEW cs, NEW k, Shows(s, ns, cs, k), boardBecomes(s)
  PROVE  Shows(Now', ns, cs, k) /\ board'.conns = cs /\ board'.nextId = k
<1>1. PICK p \in SUBSET ns, q \in SUBSET cs : s = State(ns, cs, k, ns, cs, p, q)
  BY DEF Shows
<1>2. Now' = [board |-> s.board, shown |-> s.shown, picked |-> s.picked]
  BY DEF Now, boardBecomes
<1>3. Now' = s
  BY <1>1, <1>2 DEF State
<1>4. board' = s.board
  BY DEF boardBecomes
<1>5. s.board.conns = cs /\ s.board.nextId = k
  BY ShownParts
<1>6. Shows(Now', ns, cs, k)
  BY <1>3, Zenon
<1> QED BY <1>4, <1>5, <1>6

\* What the invariant says of the state itself.
LEMMA NowShown ==
  ASSUME BoardInv
  PROVE  /\ \E N : Course(N, steps, board.conns, board.nextId)
         /\ board.conns \in Legal /\ board.conns \subseteq BoardWire
         /\ board.conns \subseteq Met(board.nextId)
         /\ board.nextId \in 0 .. BoardIds /\ board.nodes \subseteq BoardId
         /\ shown.nodes = board.nodes /\ shown.wires = board.conns
         /\ picked.nodes \subseteq board.nodes /\ picked.wires \subseteq board.conns
         /\ board.nodes \subseteq 0 .. board.nextId - 1
         /\ Shows(Now, board.nodes, board.conns, board.nextId)
<1>1. PICK N : Course(N, steps, board.conns, board.nextId)
  BY DEF BoardInv
<1>2. board.conns \in Legal /\ board.conns \subseteq Met(board.nextId)
  <2>1. steps.index \in 0 .. Len(steps.cmds)
    BY DEF BoardInv, StackOf
  <2> QED BY <1>1, <2>1 DEF Course
<1>3. PICK ns : Shows(Now, ns, board.conns, board.nextId)
  BY DEF BoardInv
<1>4. Now.board = board /\ Now.shown = shown /\ Now.picked = picked
  BY DEF Now
<1>5. PICK p \in SUBSET ns, q \in SUBSET board.conns :
        Now = State(ns, board.conns, board.nextId, ns, board.conns, p, q)
  BY <1>3 DEF Shows
<1>12. /\ Now.board = [nodes |-> ns, conns |-> board.conns, nextId |-> board.nextId]
       /\ Now.shown = [nodes |-> ns, wires |-> board.conns]
          /\ Now.picked = [nodes |-> p, wires |-> q]
  BY <1>5 DEF State
<1>6. ns \in SUBSET BoardId
  BY <1>3, ShownIsState
<1>7. board.nextId \in 0 .. BoardIds /\ ns \subseteq 0 .. board.nextId - 1
  BY <1>3 DEF Shows
<1>8. ns = board.nodes
  BY <1>4, <1>12
<1>9. /\ shown.nodes = ns /\ shown.wires = board.conns
      /\ picked.nodes \subseteq ns /\ picked.wires \subseteq board.conns
  BY <1>4, <1>12
<1>10. board.conns \subseteq BoardWire
  BY <1>2 DEF Legal
<1>11. Shows(Now, board.nodes, board.conns, board.nextId)
  BY <1>3, <1>8
<1> QED BY <1>1, <1>2, <1>6, <1>7, <1>8, <1>9, <1>10, <1>11

(* A command that leads on is done and pushed.                             *)
LEMMA DoInv ==
  ASSUME BoardInv, NEW cmd \in BoardCommand, NEW d, NEW ds, Leads(cmd, board.conns, ds),
         cmd.kind = "replace" => cmd.spare = ds, cmd.nodes \subseteq 0 .. board.nextId - 1,
         ds \subseteq Met(board.nextId),
         Keeps(d, cmd, board.conns),
         steps' = Pushed(steps, d),
         \E ns : Shows(Now', ns, ds, board.nextId), board'.conns = ds,
         board'.nextId = board.nextId,
         DraftOK'
  PROVE  BoardInv'
<1>1. PICK N : Course(N, steps, board.conns, board.nextId)
  BY DEF BoardInv
<1>2. StackOf(steps, BoardCommand) /\ d \in BoardCommand
  BY DEF BoardInv, Keeps
<1>3. StackOf(steps', BoardCommand) /\ PushedLike(steps', steps, d)
  BY <1>2, PushedIs
<1>4. Leads(d, board.conns, ds) /\ (d.kind = "replace" => d.spare = board.conns)
  BY DEF Keeps, Leads
<1>5. \E M : Course(M, steps', ds, board.nextId)
  BY <1>1, <1>2, <1>3, <1>4, CoursePushed
<1>6. \A i \in 1 .. Len(steps'.cmds) : steps'.cmds[i].nodes \subseteq 0 .. board.nextId - 1
  <2>1. steps.index \in Nat /\ steps.index <= Len(steps.cmds) /\ Len(steps.cmds) \in Nat
    BY <1>2 DEF StackOf
  <2>2. \A i \in 1 .. steps.index : i \in 1 .. Len(steps.cmds)
    BY <2>1
  <2>3. \A i \in 1 .. steps.index : steps'.cmds[i].nodes \subseteq 0 .. board.nextId - 1
    BY <1>3, <2>2 DEF PushedLike, BoardInv
  <2>4. steps'.cmds[steps.index + 1].nodes \subseteq 0 .. board.nextId - 1
    BY <1>3 DEF PushedLike, Keeps
  <2>5. \A i \in 1 .. Len(steps'.cmds) : i \in 1 .. steps.index \/ i = steps.index + 1
    BY <1>3, <2>1 DEF PushedLike
  <2> QED BY <2>3, <2>4, <2>5
<1> QED BY <1>3, <1>5, <1>6 DEF BoardInv

\* The same for a command whose redo() makes the new state.
LEMMA CommandInv ==
  ASSUME BoardInv, NEW cmd \in BoardCommand, NEW ds, Leads(cmd, board.conns, ds),
         cmd.kind = "replace" => cmd.spare = ds, cmd.nodes \subseteq 0 .. board.nextId - 1,
         ds \subseteq Met(board.nextId),
         boardBecomes(stepRedone(Now, cmd)), steps' = Pushed(steps, withSpare(cmd)), DraftOK'
  PROVE  BoardInv'
<1>1. Shows(Now, board.nodes, board.conns, board.nextId) /\ board.conns \subseteq BoardWire
  BY NowShown
<1>2. PICK ms : Shows(stepRedone(Now, cmd), ms, ds, board.nextId)
  BY <1>1, RedoneShows
<1>3. Shows(Now', ms, ds, board.nextId) /\ board'.conns = ds /\ board'.nextId = board.nextId
  BY <1>2, Becoming
<1>4. Keeps(withSpare(cmd), cmd, board.conns)
  BY <1>1, WithSpareKeeps
<1> QED BY <1>3, <1>4, DoInv

\* Nothing of the stack and the model changes.
LEMMA BoardStays ==
  ASSUME BoardInv, UNCHANGED <<board, shown, steps>>, DraftOK',
         picked'= picked \/ (\E ns \in SUBSET board.nodes, ws \in SUBSET board.conns :
                                picked' = [nodes |-> ns, wires |-> ws])
  PROVE  BoardInv'
<1>1. Shows(Now, board.nodes, board.conns, board.nextId)
  BY NowShown
<1>2. Shows(Now', board.nodes, board.conns, board.nextId)
  <2>1. CASE picked' = picked
    <3>1. Now' = Now
      BY <2>1 DEF Now
    <3> QED BY <1>1, <3>1
  <2>2. ASSUME NEW ns \in SUBSET board.nodes, NEW ws \in SUBSET board.conns,
               picked' = [nodes |-> ns, wires |-> ws]
        PROVE  Shows(Now', board.nodes, board.conns, board.nextId)
    <3>1. Now = [board |-> board, shown |-> shown, picked |-> picked]
      BY DEF Now
    <3>2. Now.board = board /\ Now.shown = shown
      BY <3>1
    <3>7. PICK p, q : Now = State(board.nodes, board.conns, board.nextId, board.nodes,
               board.conns, p, q)
      BY <1>1 DEF Shows
    <3>3. Now.board = [nodes |-> board.nodes, conns |-> board.conns, nextId |-> board.nextId]
          /\ Now.shown = [nodes |-> board.nodes, wires |-> board.conns]
      BY <3>7 DEF State
    <3>4. board' = [nodes |-> board.nodes, conns |-> board.conns, nextId |-> board.nextId]
          /\ shown' = [nodes |-> board.nodes, wires |-> board.conns]
      BY <3>2, <3>3
    <3>5. Now' = [board |-> board', shown |-> shown', picked |-> picked']
      BY DEF Now
    <3>6. Now' = State(board.nodes, board.conns, board.nextId, board.nodes, board.conns, ns, ws)
      BY <2>2, <3>4, <3>5 DEF State
    <3> QED BY <1>1, <3>6 DEF Shows
  <2> QED BY <2>1, <2>2
<1> QED BY <1>2 DEF BoardInv

LEMMA BoardInitInv == BoardInit => BoardInv
<1> SUFFICES ASSUME BoardInit PROVE BoardInv
  OBVIOUS
<1>1. PICK c \in BoardWire :
        /\ c.out.node = 0 /\ c.in.node = 1
        /\ board = [nodes |-> {0, 1}, conns |-> {c}, nextId |-> 2]
        /\ shown = [nodes |-> {0, 1}, wires |-> {c}]
  BY DEF BoardInit
<1>2. picked = [nodes |-> {}, wires |-> {}] /\ draft = NoDraft
      /\ steps = [cmds |-> <<>>, index |-> 0]
  BY DEF BoardInit, NothingPicked, EmptyStack
<1>3. Now = State({0, 1}, {c}, 2, {0, 1}, {c}, {}, {})
  BY <1>1, <1>2 DEF Now, State
<1>4. 2 \in 0 .. BoardIds
  <2>1. 1 \in BoardId
    BY <1>1 DEF BoardWire, End
  <2> QED BY <2>1, BoardConstants DEF BoardId
<1>5. Shows(Now, {0, 1}, {c}, 2)
  BY <1>3, <1>4 DEF Shows
<1>6. {c} \in Legal
  BY DEF Legal
<1>7. Course([i \in 0 .. 0 |-> {c}], steps, {c}, 2)
  <2>1. {c} \subseteq Met(2)
    BY <1>1 DEF Met
  <2> QED BY <1>2, <1>6, <2>1 DEF Course
<1>8. StackOf(steps, BoardCommand) /\ Len(steps.cmds) = 0
  BY <1>2 DEF StackOf
<1>9. board.conns = {c} /\ board.nextId = 2
  BY <1>1
<1>10. \E N : Course(N, steps, board.conns, board.nextId)
  BY <1>7, <1>9
<1>11. \A i \in 1 .. Len(steps.cmds) : FALSE
  BY <1>8
<1>12. \E ns : Shows(Now, ns, board.conns, board.nextId)
  BY <1>5, <1>9
<1>13. DraftOK
  BY <1>2 DEF DraftOK
<1> QED BY <1>8, <1>10, <1>11, <1>12, <1>13 DEF BoardInv

\* A node more, which no command knows of.
LEMMA CreateNodeInv ==
  ASSUME BoardInv, CreateNode
  PROVE  BoardInv'
<1> DEFINE n == board.nextId
<1>1. /\ n < BoardIds /\ board' = [board EXCEPT !.nodes = @ \cup {n}, !.nextId = @ + 1]
      /\ shown' = [shown EXCEPT !.nodes = @ \cup {n}] /\ UNCHANGED <<picked, draft, steps>>
  BY DEF CreateNode
<1>2. Shows(Now, board.nodes, board.conns, n)
  BY NowShown
<1>3. PICK p \in SUBSET board.nodes, q \in SUBSET board.conns :
        Now = State(board.nodes, board.conns, n, board.nodes, board.conns, p, q)
  BY <1>2 DEF Shows
<1>4. /\ board = [nodes |-> board.nodes, conns |-> board.conns, nextId |-> n]
      /\ shown = [nodes |-> board.nodes, wires |-> board.conns]
         /\ picked = [nodes |-> p, wires |-> q]
  BY <1>3 DEF Now, State
<1>5. n \in Nat /\ n + 1 \in 0 .. BoardIds /\ board.conns \subseteq BoardWire
      /\ board.nodes \cup {n} \subseteq 0 .. (n + 1) - 1
  <2>1. n \in 0 .. BoardIds /\ board.nodes \subseteq 0 .. n - 1
    BY <1>2 DEF Shows
  <2> QED BY <1>1, <1>2, <2>1, BoardConstants DEF Shows
<1> DEFINE b == board
           ms == board.nodes \cup {n}
           b1 == [b EXCEPT !.nodes = ms]
<1>6. board' = [nodes |-> ms, conns |-> board.conns, nextId |-> n + 1]
  <2>1. b1 = [nodes |-> ms, conns |-> board.conns, nextId |-> n]
    BY <1>4
  <2>2. board' = [b EXCEPT !.nodes = ms, !.nextId = n + 1]
    BY <1>1
  <2> HIDE DEF b, ms, n
  <2>3. [b EXCEPT !.nodes = ms, !.nextId = n + 1] = [b1 EXCEPT !.nextId = n + 1]
    OBVIOUS
  <2> HIDE DEF b1
  <2>4. [b1 EXCEPT !.nextId = n + 1] = [nodes |-> ms, conns |-> board.conns, nextId |-> n + 1]
    BY <2>1
  <2> QED BY <2>2, <2>3, <2>4
<1>12. shown' = [nodes |-> board.nodes \cup {n}, wires |-> board.conns]
  BY <1>1, <1>4
<1> HIDE DEF n
<1>7. Now' = State(board.nodes \cup {n}, board.conns, n + 1, board.nodes \cup {n}, board.conns,
      p, q)
  BY <1>1, <1>4, <1>6, <1>12 DEF Now, State
<1>8. Shows(Now', board.nodes \cup {n}, board.conns, n + 1)
  BY <1>5, <1>7 DEF Shows
<1>9. board'.conns = board.conns /\ board'.nextId = n + 1
  BY <1>6
<1>10. \A i \in 1 .. Len(steps.cmds) : steps.cmds[i].nodes \subseteq 0 .. (n + 1) - 1
  <2>1. 0 .. n - 1 \subseteq 0 .. (n + 1) - 1
    BY <1>5
  <2> QED BY <2>1 DEF BoardInv, n
<1>11. \E N : Course(N, steps, board.conns, n + 1)
  <2>1. PICK N : Course(N, steps, board.conns, n)
    BY DEF BoardInv, n
  <2>2. Met(n) \subseteq Met(n + 1)
    BY <1>5 DEF Met, BoardWire, End, BoardId
  <2> QED BY <2>1, <2>2 DEF Course
<1>13. DraftOK'
  <2>1. draft = NoDraft \/ (/\ draft.needs \in {"in", "out"} /\ draft.at.node < n
                            /\ draft.at \in End(Opposite[draft.needs]))
    BY DEF BoardInv, DraftOK, n
  <2>2. \A side : \A at \in End(side) : at.node < n => at.node < n + 1
    BY <1>5 DEF End, BoardId
  <2> QED BY <1>1, <1>9, <2>1, <2>2 DEF DraftOK
<1> QED BY <1>1, <1>8, <1>9, <1>10, <1>11, <1>13 DEF BoardInv

\* Selecting and letting go of the draft.
LEMMA PickInv ==
  ASSUME BoardInv, NEW ns, NEW ws \in SUBSET shown.wires, Pick(ns, ws)
  PROVE  BoardInv'
<1>1. /\ UNCHANGED <<board, shown, draft, steps>> /\ ns \subseteq shown.nodes
      /\ picked' = [nodes |-> ns, wires |-> ws]
  BY DEF Pick
<1>2. shown.nodes = board.nodes /\ shown.wires = board.conns
  BY NowShown
<1>3. ns \in SUBSET board.nodes /\ ws \in SUBSET board.conns
  BY <1>1, <1>2
<1>4. DraftOK'
  BY <1>1 DEF BoardInv, DraftOK
<1> QED BY <1>1, <1>3, <1>4, BoardStays

LEMMA DropDraftInv ==
  ASSUME BoardInv, DropDraft
  PROVE  BoardInv'
<1>1. UNCHANGED <<board, shown, picked, steps>> /\ draft' = NoDraft
  BY DEF DropDraft, resetDraftConnection
<1>2. DraftOK'
  BY <1>1 DEF DraftOK
<1> QED BY <1>1, <1>2, BoardStays

\* A connection that finds its ports free, but for those it takes the place of, fits.
LEMMA WireFits ==
  ASSUME board.conns \in Legal, NEW c \in BoardWire, NEW replaced,
         wirePossible(board, c, replaced)
  PROVE  (board.conns \ replaced) \cup {c} \in Legal
<1> DEFINE S == (board.conns \ replaced) \cup {c}
<1>1. board.conns \subseteq BoardWire
      /\ \A x, y \in board.conns : \A side \in {"in", "out"} : x[side] = y[side] => x = y
  BY DEF Legal
<1>2. \A x \in board.conns : (x["out"] = c["out"] \/ x["in"] = c["in"]) => x \in replaced
  BY DEF wirePossible, wiresOn
<1>3. \A x \in S : (x \in board.conns /\ x \notin replaced) \/ x = c
  OBVIOUS
<1>4. ASSUME NEW x \in S, NEW y \in S, NEW side \in {"in", "out"}, x[side] = y[side]
      PROVE  x = y
  <2>1. CASE x = c
    BY <1>2, <1>3, <1>4, <2>1
  <2>2. CASE y = c
    BY <1>2, <1>3, <1>4, <2>2
  <2>3. CASE x # c /\ y # c
    BY <1>1, <1>3, <1>4, <2>3
  <2> QED BY <2>1, <2>2, <2>3
<1>5. S \in SUBSET BoardWire
  BY <1>1
<1> HIDE DEF S
<1>6. S \in Legal
  BY <1>4, <1>5 DEF Legal
<1> QED BY <1>6 DEF S

\* Pressing a port: the connection that comes off can be put back.
LEMMA PressPortInv ==
  ASSUME BoardInv, NEW n \in BoardId, NEW side \in {"in", "out"}, NEW p \in PortNumber(side),
         PressPort(n, side, p)
  PROVE  BoardInv'
<1> DEFINE e == [node |-> n, port |-> p]
           only == [nodes |-> {n}, wires |-> {}]
<1>0. /\ board.conns \in Legal /\ board.conns \subseteq BoardWire
      /\ shown.nodes = board.nodes /\ Shows(Now, board.nodes, board.conns, board.nextId)
      /\ board.conns \subseteq Met(board.nextId) /\ board.nodes \subseteq 0 .. board.nextId - 1
      /\ board.nextId \in 0 .. BoardIds
  BY NowShown
<1>1. n \in board.nodes /\ e \in End(side)
  BY <1>0 DEF PressPort, End
<1>4. e.node < board.nextId
  BY <1>0, <1>1
<1>2. CASE /\ side = "in" /\ wiresOn(board, side, e) # {}
           /\ disconnect(CHOOSE x \in wiresOn(board, side, e) : TRUE, only)
  <2>1. PICK c \in wiresOn(board, side, e) : disconnect(c, only)
    BY <1>2
  <2>2. c \in board.conns /\ c \in BoardWire
    BY <1>0, <2>1 DEF wiresOn
  <2> DEFINE cmd == newStep("disconnect", {}, {c})
             s == stepRedone(Now, cmd)
             ds == board.conns \ {c}
  <2>3. /\ cmd.kind = "disconnect" /\ cmd.nodes = {} /\ cmd.conns = {c} /\ cmd.replaced = {}
        /\ cmd \in BoardCommand
    BY <2>2 DEF newStep, BoardCommand
  <2>4. /\ steps' = Pushed(steps, cmd) /\ board' = s.board /\ shown' = s.shown
        /\ (picked' = s.picked \/ picked' = only) /\ draft' = [needs |-> "in", at |-> c.out]
    BY <2>1 DEF disconnect, makeDraftConnection
  <2>5. s = remove(Now, cmd)
    BY <2>3 DEF stepRedone
  <2> HIDE DEF cmd
  <2>6. Leads(cmd, board.conns, ds)
    <3>1. ds \in Legal
      BY <1>0 DEF Legal
    <3> QED BY <1>0, <2>2, <2>3, <3>1 DEF Leads
  <2>7. Shows(s, board.nodes, ds, board.nextId)
    <3>1. Shows(remove(Now, cmd), board.nodes \ cmd.nodes, board.conns \ cmd.conns,
          board.nextId)
      BY <1>0, <2>3, RemoveShows
    <3>2. board.nodes \ cmd.nodes = board.nodes /\ board.conns \ cmd.conns = ds
      BY <2>3
    <3> QED BY <2>5, <3>1, <3>2
  <2> HIDE DEF s
  <2>8. s.board.conns = ds /\ s.board.nextId = board.nextId
    BY <2>7, ShownParts
  <2>9. Shows(Now', board.nodes, ds, board.nextId)
    <3>1. PICK u \in SUBSET board.nodes, v \in SUBSET ds :
            s = State(board.nodes, ds, board.nextId, board.nodes, ds, u, v)
      BY <2>7 DEF Shows
    <3>2. /\ s.board = [nodes |-> board.nodes, conns |-> ds, nextId |-> board.nextId]
          /\ s.shown = [nodes |-> board.nodes, wires |-> ds]
             /\ s.picked = [nodes |-> u, wires |-> v]
      BY <3>1 DEF State
    <3>3. \E x \in SUBSET board.nodes, y \in SUBSET ds : picked' = [nodes |-> x, wires |-> y]
      <4>1. CASE picked' = s.picked
        BY <3>2, <4>1
      <4>2. CASE picked' = only
        BY <1>1, <4>2
      <4> QED BY <2>4, <4>1, <4>2
    <3>4. PICK x \in SUBSET board.nodes, y \in SUBSET ds : picked' = [nodes |-> x, wires |-> y]
      BY <3>3
    <3>5. Now' = [board |-> board', shown |-> shown', picked |-> picked']
      BY DEF Now
    <3>6. Now' = State(board.nodes, ds, board.nextId, board.nodes, ds, x, y)
      BY <2>4, <3>2, <3>4, <3>5 DEF State
    <3> QED BY <2>7, <3>6 DEF Shows
  <2>10. DraftOK'
    <3>1. c.out \in End("out") /\ Opposite["in"] = "out"
      BY <2>2 DEF BoardWire, Opposite
    <3>2. draft'.needs = "in" /\ draft'.at = c.out
      BY <2>4
    <3>3. c.out.node < board.nextId /\ board'.nextId = board.nextId
      BY <1>0, <2>2, <2>4, <2>8 DEF Met
    <3> QED BY <3>1, <3>2, <3>3 DEF DraftOK
  <2>11. Keeps(cmd, cmd, board.conns)
    BY <2>3 DEF Keeps
  <2>12. board'.conns = ds /\ board'.nextId = board.nextId
    BY <2>4, <2>8
  <2>13. (cmd.kind = "replace" => cmd.spare = ds) /\ cmd.nodes \subseteq 0 .. board.nextId - 1
    BY <2>3
  <2>14. steps' = Pushed(steps, cmd) /\ \E ms : Shows(Now', ms, ds, board.nextId)
    BY <2>4, <2>9
  <2>15. ds \subseteq Met(board.nextId)
    BY <1>0
  <2> HIDE DEF ds
  <2> QED BY <2>3, <2>6, <2>10, <2>11, <2>12, <2>13, <2>14, <2>15, DoInv
<1>3. CASE /\ makeDraftConnection(Opposite[side], e)
           /\ picked' = IF n \in picked.nodes THEN picked ELSE only
           /\ UNCHANGED <<board, shown, steps>>
  <2>1. DraftOK'
    <3>1. draft'.needs = Opposite[side] /\ draft'.at = e
      BY <1>3 DEF makeDraftConnection
    <3>2. Opposite[side] \in {"in", "out"} /\ Opposite[Opposite[side]] = side
      BY DEF Opposite
    <3> QED BY <1>1, <1>3, <1>4, <3>1, <3>2 DEF DraftOK
  <2>2. picked' = picked \/ (\E ns \in SUBSET board.nodes, ws \in SUBSET board.conns :
                                picked' = [nodes |-> ns, wires |-> ws])
    BY <1>1, <1>3
  <2> QED BY <1>3, <2>1, <2>2, BoardStays
<1> QED BY <1>2, <1>3 DEF PressPort

\* Releasing the draft: the ports are asked at that moment.
LEMMA ReleaseDraftInv ==
  ASSUME BoardInv, NEW n \in BoardId, NEW p, ReleaseDraftOn(n, p)
  PROVE  BoardInv'
<1> DEFINE e == [node |-> n, port |-> p]
           c == complete(draft, e)
           R == replacedConnectionIds
           ds == (board.conns \ R) \cup {c}
<1>0. /\ \E N : Course(N, steps, board.conns, board.nextId)
      /\ board.conns \in Legal /\ board.conns \subseteq BoardWire
      /\ Shows(Now, board.nodes, board.conns, board.nextId)
      /\ board.conns \subseteq Met(board.nextId) /\ board.nodes \subseteq 0 .. board.nextId - 1
      /\ board.nextId \in 0 .. BoardIds /\ shown.nodes = board.nodes
  BY NowShown
<1>1. /\ draft # NoDraft /\ p \in PortNumber(draft.needs) /\ wirePossible(board, c, R)
      /\ draft' = NoDraft
  BY DEF ReleaseDraftOn, resetDraftConnection
<1>2. c \in BoardWire /\ (draft.needs = "in" => c.out = draft.at)
  <2>1. draft.needs \in {"in", "out"} /\ draft.at \in End(Opposite[draft.needs])
    BY <1>1 DEF BoardInv, DraftOK
  <2>2. e \in End(draft.needs)
    BY <1>1 DEF End
  <2>3. CASE draft.needs = "in"
    <3>1. c = [out |-> draft.at, in |-> e] /\ draft.at \in End("out") /\ e \in End("in")
      BY <2>1, <2>2, <2>3 DEF complete, Opposite
    <3> QED BY <3>1 DEF BoardWire
  <2>4. CASE draft.needs = "out"
    <3>1. c = [out |-> e, in |-> draft.at] /\ draft.at \in End("in") /\ e \in End("out")
      BY <2>1, <2>2, <2>4 DEF complete, Opposite
    <3> QED BY <2>4, <3>1 DEF BoardWire
  <2> QED BY <2>1, <2>3, <2>4
<1>11. c \in Met(board.nextId)
  <2>1. draft.needs \in {"in", "out"} /\ draft.at.node < board.nextId
    BY <1>1 DEF BoardInv, DraftOK
  <2>2. n < board.nextId
    BY <1>0 DEF ReleaseDraftOn
  <2>3. c.out.node < board.nextId /\ c.in.node < board.nextId
    BY <2>1, <2>2 DEF complete
  <2> QED BY <1>2, <2>3 DEF Met
<1>3. R \subseteq board.conns
      /\ (R # {} => draft.needs = "in" /\ R = wiresOn(board, "out", draft.at))
  BY DEF replacedConnectionIds, wiresOn
<1> HIDE DEF e, c, R
<1>4. ds \in Legal
  BY <1>0, <1>1, <1>2, WireFits
<1>12. ds \subseteq Met(board.nextId)
  BY <1>0, <1>11
<1>5. c \notin board.conns \ R
  BY <1>1 DEF wirePossible
<1>6. DraftOK'
  BY <1>1 DEF DraftOK
<1>7. CASE R = {} /\ Do(newStep("connect", {}, {c}))
  <2> DEFINE cmd == newStep("connect", {}, {c})
  <2>1. /\ cmd.kind = "connect" /\ cmd.nodes = {} /\ cmd.conns = {c} /\ cmd.replaced = {}
        /\ cmd \in BoardCommand
    BY <1>2 DEF newStep, BoardCommand
  <2>2. boardBecomes(stepRedone(Now, cmd)) /\ steps' = Pushed(steps, withSpare(cmd))
    BY <1>7 DEF Do
  <2> HIDE DEF cmd
  <2>3. Leads(cmd, board.conns, ds)
    BY <1>0, <1>4, <1>5, <1>7, <2>1 DEF Leads
  <2>4. (cmd.kind = "replace" => cmd.spare = ds) /\ cmd.nodes \subseteq 0 .. board.nextId - 1
    BY <2>1
  <2> HIDE DEF ds
  <2> QED BY <1>6, <1>12, <2>1, <2>2, <2>3, <2>4, CommandInv
<1>8. ASSUME R # {}, R # {c},
             LET cmd == [newStep("replace", {}, {c}) EXCEPT !.replaced = R, !.spare = ds]
             IN  boardBecomes(stepRedone(Now, cmd)) /\ steps' = Pushed(steps, withSpare(cmd))
      PROVE  BoardInv'
  <2> DEFINE cmd == [newStep("replace", {}, {c}) EXCEPT !.replaced = R, !.spare = ds]
             plain == newStep("replace", {}, {c})
             with == [plain EXCEPT !.replaced = R]
  <2>1. c \notin board.conns
    <3>1. ASSUME c \in board.conns PROVE FALSE
      <4>1. c \in R /\ R = wiresOn(board, "out", draft.at)
        BY <1>3, <1>5, <1>8, <3>1
      <4>2. \A x \in R : x \in board.conns /\ x["out"] = draft.at
        BY <4>1 DEF wiresOn
      <4>3. \A x \in R : x = c
        BY <1>0, <3>1, <4>1, <4>2 DEF Legal
      <4> QED BY <1>8, <4>1, <4>3
    <3> QED BY <3>1
  <2> HIDE DEF ds
  <2>2. cmd = [kind |-> "replace", nodes |-> {}, conns |-> {c}, replaced |-> R, spare |-> ds]
    <3>1. plain = [kind |-> "replace", nodes |-> {}, conns |-> {c}, replaced |-> {},
          spare |-> {}]
      BY DEF newStep
    <3>2. cmd = [plain EXCEPT !.replaced = R, !.spare = ds]
      OBVIOUS
    <3> HIDE DEF plain, cmd
    <3>3. [plain EXCEPT !.replaced = R, !.spare = ds] = [with EXCEPT !.spare = ds]
      OBVIOUS
    <3>4. with = [kind |-> "replace", nodes |-> {}, conns |-> {c}, replaced |-> R, spare |-> {}]
      BY <3>1
    <3> HIDE DEF with
    <3>5. [with EXCEPT !.spare = ds]
            = [kind |-> "replace", nodes |-> {}, conns |-> {c}, replaced |-> R, spare |-> ds]
      BY <3>4
    <3> QED BY <3>2, <3>3, <3>5
  <2>3. boardBecomes(stepRedone(Now, cmd)) /\ steps' = Pushed(steps, withSpare(cmd))
    BY <1>8
  <2> HIDE DEF cmd
  <2>4. /\ cmd.kind = "replace" /\ cmd.nodes = {} /\ cmd.conns = {c} /\ cmd.replaced = R
        /\ cmd.spare = ds
    BY <2>2
  <2>5. cmd \in BoardCommand
    <3>1. ds \in SUBSET BoardWire /\ R \in SUBSET BoardWire /\ {c} \in SUBSET BoardWire
      BY <1>0, <1>2, <1>3, <1>4 DEF Legal
    <3> QED BY <2>2, <3>1 DEF BoardCommand
  <2>6. Leads(cmd, board.conns, ds)
    <3>1. cmd.replaced \subseteq board.conns /\ cmd.conns \cap board.conns = {}
          /\ ds = (board.conns \ cmd.replaced) \cup cmd.conns
      BY <1>3, <2>1, <2>4 DEF ds
    <3> QED BY <1>0, <1>4, <2>4, <3>1 DEF Leads
  <2>7. cmd.nodes \subseteq 0 .. board.nextId - 1
    BY <2>4
  <2> QED BY <1>6, <1>12, <2>3, <2>4, <2>5, <2>6, <2>7, CommandInv
<1>9. CASE steps' = PushedObsolete(steps) /\ UNCHANGED <<board, shown, picked>>
  <2>1. PICK N : Course(N, steps, board.conns, board.nextId)
    BY <1>0
  <2>2. StackOf(steps, BoardCommand)
    BY DEF BoardInv
  <2>3. \E M : Course(M, steps', board'.conns, board'.nextId)
    BY <1>9, <2>1, <2>2, CourseDropped
  <2>4. /\ StackOf(steps', BoardCommand) /\ Len(steps'.cmds) = steps.index
        /\ \A i \in 1 .. steps.index : steps'.cmds[i] = steps.cmds[i]
    BY <1>9, <2>2, PushedObsoleteIs
  <2>5. \A i \in 1 .. steps.index : i \in 1 .. Len(steps.cmds)
    BY <2>2 DEF StackOf
  <2>6. \A i \in 1 .. Len(steps'.cmds) : steps'.cmds[i].nodes \subseteq 0 .. board.nextId - 1
    BY <2>4, <2>5 DEF BoardInv
  <2>7. Now' = Now /\ board' = board
    BY <1>9 DEF Now
  <2> QED BY <1>0, <1>6, <2>3, <2>4, <2>6, <2>7 DEF BoardInv
<1>10. \/ R = {} /\ Do(newStep("connect", {}, {c}))
       \/ /\ R # {} /\ R # {c}
          /\ LET cmd == [newStep("replace", {}, {c}) EXCEPT !.replaced = R, !.spare = ds]
             IN  boardBecomes(stepRedone(Now, cmd)) /\ steps' = Pushed(steps, withSpare(cmd))
       \/ steps' = PushedObsolete(steps) /\ UNCHANGED <<board, shown, picked>>
  BY DEF ReleaseDraftOn, c, R, e
<1> HIDE DEF ds
<1> QED BY <1>7, <1>8, <1>9, <1>10

\* The Delete key takes the connections of what it deletes along.
LEMMA DeletePickedInv ==
  ASSUME BoardInv, DeletePicked
  PROVE  BoardInv'
<1> DEFINE attached == {c \in board.conns : {c.out.node, c.in.node} \cap picked.nodes # {}}
           cmd == newStep("delete", picked.nodes, attached \cup picked.wires)
           ds == board.conns \ (attached \cup picked.wires)
<1>1. Do(cmd) /\ UNCHANGED draft
  BY DEF DeletePicked
<1>2. /\ board.conns \in Legal /\ board.conns \subseteq BoardWire
         /\ board.nodes \subseteq BoardId
      /\ picked.nodes \subseteq board.nodes /\ picked.wires \subseteq board.conns
      /\ board.nodes \subseteq 0 .. board.nextId - 1
      /\ board.conns \subseteq Met(board.nextId)
      /\ Shows(Now, board.nodes, board.conns, board.nextId)
  BY NowShown
<1>3. /\ cmd.kind = "delete" /\ cmd.nodes = picked.nodes
         /\ cmd.conns = attached \cup picked.wires
      /\ cmd \in BoardCommand
  BY <1>2 DEF newStep, BoardCommand
<1>4. boardBecomes(stepRedone(Now, cmd)) /\ steps' = Pushed(steps, withSpare(cmd))
  BY <1>1 DEF Do
<1> HIDE DEF cmd
<1>5. Leads(cmd, board.conns, ds)
  <2>1. ds \in Legal
    BY <1>2 DEF Legal
  <2>2. \A c \in ds : {c.out.node, c.in.node} \cap cmd.nodes = {}
    BY <1>3
  <2>3. cmd.conns \subseteq board.conns
    BY <1>2, <1>3
  <2> QED BY <1>2, <1>3, <2>1, <2>2, <2>3 DEF Leads
<1>8. PICK ms : Shows(stepRedone(Now, cmd), ms, ds, board.nextId)
  BY <1>2, <1>3, <1>5, RedoneShows
<1>9. board'.nextId = board.nextId
  BY <1>4, <1>8, Becoming
<1>6. DraftOK'
  BY <1>1, <1>9 DEF BoardInv, DraftOK
<1>7. (cmd.kind = "replace" => cmd.spare = ds) /\ cmd.nodes \subseteq 0 .. board.nextId - 1
  BY <1>2, <1>3
<1>10. ds \subseteq Met(board.nextId)
  BY <1>2
<1> HIDE DEF ds
<1> QED BY <1>3, <1>4, <1>5, <1>6, <1>7, <1>10, CommandInv

\* Undoing and redoing, in the middle of a gesture too.
LEMMA MovedInv ==
  ASSUME BoardInv, NEW N, Course(N, steps, board.conns, board.nextId), NEW j \in 1 .. Len(steps.cmds),
         NEW d, Keeps(d, steps.cmds[j], board.conns), TurnedInto(steps', steps, j, d),
         StackOf(steps', BoardCommand),
         \/ j = steps.index /\ steps'.index = steps.index - 1
         \/ j = steps.index + 1 /\ steps'.index = steps.index + 1,
         \E ms : Shows(Now', ms, N[steps'.index], board.nextId),
         board'.conns = N[steps'.index], board'.nextId = board.nextId, UNCHANGED draft
  PROVE  BoardInv'
<1>1. StackOf(steps, BoardCommand)
  BY DEF BoardInv
<1>2. Course(N, steps', N[steps'.index], board.nextId)
  BY <1>1, CourseMoved
<1>3. \A i \in 1 .. Len(steps'.cmds) : steps'.cmds[i].nodes \subseteq 0 .. board.nextId - 1
  BY DEF TurnedInto, Keeps, BoardInv
<1>4. DraftOK'
  BY DEF BoardInv, DraftOK
<1> QED BY <1>2, <1>3, <1>4 DEF BoardInv

LEMMA UndoStepInv ==
  ASSUME BoardInv, UndoStep
  PROVE  BoardInv'
<1> DEFINE cmd == LastDone(steps)
           d == withSpare(cmd)
           j == steps.index
<1>1. /\ CanUndo(steps) /\ boardBecomes(stepUndone(Now, cmd)) /\ steps' = Undone(steps, d)
      /\ UNCHANGED draft
  BY DEF UndoStep
<1>2. StackOf(steps, BoardCommand)
  BY DEF BoardInv
<1>3. PICK N : Course(N, steps, board.conns, board.nextId)
  BY NowShown
<1>4. board.conns \subseteq BoardWire /\ Shows(Now, board.nodes, board.conns, board.nextId)
  BY NowShown
<1>5. cmd \in BoardCommand /\ cmd = steps.cmds[j] /\ j \in 1 .. Len(steps.cmds)
  <2>1. steps.cmds \in Seq(BoardCommand) /\ j \in 1 .. Len(steps.cmds)
    BY <1>1, <1>2 DEF StackOf, CanUndo
  <2> QED BY <2>1 DEF LastDone
<1> HIDE DEF cmd
<1>6. Keeps(d, cmd, board.conns)
  BY <1>4, <1>5, WithSpareKeeps
<1>7. d \in BoardCommand
  BY <1>6 DEF Keeps
<1> HIDE DEF d
<1>8. StackOf(steps', BoardCommand) /\ steps'.index = steps.index - 1
      /\ TurnedInto(steps', steps, j, d)
  BY <1>1, <1>2, <1>7, UndoneAs
<1>9. /\ Leads(cmd, N[j - 1], board.conns) /\ (cmd.kind = "replace" => cmd.spare = N[j - 1])
      /\ cmd.nodes \subseteq 0 .. board.nextId - 1
  BY <1>3, <1>5 DEF Course, BoardInv
<1>10. PICK ms : Shows(stepUndone(Now, cmd), ms, N[j - 1], board.nextId)
  BY <1>4, <1>5, <1>9, UndoneShows
<1>11. Shows(Now', ms, N[j - 1], board.nextId) /\ board'.conns = N[j - 1]
       /\ board'.nextId = board.nextId
  BY <1>1, <1>10, Becoming
<1>12. steps'.index = j - 1
  BY <1>8
<1>13. \E m : Shows(Now', m, N[steps'.index], board.nextId)
  BY <1>11, <1>12
<1> QED BY <1>1, <1>3, <1>5, <1>6, <1>8, <1>11, <1>12, <1>13, MovedInv

LEMMA RedoStepInv ==
  ASSUME BoardInv, RedoStep
  PROVE  BoardInv'
<1> DEFINE cmd == NextUndone(steps)
           d == withSpare(cmd)
           j == steps.index + 1
<1>1. /\ CanRedo(steps) /\ boardBecomes(stepRedone(Now, cmd)) /\ steps' = Redone(steps, d)
      /\ UNCHANGED draft
  BY DEF RedoStep
<1>2. StackOf(steps, BoardCommand)
  BY DEF BoardInv
<1>3. PICK N : Course(N, steps, board.conns, board.nextId)
  BY NowShown
<1>4. board.conns \subseteq BoardWire /\ Shows(Now, board.nodes, board.conns, board.nextId)
  BY NowShown
<1>5. cmd \in BoardCommand /\ cmd = steps.cmds[j] /\ j \in 1 .. Len(steps.cmds)
      /\ steps.index \in Nat
  <2>1. steps.cmds \in Seq(BoardCommand) /\ j \in 1 .. Len(steps.cmds) /\ steps.index \in Nat
    BY <1>1, <1>2 DEF StackOf, CanRedo
  <2> QED BY <2>1 DEF NextUndone
<1> HIDE DEF cmd
<1>6. Keeps(d, cmd, board.conns)
  BY <1>4, <1>5, WithSpareKeeps
<1>7. d \in BoardCommand
  BY <1>6 DEF Keeps
<1> HIDE DEF d
<1>8. StackOf(steps', BoardCommand) /\ steps'.index = steps.index + 1
      /\ TurnedInto(steps', steps, j, d)
  BY <1>1, <1>2, <1>7, RedoneAs
<1>9. Leads(cmd, board.conns, N[j]) /\ (cmd.kind = "replace" => cmd.spare = N[j])
  <2>1. /\ Leads(steps.cmds[j], N[j - 1], N[j]) /\ N[steps.index] = board.conns
        /\ cmd.kind = "replace" => cmd.spare = IF j <= steps.index THEN N[j - 1] ELSE N[j]
    BY <1>3, <1>5 DEF Course
  <2>2. j - 1 = steps.index /\ ~(j <= steps.index)
    BY <1>5
  <2> QED BY <1>5, <2>1, <2>2
<1>10. PICK ms : Shows(stepRedone(Now, cmd), ms, N[j], board.nextId)
  BY <1>4, <1>5, <1>9, RedoneShows
<1>11. Shows(Now', ms, N[j], board.nextId) /\ board'.conns = N[j]
       /\ board'.nextId = board.nextId
  BY <1>1, <1>10, Becoming
<1>12. steps'.index = j
  BY <1>8
<1>13. \E m : Shows(Now', m, N[steps'.index], board.nextId)
  BY <1>11, <1>12
<1> QED BY <1>1, <1>3, <1>5, <1>6, <1>8, <1>11, <1>12, <1>13, MovedInv

LEMMA BoardInductive == BoardInv /\ [BoardNext]_draftVars => BoardInv'
<1> SUFFICES ASSUME BoardInv, [BoardNext]_draftVars PROVE BoardInv'
  OBVIOUS
<1>1. CASE CreateNode
  BY <1>1, CreateNodeInv
<1>2. CASE DropDraft
  BY <1>2, DropDraftInv
<1>3. CASE DeletePicked
  BY <1>3, DeletePickedInv
<1>4. CASE UndoStep
  BY <1>4, UndoStepInv
<1>5. CASE RedoStep
  BY <1>5, RedoStepInv
<1>6. ASSUME NEW nodes \in SUBSET BoardId, NEW wires \in SUBSET shown.wires, Pick(nodes, wires)
      PROVE  BoardInv'
  BY <1>6, PickInv
<1>7. ASSUME NEW n \in BoardId, NEW side \in {"in", "out"}, NEW p \in PortNumber(side),
             PressPort(n, side, p)
      PROVE  BoardInv'
  BY <1>7, PressPortInv
<1>8. ASSUME NEW n \in BoardId, NEW p, ReleaseDraftOn(n, p)
      PROVE  BoardInv'
  BY <1>8, ReleaseDraftInv
<1>9. CASE UNCHANGED draftVars
  <2>1. UNCHANGED <<board, shown, picked, draft, steps>>
    BY <1>9 DEF draftVars
  <2>2. DraftOK'
    BY <2>1 DEF BoardInv, DraftOK
  <2> QED BY <2>1, <2>2, BoardStays
<1> QED BY <1>1, <1>2, <1>3, <1>4, <1>5, <1>6, <1>7, <1>8, <1>9 DEF BoardNext

LEMMA BoardInvIsEnough == BoardInv => BoardConsistent
<1> SUFFICES ASSUME BoardInv PROVE BoardConsistent
  OBVIOUS
<1>1. /\ board.conns \in Legal /\ board.conns \subseteq BoardWire
      /\ board.nextId \in 0 .. BoardIds /\ shown.nodes = board.nodes
         /\ shown.wires = board.conns
      /\ board.conns \subseteq Met(board.nextId)
      /\ picked.nodes \subseteq board.nodes /\ picked.wires \subseteq board.conns
      /\ board.nodes \subseteq 0 .. board.nextId - 1
      /\ Shows(Now, board.nodes, board.conns, board.nextId)
  BY NowShown
<1>2. BoardTypeOK
  BY <1>1 DEF BoardTypeOK, BoardInv, DraftOK
<1>5. NoWireAwaitsANode
  BY <1>1 DEF NoWireAwaitsANode, Met
<1>3. ASSUME NEW side \in {"in", "out"}, NEW e \in End(side)
      PROVE  Cardinality(wiresOn(board, side, e)) <= 1
  <2>1. \A c, d \in wiresOn(board, side, e) : c = d
    BY <1>1 DEF Legal, wiresOn
  <2>2. CASE wiresOn(board, side, e) = {}
    BY <2>2, FS_EmptySet
  <2>3. CASE wiresOn(board, side, e) # {}
    <3>1. PICK c : wiresOn(board, side, e) = {c}
      BY <2>1, <2>3
    <3>2. Cardinality({c}) = 1
      BY FS_Singleton
    <3> QED BY <3>1, <3>2
  <2> QED BY <2>2, <2>3
<1>4. SceneFollowsBoard
  <2>1. PICK p, q : Now = State(board.nodes, board.conns, board.nextId, board.nodes,
             board.conns, p, q)
    BY <1>1 DEF Shows
  <2>2. Now.shown = [nodes |-> board.nodes, wires |-> board.conns]
    BY <2>1 DEF State
  <2>3. Now.shown = shown
    BY DEF Now
  <2> QED BY <2>2, <2>3 DEF SceneFollowsBoard
<1> QED BY <1>2, <1>3, <1>4, <1>5 DEF BoardConsistent, OneWirePerPort

\* Of the simple graph models (addConnection() of SimpleGraphModel.cpp, which asks
\* nothing, and NodeConnectionInteraction::tryConnect(), which does): whatever is
\* undone, redone or deleted between press and release, no port has two
\* connections, the scene shows the model, and a connection whose node is gone
\* never falls to a node that is created later.
THEOREM BoardStaysConsistent == BoardSpec => []BoardConsistent
<1>1. BoardInit => BoardInv
  BY BoardInitInv
<1>2. BoardInv /\ [BoardNext]_draftVars => BoardInv'
  BY BoardInductive
<1>3. BoardInv => BoardConsistent
  BY BoardInvIsEnough
<1> QED BY <1>1, <1>2, <1>3, PTL DEF BoardSpec
================================================================================
