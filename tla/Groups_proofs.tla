----------------------------- MODULE Groups_proofs -----------------------------
(***************************************************************************)
(* Proofs about GroupHistory (groups, the clipboard and the undo stack) and *)
(* about SceneCanvas (where things are on the scene), for any number of     *)
(* nodes, groups, connections and commands and for any line.  What the      *)
(* folds of the modules compute is found with FoldFacts; the invariants are *)
(* GroupInv and CanvasInv.                                                  *)
(***************************************************************************)
EXTENDS GroupHistory, SceneCanvas, UndoStack_proofs, FiniteSetTheorems

\* The operators the module folds with.
removing(unused, n, s) == removeNodeFromGroup(s, n)
adding(g, n, s) == addNodeToGroup(s, n, g)
restoring(keepIdentity, entry, s) == restoreEntry(s, entry, keepIdentity)
grouping(unused, members, s) == createGroup(s, members, None)

Removing == INSTANCE FoldFacts WITH Op <- removing
Adding == INSTANCE FoldFacts WITH Op <- adding
Restoring == INSTANCE FoldFacts WITH Op <- restoring
Starting == INSTANCE FoldFacts WITH Op <- grouping

LEMMA FoldsAre ==
  /\ \A s, ns : removeAll(s, ns) = Removing!Fold(None, s, ns)
  /\ \A s, ns, g : FoldSet(LAMBDA n, t : addNodeToGroup(t, n, g), s, ns) = Adding!Fold(g, s, ns)
  /\ \A s, saved, keepIdentity :
       insertSerializedItems(s, saved, keepIdentity) =
         Restoring!Fold(keepIdentity, loadNodes(s, saved.nodes), saved.groups)
  /\ \A s, gs : FoldSet(LAMBDA members, t : createGroup(t, members, None), s, gs) =
                Starting!Fold(None, s, gs)
<1>1. \A s, ns : removeAll(s, ns) = Removing!Fold(None, s, ns)
  BY DEF removeAll, removing, Removing!Fold, Removing!FoldSet, Removing!MapThenFoldSet, FoldSet, MapThenFoldSet
<1>2. \A s, ns, g : FoldSet(LAMBDA n, t : addNodeToGroup(t, n, g), s, ns) = Adding!Fold(g, s, ns)
  BY DEF adding, Adding!Fold, Adding!FoldSet, Adding!MapThenFoldSet, FoldSet, MapThenFoldSet
<1>3. \A s, saved, keepIdentity :
       insertSerializedItems(s, saved, keepIdentity) =
         Restoring!Fold(keepIdentity, loadNodes(s, saved.nodes), saved.groups)
  BY DEF insertSerializedItems, restoring, Restoring!Fold, Restoring!FoldSet, Restoring!MapThenFoldSet,
         FoldSet, MapThenFoldSet
<1>4. \A s, gs : FoldSet(LAMBDA members, t : createGroup(t, members, None), s, gs) =
                Starting!Fold(None, s, gs)
  BY DEF grouping, Starting!Fold, Starting!FoldSet, Starting!MapThenFoldSet, FoldSet, MapThenFoldSet
<1> QED BY <1>1, <1>2, <1>3, <1>4

Scene(N, O, L, G, k, e) ==
  [nodes |-> N, groupOf |-> O, nodeLocked |-> L, groups |-> G, nextGroupId |-> k, enabled |-> e]

\* A scene whose groups are as they should be.
Group == [members : SUBSET NodeId, locked : BOOLEAN]

Grouped(N, O, L, G, k) ==
  /\ N \in SUBSET NodeId
  /\ O \in [N -> GroupId \cup {None}]
  /\ L \in [N -> BOOLEAN]
  /\ DOMAIN G \subseteq GroupId /\ G \in [DOMAIN G -> Group]
  /\ k \in 0 .. InvalidGroupId
  /\ \A g \in DOMAIN G : G[g].members # {} /\ G[g].members \subseteq N /\ g < k
  /\ \A n \in N, g \in GroupId : O[n] = g <=> g \in DOMAIN G /\ n \in G[g].members
  /\ \A n \in N : L[n] <=> O[n] # None /\ G[O[n]].locked

IsScene(s) == s = Scene(s.nodes, s.groupOf, s.nodeLocked, s.groups, s.nextGroupId, s.enabled)

WellGrouped(s) ==
  /\ IsScene(s)
  /\ Grouped(s.nodes, s.groupOf, s.nodeLocked, s.groups, s.nextGroupId)
  /\ s.enabled \in BOOLEAN
  /\ ~s.enabled => DOMAIN s.groups = {}

RemovedO(s, ns) == [n \in s.nodes |-> IF n \in ns THEN None ELSE s.groupOf[n]]
RemovedL(s, ns) == [n \in s.nodes |-> n \notin ns /\ s.nodeLocked[n]]
Without(G, ns) == [g \in {k \in DOMAIN G : ~(G[k].members \subseteq ns)} |->
                 [members |-> G[g].members \ ns, locked |-> G[g].locked]]
\* ns leave their groups.
Removed(s, ns) ==
  Scene(s.nodes, RemovedO(s, ns), RemovedL(s, ns), Without(s.groups, ns), s.nextGroupId, s.enabled)

LEMMA RemovedIsWell ==
  ASSUME NEW s, WellGrouped(s), NEW ns
  PROVE  Grouped(s.nodes, RemovedO(s, ns), RemovedL(s, ns), Without(s.groups, ns), s.nextGroupId)
<1> DEFINE N == s.nodes
           O == RemovedO(s, ns)
           L == RemovedL(s, ns)
           G == Without(s.groups, ns)
<1>0. Grouped(s.nodes, s.groupOf, s.nodeLocked, s.groups, s.nextGroupId)
  BY DEF WellGrouped
<1>1. O \in [N -> GroupId \cup {None}] /\ L \in [N -> BOOLEAN]
  BY <1>0 DEF Grouped, RemovedO, RemovedL
<1>2. DOMAIN G \subseteq GroupId /\ G \in [DOMAIN G -> Group]
  BY <1>0 DEF Grouped, Without, Group, GroupIds, Members
<1>3. \A g \in DOMAIN G : G[g].members # {} /\ G[g].members \subseteq N /\ g < s.nextGroupId
  BY <1>0 DEF Grouped, Without, GroupIds, Members
<1>4. \A n \in N, g \in GroupId : O[n] = g <=> g \in DOMAIN G /\ n \in G[g].members
  BY <1>0, GroupConstants DEF Grouped, Without, RemovedO, GroupIds, Members
<1>5. ASSUME NEW n \in N PROVE L[n] <=> O[n] # None /\ G[O[n]].locked
  <2>1. O[n] = IF n \in ns THEN None ELSE s.groupOf[n]
    BY DEF RemovedO
  <2>2. L[n] = (n \notin ns /\ s.nodeLocked[n])
    BY DEF RemovedL
  <2>3. CASE n \in ns
    BY <2>1, <2>2, <2>3
  <2>4. CASE n \notin ns /\ s.groupOf[n] = None
    BY <2>1, <2>2, <2>4, <1>0 DEF Grouped
  <2>5. CASE n \notin ns /\ s.groupOf[n] # None
    <3>1. /\ O[n] = s.groupOf[n] /\ O[n] \in GroupIds(s) /\ O[n] \in DOMAIN G
          /\ G[O[n]].locked = s.groups[O[n]].locked
      BY <2>1, <2>5, <1>0 DEF Grouped, Without, GroupIds, Members
    <3> QED BY <3>1, <2>2, <2>5, <1>0 DEF Grouped
  <2> QED BY <2>3, <2>4, <2>5
<1> QED BY <1>0, <1>1, <1>2, <1>3, <1>4, <1>5 DEF Grouped

LEMMA SameFunction ==
  ASSUME NEW D, NEW f, f = [x \in D |-> f[x]], NEW h, h = [x \in D |-> h[x]],
         \A x \in D : f[x] = h[x]
  PROVE  f = h
OBVIOUS

\* Q is G but for x, which has left group g.
LeftBy(Q, G, g, x) ==
  /\ Q \in [DOMAIN G -> Group]
  /\ G[g].members \ {x} # {}
  /\ \A k \in DOMAIN G : /\ Q[k].members = (IF k = g THEN G[g].members \ {x} ELSE G[k].members)
                         /\ Q[k].locked = G[k].locked

LEMMA MembersSet ==
  ASSUME NEW G, G \in [DOMAIN G -> Group], NEW g \in DOMAIN G, NEW x, G[g].members \ {x} # {},
         NEW Q, Q = [k \in DOMAIN G |-> Q[k]], Q[g] = [G[g] EXCEPT !.members = G[g].members \ {x}],
         \A k \in DOMAIN G : k # g => Q[k] = G[k]
  PROVE  LeftBy(Q, G, g, x)
<1> DEFINE ms == G[g].members \ {x}
<1>0. ms \in SUBSET NodeId
  BY DEF Group
<1>1. G[g] = [members |-> G[g].members, locked |-> G[g].locked] /\ G[g].locked \in BOOLEAN
  BY DEF Group
<1>2. Q[g] = [members |-> ms, locked |-> G[g].locked]
  BY <1>1
<1>3. Q \in [DOMAIN G -> Group]
  BY <1>0, <1>1, <1>2 DEF Group
<1>4. \A k \in DOMAIN G : Q[k].members = (IF k = g THEN ms ELSE G[k].members) /\ Q[k].locked = G[k].locked
  BY <1>2
<1> QED BY <1>3, <1>4 DEF LeftBy

GroupMap(G) == G \in [DOMAIN G -> Group]

LEMMA WithoutShape ==
  ASSUME NEW G, GroupMap(G), NEW ns
  PROVE  /\ DOMAIN Without(G, ns) \subseteq DOMAIN G
         /\ \A k \in DOMAIN G : k \in DOMAIN Without(G, ns) <=> ~(G[k].members \subseteq ns)
         /\ GroupMap(Without(G, ns))
         /\ \A k \in DOMAIN Without(G, ns) : /\ Without(G, ns)[k].members = G[k].members \ ns
                                             /\ Without(G, ns)[k].locked = G[k].locked
BY DEF Without, Group, GroupMap

LEMMA SameGroups ==
  ASSUME NEW D, NEW G \in [D -> Group], NEW H \in [D -> Group],
         \A k \in D : G[k].members = H[k].members /\ G[k].locked = H[k].locked
  PROVE  G = H
<1>1. \A k \in D : G[k] = [members |-> G[k].members, locked |-> G[k].locked]
  BY DEF Group
<1>2. \A k \in D : H[k] = [members |-> H[k].members, locked |-> H[k].locked]
  BY DEF Group
<1>3. \A k \in D : G[k] = H[k]
  BY <1>1, <1>2
<1> QED BY <1>3

LEMMA WithoutStranger ==
  ASSUME NEW G, GroupMap(G), NEW ns, NEW x, \A k \in DOMAIN G : x \notin G[k].members
  PROVE  Without(G, ns \cup {x}) = Without(G, ns)
<1> DEFINE D == DOMAIN G
           T == Without(G, ns)
           W == Without(G, ns \cup {x})
<1>1. /\ DOMAIN T \subseteq D /\ (\A k \in D : k \in DOMAIN T <=> ~(G[k].members \subseteq ns)) /\ T \in [DOMAIN T -> Group]
      /\ \A k \in DOMAIN T : T[k].members = G[k].members \ ns /\ T[k].locked = G[k].locked
  BY WithoutShape DEF GroupMap
<1>2. /\ DOMAIN W \subseteq D /\ (\A k \in D : k \in DOMAIN W <=> ~(G[k].members \subseteq ns \cup {x})) /\ W \in [DOMAIN W -> Group]
      /\ \A k \in DOMAIN W : W[k].members = G[k].members \ (ns \cup {x}) /\ W[k].locked = G[k].locked
  BY WithoutShape DEF GroupMap
<1> HIDE DEF T, W
<1>3. DOMAIN W = DOMAIN T
  BY <1>1, <1>2
<1>4. T \in [DOMAIN W -> Group]
  BY <1>1, <1>3
<1>5. ASSUME NEW k \in DOMAIN W PROVE W[k].members = T[k].members /\ W[k].locked = T[k].locked
  <2>1. k \in D /\ k \in DOMAIN T
    BY <1>2, <1>3
  <2>2. G[k].members \ (ns \cup {x}) = G[k].members \ ns
    BY <2>1
  <2> QED BY <2>1, <2>2, <1>1, <1>2
<1> QED
  <2> W = T
    BY <1>2, <1>4, <1>5, SameGroups
  <2> QED BY DEF W, T

OnlyIn(G, x, g) == \A k \in DOMAIN G : x \in G[k].members <=> k = g

LEMMA WithoutLastMember ==
  ASSUME NEW G, GroupMap(G), NEW x, NEW g, OnlyIn(G, x, g), NEW ns, x \notin ns,
         g \in DOMAIN Without(G, ns), Without(G, ns)[g].members \ {x} = {}
  PROVE  Without(G, ns \cup {x}) =
           Restrict(Without(G, ns), DOMAIN Without(G, ns) \ {g})
<1> DEFINE D == DOMAIN G
           T == Without(G, ns)
           W == Without(G, ns \cup {x})
<1>1. /\ DOMAIN T \subseteq D /\ (\A k \in D : k \in DOMAIN T <=> ~(G[k].members \subseteq ns)) /\ T \in [DOMAIN T -> Group]
      /\ \A k \in DOMAIN T : T[k].members = G[k].members \ ns /\ T[k].locked = G[k].locked
  BY WithoutShape DEF GroupMap
<1>2. /\ DOMAIN W \subseteq D /\ (\A k \in D : k \in DOMAIN W <=> ~(G[k].members \subseteq ns \cup {x})) /\ W \in [DOMAIN W -> Group]
      /\ \A k \in DOMAIN W : W[k].members = G[k].members \ (ns \cup {x}) /\ W[k].locked = G[k].locked
  BY WithoutShape DEF GroupMap
<1>0. \A k \in D : x \in G[k].members <=> k = g
  BY DEF OnlyIn
<1>3. g \in DOMAIN T /\ T[g].members \ {x} = {}
  OBVIOUS
<1> HIDE DEF D, T, W
<1> QED
  <2> DEFINE Q == Restrict(T, DOMAIN T \ {g})
  <2>1. ASSUME NEW k \in D PROVE k \in DOMAIN W <=> k \in DOMAIN T \ {g}
    <3>1. k = g => G[k].members \subseteq ns \cup {x}
      BY <1>0, <1>1, <1>3
    <3>2. k # g => x \notin G[k].members
      BY <1>0
    <3> QED BY <3>1, <3>2, <1>1, <1>2
  <2>2. DOMAIN W = DOMAIN T \ {g}
    BY <2>1, <1>1, <1>2
  <2>3. Q \in [DOMAIN W -> Group] /\ \A k \in DOMAIN W : Q[k] = T[k]
    BY <2>2, <1>1 DEF Restrict
  <2> HIDE DEF Q
  <2>4. ASSUME NEW k \in DOMAIN W
        PROVE  W[k].members = Q[k].members /\ W[k].locked = Q[k].locked
    <3>1. k \in D /\ k \in DOMAIN T /\ x \notin G[k].members
      BY <2>2, <1>0, <1>1
    <3>2. G[k].members \ (ns \cup {x}) = G[k].members \ ns
      BY <3>1
    <3>3. W[k].members = T[k].members /\ W[k].locked = T[k].locked
      <4>1. W[k].members = G[k].members \ (ns \cup {x}) /\ W[k].locked = G[k].locked
        BY <1>2
      <4>2. T[k].members = G[k].members \ ns /\ T[k].locked = G[k].locked
        BY <3>1, <1>1
      <4> QED BY <3>2, <4>1, <4>2
    <3> QED BY <3>3, <2>3
  <2>5. W = Q
    BY <1>2, <2>3, <2>4, SameGroups
  <2> QED BY <2>5 DEF W, Q, T

LEMMA WithoutMember ==
  ASSUME NEW G, GroupMap(G), NEW x, NEW g, OnlyIn(G, x, g), NEW ns, x \notin ns,
         g \in DOMAIN Without(G, ns), NEW Q, LeftBy(Q, Without(G, ns), g, x)
  PROVE  Without(G, ns \cup {x}) = Q
<1> DEFINE D == DOMAIN G
           T == Without(G, ns)
           W == Without(G, ns \cup {x})
<1>1. /\ DOMAIN T \subseteq D /\ (\A k \in D : k \in DOMAIN T <=> ~(G[k].members \subseteq ns)) /\ T \in [DOMAIN T -> Group]
      /\ \A k \in DOMAIN T : T[k].members = G[k].members \ ns /\ T[k].locked = G[k].locked
  BY WithoutShape DEF GroupMap
<1>2. /\ DOMAIN W \subseteq D /\ (\A k \in D : k \in DOMAIN W <=> ~(G[k].members \subseteq ns \cup {x})) /\ W \in [DOMAIN W -> Group]
      /\ \A k \in DOMAIN W : W[k].members = G[k].members \ (ns \cup {x}) /\ W[k].locked = G[k].locked
  BY WithoutShape DEF GroupMap
<1>0. \A k \in D : x \in G[k].members <=> k = g
  BY DEF OnlyIn
<1> DEFINE rest == T[g].members \ {x}
<1>4. g \in DOMAIN T /\ LeftBy(Q, T, g, x)
  OBVIOUS
<1> HIDE DEF D, T, W
<1> QED
  <2>2. /\ Q \in [DOMAIN T -> Group]
        /\ \A k \in DOMAIN T : /\ Q[k].members = (IF k = g THEN rest ELSE T[k].members)
                              /\ Q[k].locked = T[k].locked
    BY <1>4 DEF LeftBy
  <2>3. ASSUME NEW k \in D PROVE k \in DOMAIN W <=> k \in DOMAIN T
    <3>1. k = g => ~(G[k].members \subseteq ns \cup {x})
      <4>1. T[g].members \ {x} # {}
        BY <1>4 DEF LeftBy
      <4> QED BY <1>1, <1>4, <4>1
    <3>2. k # g => (G[k].members \subseteq ns \cup {x} <=> G[k].members \subseteq ns)
      BY <1>0
    <3>3. (k \in DOMAIN T <=> ~(G[k].members \subseteq ns)) /\ (k \in DOMAIN W <=> ~(G[k].members \subseteq ns \cup {x}))
      BY <1>1, <1>2
    <3> QED BY <3>1, <3>2, <3>3, <1>4
  <2>4. DOMAIN W = DOMAIN T
    BY <2>3, <1>1, <1>2
  <2>5. ASSUME NEW k \in DOMAIN W
        PROVE  W[k].members = Q[k].members /\ W[k].locked = Q[k].locked
    <3>1. k \in D /\ k \in DOMAIN T /\ (x \in G[k].members <=> k = g)
      BY <2>4, <1>0, <1>1
    <3>2. /\ W[k].members = G[k].members \ (ns \cup {x}) /\ W[k].locked = G[k].locked
          /\ T[k].members = G[k].members \ ns /\ T[k].locked = G[k].locked
      BY <1>1, <1>2, <3>1
    <3> QED BY <3>1, <3>2, <2>2
  <2>6. W = Q
    BY <1>2, <2>2, <2>4, <2>5, SameGroups
  <2> QED BY <2>6 DEF W

LEMMA RemoveOneMore ==
  ASSUME NEW s, WellGrouped(s), s.enabled, NEW ns \in SUBSET s.nodes, NEW x \in s.nodes, x \notin ns
  PROVE  removeNodeFromGroup(Removed(s, ns), x) = Removed(s, ns \cup {x})
<1> DEFINE t == Removed(s, ns)
           g == s.groupOf[x]
           rest == Members(t, g) \ {x}
           G2 == IF g = None THEN t.groups
                                ELSE IF rest = {} THEN Restrict(t.groups, GroupIds(t) \ {g})
                                ELSE [t.groups EXCEPT ![g].members = rest]
<1>1. t.enabled = TRUE /\ x \in t.nodes /\ t.groupOf[x] = g
  BY DEF Removed, Scene, RemovedO, WellGrouped
<1>2. removeNodeFromGroup(t, x) = Scene(s.nodes, [t.groupOf EXCEPT ![x] = None], [t.nodeLocked EXCEPT ![x] = FALSE],
                     G2, s.nextGroupId, s.enabled)
  BY <1>1 DEF Removed, Scene, removeNodeFromGroup
<1>3. t = Scene(s.nodes, RemovedO(s, ns), RemovedL(s, ns), Without(s.groups, ns), s.nextGroupId, s.enabled)
  BY DEF Removed
<1>4. [t.groupOf EXCEPT ![x] = None] = RemovedO(s, ns \cup {x})
  BY DEF Removed, Scene, RemovedO
<1>5. [t.nodeLocked EXCEPT ![x] = FALSE] = RemovedL(s, ns \cup {x})
  BY DEF Removed, Scene, RemovedL
<1>6. G2 = Without(s.groups, ns \cup {x})
  <2>0. Grouped(s.nodes, s.groupOf, s.nodeLocked, s.groups, s.nextGroupId)
    BY DEF WellGrouped
  <2>1. s.groups \in [DOMAIN s.groups -> Group] /\ t.groups = Without(s.groups, ns)
    BY <2>0 DEF Removed, Scene, Grouped
  <2>2. \A k \in DOMAIN s.groups : x \in s.groups[k].members <=> k = g
    BY <2>0, GroupConstants DEF Grouped
  <2>3. CASE g = None
    <3>1. \A k \in DOMAIN s.groups : x \notin s.groups[k].members
      BY <2>2, <2>3, <2>0, GroupConstants DEF Grouped
    <3>2. GroupMap(s.groups)
      BY <2>1 DEF GroupMap
    <3> QED BY <2>1, <2>3, <3>1, <3>2, WithoutStranger
  <2>4. CASE g # None
    <3>1. g \in DOMAIN s.groups /\ x \in s.groups[g].members
      BY <2>0, <2>4 DEF Grouped
    <3>2. rest = t.groups[g].members \ {x} /\ GroupIds(t) = DOMAIN t.groups
      BY DEF Members, GroupIds
    <3> HIDE DEF rest, t, g
    <3>3. g \in DOMAIN t.groups
      BY <2>1, <3>1, WithoutShape DEF GroupMap
    <3>0. OnlyIn(s.groups, x, g)
      BY <2>2 DEF OnlyIn
    <3> DEFINE W == Without(s.groups, ns \cup {x})
               Q == [t.groups EXCEPT ![g].members = rest]
    <3>4. s.groups \in [DOMAIN s.groups -> Group] /\ t.groups = Without(s.groups, ns)
      BY <2>1
    <3>5. t.groups \in [DOMAIN t.groups -> Group] /\ GroupMap(s.groups)
      BY <3>4, WithoutShape DEF GroupMap
    <3>6. CASE rest = {}
      <4>1. W = Restrict(t.groups, DOMAIN t.groups \ {g})
        BY <3>0, <3>2, <3>3, <3>4, <3>5, <3>6, WithoutLastMember
      <4> QED BY <2>4, <3>2, <3>6, <4>1
    <3>7. CASE rest # {}
      <4>1. /\ Q = [k \in DOMAIN t.groups |-> Q[k]] /\ Q[g] = [t.groups[g] EXCEPT !.members = rest]
            /\ \A k \in DOMAIN t.groups : k # g => Q[k] = t.groups[k]
        BY <3>3, <3>5
      <4>2. G2 = Q
        BY <2>4, <3>7
      <4> HIDE DEF Q, G2
      <4>3. LeftBy(Q, t.groups, g, x)
        BY <3>2, <3>3, <3>5, <3>7, <4>1, MembersSet
      <4>4. W = Q
        BY <3>0, <3>3, <3>4, <3>5, <4>3, WithoutMember
      <4> QED BY <4>2, <4>4
    <3> QED BY <3>6, <3>7
  <2> QED BY <2>3, <2>4
<1> QED BY <1>2, <1>4, <1>5, <1>6 DEF Removed

LEMMA NodesAreFinite ==
  /\ IsFiniteSet(NodeId)
  /\ \A ns \in SUBSET NodeId : IsFiniteSet(ns)
<1>1. 0 \in Int /\ InvalidNodeId - 1 \in Int
  BY GroupConstants
<1>2. IsFiniteSet(NodeId)
  BY <1>1, FS_Interval DEF NodeId
<1> QED BY <1>2, FS_Subset

LEMMA NothingRemoved ==
  ASSUME NEW s, WellGrouped(s)
  PROVE  Removed(s, {}) = s
<1>1. Grouped(s.nodes, s.groupOf, s.nodeLocked, s.groups, s.nextGroupId) /\ IsScene(s)
  BY DEF WellGrouped
<1>2. RemovedO(s, {}) = s.groupOf
  BY <1>1 DEF Grouped, RemovedO
<1>3. RemovedL(s, {}) = s.nodeLocked
  BY <1>1 DEF Grouped, RemovedL
<1>4. Without(s.groups, {}) = s.groups
  <2> DEFINE W == Without(s.groups, {})
             D == DOMAIN s.groups
  <2>1. s.groups \in [D -> Group]
    BY <1>1 DEF Grouped
  <2>2. /\ DOMAIN W \subseteq D /\ (\A k \in D : k \in DOMAIN W <=> ~(s.groups[k].members \subseteq {}))
        /\ W \in [DOMAIN W -> Group]
        /\ \A k \in DOMAIN W : W[k].members = s.groups[k].members \ {} /\ W[k].locked = s.groups[k].locked
    <3>1. GroupMap(s.groups)
      BY <2>1 DEF GroupMap
    <3> QED BY <3>1, WithoutShape DEF GroupMap
  <2>3. \A k \in D : ~(s.groups[k].members \subseteq {})
    BY <1>1 DEF Grouped
  <2> HIDE DEF W
  <2>4. DOMAIN W = D
    BY <2>2, <2>3
  <2>5. ASSUME NEW k \in D PROVE W[k].members = s.groups[k].members /\ W[k].locked = s.groups[k].locked
    <3>1. W[k].members = s.groups[k].members \ {} /\ W[k].locked = s.groups[k].locked
      BY <2>2, <2>4
    <3> QED BY <3>1
  <2>6. W = s.groups
    <3> HIDE DEF D
    <3> QED BY <2>1, <2>2, <2>4, <2>5, SameGroups
  <2> QED BY <2>6 DEF W
<1> QED BY <1>1, <1>2, <1>3, <1>4 DEF Removed, IsScene

LEMMA RemoveAllIs ==
  ASSUME NEW s, WellGrouped(s), s.enabled, NEW ns \in SUBSET s.nodes
  PROVE  removeAll(s, ns) = Removed(s, ns)
<1> DEFINE R == {<<u, Removed(s, u)>> : u \in SUBSET ns}
<1>1. IsFiniteSet(ns)
  BY NodesAreFinite DEF WellGrouped, Grouped
<1>2. <<{}, s>> \in R
  BY NothingRemoved
<1>3. ASSUME NEW u \in SUBSET ns, NEW x \in ns, NEW t, x \notin u, <<u, t>> \in R
      PROVE  <<u \cup {x}, removing(None, x, t)>> \in R
  <2>1. u \in SUBSET s.nodes /\ x \in s.nodes /\ t = Removed(s, u)
    BY <1>3
  <2>2. removing(None, x, t) = Removed(s, u \cup {x})
    BY <1>3, <2>1, RemoveOneMore DEF removing
  <2> QED BY <2>2
<1>4. <<ns, Removing!Fold(None, s, ns)>> \in R
  <2> HIDE DEF R
  <2> QED BY <1>1, <1>2, <1>3, Removing!FoldRelates DEF Removing!IsFiniteSet, IsFiniteSet
<1> QED BY <1>4, FoldsAre

LEMMA NothingToRemove ==
  ASSUME NEW s, WellGrouped(s), ~s.enabled, NEW ns \in SUBSET s.nodes
  PROVE  removeAll(s, ns) = s /\ Removed(s, ns) = s
<1>1. IsFiniteSet(ns)
  BY NodesAreFinite DEF WellGrouped, Grouped
<1>2. removeAll(s, ns) = s
  <2>1. \A x \in ns, t \in {s} : removing(None, x, t) \in {s}
    BY DEF removing, removeNodeFromGroup
  <2>2. Removing!Fold(None, s, ns) \in {s}
    BY <1>1, <2>1, Removing!FoldStays DEF Removing!IsFiniteSet, IsFiniteSet
  <2> QED BY <2>2, FoldsAre
<1>3. Grouped(s.nodes, s.groupOf, s.nodeLocked, s.groups, s.nextGroupId) /\ DOMAIN s.groups = {}
  BY DEF WellGrouped
<1>4. \A n \in s.nodes : s.groupOf[n] = None /\ s.nodeLocked[n] = FALSE
  BY <1>3 DEF Grouped
<1>5. RemovedO(s, ns) = s.groupOf /\ RemovedL(s, ns) = s.nodeLocked
  BY <1>3, <1>4 DEF Grouped, RemovedO, RemovedL
<1>6. Without(s.groups, ns) = s.groups
  BY <1>3 DEF Without, Grouped
<1>7. IsScene(s)
  BY DEF WellGrouped
<1> QED BY <1>2, <1>5, <1>6, <1>7 DEF Removed, IsScene

LEMMA RemoveAll ==
  ASSUME NEW s, WellGrouped(s), NEW ns \in SUBSET s.nodes
  PROVE  removeAll(s, ns) = Removed(s, ns)
BY RemoveAllIs, NothingToRemove

-----------------------------------------------------------------------------
(* What the operations on a scene do to its groups.                        *)

\* s and t have the same nodes, and t has given at least the ids s has.
Follows(s, t) ==
  /\ IsScene(t) /\ t.nodes = s.nodes /\ t.enabled = s.enabled
  /\ t.nextGroupId \in 0 .. InvalidGroupId /\ s.nextGroupId <= t.nextGroupId

Kept(s, t) == WellGrouped(t) /\ Follows(s, t)

\* t is s with a new group g of the nodes ns, which were in none.
NewGroup(s, t, ns, g, on) ==
  /\ Follows(s, t) /\ t.nextGroupId = CounterAfter(s, g)
  /\ t.groupOf \in [s.nodes -> GroupId \cup {None}]
  /\ \A n \in s.nodes : t.groupOf[n] = IF n \in ns THEN g ELSE s.groupOf[n]
  /\ t.nodeLocked \in [s.nodes -> BOOLEAN]
  /\ \A n \in s.nodes : IF n \in ns THEN t.nodeLocked[n] = on ELSE t.nodeLocked[n] = s.nodeLocked[n]
  /\ DOMAIN t.groups = DOMAIN s.groups \cup {g}
  /\ t.groups \in [DOMAIN t.groups -> Group]
  /\ t.groups[g].members = ns /\ t.groups[g].locked = on
  /\ \A h \in DOMAIN s.groups : t.groups[h] = s.groups[h]

LEMMA NewGroupIsWell ==
  ASSUME NEW s, WellGrouped(s), s.enabled, NEW ns \in SUBSET s.nodes, ns # {},
         \A n \in ns : s.groupOf[n] = None,
         NEW g \in GroupId, g \notin DOMAIN s.groups, NEW on \in BOOLEAN,
         NEW t, NewGroup(s, t, ns, g, on)
  PROVE  WellGrouped(t)
<1>1. Grouped(s.nodes, s.groupOf, s.nodeLocked, s.groups, s.nextGroupId) /\ g \in Nat /\ None \notin GroupId
  BY GroupConstants DEF WellGrouped, GroupId
<1>2. IsScene(t) /\ t.nodes = s.nodes /\ t.enabled = TRUE
  BY DEF NewGroup, Follows, WellGrouped
<1>3. /\ t.nodes \in SUBSET NodeId /\ t.groupOf \in [t.nodes -> GroupId \cup {None}]
      /\ t.nodeLocked \in [t.nodes -> BOOLEAN]
      /\ DOMAIN t.groups \subseteq GroupId /\ t.groups \in [DOMAIN t.groups -> Group]
      /\ t.nextGroupId \in 0 .. InvalidGroupId
  BY <1>1, <1>2 DEF NewGroup, Follows, Grouped
<1>4. ASSUME NEW h \in DOMAIN t.groups
      PROVE  t.groups[h].members # {} /\ t.groups[h].members \subseteq t.nodes /\ h < t.nextGroupId
  <2>1. CASE h = g
    <3>1. t.nextGroupId = IF g < s.nextGroupId THEN s.nextGroupId ELSE g + 1
      BY DEF NewGroup, CounterAfter
    <3>2. g < t.nextGroupId
      BY <3>1, <1>1, GroupConstants DEF Grouped
    <3> QED BY <2>1, <1>2, <3>2 DEF NewGroup
  <2>2. CASE h # g
    <3>1. h \in DOMAIN s.groups /\ t.groups[h] = s.groups[h] /\ s.nextGroupId <= t.nextGroupId
      BY <2>2 DEF NewGroup, Follows
    <3>2. h \in Nat /\ h < s.nextGroupId /\ s.nextGroupId \in Nat /\ t.nextGroupId \in Nat
      BY <3>1, <1>1, <1>3 DEF Grouped, GroupId
    <3> QED BY <3>1, <3>2, <1>1, <1>2 DEF Grouped
  <2> QED BY <2>1, <2>2
<1>5. ASSUME NEW n \in t.nodes, NEW h \in GroupId
      PROVE  t.groupOf[n] = h <=> h \in DOMAIN t.groups /\ n \in t.groups[h].members
  <2>1. s.groupOf[n] = h <=> h \in DOMAIN s.groups /\ n \in s.groups[h].members
    BY <1>1, <1>2 DEF Grouped
  <2>2. t.groupOf[n] = IF n \in ns THEN g ELSE s.groupOf[n]
    BY <1>2 DEF NewGroup
  <2>3. CASE h = g
    BY <2>1, <2>2, <2>3 DEF NewGroup
  <2>4. CASE h # g
    <3>1. h \in DOMAIN t.groups <=> h \in DOMAIN s.groups
      BY <2>4 DEF NewGroup
    <3>2. h \in DOMAIN s.groups => t.groups[h] = s.groups[h]
      BY DEF NewGroup
    <3>3. n \in ns => s.groupOf[n] # h
      BY <1>1
    <3> QED BY <2>1, <2>2, <2>4, <3>1, <3>2, <3>3
  <2> QED BY <2>3, <2>4
<1>6. ASSUME NEW n \in t.nodes
      PROVE  t.nodeLocked[n] <=> t.groupOf[n] # None /\ t.groups[t.groupOf[n]].locked
  <2>1. /\ t.groupOf[n] = IF n \in ns THEN g ELSE s.groupOf[n]
        /\ IF n \in ns THEN t.nodeLocked[n] = on ELSE t.nodeLocked[n] = s.nodeLocked[n]
    BY <1>2 DEF NewGroup
  <2>2. CASE n \in ns
    BY <2>1, <2>2, <1>1 DEF NewGroup
  <2>3. CASE n \notin ns
    <3>1. s.nodeLocked[n] <=> s.groupOf[n] # None /\ s.groups[s.groupOf[n]].locked
      BY <1>1, <1>2 DEF Grouped
    <3>2. s.groupOf[n] # None => s.groupOf[n] \in DOMAIN s.groups
      <4>1. s.groupOf[n] # None => s.groupOf[n] \in GroupId
        BY <1>1, <1>2 DEF Grouped
      <4> QED BY <4>1, <1>1, <1>2 DEF Grouped
    <3>3. s.groupOf[n] # None => t.groups[s.groupOf[n]] = s.groups[s.groupOf[n]]
      BY <3>2 DEF NewGroup
    <3> QED BY <2>1, <2>3, <3>1, <3>3
  <2> QED BY <2>2, <2>3
<1>7. Grouped(t.nodes, t.groupOf, t.nodeLocked, t.groups, t.nextGroupId)
  BY <1>3, <1>4, <1>5, <1>6 DEF Grouped
<1> QED BY <1>2, <1>7 DEF WellGrouped

\* What lock() makes of the groups, and of a scene.
LockedGroups(G, g, on) == [G EXCEPT ![g].locked = on]

Locked(s, g, on) ==
  Scene(s.nodes, s.groupOf,
        [n \in s.nodes |-> IF n \in s.groups[g].members THEN on ELSE s.nodeLocked[n]],
        LockedGroups(s.groups, g, on), s.nextGroupId, s.enabled)

LEMMA LockIs ==
  ASSUME NEW s, IsScene(s), NEW g, NEW on
  PROVE  lock(s, g, on) = Locked(s, g, on)
<1> DEFINE L == [n \in s.nodes |-> IF n \in s.groups[g].members THEN on ELSE s.nodeLocked[n]]
           G == [s.groups EXCEPT ![g].locked = on]
<1>1. lock(s, g, on) = [s EXCEPT !.groups = G, !.nodeLocked = L]
  BY DEF lock, Members
<1> HIDE DEF G, L
<1>2. [s EXCEPT !.groups = G, !.nodeLocked = L] =
        [[s EXCEPT !.groups = G] EXCEPT !.nodeLocked = L]
  OBVIOUS
<1>3. [s EXCEPT !.groups = G] =
        Scene(s.nodes, s.groupOf, s.nodeLocked, G, s.nextGroupId, s.enabled)
  BY DEF IsScene, Scene
<1>4. [Scene(s.nodes, s.groupOf, s.nodeLocked, G, s.nextGroupId, s.enabled) EXCEPT !.nodeLocked = L] =
        Scene(s.nodes, s.groupOf, L, G, s.nextGroupId, s.enabled)
  BY DEF Scene
<1>5. lock(s, g, on) = Scene(s.nodes, s.groupOf, L, G, s.nextGroupId, s.enabled)
  BY <1>1, <1>2, <1>3, <1>4, Zenon
<1> QED BY <1>5 DEF Locked, LockedGroups, G, L

\* H is G but for the lock of g.
LockedLike(H, G, g, on) ==
  /\ DOMAIN H = DOMAIN G /\ GroupMap(H)
  /\ \A k \in DOMAIN G : H[k].members = G[k].members /\ (k # g => H[k].locked = G[k].locked)
  /\ H[g].locked = on

LEMMA LockGroup ==
  ASSUME NEW G, GroupMap(G), NEW g \in DOMAIN G, NEW on \in BOOLEAN
  PROVE  LockedLike(LockedGroups(G, g, on), G, g, on)
<1> DEFINE H == LockedGroups(G, g, on)
<1>0. G \in [DOMAIN G -> Group] /\ H = [G EXCEPT ![g].locked = on]
  BY DEF GroupMap, LockedGroups
<1>1. H = [k \in DOMAIN G |-> H[k]] /\ H[g] = [G[g] EXCEPT !.locked = on]
      /\ \A k \in DOMAIN G : k # g => H[k] = G[k]
  BY <1>0
<1>2. G[g] = [members |-> G[g].members, locked |-> G[g].locked] /\ G[g].members \in SUBSET NodeId
  BY <1>0 DEF Group
<1> HIDE DEF H
<1>3. H[g] = [members |-> G[g].members, locked |-> on]
  BY <1>1, <1>2
<1>4. H \in [DOMAIN G -> Group]
  BY <1>0, <1>1, <1>2, <1>3 DEF Group
<1>5. DOMAIN H = DOMAIN G /\ GroupMap(H)
  BY <1>4 DEF GroupMap
<1>6. /\ \A k \in DOMAIN G : H[k].members = G[k].members /\ (k # g => H[k].locked = G[k].locked)
      /\ H[g].locked = on
  BY <1>1, <1>3
<1> QED BY <1>5, <1>6 DEF H, LockedLike

LEMMA LockIsWell ==
  ASSUME NEW s, WellGrouped(s), NEW g \in DOMAIN s.groups, NEW on \in BOOLEAN
  PROVE  Kept(s, lock(s, g, on))
<1> DEFINE t == lock(s, g, on)
<1>0. Grouped(s.nodes, s.groupOf, s.nodeLocked, s.groups, s.nextGroupId) /\ IsScene(s)
  BY DEF WellGrouped
<1>1. t = Locked(s, g, on)
  BY <1>0, LockIs
<1>2. /\ IsScene(t) /\ t.nodes = s.nodes /\ t.groupOf = s.groupOf /\ t.nextGroupId = s.nextGroupId
      /\ t.enabled = s.enabled /\ t.groups = LockedGroups(s.groups, g, on)
      /\ t.nodeLocked = [n \in s.nodes |-> IF n \in s.groups[g].members THEN on ELSE s.nodeLocked[n]]
  BY <1>1 DEF Locked, Scene, IsScene
<1>3. /\ DOMAIN t.groups = DOMAIN s.groups /\ t.groups \in [DOMAIN s.groups -> Group]
      /\ \A k \in DOMAIN s.groups : /\ t.groups[k].members = s.groups[k].members
                                    /\ k # g => t.groups[k].locked = s.groups[k].locked
      /\ t.groups[g].locked = on
  <2>1. GroupMap(s.groups)
    BY <1>0 DEF Grouped, GroupMap
  <2>2. LockedLike(t.groups, s.groups, g, on)
    BY <1>2, <2>1, LockGroup
  <2> QED BY <2>2 DEF LockedLike, GroupMap
<1> HIDE DEF t
<1>4. t.nodeLocked \in [s.nodes -> BOOLEAN]
  BY <1>0, <1>2 DEF Grouped
<1>5. DOMAIN t.groups = DOMAIN s.groups
  BY <1>3
<1>6. ASSUME NEW n \in s.nodes
      PROVE  t.nodeLocked[n] <=> t.groupOf[n] # None /\ t.groups[t.groupOf[n]].locked
  <2>1. s.groupOf[n] # None => s.groupOf[n] \in DOMAIN s.groups /\ n \in s.groups[s.groupOf[n]].members
    <3>1. s.groupOf[n] # None => s.groupOf[n] \in GroupId
      BY <1>0 DEF Grouped
    <3> QED BY <1>0, <3>1 DEF Grouped
  <2>2. n \in s.groups[g].members <=> s.groupOf[n] = g
    BY <1>0 DEF Grouped
  <2>3. s.nodeLocked[n] <=> s.groupOf[n] # None /\ s.groups[s.groupOf[n]].locked
    BY <1>0 DEF Grouped
  <2>4. g # None
    BY <1>0, GroupConstants DEF Grouped
  <2>5. t.nodeLocked[n] = IF n \in s.groups[g].members THEN on ELSE s.nodeLocked[n]
    BY <1>2
  <2>6. t.groupOf[n] # None => t.groups[t.groupOf[n]].locked = IF s.groupOf[n] = g THEN on ELSE s.groups[s.groupOf[n]].locked
    BY <1>2, <1>3, <2>1
  <2> QED BY <2>2, <2>3, <2>4, <2>5, <2>6, <1>2
<1>7. Grouped(t.nodes, t.groupOf, t.nodeLocked, t.groups, t.nextGroupId)
  <2>1. \A k \in DOMAIN t.groups :
          t.groups[k].members # {} /\ t.groups[k].members \subseteq s.nodes /\ k < s.nextGroupId
    BY <1>0, <1>3, <1>5 DEF Grouped
  <2>2. \A n \in s.nodes, k \in GroupId :
          s.groupOf[n] = k <=> k \in DOMAIN t.groups /\ n \in t.groups[k].members
    BY <1>0, <1>3, <1>5 DEF Grouped
  <2>3. /\ s.nodes \in SUBSET NodeId /\ s.groupOf \in [s.nodes -> GroupId \cup {None}]
        /\ DOMAIN t.groups \subseteq GroupId /\ t.groups \in [DOMAIN t.groups -> Group]
        /\ s.nextGroupId \in 0 .. InvalidGroupId
    BY <1>0, <1>3 DEF Grouped
  <2>4. Grouped(s.nodes, s.groupOf, t.nodeLocked, t.groups, s.nextGroupId)
    <3>1. \A n \in s.nodes : t.nodeLocked[n] <=> s.groupOf[n] # None /\ t.groups[s.groupOf[n]].locked
      BY <1>2, <1>6
    <3> QED BY <1>4, <2>1, <2>2, <2>3, <3>1 DEF Grouped
  <2> QED BY <1>2, <2>4
<1>8. WellGrouped(t)
  BY <1>0, <1>2, <1>5, <1>7 DEF WellGrouped
<1>9. Follows(s, t)
  BY <1>0, <1>2 DEF Follows, Grouped
<1> QED BY <1>8, <1>9 DEF Kept, t

LEMMA RemovedIsScene ==
  ASSUME NEW s, WellGrouped(s), NEW ns
  PROVE  /\ Kept(s, Removed(s, ns))
         /\ Removed(s, ns).groupOf = RemovedO(s, ns) /\ Removed(s, ns).nodeLocked = RemovedL(s, ns)
         /\ Removed(s, ns).groups = Without(s.groups, ns)
         /\ Removed(s, ns).nextGroupId = s.nextGroupId
<1>1. /\ IsScene(Removed(s, ns)) /\ Removed(s, ns).nodes = s.nodes /\ Removed(s, ns).enabled = s.enabled
      /\ Removed(s, ns).groupOf = RemovedO(s, ns) /\ Removed(s, ns).nodeLocked = RemovedL(s, ns)
      /\ Removed(s, ns).groups = Without(s.groups, ns) /\ Removed(s, ns).nextGroupId = s.nextGroupId
  BY DEF Removed, Scene, IsScene
<1>2. Grouped(s.nodes, s.groupOf, s.nodeLocked, s.groups, s.nextGroupId) /\ s.enabled \in BOOLEAN
      /\ (~s.enabled => DOMAIN s.groups = {})
  BY DEF WellGrouped
<1>3. DOMAIN Without(s.groups, ns) \subseteq DOMAIN s.groups
  BY <1>2, WithoutShape DEF GroupMap, Grouped
<1>4. WellGrouped(Removed(s, ns))
  BY <1>1, <1>2, <1>3, RemovedIsWell DEF WellGrouped
<1>5. Follows(s, Removed(s, ns))
  BY <1>1, <1>2 DEF Follows, Grouped
<1> QED BY <1>1, <1>4, <1>5 DEF Kept

\* The nodes of ns that are in a group leave it.
Loosened(s, ns) == Removed(s, {n \in ns : s.groupOf[n] # None})

LEMMA CreateIs ==
  ASSUME NEW s, WellGrouped(s), s.enabled, NEW ns \in SUBSET s.nodes, ns # {},
         NEW id, NEW g \in GroupId, g = IF id = None THEN nextGroupId(Loosened(s, ns)) ELSE id,
         g \notin GroupIds(Loosened(s, ns))
  PROVE  NewGroup(Loosened(s, ns), createGroup(s, ns, id), ns, g, TRUE)
<1> DEFINE f == Loosened(s, ns)
           K == CounterAfter(f, g)
           G == [h \in GroupIds(f) \cup {g} |->
                   IF h = g THEN [members |-> ns, locked |-> TRUE] ELSE f.groups[h]]
           O == [n \in f.nodes |-> IF n \in ns THEN g ELSE f.groupOf[n]]
           new == Scene(f.nodes, O, f.nodeLocked, G, K, f.enabled)
           t == createGroup(s, ns, id)
<1>1. Kept(s, f) /\ f.nextGroupId = s.nextGroupId
  BY RemovedIsScene DEF Loosened
<1>2. WellGrouped(f) /\ IsScene(f) /\ f.nodes = s.nodes /\ f.enabled = s.enabled
      /\ Grouped(f.nodes, f.groupOf, f.nodeLocked, f.groups, f.nextGroupId)
  BY <1>1 DEF Kept, Follows, WellGrouped
<1>3. removeAll(s, {n \in ns : s.groupOf[n] # None}) = f
  BY RemoveAllIs DEF Loosened
<1>4. t = lock([f EXCEPT !.nextGroupId = K, !.groups = G, !.groupOf = O], g, TRUE)
  <2>1. t = insertGroup(f, ns, g)
    <3>1. g = IF id = None THEN nextGroupId(f) ELSE id
      OBVIOUS
    <3> HIDE DEF f
    <3>2. createGroup(s, ns, id) = insertGroup(f, ns, IF id = None THEN nextGroupId(f) ELSE id)
      BY <1>3 DEF createGroup
    <3> QED BY <3>1, <3>2
  <2> QED BY <2>1 DEF insertGroup
<1> HIDE DEF f, K, G, O
<1>6. [f EXCEPT !.nextGroupId = K, !.groups = G, !.groupOf = O] =
        [[[f EXCEPT !.nextGroupId = K] EXCEPT !.groups = G] EXCEPT !.groupOf = O]
  OBVIOUS
<1>7. [f EXCEPT !.nextGroupId = K] =
        Scene(f.nodes, f.groupOf, f.nodeLocked, f.groups, K, f.enabled)
  <2>1. IsScene(f)
    BY <1>2
  <2> QED BY <2>1 DEF IsScene, Scene
<1>8. [Scene(f.nodes, f.groupOf, f.nodeLocked, f.groups, K, f.enabled) EXCEPT !.groups = G] =
        Scene(f.nodes, f.groupOf, f.nodeLocked, G, K, f.enabled)
  BY DEF Scene
<1>9. [Scene(f.nodes, f.groupOf, f.nodeLocked, G, K, f.enabled) EXCEPT !.groupOf = O] =
        Scene(f.nodes, O, f.nodeLocked, G, K, f.enabled)
  BY DEF Scene
<1>10. [f EXCEPT !.nextGroupId = K, !.groups = G, !.groupOf = O] = new
  BY <1>6, <1>7, <1>8, <1>9, Zenon
<1>11. /\ IsScene(new) /\ new.nodes = s.nodes /\ new.groupOf = O /\ new.nodeLocked = f.nodeLocked
       /\ new.groups = G /\ new.nextGroupId = K /\ new.enabled = s.enabled
  BY <1>2 DEF Scene, IsScene
<1> HIDE DEF new
<1>12. t = Locked(new, g, TRUE)
  <2>1. t = lock(new, g, TRUE)
    BY <1>4, <1>10, Zenon
  <2> QED BY <1>11, <2>1, LockIs
<1>13. /\ IsScene(t) /\ t.nodes = s.nodes /\ t.groupOf = O /\ t.nextGroupId = K /\ t.enabled = s.enabled
       /\ t.nodeLocked = [n \in s.nodes |-> IF n \in G[g].members THEN TRUE ELSE f.nodeLocked[n]]
       /\ t.groups = LockedGroups(G, g, TRUE)
  BY <1>11, <1>12 DEF Locked, Scene, IsScene
<1>15. /\ DOMAIN G = DOMAIN f.groups \cup {g} /\ G[g] = [members |-> ns, locked |-> TRUE]
       /\ (\A h \in DOMAIN f.groups : G[h] = f.groups[h]) /\ G = [h \in DOMAIN G |-> G[h]]
  <2>1. g \notin DOMAIN f.groups
    BY DEF f, GroupIds
  <2> QED BY <2>1 DEF G, GroupIds
<1>16. G \in [DOMAIN G -> Group]
  <2>1. ns \in SUBSET NodeId
    BY <1>2 DEF Grouped
  <2>2. G[g] \in Group
    BY <1>15, <2>1 DEF Group
  <2>3. \A h \in DOMAIN f.groups : f.groups[h] \in Group
    BY <1>2 DEF Grouped
  <2>4. \A h \in DOMAIN G : G[h] \in Group
    BY <1>15, <2>2, <2>3
  <2> QED BY <1>15, <2>4
<1>17. LockedGroups(G, g, TRUE) = G
  <2> DEFINE H == LockedGroups(G, g, TRUE)
  <2>1. /\ DOMAIN H = DOMAIN G /\ GroupMap(H)
        /\ \A k \in DOMAIN G : H[k].members = G[k].members /\ (k # g => H[k].locked = G[k].locked)
        /\ H[g].locked = TRUE
    <3>1. GroupMap(G) /\ g \in DOMAIN G
      BY <1>15, <1>16 DEF GroupMap
    <3>2. LockedLike(H, G, g, TRUE)
      BY <3>1, LockGroup
    <3> HIDE DEF H
    <3> QED BY <3>2 DEF LockedLike
  <2> HIDE DEF H
  <2>2. H \in [DOMAIN G -> Group] /\ \A k \in DOMAIN G : H[k].members = G[k].members /\ H[k].locked = G[k].locked
    <3>1. G[g].locked = TRUE
      BY <1>15
    <3> QED BY <2>1, <3>1 DEF GroupMap
  <2>3. H = G
    BY <1>16, <2>2, SameGroups
  <2> QED BY <2>3 DEF H
<1>18. /\ t.groups = G /\ K \in 0 .. InvalidGroupId /\ g < K /\ f.nextGroupId <= K
  <2>1. f.nextGroupId \in 0 .. InvalidGroupId /\ g \in Nat /\ g < InvalidGroupId /\ InvalidGroupId \in Nat
    BY <1>1, <1>2, GroupConstants DEF Grouped, GroupId
  <2>2. K = IF g < f.nextGroupId THEN f.nextGroupId ELSE g + 1
    BY DEF K, CounterAfter
  <2>3. K \in 0 .. InvalidGroupId /\ g < K /\ f.nextGroupId <= K
    BY <2>1, <2>2
  <2> QED BY <1>13, <1>17, <2>3
<1>19. /\ t.groupOf \in [f.nodes -> GroupId \cup {None}]
       /\ \A n \in f.nodes : t.groupOf[n] = IF n \in ns THEN g ELSE f.groupOf[n]
  <2>1. O \in [f.nodes -> GroupId \cup {None}]
    BY <1>2 DEF O, Grouped
  <2> QED BY <1>13, <2>1 DEF O
<1>20. /\ t.nodeLocked \in [f.nodes -> BOOLEAN]
       /\ \A n \in f.nodes : IF n \in ns THEN t.nodeLocked[n] = TRUE ELSE t.nodeLocked[n] = f.nodeLocked[n]
  <2>1. G[g].members = ns
    BY <1>15
  <2>2. t.nodeLocked = [n \in f.nodes |-> IF n \in ns THEN TRUE ELSE f.nodeLocked[n]]
    BY <1>2, <1>13, <2>1
  <2>3. f.nodeLocked \in [f.nodes -> BOOLEAN]
    BY <1>2 DEF Grouped
  <2>4. \A n \in f.nodes : n \notin ns => f.nodeLocked[n] \in BOOLEAN
    BY <2>3
  <2> QED BY <2>2, <2>4
<1>21. Follows(f, t)
  BY <1>1, <1>2, <1>13, <1>18 DEF Follows
<1>23. /\ DOMAIN t.groups = DOMAIN f.groups \cup {g} /\ t.groups \in [DOMAIN t.groups -> Group]
       /\ t.groups[g].members = ns /\ t.groups[g].locked = TRUE
       /\ (\A h \in DOMAIN f.groups : t.groups[h] = f.groups[h]) /\ t.nextGroupId = CounterAfter(f, g)
  <2>1. t.groups = G /\ t.nextGroupId = K /\ K = CounterAfter(f, g)
    BY <1>13, <1>18 DEF K
  <2> HIDE DEF t
  <2> QED BY <2>1, <1>15, <1>16
<1> HIDE DEF t
<1>22. NewGroup(f, t, ns, g, TRUE)
  BY <1>19, <1>20, <1>21, <1>23 DEF NewGroup
<1> QED BY <1>22 DEF f, t

LEMMA LoosenedFacts ==
  ASSUME NEW s, WellGrouped(s), NEW ns \in SUBSET s.nodes
  PROVE  /\ Kept(s, Loosened(s, ns)) /\ Loosened(s, ns).nextGroupId = s.nextGroupId
         /\ \A n \in ns : Loosened(s, ns).groupOf[n] = None
         /\ GroupIds(Loosened(s, ns)) \subseteq GroupIds(s)
<1> DEFINE u == {n \in ns : s.groupOf[n] # None}
<1>1. /\ Kept(s, Removed(s, u)) /\ Removed(s, u).groupOf = RemovedO(s, u)
      /\ Removed(s, u).groups = Without(s.groups, u) /\ Removed(s, u).nextGroupId = s.nextGroupId
  BY RemovedIsScene
<1>2. \A n \in ns : RemovedO(s, u)[n] = None
  BY DEF RemovedO
<1>3. GroupMap(s.groups)
  BY DEF WellGrouped, Grouped, GroupMap
<1>4. DOMAIN Without(s.groups, u) \subseteq DOMAIN s.groups
  BY <1>3, WithoutShape
<1> HIDE DEF u
<1>5. GroupIds(Removed(s, u)) \subseteq GroupIds(s)
  BY <1>1, <1>4 DEF GroupIds
<1>6. \A n \in ns : Removed(s, u).groupOf[n] = None
  BY <1>1, <1>2
<1> QED BY <1>1, <1>5, <1>6 DEF Loosened, u

LEMMA NextIdIs ==
  ASSUME NEW s, WellGrouped(s), s.nextGroupId < InvalidGroupId
  PROVE  nextGroupId(s) = s.nextGroupId /\ s.nextGroupId \in GroupId /\ s.nextGroupId \notin GroupIds(s)
<1> DEFINE S == {g \in GroupId : g >= s.nextGroupId /\ g \notin GroupIds(s)}
<1>1. s.nextGroupId \in Nat /\ \A g \in DOMAIN s.groups : g < s.nextGroupId
  BY GroupConstants DEF WellGrouped, Grouped
<1>2. s.nextGroupId \in GroupId /\ s.nextGroupId \notin GroupIds(s)
  BY <1>1, GroupConstants DEF GroupId, GroupIds
<1>3. s.nextGroupId \in S /\ S \subseteq Int /\ \A g \in S : s.nextGroupId <= g
  BY <1>1, <1>2, GroupConstants DEF GroupId
<1> HIDE DEF S
<1>4. Min(S) \in S /\ \A g \in S : Min(S) <= g
  BY <1>3 DEF Min
<1>5. Min(S) = s.nextGroupId
  <2>1. Min(S) \in Int /\ Min(S) <= s.nextGroupId /\ s.nextGroupId <= Min(S)
    BY <1>3, <1>4
  <2> QED BY <1>1, <2>1
<1> QED BY <1>2, <1>5 DEF nextGroupId, S

\* What id a group asks for is one that createGroup() can give.
Grantable(s, id) ==
  \/ id \in GroupId /\ id \notin GroupIds(s)
  \/ id = None /\ s.nextGroupId < InvalidGroupId

IdGiven(s, id) == IF id = None THEN s.nextGroupId ELSE id

LEMMA CreateGives ==
  ASSUME NEW s, WellGrouped(s), s.enabled, NEW ns \in SUBSET s.nodes, ns # {},
         NEW id, Grantable(s, id)
  PROVE  /\ NewGroup(Loosened(s, ns), createGroup(s, ns, id), ns, IdGiven(s, id), TRUE)
         /\ IdGiven(s, id) \in GroupId /\ IdGiven(s, id) \notin GroupIds(Loosened(s, ns))
<1> DEFINE f == Loosened(s, ns)
<1>1. WellGrouped(f) /\ f.nextGroupId = s.nextGroupId /\ GroupIds(f) \subseteq GroupIds(s)
  BY LoosenedFacts DEF Kept
<1> HIDE DEF f
<1>2. CASE id \in GroupId /\ id \notin GroupIds(s)
  <2>1. id # None /\ IdGiven(s, id) = id /\ id \notin GroupIds(f)
    BY <1>1, <1>2, GroupConstants DEF IdGiven
  <2>2. NewGroup(Loosened(s, ns), createGroup(s, ns, id), ns, id, TRUE)
    BY <1>2, <2>1, CreateIs DEF f
  <2> QED BY <1>2, <2>1, <2>2 DEF f
<1>3. CASE id = None /\ s.nextGroupId < InvalidGroupId
  <2>1. /\ nextGroupId(f) = s.nextGroupId /\ s.nextGroupId \in GroupId
        /\ s.nextGroupId \notin GroupIds(f) /\ IdGiven(s, id) = s.nextGroupId
    BY <1>1, <1>3, NextIdIs DEF IdGiven
  <2>2. NewGroup(Loosened(s, ns), createGroup(s, ns, id), ns, s.nextGroupId, TRUE)
    BY <1>3, <2>1, CreateIs DEF f
  <2> QED BY <2>1, <2>2 DEF f
<1> QED BY <1>2, <1>3 DEF Grantable

LEMMA CreateKeeps ==
  ASSUME NEW s, WellGrouped(s), NEW ns \in SUBSET s.nodes, NEW id, Grantable(s, id)
  PROVE  Kept(s, createGroup(s, ns, id))
<1>1. CASE ~s.enabled \/ ns = {}
  <2>1. createGroup(s, ns, id) = s
    BY <1>1 DEF createGroup
  <2> QED BY <2>1 DEF Kept, Follows, WellGrouped, Grouped
<1>2. CASE s.enabled /\ ns # {}
  <2> DEFINE f == Loosened(s, ns)
             t == createGroup(s, ns, id)
             g == IdGiven(s, id)
  <2>1. NewGroup(f, t, ns, g, TRUE) /\ g \in GroupId /\ g \notin GroupIds(f)
    BY <1>2, CreateGives
  <2>2. Kept(s, f) /\ \A n \in ns : f.groupOf[n] = None
    BY LoosenedFacts
  <2> HIDE DEF f, t, g
  <2>3. WellGrouped(f) /\ f.enabled /\ ns \in SUBSET f.nodes /\ f.nodes = s.nodes /\ g \notin DOMAIN f.groups
    BY <1>2, <2>1, <2>2 DEF Kept, Follows, GroupIds
  <2>4. WellGrouped(t)
    BY <1>2, <2>1, <2>2, <2>3, NewGroupIsWell
  <2>5. Follows(s, t)
    <3>1. s.nextGroupId \in Int /\ f.nextGroupId \in Int /\ t.nextGroupId \in Int
      BY <2>3, <2>4, GroupConstants DEF WellGrouped, Grouped
    <3>2. s.nextGroupId <= f.nextGroupId /\ f.nextGroupId <= t.nextGroupId
      BY <2>1, <2>2 DEF NewGroup, Kept, Follows
    <3> QED BY <3>1, <3>2, <2>1, <2>2 DEF NewGroup, Kept, Follows
  <2> QED BY <2>4, <2>5 DEF Kept, t
<1> QED BY <1>1, <1>2

\* t is s but for the node n, in no group of s, which has joined the group g.
Joined(s, t, n, g) ==
  /\ Follows(s, t) /\ t.nextGroupId = s.nextGroupId
  /\ t.groupOf \in [s.nodes -> GroupId \cup {None}]
  /\ \A m \in s.nodes : t.groupOf[m] = IF m = n THEN g ELSE s.groupOf[m]
  /\ t.nodeLocked \in [s.nodes -> BOOLEAN]
  /\ \A m \in s.nodes : IF m = n THEN t.nodeLocked[m] = s.groups[g].locked
                        ELSE t.nodeLocked[m] = s.nodeLocked[m]
  /\ DOMAIN t.groups = DOMAIN s.groups /\ GroupMap(t.groups)
  /\ \A h \in DOMAIN s.groups :
       /\ t.groups[h].members = IF h = g THEN s.groups[h].members \cup {n} ELSE s.groups[h].members
       /\ t.groups[h].locked = s.groups[h].locked

LEMMA JoinedIsWell ==
  ASSUME NEW s, WellGrouped(s), s.enabled, NEW n \in s.nodes, s.groupOf[n] = None,
         NEW g \in DOMAIN s.groups, NEW t, Joined(s, t, n, g)
  PROVE  WellGrouped(t)
<1>1. Grouped(s.nodes, s.groupOf, s.nodeLocked, s.groups, s.nextGroupId) /\ g \in GroupId /\ None \notin GroupId
  BY GroupConstants DEF WellGrouped, Grouped
<1>2. IsScene(t) /\ t.nodes = s.nodes /\ t.enabled = TRUE /\ t.nextGroupId = s.nextGroupId
  BY DEF Joined, Follows, WellGrouped
<1>3. /\ s.nodes \in SUBSET NodeId /\ t.groupOf \in [s.nodes -> GroupId \cup {None}]
      /\ t.nodeLocked \in [s.nodes -> BOOLEAN]
      /\ DOMAIN t.groups \subseteq GroupId /\ t.groups \in [DOMAIN t.groups -> Group]
      /\ s.nextGroupId \in 0 .. InvalidGroupId
  BY <1>1 DEF Joined, Follows, Grouped, GroupMap
<1>4. \A h \in DOMAIN t.groups :
        t.groups[h].members # {} /\ t.groups[h].members \subseteq s.nodes /\ h < s.nextGroupId
  <2>1. DOMAIN t.groups = DOMAIN s.groups
    BY DEF Joined
  <2>2. \A h \in DOMAIN s.groups :
          s.groups[h].members # {} /\ s.groups[h].members \subseteq s.nodes /\ h < s.nextGroupId
    BY <1>1 DEF Grouped
  <2>3. \A h \in DOMAIN s.groups :
          t.groups[h].members = IF h = g THEN s.groups[h].members \cup {n} ELSE s.groups[h].members
    BY DEF Joined
  <2> QED BY <2>1, <2>2, <2>3
<1>5. ASSUME NEW m \in s.nodes, NEW h \in GroupId
      PROVE  t.groupOf[m] = h <=> h \in DOMAIN t.groups /\ m \in t.groups[h].members
  <2>1. s.groupOf[m] = h <=> h \in DOMAIN s.groups /\ m \in s.groups[h].members
    BY <1>1 DEF Grouped
  <2>2. t.groupOf[m] = IF m = n THEN g ELSE s.groupOf[m]
    BY DEF Joined
  <2>3. h \in DOMAIN t.groups <=> h \in DOMAIN s.groups
    BY DEF Joined
  <2>4. h \in DOMAIN s.groups =>
          t.groups[h].members = IF h = g THEN s.groups[h].members \cup {n} ELSE s.groups[h].members
    BY DEF Joined
  <2>5. m = n => s.groupOf[m] # h
    BY <1>1
  <2> QED BY <2>1, <2>2, <2>3, <2>4, <2>5
<1>6. ASSUME NEW m \in s.nodes
      PROVE  t.nodeLocked[m] <=> t.groupOf[m] # None /\ t.groups[t.groupOf[m]].locked
  <2>1. CASE m = n
    <3>1. t.groupOf[m] = g /\ t.nodeLocked[m] = s.groups[g].locked /\ t.groups[g].locked = s.groups[g].locked
      BY <2>1 DEF Joined
    <3> QED BY <3>1, <1>1
  <2>2. CASE m # n
    <3>1. t.groupOf[m] = s.groupOf[m] /\ t.nodeLocked[m] = s.nodeLocked[m]
      BY <2>2 DEF Joined
    <3>2. s.nodeLocked[m] <=> s.groupOf[m] # None /\ s.groups[s.groupOf[m]].locked
      BY <1>1 DEF Grouped
    <3>3. s.groupOf[m] # None => s.groupOf[m] \in DOMAIN s.groups
      <4>1. s.groupOf[m] # None => s.groupOf[m] \in GroupId
        BY <1>1 DEF Grouped
      <4> QED BY <4>1, <1>1 DEF Grouped
    <3>4. s.groupOf[m] # None => t.groups[s.groupOf[m]].locked = s.groups[s.groupOf[m]].locked
      BY <3>3 DEF Joined
    <3> QED BY <3>1, <3>2, <3>4
  <2> QED BY <2>1, <2>2
<1>7. Grouped(s.nodes, t.groupOf, t.nodeLocked, t.groups, s.nextGroupId)
  BY <1>3, <1>4, <1>5, <1>6 DEF Grouped
<1> QED BY <1>2, <1>7 DEF WellGrouped

\* g with one node more.
GroupsWith(G, n, g) == [G EXCEPT ![g].members = @ \cup {n}]

JoinedGroups(H, G, n, g) ==
  /\ DOMAIN H = DOMAIN G /\ GroupMap(H)
  /\ \A h \in DOMAIN G : /\ H[h].members = IF h = g THEN G[h].members \cup {n} ELSE G[h].members
                         /\ H[h].locked = G[h].locked

LEMMA GroupsWithIs ==
  ASSUME NEW G, GroupMap(G), NEW n \in NodeId, NEW g \in DOMAIN G
  PROVE  JoinedGroups(GroupsWith(G, n, g), G, n, g)
<1> DEFINE H == GroupsWith(G, n, g)
           ms == G[g].members \cup {n}
<1>0. G \in [DOMAIN G -> Group] /\ H = [G EXCEPT ![g].members = ms]
  BY DEF GroupMap, GroupsWith
<1>1. H = [k \in DOMAIN G |-> H[k]] /\ H[g] = [G[g] EXCEPT !.members = ms]
      /\ \A k \in DOMAIN G : k # g => H[k] = G[k]
  BY <1>0
<1>2. /\ G[g] = [members |-> G[g].members, locked |-> G[g].locked] /\ G[g].locked \in BOOLEAN
      /\ ms \in SUBSET NodeId
  BY <1>0 DEF Group
<1> HIDE DEF H
<1>3. H[g] = [members |-> ms, locked |-> G[g].locked]
  BY <1>1, <1>2
<1>4. H \in [DOMAIN G -> Group]
  BY <1>0, <1>1, <1>2, <1>3 DEF Group
<1>5. DOMAIN H = DOMAIN G /\ GroupMap(H)
  BY <1>4 DEF GroupMap
<1>6. \A k \in DOMAIN G : /\ H[k].members = IF k = g THEN G[k].members \cup {n} ELSE G[k].members
                          /\ H[k].locked = G[k].locked
  BY <1>1, <1>3
<1> QED BY <1>5, <1>6 DEF H, JoinedGroups

LEMMA JoinIs ==
  ASSUME NEW s, WellGrouped(s), s.enabled, NEW n \in s.nodes, NEW g \in DOMAIN s.groups, s.groupOf[n] # g
  PROVE  /\ Joined(Removed(s, {n}), addNodeToGroup(s, n, g), n, g)
         /\ g \in DOMAIN Removed(s, {n}).groups
<1> DEFINE f == Removed(s, {n})
           t == addNodeToGroup(s, n, g)
           G == GroupsWith(f.groups, n, g)
           O == [f.groupOf EXCEPT ![n] = g]
           L == [f.nodeLocked EXCEPT ![n] = s.groups[g].locked]
<1>1. removeNodeFromGroup(s, n) = f
  <2>1. removeNodeFromGroup(Removed(s, {}), n) = Removed(s, {} \cup {n})
    BY RemoveOneMore
  <2>2. {} \cup {n} = {n}
    OBVIOUS
  <2> QED BY <2>1, <2>2, NothingRemoved
<1>2. /\ Kept(s, f) /\ f.groupOf = RemovedO(s, {n}) /\ f.nodeLocked = RemovedL(s, {n})
      /\ f.groups = Without(s.groups, {n}) /\ f.nextGroupId = s.nextGroupId
  BY RemovedIsScene
<1>3. /\ WellGrouped(f) /\ IsScene(f) /\ f.nodes = s.nodes /\ f.enabled = s.enabled
      /\ Grouped(f.nodes, f.groupOf, f.nodeLocked, f.groups, f.nextGroupId)
  BY <1>2 DEF Kept, Follows, WellGrouped
<1>4. t = [f EXCEPT !.groups = G, !.groupOf = O, !.nodeLocked = L]
  <2>1. addNodeToGroup(s, n, g) =
          [removeNodeFromGroup(s, n) EXCEPT !.groups[g].members = @ \cup {n},
                                            !.groupOf[n] = g,
                                            !.nodeLocked[n] = s.groups[g].locked]
    BY DEF addNodeToGroup, GroupIds
  <2>2. addNodeToGroup(s, n, g) =
          [f EXCEPT !.groups[g].members = @ \cup {n}, !.groupOf[n] = g,
                    !.nodeLocked[n] = s.groups[g].locked]
    <3> HIDE DEF f
    <3> QED BY <1>1, <2>1
  <2> HIDE DEF f
  <2> QED BY <2>2 DEF GroupsWith
<1> HIDE DEF f, t, G, O, L
<1>6. [f EXCEPT !.groups = G, !.groupOf = O, !.nodeLocked = L] =
        [[[f EXCEPT !.groups = G] EXCEPT !.groupOf = O] EXCEPT !.nodeLocked = L]
  OBVIOUS
<1>7. [f EXCEPT !.groups = G] =
        Scene(f.nodes, f.groupOf, f.nodeLocked, G, f.nextGroupId, f.enabled)
  <2>1. IsScene(f)
    BY <1>3
  <2> QED BY <2>1 DEF IsScene, Scene
<1>8. [Scene(f.nodes, f.groupOf, f.nodeLocked, G, f.nextGroupId, f.enabled) EXCEPT !.groupOf = O] =
        Scene(f.nodes, O, f.nodeLocked, G, f.nextGroupId, f.enabled)
  BY DEF Scene
<1>9. [Scene(f.nodes, O, f.nodeLocked, G, f.nextGroupId, f.enabled) EXCEPT !.nodeLocked = L] =
        Scene(f.nodes, O, L, G, f.nextGroupId, f.enabled)
  BY DEF Scene
<1>10. t = Scene(f.nodes, O, L, G, f.nextGroupId, f.enabled)
  BY <1>4, <1>6, <1>7, <1>8, <1>9, Zenon
<1>11. /\ IsScene(t) /\ t.nodes = f.nodes /\ t.groupOf = O /\ t.nodeLocked = L /\ t.groups = G
       /\ t.nextGroupId = f.nextGroupId /\ t.enabled = f.enabled
  BY <1>10 DEF Scene, IsScene
<1>12. GroupMap(s.groups) /\ GroupMap(f.groups) /\ n \in NodeId /\ g \in GroupId
  BY <1>3 DEF Grouped, GroupMap, WellGrouped
<1>13. n \notin s.groups[g].members
  BY <1>12 DEF WellGrouped, Grouped
<1>14. g \in DOMAIN f.groups /\ f.groups[g].locked = s.groups[g].locked
  <2>1. s.groups[g].members # {}
    BY DEF WellGrouped, Grouped
  <2>2. ~(s.groups[g].members \subseteq {n})
    BY <1>13, <2>1
  <2> QED BY <1>2, <1>12, <2>2, WithoutShape
<1>15. JoinedGroups(G, f.groups, n, g)
  BY <1>12, <1>14, GroupsWithIs DEF G
<1>16. s.groups[g].locked \in BOOLEAN
  BY <1>12 DEF GroupMap, Group
<1>17. f.groupOf \in [f.nodes -> GroupId \cup {None}] /\ f.nodeLocked \in [f.nodes -> BOOLEAN] /\ n \in f.nodes
  BY <1>3 DEF Grouped
<1>18. /\ O \in [f.nodes -> GroupId \cup {None}]
       /\ \A m \in f.nodes : O[m] = IF m = n THEN g ELSE f.groupOf[m]
  BY <1>12, <1>17 DEF O
<1>19. /\ L \in [f.nodes -> BOOLEAN]
       /\ \A m \in f.nodes : IF m = n THEN L[m] = f.groups[g].locked ELSE L[m] = f.nodeLocked[m]
  BY <1>14, <1>16, <1>17 DEF L
<1>20. Follows(f, t)
  <2>1. f.nextGroupId \in 0 .. InvalidGroupId /\ f.nextGroupId <= f.nextGroupId
    BY <1>3, GroupConstants DEF Grouped
  <2> QED BY <1>11, <2>1 DEF Follows
<1>21. Joined(f, t, n, g)
  BY <1>11, <1>15, <1>18, <1>19, <1>20 DEF Joined, JoinedGroups
<1> QED BY <1>14, <1>21 DEF f, t

LEMMA AddKeeps ==
  ASSUME NEW s, WellGrouped(s), NEW n, NEW g
  PROVE  Kept(s, addNodeToGroup(s, n, g)) /\ addNodeToGroup(s, n, g).nextGroupId = s.nextGroupId
<1>1. CASE ~s.enabled \/ n \notin s.nodes \/ g \notin GroupIds(s) \/ s.groupOf[n] = g
  <2>1. addNodeToGroup(s, n, g) = s
    BY <1>1 DEF addNodeToGroup
  <2> QED BY <2>1 DEF Kept, Follows, WellGrouped, Grouped
<1>2. CASE s.enabled /\ n \in s.nodes /\ g \in GroupIds(s) /\ s.groupOf[n] # g
  <2> DEFINE f == Removed(s, {n})
             t == addNodeToGroup(s, n, g)
  <2>1. Joined(f, t, n, g) /\ g \in DOMAIN f.groups
    BY <1>2, JoinIs DEF GroupIds
  <2>2. Kept(s, f) /\ f.groupOf = RemovedO(s, {n}) /\ f.nextGroupId = s.nextGroupId
    BY RemovedIsScene
  <2>3. f.groupOf[n] = None
    BY <1>2, <2>2 DEF RemovedO
  <2> HIDE DEF f, t
  <2>4. WellGrouped(f) /\ f.enabled /\ n \in f.nodes
    BY <1>2, <2>2 DEF Kept, Follows
  <2>5. WellGrouped(t)
    BY <2>1, <2>3, <2>4, JoinedIsWell
  <2>6. Follows(s, t) /\ t.nextGroupId = s.nextGroupId
    BY <2>1, <2>2 DEF Joined, Kept, Follows
  <2> QED BY <2>5, <2>6 DEF Kept, t
<1> QED BY <1>1, <1>2

\* The nodes of a scene, with what hangs on them, exchanged for others.
Laid(s, N, O, L) == [s EXCEPT !.nodes = N, !.groupOf = O, !.nodeLocked = L]

LEMMA LaidIs ==
  ASSUME NEW s, IsScene(s), NEW N, NEW O, NEW L
  PROVE  Laid(s, N, O, L) = Scene(N, O, L, s.groups, s.nextGroupId, s.enabled)
<1>1. [s EXCEPT !.nodes = N, !.groupOf = O, !.nodeLocked = L] =
        [[[s EXCEPT !.nodes = N] EXCEPT !.groupOf = O] EXCEPT !.nodeLocked = L]
  OBVIOUS
<1>2. [s EXCEPT !.nodes = N] = Scene(N, s.groupOf, s.nodeLocked, s.groups, s.nextGroupId, s.enabled)
  BY DEF IsScene, Scene
<1>3. [Scene(N, s.groupOf, s.nodeLocked, s.groups, s.nextGroupId, s.enabled) EXCEPT !.groupOf = O] =
        Scene(N, O, s.nodeLocked, s.groups, s.nextGroupId, s.enabled)
  BY DEF Scene
<1>4. [Scene(N, O, s.nodeLocked, s.groups, s.nextGroupId, s.enabled) EXCEPT !.nodeLocked = L] =
        Scene(N, O, L, s.groups, s.nextGroupId, s.enabled)
  BY DEF Scene
<1>5. [s EXCEPT !.nodes = N, !.groupOf = O, !.nodeLocked = L] =
        Scene(N, O, L, s.groups, s.nextGroupId, s.enabled)
  BY <1>1, <1>2, <1>3, <1>4, Zenon
<1> QED BY <1>5 DEF Laid

Deleted(s, ns) ==
  Scene(s.nodes \ ns, [n \in s.nodes \ ns |-> s.groupOf[n]], [n \in s.nodes \ ns |-> s.nodeLocked[n]],
        Without(s.groups, ns), s.nextGroupId, s.enabled)

LEMMA DeleteIs ==
  ASSUME NEW s, WellGrouped(s), NEW ns \in SUBSET s.nodes
  PROVE  deleteNodes(s, ns) = Deleted(s, ns)
<1> DEFINE f == Removed(s, ns)
           stay == s.nodes \ ns
           O == Restrict(f.groupOf, stay)
           L == Restrict(f.nodeLocked, stay)
<1>1. removeAll(s, ns) = f
  BY RemoveAll
<1>2. deleteNodes(s, ns) = Laid(f, stay, O, L)
  <2> HIDE DEF f
  <2> QED BY <1>1 DEF deleteNodes, Laid
<1>3. /\ IsScene(f) /\ f.groupOf = RemovedO(s, ns) /\ f.nodeLocked = RemovedL(s, ns)
      /\ f.groups = Without(s.groups, ns) /\ f.nextGroupId = s.nextGroupId /\ f.enabled = s.enabled
  BY RemovedIsScene DEF Kept, Follows
<1> HIDE DEF f
<1>4. Laid(f, stay, O, L) = Scene(stay, O, L, f.groups, f.nextGroupId, f.enabled)
  <2>1. IsScene(f)
    BY <1>3
  <2> HIDE DEF stay, O, L
  <2> QED BY <2>1, LaidIs
<1>5. O = [n \in stay |-> s.groupOf[n]]
  BY <1>3 DEF Restrict, RemovedO
<1>6. s.nodeLocked \in [s.nodes -> BOOLEAN]
  BY DEF WellGrouped, Grouped
<1>7. L = [n \in stay |-> s.nodeLocked[n]]
  BY <1>3, <1>6 DEF Restrict, RemovedL
<1> QED BY <1>2, <1>3, <1>4, <1>5, <1>7 DEF Deleted

LEMMA DeletedIsWell ==
  ASSUME NEW s, WellGrouped(s), NEW ns \in SUBSET s.nodes
  PROVE  WellGrouped(Deleted(s, ns))
<1> DEFINE t == Deleted(s, ns)
           f == Removed(s, ns)
<1>1. /\ IsScene(t) /\ t.nodes = s.nodes \ ns /\ t.groupOf = [n \in s.nodes \ ns |-> s.groupOf[n]]
      /\ t.nodeLocked = [n \in s.nodes \ ns |-> s.nodeLocked[n]] /\ t.groups = Without(s.groups, ns)
      /\ t.nextGroupId = s.nextGroupId /\ t.enabled = s.enabled
  BY DEF Deleted, Scene, IsScene
<1>2. Grouped(s.nodes, RemovedO(s, ns), RemovedL(s, ns), Without(s.groups, ns), s.nextGroupId)
  BY RemovedIsWell
<1>3. Grouped(s.nodes, s.groupOf, s.nodeLocked, s.groups, s.nextGroupId) /\ s.enabled \in BOOLEAN
      /\ (~s.enabled => DOMAIN s.groups = {})
  BY DEF WellGrouped
<1> DEFINE G == Without(s.groups, ns)
           N == s.nodes \ ns
<1>4. DOMAIN G \subseteq DOMAIN s.groups /\ \A g \in DOMAIN G : G[g].members = s.groups[g].members \ ns
  BY <1>3, WithoutShape DEF GroupMap, Grouped
<1> HIDE DEF t, G
<1>5. \A n \in N : t.groupOf[n] = RemovedO(s, ns)[n] /\ t.nodeLocked[n] = s.nodeLocked[n]
                   /\ RemovedL(s, ns)[n] = s.nodeLocked[n]
  <2>1. s.nodeLocked \in [s.nodes -> BOOLEAN]
    BY <1>3 DEF Grouped
  <2> QED BY <1>1, <2>1 DEF RemovedO, RemovedL
<1>6. /\ N \in SUBSET NodeId /\ t.groupOf \in [N -> GroupId \cup {None}] /\ t.nodeLocked \in [N -> BOOLEAN]
      /\ DOMAIN G \subseteq GroupId /\ G \in [DOMAIN G -> Group] /\ s.nextGroupId \in 0 .. InvalidGroupId
  <2>1. DOMAIN G \subseteq GroupId /\ G \in [DOMAIN G -> Group] /\ s.nextGroupId \in 0 .. InvalidGroupId
    BY <1>2 DEF Grouped, G
  <2>2. N \in SUBSET NodeId /\ t.groupOf \in [N -> GroupId \cup {None}] /\ t.nodeLocked \in [N -> BOOLEAN]
    BY <1>1, <1>3 DEF Grouped
  <2> QED BY <2>1, <2>2
<1>7. \A g \in DOMAIN G : G[g].members # {} /\ G[g].members \subseteq N /\ g < s.nextGroupId
  <2>1. \A g \in DOMAIN G : G[g].members # {} /\ G[g].members \subseteq s.nodes /\ g < s.nextGroupId
    BY <1>2 DEF Grouped, G
  <2> QED BY <2>1, <1>4
<1>8. \A n \in N, g \in GroupId : t.groupOf[n] = g <=> g \in DOMAIN G /\ n \in G[g].members
  <2>1. \A n \in s.nodes, g \in GroupId : RemovedO(s, ns)[n] = g <=> g \in DOMAIN G /\ n \in G[g].members
    BY <1>2 DEF Grouped, G
  <2> QED BY <2>1, <1>5
<1>9. \A n \in N : t.nodeLocked[n] <=> t.groupOf[n] # None /\ G[t.groupOf[n]].locked
  <2>1. \A n \in s.nodes : RemovedL(s, ns)[n] <=> RemovedO(s, ns)[n] # None /\ G[RemovedO(s, ns)[n]].locked
    BY <1>2 DEF Grouped, G
  <2> QED BY <2>1, <1>5
<1>10. Grouped(N, t.groupOf, t.nodeLocked, G, s.nextGroupId)
  BY <1>6, <1>7, <1>8, <1>9 DEF Grouped
<1>11. ~s.enabled => DOMAIN G = {}
  BY <1>3, <1>4
<1>12. t.groups = G
  BY <1>1 DEF G
<1> QED BY <1>1, <1>3, <1>10, <1>11, <1>12 DEF WellGrouped, t

Loaded(s, ns) ==
  Scene(s.nodes \cup ns, [n \in s.nodes \cup ns |-> IF n \in ns THEN None ELSE s.groupOf[n]],
        [n \in s.nodes \cup ns |-> IF n \in ns THEN FALSE ELSE s.nodeLocked[n]],
        s.groups, s.nextGroupId, s.enabled)

LEMMA LoadIs ==
  ASSUME NEW s, IsScene(s), NEW ns
  PROVE  loadNodes(s, ns) = Loaded(s, ns)
<1> DEFINE O == [n \in s.nodes \cup ns |-> IF n \in ns THEN None ELSE s.groupOf[n]]
           L == [n \in s.nodes \cup ns |-> IF n \in ns THEN FALSE ELSE s.nodeLocked[n]]
<1>1. loadNodes(s, ns) = Laid(s, s.nodes \cup ns, O, L)
  BY DEF loadNodes, Laid
<1> HIDE DEF O, L
<1>2. Laid(s, s.nodes \cup ns, O, L) = Scene(s.nodes \cup ns, O, L, s.groups, s.nextGroupId, s.enabled)
  BY LaidIs
<1> QED BY <1>1, <1>2 DEF Loaded, O, L

LEMMA LoadedIsWell ==
  ASSUME NEW s, WellGrouped(s), NEW ns \in SUBSET NodeId, ns \cap s.nodes = {}
  PROVE  WellGrouped(Loaded(s, ns))
<1> DEFINE t == Loaded(s, ns)
           N == s.nodes \cup ns
<1>1. /\ IsScene(t) /\ t.nodes = N /\ t.groupOf = [n \in N |-> IF n \in ns THEN None ELSE s.groupOf[n]]
      /\ t.nodeLocked = [n \in N |-> IF n \in ns THEN FALSE ELSE s.nodeLocked[n]] /\ t.groups = s.groups
      /\ t.nextGroupId = s.nextGroupId /\ t.enabled = s.enabled
  BY DEF Loaded, Scene, IsScene
<1>2. Grouped(s.nodes, s.groupOf, s.nodeLocked, s.groups, s.nextGroupId) /\ s.enabled \in BOOLEAN
      /\ (~s.enabled => DOMAIN s.groups = {})
  BY DEF WellGrouped
<1> HIDE DEF t
<1>3. /\ N \in SUBSET NodeId /\ t.groupOf \in [N -> GroupId \cup {None}] /\ t.nodeLocked \in [N -> BOOLEAN]
      /\ DOMAIN s.groups \subseteq GroupId /\ s.groups \in [DOMAIN s.groups -> Group]
      /\ s.nextGroupId \in 0 .. InvalidGroupId
  BY <1>1, <1>2 DEF Grouped
<1>4. \A g \in DOMAIN s.groups :
        s.groups[g].members # {} /\ s.groups[g].members \subseteq N /\ g < s.nextGroupId
  BY <1>2 DEF Grouped
<1>5. ASSUME NEW n \in N, NEW g \in GroupId
      PROVE  t.groupOf[n] = g <=> g \in DOMAIN s.groups /\ n \in s.groups[g].members
  <2>1. CASE n \in ns
    <3>1. t.groupOf[n] = None /\ n \notin s.nodes
      BY <1>1, <2>1
    <3> QED BY <3>1, <1>2, GroupConstants DEF Grouped
  <2>2. CASE n \notin ns
    BY <1>1, <1>2, <2>2 DEF Grouped
  <2> QED BY <2>1, <2>2
<1>6. ASSUME NEW n \in N
      PROVE  t.nodeLocked[n] <=> t.groupOf[n] # None /\ s.groups[t.groupOf[n]].locked
  <2>1. CASE n \in ns
    BY <1>1, <2>1
  <2>2. CASE n \notin ns
    BY <1>1, <1>2, <2>2 DEF Grouped
  <2> QED BY <2>1, <2>2
<1>7. Grouped(N, t.groupOf, t.nodeLocked, s.groups, s.nextGroupId)
  BY <1>3, <1>4, <1>5, <1>6 DEF Grouped
<1> QED BY <1>1, <1>2, <1>7 DEF WellGrouped, t

\* The scenes whose groups are as they should be, as a set.
PartialMaps(S, T) == UNION {[D -> T] : D \in SUBSET S}

Scenes ==
  {s \in [nodes : SUBSET NodeId, groupOf : PartialMaps(NodeId, GroupId \cup {None}),
          nodeLocked : PartialMaps(NodeId, BOOLEAN), groups : PartialMaps(GroupId, Group),
          nextGroupId : 0 .. InvalidGroupId, enabled : BOOLEAN] : WellGrouped(s)}

LEMMA SceneIsIn ==
  ASSUME NEW s, WellGrouped(s)
  PROVE  s \in Scenes
<1>1. Grouped(s.nodes, s.groupOf, s.nodeLocked, s.groups, s.nextGroupId) /\ s.enabled \in BOOLEAN /\ IsScene(s)
  BY DEF WellGrouped
<1>2. /\ s.nodes \in SUBSET NodeId /\ s.groupOf \in PartialMaps(NodeId, GroupId \cup {None})
      /\ s.nodeLocked \in PartialMaps(NodeId, BOOLEAN) /\ s.groups \in PartialMaps(GroupId, Group)
      /\ s.nextGroupId \in 0 .. InvalidGroupId
  BY <1>1 DEF Grouped, PartialMaps
<1>3. Scene(s.nodes, s.groupOf, s.nodeLocked, s.groups, s.nextGroupId, s.enabled) \in
        [nodes : SUBSET NodeId, groupOf : PartialMaps(NodeId, GroupId \cup {None}),
          nodeLocked : PartialMaps(NodeId, BOOLEAN), groups : PartialMaps(GroupId, Group),
          nextGroupId : 0 .. InvalidGroupId, enabled : BOOLEAN]
  BY <1>1, <1>2 DEF Scene
<1> QED BY <1>1, <1>3 DEF Scenes, IsScene

LEMMA KeptFacts ==
  /\ \A s : WellGrouped(s) => Kept(s, s)
  /\ \A s, t, u : WellGrouped(s) /\ Kept(s, t) /\ Kept(t, u) => Kept(s, u)
<1>1. ASSUME NEW s, WellGrouped(s) PROVE Kept(s, s)
  BY <1>1 DEF Kept, Follows, WellGrouped, Grouped
<1>2. ASSUME NEW s, NEW t, NEW u, WellGrouped(s), Kept(s, t), Kept(t, u) PROVE Kept(s, u)
  <2>1. s.nextGroupId \in Int /\ t.nextGroupId \in Int /\ u.nextGroupId \in Int
    BY <1>2, GroupConstants DEF Kept, WellGrouped, Grouped
  <2>2. s.nextGroupId <= t.nextGroupId /\ t.nextGroupId <= u.nextGroupId
    BY <1>2 DEF Kept, Follows
  <2>3. s.nextGroupId <= u.nextGroupId
    BY <2>1, <2>2
  <2> QED BY <1>2, <2>3 DEF Kept, Follows
<1> QED BY <1>1, <1>2

LEMMA AddAllKeeps ==
  ASSUME NEW s, WellGrouped(s), NEW ns \in SUBSET NodeId, NEW g
  PROVE  Kept(s, Adding!Fold(g, s, ns)) /\ Adding!Fold(g, s, ns).nextGroupId = s.nextGroupId
<1> DEFINE T == {t \in Scenes : Kept(s, t) /\ t.nextGroupId = s.nextGroupId}
<1>1. IsFiniteSet(ns)
  BY NodesAreFinite
<1>2. s \in T
  BY SceneIsIn, KeptFacts
<1>3. ASSUME NEW n \in ns, NEW t \in T PROVE adding(g, n, t) \in T
  <2>1. WellGrouped(t) /\ Kept(s, t) /\ t.nextGroupId = s.nextGroupId
    BY DEF Kept
  <2> DEFINE u == addNodeToGroup(t, n, g)
  <2>2. Kept(t, u) /\ u.nextGroupId = t.nextGroupId
    BY <2>1, AddKeeps
  <2> HIDE DEF u
  <2>3. Kept(s, u) /\ WellGrouped(u)
    BY <2>1, <2>2, KeptFacts DEF Kept
  <2>4. u \in T
    BY <2>1, <2>2, <2>3, SceneIsIn
  <2> QED BY <2>4 DEF adding, u
<1>4. Adding!Fold(g, s, ns) \in T
  <2> HIDE DEF T
  <2> QED BY <1>1, <1>2, <1>3, Adding!FoldStays DEF Adding!IsFiniteSet, IsFiniteSet
<1> QED BY <1>4

LEMMA LockCounts ==
  ASSUME NEW s, IsScene(s), NEW g, NEW on
  PROVE  lock(s, g, on).nextGroupId = s.nextGroupId
BY LockIs DEF Locked, Scene

GroupEntry == [id : GroupId, nodes : SUBSET NodeId, locked : BOOLEAN]

LEMMA RestoreKeeps ==
  ASSUME NEW s, WellGrouped(s), NEW e \in GroupEntry, NEW keepIdentity \in BOOLEAN,
         keepIdentity \/ s.nextGroupId < InvalidGroupId
  PROVE  /\ Kept(s, restoreEntry(s, e, keepIdentity))
         /\ keepIdentity \/ restoreEntry(s, e, keepIdentity).nextGroupId <= s.nextGroupId + 1
<1> DEFINE present == e.nodes \cap s.nodes
           id == IF keepIdentity THEN e.id ELSE None
           g == IF keepIdentity THEN e.id ELSE nextGroupId(removeAll(s, present))
           t == createGroup(s, present, id)
           r == restoreEntry(s, e, keepIdentity)
<1>0. e.id \in GroupId /\ e.locked \in BOOLEAN /\ e.nodes \in SUBSET NodeId /\ present \in SUBSET s.nodes
      /\ present \in SUBSET NodeId /\ None \notin GroupId /\ s.nextGroupId \in Int /\ IsScene(s)
  BY GroupConstants DEF GroupEntry, WellGrouped, Grouped
<1>1. CASE keepIdentity /\ e.id \in GroupIds(s)
  <2>1. r = Adding!Fold(e.id, s, present)
    <3>1. r = FoldSet(LAMBDA n, x : addNodeToGroup(x, n, e.id), s, present)
      BY <1>1 DEF restoreEntry
    <3>2. FoldSet(LAMBDA n, x : addNodeToGroup(x, n, e.id), s, present) = Adding!Fold(e.id, s, present)
      BY DEF adding, Adding!Fold, Adding!FoldSet, Adding!MapThenFoldSet, FoldSet, MapThenFoldSet
    <3> QED BY <3>1, <3>2
  <2>2. Kept(s, Adding!Fold(e.id, s, present))
    <3> HIDE DEF present
    <3> QED BY <1>0, AddAllKeeps
  <2> QED BY <1>1, <2>1, <2>2
<1>2. CASE ~(keepIdentity /\ e.id \in GroupIds(s))
  <2>1. r = IF t = s THEN s ELSE lock(t, g, e.locked)
    BY <1>2 DEF restoreEntry
  <2>2. Grantable(s, id) /\ IdGiven(s, id) = IF keepIdentity THEN e.id ELSE s.nextGroupId
    BY <1>0, <1>2 DEF Grantable, IdGiven
  <2>3. Kept(s, t)
    <3> HIDE DEF present, id
    <3> QED BY <1>0, <2>2, CreateKeeps
  <2>4. CASE t = s
    <3> HIDE DEF t
    <3>1. r = s
      BY <2>1, <2>4
    <3>2. r.nextGroupId <= s.nextGroupId + 1
      BY <1>0, <3>1
    <3> QED BY <3>1, <3>2, KeptFacts
  <2>5. CASE t # s
    <3>1. s.enabled /\ present # {}
      <4> HIDE DEF present, id
      <4> QED BY <2>5 DEF createGroup
    <3>2. g = IdGiven(s, id)
      <4>1. CASE keepIdentity
        BY <2>2, <4>1
      <4>2. CASE ~keepIdentity
        <5>1. removeAll(s, present) = Removed(s, present)
          <6> HIDE DEF present
          <6> QED BY <1>0, RemoveAll
        <5>2. WellGrouped(Removed(s, present)) /\ Removed(s, present).nextGroupId = s.nextGroupId
          <6> HIDE DEF present
          <6> QED BY RemovedIsScene DEF Kept
        <5>3. nextGroupId(Removed(s, present)) = s.nextGroupId
          <6> HIDE DEF present
          <6> QED BY <4>2, <5>2, NextIdIs
        <5> QED BY <2>2, <4>2, <5>1, <5>3
      <4> QED BY <4>1, <4>2
    <3> DEFINE f == Loosened(s, present)
    <3>3. NewGroup(f, t, present, IdGiven(s, id), TRUE) /\ f.nextGroupId = s.nextGroupId
      <4> HIDE DEF present, id
      <4> QED BY <1>0, <2>2, <3>1, CreateGives, LoosenedFacts
    <3> HIDE DEF t, g, present, id, r, f
    <3>4. g \in DOMAIN t.groups /\ t.nextGroupId = CounterAfter(f, g)
      BY <3>2, <3>3 DEF NewGroup
    <3>5. r = lock(t, g, e.locked)
      BY <2>1, <2>5
    <3>6. WellGrouped(t) /\ IsScene(t)
      BY <2>3 DEF Kept, WellGrouped
    <3>7. Kept(t, r) /\ r.nextGroupId = t.nextGroupId
      BY <1>0, <3>4, <3>5, <3>6, LockIsWell, LockCounts
    <3>8. Kept(s, r)
      BY <2>3, <3>7, KeptFacts
    <3>9. ~keepIdentity => t.nextGroupId <= s.nextGroupId + 1
      BY <1>0, <2>2, <3>2, <3>3, <3>4 DEF CounterAfter
    <3> QED BY <3>7, <3>8, <3>9 DEF r
  <2> QED BY <2>4, <2>5
<1> QED BY <1>1, <1>2

LEMMA InsertKeeps ==
  ASSUME NEW s, WellGrouped(s), NEW saved, saved.nodes \in SUBSET NodeId, saved.nodes \cap s.nodes = {},
         IsFiniteSet(saved.groups), saved.groups \subseteq GroupEntry, NEW keepIdentity \in BOOLEAN,
         keepIdentity \/ s.nextGroupId + Cardinality(saved.groups) <= InvalidGroupId
  PROVE  /\ Kept(Loaded(s, saved.nodes), insertSerializedItems(s, saved, keepIdentity))
         /\ Loaded(s, saved.nodes).nodes = s.nodes \cup saved.nodes
         /\ Loaded(s, saved.nodes).nextGroupId = s.nextGroupId
<1> DEFINE E == saved.groups
           l == Loaded(s, saved.nodes)
           R == {p \in (SUBSET E) \X Scenes :
                   Kept(l, p[2]) /\ (keepIdentity \/ p[2].nextGroupId <= l.nextGroupId + Cardinality(p[1]))}
<1>1. WellGrouped(l) /\ l.nodes = s.nodes \cup saved.nodes /\ l.nextGroupId = s.nextGroupId
  <2>1. WellGrouped(l)
    BY LoadedIsWell
  <2>2. l.nodes = s.nodes \cup saved.nodes /\ l.nextGroupId = s.nextGroupId
    BY DEF Loaded, Scene
  <2> QED BY <2>1, <2>2
<1>2. l.nextGroupId \in Int /\ InvalidGroupId \in Int /\ IsScene(s) /\ l.nextGroupId <= InvalidGroupId
  BY <1>1, GroupConstants DEF WellGrouped, Grouped
<1> HIDE DEF l
<1>3. <<{}, l>> \in R
  <2>1. Cardinality({}) = 0
    BY FS_EmptySet
  <2>2. l.nextGroupId <= l.nextGroupId + Cardinality({})
    BY <1>2, <2>1
  <2> QED BY <1>1, <2>2, KeptFacts, SceneIsIn
<1>4. ASSUME NEW u \in SUBSET E, NEW e \in E, NEW t, e \notin u, <<u, t>> \in R
      PROVE  <<u \cup {e}, restoring(keepIdentity, e, t)>> \in R
  <2>1. Kept(l, t) /\ (keepIdentity \/ t.nextGroupId <= l.nextGroupId + Cardinality(u)) /\ e \in GroupEntry
    BY <1>4
  <2>2. /\ IsFiniteSet(u) /\ Cardinality(u) \in Nat
        /\ Cardinality(u \cup {e}) = Cardinality(u) + 1 /\ Cardinality(u \cup {e}) <= Cardinality(E)
        /\ Cardinality(E) \in Nat
    <3>1. IsFiniteSet(u) /\ IsFiniteSet(E)
      BY FS_Subset
    <3>2. Cardinality(u \cup {e}) = Cardinality(u) + 1
      BY <1>4, <3>1, FS_AddElement
    <3>3. u \cup {e} \in SUBSET E
      OBVIOUS
    <3> QED BY <3>1, <3>2, <3>3, FS_Subset, FS_CardinalityType
  <2>3. WellGrouped(t) /\ t.nextGroupId \in Int
    BY <2>1, GroupConstants DEF Kept, WellGrouped, Grouped
  <2>4. keepIdentity \/ t.nextGroupId < InvalidGroupId
    BY <1>1, <1>2, <2>1, <2>2, <2>3
  <2> DEFINE r == restoreEntry(t, e, keepIdentity)
  <2>5. Kept(t, r) /\ (keepIdentity \/ r.nextGroupId <= t.nextGroupId + 1)
    BY <2>1, <2>3, <2>4, RestoreKeeps
  <2> HIDE DEF r
  <2>6. Kept(l, r) /\ WellGrouped(r) /\ r.nextGroupId \in Int
    <3>1. Kept(l, r)
      BY <1>1, <2>1, <2>5, KeptFacts
    <3>2. WellGrouped(r)
      BY <2>5 DEF Kept
    <3> QED BY <3>1, <3>2, GroupConstants DEF WellGrouped, Grouped
  <2>7. keepIdentity \/ r.nextGroupId <= l.nextGroupId + Cardinality(u \cup {e})
    BY <1>2, <2>1, <2>2, <2>3, <2>5, <2>6
  <2>8. r \in Scenes /\ u \cup {e} \in SUBSET E
    BY <2>6, SceneIsIn
  <2>9. <<u \cup {e}, r>> \in R
    BY <2>6, <2>7, <2>8
  <2> QED BY <2>9 DEF restoring, r
<1>5. <<E, Restoring!Fold(keepIdentity, l, E)>> \in R
  <2> HIDE DEF R
  <2> QED BY <1>3, <1>4, Restoring!FoldRelates DEF Restoring!IsFiniteSet, IsFiniteSet
<1>6. insertSerializedItems(s, saved, keepIdentity) = Restoring!Fold(keepIdentity, l, E)
  <2>1. loadNodes(s, saved.nodes) = l
    BY <1>2, LoadIs DEF l
  <2> QED BY <2>1, FoldsAre
<1> QED BY <1>1, <1>5, <1>6 DEF l

LEMMA RoomForGroups ==
  ASSUME NEW s, WellGrouped(s), NEW count \in Nat, HasGroupIds(s, count)
  PROVE  s.nextGroupId + count <= InvalidGroupId
<1> DEFINE S == {g \in GroupId : g >= s.nextGroupId /\ g \notin GroupIds(s)}
           I == s.nextGroupId .. InvalidGroupId - 1
<1>1. s.nextGroupId \in Nat /\ InvalidGroupId \in Nat /\ s.nextGroupId <= InvalidGroupId
  BY GroupConstants DEF WellGrouped, Grouped
<1>2. IsFiniteSet(I) /\ Cardinality(I) = InvalidGroupId - s.nextGroupId
  <2>1. s.nextGroupId \in Int /\ InvalidGroupId - 1 \in Int
    BY <1>1
  <2>2. IsFiniteSet(I) /\ Cardinality(I) = IF s.nextGroupId > InvalidGroupId - 1 THEN 0
                                          ELSE (InvalidGroupId - 1) - s.nextGroupId + 1
    BY <2>1, FS_Interval
  <2> HIDE DEF I
  <2> QED BY <1>1, <2>2
<1>3. S \in SUBSET I
  BY <1>1 DEF GroupId
<1>4. Cardinality(S) <= Cardinality(I) /\ Cardinality(S) \in Nat
  BY <1>2, <1>3, FS_Subset, FS_CardinalityType
<1>5. Cardinality(S) >= count
  BY DEF HasGroupIds
<1> QED BY <1>1, <1>2, <1>4, <1>5

-----------------------------------------------------------------------------
(* The inductive invariant.                                                *)

Command ==
  {c \in [kind : {"delete", "create", "paste"}, nodes : SUBSET NodeId, groups : SUBSET GroupEntry] :
     IsFiniteSet(c.groups) /\ (c.kind = "create" => c.groups = {})}

\* c makes B of the nodes A.
Makes(c, A, B) ==
  IF c.kind = "delete" THEN c.nodes \subseteq A /\ B = A \ c.nodes
  ELSE c.nodes \cap A = {} /\ B = A \cup c.nodes

\* N are the nodes of the scene before and after each command.
Trail(N, h, made, nodes) ==
  /\ N \in [0 .. Len(h.cmds) -> SUBSET (0 .. made - 1)]
  /\ N[h.index] = nodes
  /\ \A i \in 1 .. Len(h.cmds) : Makes(h.cmds[i], N[i - 1], N[i])

\* What insertSerializedItems() can be given, and what the clipboard holds.
Insertable(b) ==
  /\ b.nodes \in SUBSET NodeId /\ b.groups \in SUBSET GroupEntry /\ IsFiniteSet(b.groups)
Copied(b) == Insertable(b) /\ \A e \in b.groups : e.nodes \subseteq b.nodes

Reserved(h, k) ==
  \A i \in DOMAIN h.cmds : h.cmds[i].kind = "delete" => \A e \in h.cmds[i].groups : e.id < k

GroupInv ==
  /\ session \in Sessions
  /\ nextNodeId \in 0 .. InvalidNodeId
  /\ WellGrouped(scene)
  /\ Copied(clipboard)
  /\ StackOf(history, Command)
  /\ \E N : Trail(N, history, nextNodeId, scene.nodes)
  /\ "toggle" \notin session.gestures => Reserved(history, scene.nextGroupId)

LEMMA TrailPushed ==
  ASSUME NEW h, StackOf(h, Command), NEW N, NEW m \in Nat, NEW nodes, Trail(N, h, m, nodes),
         NEW c \in Command, NEW q, PushedLike(q, h, c),
         NEW k \in Nat, m <= k, NEW made \in SUBSET (0 .. k - 1), Makes(c, nodes, made)
  PROVE  \E M : Trail(M, q, k, made)
<1> DEFINE j == h.index
           M == [i \in 0 .. j + 1 |-> IF i = j + 1 THEN made ELSE N[i]]
<1>1. j \in Nat /\ j <= Len(h.cmds) /\ Len(h.cmds) \in Nat
  BY DEF StackOf
<1>2. N \in [0 .. Len(h.cmds) -> SUBSET (0 .. m - 1)] /\ N[j] = nodes
      /\ \A i \in 1 .. Len(h.cmds) : Makes(h.cmds[i], N[i - 1], N[i])
  BY DEF Trail
<1>3. q.index = j + 1 /\ Len(q.cmds) = j + 1 /\ q.cmds[j + 1] = c /\ \A i \in 1 .. j : q.cmds[i] = h.cmds[i]
  BY DEF PushedLike
<1> HIDE DEF j
<1>4. SUBSET (0 .. m - 1) \subseteq SUBSET (0 .. k - 1)
  OBVIOUS
<1>5. \A i \in 0 .. j : N[i] \in SUBSET (0 .. k - 1)
  <2>1. \A i \in 0 .. j : i \in 0 .. Len(h.cmds)
    BY <1>1
  <2> QED BY <1>2, <1>4, <2>1
<1>6. M \in [0 .. j + 1 -> SUBSET (0 .. k - 1)]
  BY <1>1, <1>5
<1>7. ASSUME NEW i \in 1 .. j + 1 PROVE Makes(q.cmds[i], M[i - 1], M[i])
  <2>1. CASE i = j + 1
    <3>1. M[i] = made /\ M[i - 1] = nodes /\ q.cmds[i] = c
      BY <1>1, <1>2, <1>3, <2>1
    <3> QED BY <3>1
  <2>2. CASE i # j + 1
    <3>1. i \in 1 .. j /\ M[i] = N[i] /\ M[i - 1] = N[i - 1] /\ q.cmds[i] = h.cmds[i] /\ i \in 1 .. Len(h.cmds)
      BY <1>1, <1>3, <2>2
    <3> HIDE DEF M
    <3> QED BY <1>2, <3>1
  <2> QED BY <2>1, <2>2
<1>8. M[j + 1] = made
  BY <1>1
<1> HIDE DEF M
<1>9. Trail(M, q, k, made)
  BY <1>3, <1>6, <1>7, <1>8 DEF Trail
<1> QED BY <1>9

LEMMA TrailCut ==
  ASSUME NEW h, StackOf(h, Command), NEW N, NEW m \in Nat, NEW nodes, Trail(N, h, m, nodes),
         NEW q, q.index = h.index, Len(q.cmds) = h.index, \A i \in 1 .. h.index : q.cmds[i] = h.cmds[i]
  PROVE  \E M : Trail(M, q, m, nodes)
<1> DEFINE j == h.index
           M == [i \in 0 .. j |-> N[i]]
<1>1. j \in Nat /\ j <= Len(h.cmds) /\ Len(h.cmds) \in Nat
  BY DEF StackOf
<1>2. N \in [0 .. Len(h.cmds) -> SUBSET (0 .. m - 1)] /\ N[j] = nodes
      /\ \A i \in 1 .. Len(h.cmds) : Makes(h.cmds[i], N[i - 1], N[i])
  BY DEF Trail
<1>3. q.index = j /\ Len(q.cmds) = j /\ \A i \in 1 .. j : q.cmds[i] = h.cmds[i]
  OBVIOUS
<1> HIDE DEF j
<1>4. M \in [0 .. j -> SUBSET (0 .. m - 1)] /\ M[j] = nodes
  <2>1. \A i \in 0 .. j : i \in 0 .. Len(h.cmds) /\ N[i] \in SUBSET (0 .. m - 1)
    BY <1>1, <1>2
  <2> QED BY <1>1, <1>2, <2>1
<1>5. ASSUME NEW i \in 1 .. j PROVE Makes(q.cmds[i], M[i - 1], M[i])
  <2>1. M[i] = N[i] /\ M[i - 1] = N[i - 1] /\ q.cmds[i] = h.cmds[i] /\ i \in 1 .. Len(h.cmds)
    BY <1>1, <1>3
  <2> HIDE DEF M
  <2> QED BY <1>2, <2>1
<1> HIDE DEF M
<1>6. Trail(M, q, m, nodes)
  BY <1>3, <1>4, <1>5 DEF Trail
<1> QED BY <1>6

\* The stack stands at another place of the same trail.
LEMMA TrailMoved ==
  ASSUME NEW h, NEW N, NEW m, NEW nodes, Trail(N, h, m, nodes),
         NEW q, q.cmds = h.cmds, NEW there, N[q.index] = there
  PROVE  Trail(N, q, m, there)
BY DEF Trail

-----------------------------------------------------------------------------
(* What the commands do to a scene.                                        *)

\* t has the nodes ns and has given at least the ids s has.
Moved(s, t, ns) == WellGrouped(t) /\ t.nodes = ns /\ s.nextGroupId <= t.nextGroupId

LEMMA MovedByDelete ==
  ASSUME NEW s, WellGrouped(s), NEW ns \in SUBSET s.nodes
  PROVE  Moved(s, deleteNodes(s, ns), s.nodes \ ns)
<1>1. deleteNodes(s, ns) = Deleted(s, ns) /\ WellGrouped(Deleted(s, ns))
  BY DeleteIs, DeletedIsWell
<1>2. Deleted(s, ns).nodes = s.nodes \ ns /\ Deleted(s, ns).nextGroupId = s.nextGroupId
  BY DEF Deleted, Scene
<1>3. s.nextGroupId <= s.nextGroupId
  BY GroupConstants DEF WellGrouped, Grouped
<1> QED BY <1>1, <1>2, <1>3 DEF Moved

LEMMA MovedByInsert ==
  ASSUME NEW s, WellGrouped(s), NEW c, Insertable(c), c.nodes \cap s.nodes = {}, NEW keepIdentity \in BOOLEAN,
         keepIdentity \/ s.nextGroupId + Cardinality(c.groups) <= InvalidGroupId
  PROVE  Moved(s, insertSerializedItems(s, c, keepIdentity), s.nodes \cup c.nodes)
<1> DEFINE t == insertSerializedItems(s, c, keepIdentity)
           l == Loaded(s, c.nodes)
<1>1. Kept(l, t) /\ l.nodes = s.nodes \cup c.nodes /\ l.nextGroupId = s.nextGroupId
  BY InsertKeeps DEF Insertable
<1> HIDE DEF l, t
<1>2. WellGrouped(t) /\ t.nodes = l.nodes /\ l.nextGroupId <= t.nextGroupId
  BY <1>1 DEF Kept, Follows
<1> QED BY <1>1, <1>2 DEF Moved, t

LEMMA MovedByRedo ==
  ASSUME NEW s, WellGrouped(s), NEW c \in Command, NEW made, Makes(c, s.nodes, made),
         c.kind # "delete" => s.nextGroupId + Cardinality(c.groups) <= InvalidGroupId
  PROVE  Moved(s, redoOf(c, s), made)
<1>0. Insertable(c) /\ c.kind \in {"delete", "create", "paste"}
  BY DEF Command, Insertable
<1>1. CASE c.kind = "delete"
  <2>1. c.nodes \in SUBSET s.nodes /\ made = s.nodes \ c.nodes /\ redoOf(c, s) = deleteNodes(s, c.nodes)
    BY <1>1 DEF Makes, redoOf
  <2> QED BY <2>1, MovedByDelete
<1>2. CASE c.kind # "delete"
  <2>1. c.nodes \cap s.nodes = {} /\ made = s.nodes \cup c.nodes
        /\ redoOf(c, s) = insertSerializedItems(s, c, FALSE)
    BY <1>0, <1>2 DEF Makes, redoOf
  <2> QED BY <1>0, <1>2, <2>1, MovedByInsert
<1> QED BY <1>1, <1>2

LEMMA MovedByUndo ==
  ASSUME NEW s, WellGrouped(s), NEW c \in Command, NEW before, Makes(c, before, s.nodes)
  PROVE  Moved(s, undoOf(c, s), before)
<1>0. Insertable(c) /\ c.kind \in {"delete", "create", "paste"}
  BY DEF Command, Insertable
<1>1. CASE c.kind = "delete"
  <2>1. c.nodes \cap s.nodes = {} /\ before = s.nodes \cup c.nodes
        /\ undoOf(c, s) = insertSerializedItems(s, c, TRUE)
    BY <1>1 DEF Makes, undoOf
  <2> QED BY <1>0, <2>1, MovedByInsert
<1>2. CASE c.kind # "delete"
  <2>1. c.nodes \in SUBSET s.nodes /\ before = s.nodes \ c.nodes /\ undoOf(c, s) = deleteNodes(s, c.nodes)
    BY <1>0, <1>2 DEF Makes, undoOf
  <2> QED BY <2>1, MovedByDelete
<1> QED BY <1>1, <1>2

LEMMA ReservedGrows ==
  ASSUME NEW h, StackOf(h, Command), NEW k \in Int, NEW l \in Int, k <= l, Reserved(h, k)
  PROVE  Reserved(h, l)
<1>1. \A i \in DOMAIN h.cmds : h.cmds[i].groups \in SUBSET GroupEntry
  BY DEF StackOf, Command
<1>2. \A i \in DOMAIN h.cmds, e \in GroupEntry : e.id \in Int
  BY GroupConstants DEF GroupEntry, GroupId
<1>3. ASSUME NEW i \in DOMAIN h.cmds, h.cmds[i].kind = "delete", NEW e \in h.cmds[i].groups
      PROVE  e.id < l
  <2>1. e.id < k /\ e.id \in Int
    BY <1>1, <1>2, <1>3 DEF Reserved
  <2> QED BY <2>1
<1> QED BY <1>3 DEF Reserved

LEMMA ReservedPushed ==
  ASSUME NEW h, StackOf(h, Command), NEW k \in Int, Reserved(h, k), NEW c \in Command,
         c.kind = "delete" => \A e \in c.groups : e.id < k,
         NEW q, StackOf(q, Command), PushedLike(q, h, c)
  PROVE  Reserved(q, k)
<1>1. DOMAIN q.cmds = 1 .. h.index + 1 /\ h.index \in Nat /\ DOMAIN h.cmds = 1 .. Len(h.cmds)
      /\ h.index <= Len(h.cmds) /\ Len(h.cmds) \in Nat
  BY DEF StackOf, PushedLike
<1>2. ASSUME NEW i \in DOMAIN q.cmds, q.cmds[i].kind = "delete", NEW e \in q.cmds[i].groups
      PROVE  e.id < k
  <2>1. CASE i = h.index + 1
    BY <1>2, <2>1 DEF PushedLike
  <2>2. CASE i # h.index + 1
    <3>1. i \in 1 .. h.index /\ i \in DOMAIN h.cmds
      BY <1>1, <2>2
    <3>2. q.cmds[i] = h.cmds[i]
      BY <3>1 DEF PushedLike
    <3> QED BY <1>2, <3>1, <3>2 DEF Reserved
  <2> QED BY <2>1, <2>2
<1> QED BY <1>2 DEF Reserved

-----------------------------------------------------------------------------
(* Every action keeps the invariant.                                       *)

LEMMA NodesMade ==
  ASSUME GroupInv
  PROVE  /\ scene.nodes \in SUBSET (0 .. nextNodeId - 1) /\ nextNodeId \in Nat
         /\ scene.nodes \in SUBSET NodeId /\ scene.nextGroupId \in Int /\ InvalidGroupId \in Int
         /\ IsFiniteSet(scene.nodes) /\ InvalidNodeId \in Nat
<1>1. PICK N : Trail(N, history, nextNodeId, scene.nodes)
  BY DEF GroupInv
<1>2. history.index \in 0 .. Len(history.cmds)
  BY DEF GroupInv, StackOf
<1>3. scene.nodes \in SUBSET (0 .. nextNodeId - 1)
  BY <1>1, <1>2 DEF Trail
<1>4. nextNodeId \in Nat /\ scene.nodes \in SUBSET NodeId /\ scene.nextGroupId \in Int /\ InvalidNodeId \in Nat
  BY GroupConstants DEF GroupInv, WellGrouped, Grouped
<1> QED BY <1>3, <1>4, NodesAreFinite, GroupConstants

LEMMA PushKeeps ==
  ASSUME GroupInv, NEW c \in Command, Push(c), UNCHANGED <<clipboard, session>>,
         nextNodeId' \in nextNodeId .. InvalidNodeId,
         NEW made \in SUBSET (0 .. nextNodeId' - 1), Makes(c, scene.nodes, made),
         c.kind # "delete" => scene.nextGroupId + Cardinality(c.groups) <= InvalidGroupId,
         c.kind = "delete" => \A e \in c.groups : e.id < scene.nextGroupId
  PROVE  GroupInv'
<1>1. scene' = redoOf(c, scene) /\ history' = Pushed(history, c)
  BY DEF Push
<1>2. Moved(scene, scene', made)
  BY <1>1, MovedByRedo DEF GroupInv
<1>3. StackOf(history', Command) /\ PushedLike(history', history, c)
  BY <1>1, PushedIs DEF GroupInv
<1>4. nextNodeId \in Nat /\ nextNodeId' \in Nat /\ nextNodeId <= nextNodeId' /\ nextNodeId' \in 0 .. InvalidNodeId
  BY NodesMade
<1>5. \E M : Trail(M, history', nextNodeId', scene'.nodes)
  <2>1. PICK N : Trail(N, history, nextNodeId, scene.nodes)
    BY DEF GroupInv
  <2>2. scene'.nodes = made
    BY <1>2 DEF Moved
  <2> QED BY <1>3, <1>4, <2>1, <2>2, TrailPushed DEF GroupInv
<1>6. WellGrouped(scene') /\ scene.nextGroupId \in Int /\ scene'.nextGroupId \in Int
      /\ scene.nextGroupId <= scene'.nextGroupId
  BY <1>2, NodesMade DEF Moved, WellGrouped, Grouped
<1>7. "toggle" \notin session.gestures => Reserved(history', scene'.nextGroupId)
  <2>1. "toggle" \notin session.gestures => Reserved(history', scene.nextGroupId)
    BY <1>3, <1>6, ReservedPushed DEF GroupInv
  <2> QED BY <1>3, <1>6, <2>1, ReservedGrows
<1>8. Copied(clipboard') /\ session' \in Sessions /\ session' = session
  BY DEF GroupInv
<1> QED BY <1>3, <1>4, <1>5, <1>6, <1>7, <1>8 DEF GroupInv

ImageOf(f, S) == {f[x] : x \in S}

LEMMA ImageIsFinite ==
  ASSUME NEW S, IsFiniteSet(S), NEW f, f = [x \in S |-> f[x]]
  PROVE  IsFiniteSet(ImageOf(f, S)) /\ Cardinality(ImageOf(f, S)) <= Cardinality(S)
<1> DEFINE T == ImageOf(f, S)
<1>1. f \in Surjection(S, T)
  BY DEF Surjection, ImageOf
<1> QED BY <1>1, FS_Surjection

LEMMA EntriesOf ==
  ASSUME NEW s, WellGrouped(s), NEW S \in SUBSET GroupIds(s), NEW f, f = [g \in S |-> f[g]],
         \A g \in S : f[g] \in GroupEntry /\ f[g].id = g
  PROVE  /\ IsFiniteSet(ImageOf(f, S)) /\ ImageOf(f, S) \in SUBSET GroupEntry
         /\ \A e \in ImageOf(f, S) : e.id < s.nextGroupId
<1>1. IsFiniteSet(GroupId)
  <2>1. 0 \in Int /\ InvalidGroupId - 1 \in Int
    BY GroupConstants
  <2> QED BY <2>1, FS_Interval DEF GroupId
<1>2. S \in SUBSET GroupId /\ \A g \in S : g < s.nextGroupId
  BY DEF WellGrouped, Grouped, GroupIds
<1>3. IsFiniteSet(S)
  BY <1>1, <1>2, FS_Subset
<1>4. IsFiniteSet(ImageOf(f, S))
  BY <1>3, ImageIsFinite
<1> QED BY <1>2, <1>4 DEF ImageOf

LEMMA EntryIs ==
  ASSUME NEW s, WellGrouped(s), NEW g \in GroupIds(s), NEW ns \in SUBSET NodeId
  PROVE  Entry(s, g, ns) \in GroupEntry /\ Entry(s, g, ns).id = g
BY DEF WellGrouped, Grouped, Group, GroupIds, Entry, GroupEntry

LEMMA DeleteCommandIs ==
  ASSUME NEW s, WellGrouped(s), NEW ns \in SUBSET s.nodes
  PROVE  /\ DeleteCommand(s, ns) \in Command
         /\ DeleteCommand(s, ns).kind = "delete" /\ DeleteCommand(s, ns).nodes = ns
         /\ \A e \in DeleteCommand(s, ns).groups : e.id < s.nextGroupId
<1> DEFINE S == {s.groupOf[n] : n \in ns} \ {None}
           f == [g \in S |-> Entry(s, g, Members(s, g) \cap ns)]
           T == ImageOf(f, S)
           c == DeleteCommand(s, ns)
<1>1. ns \in SUBSET NodeId /\ S \in SUBSET GroupIds(s)
  BY DEF WellGrouped, Grouped, GroupIds
<1>2. \A g \in S : f[g] \in GroupEntry /\ f[g].id = g
  <2> HIDE DEF S
  <2> QED BY <1>1, EntryIs
<1>3. c = [kind |-> "delete", nodes |-> ns, groups |-> T]
  BY DEF DeleteCommand, ImageOf
<1>4. IsFiniteSet(T) /\ T \in SUBSET GroupEntry /\ \A e \in T : e.id < s.nextGroupId
  <2>1. f = [g \in S |-> f[g]]
    OBVIOUS
  <2> HIDE DEF f, S
  <2> QED BY <1>1, <1>2, <2>1, EntriesOf
<1> HIDE DEF T, c
<1> QED BY <1>1, <1>3, <1>4 DEF Command, c

LEMMA SelectedNodes ==
  ASSUME GroupInv, NEW ns \in SUBSET Selectable, NEW gs \in SUBSET GroupIds(scene)
  PROVE  Selected(ns, gs) \in SUBSET scene.nodes
BY DEF GroupInv, WellGrouped, Grouped, Selected, Selectable, Members, GroupIds

LEMMA CreateKeepsInv ==
  ASSUME GroupInv, Create, UNCHANGED session
  PROVE  GroupInv'
<1> DEFINE c == [kind |-> "create", nodes |-> {nextNodeId}, groups |-> {}]
<1>1. /\ nextNodeId < InvalidNodeId /\ nextNodeId' = nextNodeId + 1 /\ Push(c) /\ UNCHANGED clipboard
  BY DEF Create
<1>2. /\ scene.nodes \in SUBSET (0 .. nextNodeId - 1) /\ nextNodeId \in Nat /\ InvalidNodeId \in Nat
      /\ scene.nextGroupId \in Int
  BY NodesMade
<1>3. nextNodeId \in NodeId
  BY <1>1, <1>2 DEF NodeId
<1>4. c \in Command /\ c.kind = "create" /\ Makes(c, scene.nodes, scene.nodes \cup {nextNodeId})
  <2>1. c.kind = "create" /\ c.nodes = {nextNodeId} /\ c.groups = {} /\ IsFiniteSet({})
    BY FS_EmptySet
  <2>2. c \in [kind : {"delete", "create", "paste"}, nodes : SUBSET NodeId, groups : SUBSET GroupEntry]
    BY <1>3
  <2>3. nextNodeId \notin scene.nodes
    BY <1>2
  <2> HIDE DEF c
  <2> QED BY <2>1, <2>2, <2>3 DEF Command, Makes
<1>5. scene.nextGroupId + Cardinality(c.groups) <= InvalidGroupId
  BY <1>2, FS_EmptySet, GroupConstants DEF GroupInv, WellGrouped, Grouped
<1>6. nextNodeId' \in nextNodeId .. InvalidNodeId /\ scene.nodes \cup {nextNodeId} \in SUBSET (0 .. nextNodeId' - 1)
  BY <1>1, <1>2
<1> HIDE DEF c
<1> QED BY <1>1, <1>4, <1>5, <1>6, PushKeeps

LEMMA DeleteKeepsInv ==
  ASSUME GroupInv, NEW ns \in SUBSET Selectable, NEW gs \in SUBSET GroupIds(scene), Delete(ns, gs),
         UNCHANGED session
  PROVE  GroupInv'
<1> DEFINE c == DeleteCommand(scene, Selected(ns, gs))
           made == scene.nodes \ Selected(ns, gs)
<1>1. Push(c) /\ UNCHANGED <<nextNodeId, clipboard>>
  BY DEF Delete
<1>2. Selected(ns, gs) \in SUBSET scene.nodes /\ WellGrouped(scene)
  BY SelectedNodes DEF GroupInv
<1>3. c \in Command /\ c.kind = "delete" /\ c.nodes = Selected(ns, gs) /\ \A e \in c.groups : e.id < scene.nextGroupId
  BY <1>2, DeleteCommandIs
<1>4. nextNodeId' \in nextNodeId .. InvalidNodeId /\ made \in SUBSET (0 .. nextNodeId' - 1)
  BY <1>1, NodesMade DEF GroupInv
<1>5. Makes(c, scene.nodes, made)
  BY <1>2, <1>3 DEF Makes
<1> HIDE DEF c, made
<1> QED BY <1>1, <1>3, <1>4, <1>5, PushKeeps

LEMMA CutKeepsInv ==
  ASSUME GroupInv, history' = PushedObsolete(history), UNCHANGED <<scene, nextNodeId, session>>,
         Copied(clipboard')
  PROVE  GroupInv'
<1>1. /\ StackOf(history', Command) /\ history'.index = history.index /\ Len(history'.cmds) = history.index
      /\ \A i \in 1 .. history.index : history'.cmds[i] = history.cmds[i]
  BY PushedObsoleteIs DEF GroupInv
<1>2. \E M : Trail(M, history', nextNodeId', scene'.nodes)
  <2>1. PICK N : Trail(N, history, nextNodeId, scene.nodes)
    BY DEF GroupInv
  <2> QED BY <1>1, <2>1, NodesMade, TrailCut DEF GroupInv
<1>3. "toggle" \notin session.gestures => Reserved(history', scene'.nextGroupId)
  <2>1. \A i \in DOMAIN history'.cmds : i \in DOMAIN history.cmds /\ history'.cmds[i] = history.cmds[i]
    BY <1>1 DEF GroupInv, StackOf
  <2> QED BY <2>1 DEF GroupInv, Reserved
<1> QED BY <1>1, <1>2, <1>3 DEF GroupInv

LEMMA CopyKeepsInv ==
  ASSUME GroupInv, NEW ns \in SUBSET Selectable, NEW gs \in SUBSET GroupIds(scene), Copy(ns, gs),
         UNCHANGED session
  PROVE  GroupInv'
<1> DEFINE f == [g \in gs |-> Entry(scene, g, Members(scene, g))]
           U == ImageOf(f, gs)
<1>1. /\ clipboard' = [nodes |-> Selected(ns, gs), groups |-> U]
      /\ history' = PushedObsolete(history) /\ UNCHANGED <<scene, nextNodeId>>
  BY DEF Copy, ImageOf
<1>2. \A g \in gs : f[g] \in GroupEntry /\ f[g].id = g
  <2>1. WellGrouped(scene) /\ \A g \in gs : Members(scene, g) \in SUBSET NodeId
    BY DEF GroupInv, WellGrouped, Grouped, Group, GroupIds, Members
  <2> QED BY <2>1, EntryIs
<1>3. f = [g \in gs |-> f[g]] /\ clipboard'.groups = U
  BY <1>1
<1> HIDE DEF f
<1>4. IsFiniteSet(U) /\ U \in SUBSET GroupEntry
  BY <1>2, <1>3, EntriesOf DEF GroupInv
<1>5. clipboard'.nodes \in SUBSET NodeId
  <2>1. clipboard'.nodes = Selected(ns, gs)
    BY <1>1
  <2> QED BY <2>1, SelectedNodes, NodesMade
<1>7. \A e \in U : e.nodes \subseteq clipboard'.nodes
  <2>1. \A g \in gs : f[g].nodes = Members(scene, g) /\ Members(scene, g) \subseteq Selected(ns, gs)
    BY DEF f, Entry, Selected
  <2>2. clipboard'.nodes = Selected(ns, gs)
    BY <1>1
  <2> QED BY <2>1, <2>2 DEF ImageOf
<1>6. Copied(clipboard')
  BY <1>3, <1>4, <1>5, <1>7 DEF Copied, Insertable
<1> QED BY <1>1, <1>6, CutKeepsInv

LEMMA NewIdIs ==
  ASSUME GroupInv, NEW n \in clipboard.nodes
  PROVE  /\ NewId(n) \in Nat /\ nextNodeId <= NewId(n)
         /\ NewId(n) < nextNodeId + Cardinality(clipboard.nodes)
<1> DEFINE B == clipboard.nodes
           S == {k \in B : k < n}
<1>1. B \in SUBSET NodeId /\ IsFiniteSet(B) /\ n \in Int
  BY NodesAreFinite, GroupConstants DEF GroupInv, Copied, Insertable, NodeId
<1>2. S \in SUBSET (B \ {n})
  BY <1>1
<1>3. IsFiniteSet(B \ {n}) /\ Cardinality(B \ {n}) = Cardinality(B) - 1 /\ Cardinality(B) \in Nat
  BY <1>1, FS_RemoveElement, FS_CardinalityType
<1>4. Cardinality(S) \in Nat /\ Cardinality(S) <= Cardinality(B) - 1
  BY <1>2, <1>3, FS_Subset, FS_CardinalityType
<1>5. NewId(n) = nextNodeId + Cardinality(S) /\ nextNodeId \in Nat
  BY NodesMade DEF NewId
<1> HIDE DEF S
<1> QED BY <1>3, <1>4, <1>5

LEMMA PasteKeepsInv ==
  ASSUME GroupInv, Paste, UNCHANGED session
  PROVE  GroupInv'
<1> DEFINE B == clipboard.nodes
           P == {NewId(n) : n \in B}
           E == clipboard.groups
           f == [e \in E |-> [e EXCEPT !.nodes = {NewId(n) : n \in @}]]
           G == ImageOf(f, E)
           c == [kind |-> "paste", nodes |-> P, groups |-> G]
           last == nextNodeId + Cardinality(B)
<1>1. last <= InvalidNodeId /\ nextNodeId' = last /\ HasGroupIds(scene, Cardinality(E)) /\ UNCHANGED clipboard
  BY DEF Paste
<1>2. Push(c)
  BY DEF Paste, ImageOf
<1> HIDE DEF f, P, G, c
<1>3. Cardinality(B) \in Nat /\ nextNodeId \in Nat /\ InvalidNodeId \in Nat
      /\ scene.nodes \in SUBSET (0 .. nextNodeId - 1)
  BY NodesMade, NodesAreFinite, FS_CardinalityType DEF GroupInv, Copied, Insertable
<1>4. P \in SUBSET (nextNodeId .. last - 1) /\ \A n \in B : NewId(n) \in NodeId
  <2>1. \A n \in B : NewId(n) \in Nat /\ nextNodeId <= NewId(n) /\ NewId(n) < last
    BY NewIdIs
  <2>2. last \in Int
    BY <1>3
  <2> HIDE DEF last
  <2> QED BY <1>1, <1>3, <2>1, <2>2 DEF P, NodeId
<1>5. P \in SUBSET NodeId /\ P \cap scene.nodes = {}
  BY <1>1, <1>3, <1>4 DEF NodeId
<1>6. IsFiniteSet(G) /\ Cardinality(G) <= Cardinality(E) /\ Cardinality(E) \in Nat /\ Cardinality(G) \in Nat
  <2>1. f = [e \in E |-> f[e]]
    BY DEF f
  <2>3. G = ImageOf(f, E) /\ IsFiniteSet(E)
    BY DEF G, GroupInv, Copied, Insertable
  <2>2. IsFiniteSet(G) /\ Cardinality(G) <= Cardinality(E)
    BY <2>1, <2>3, ImageIsFinite
  <2> QED BY <2>2, <2>3, FS_CardinalityType
<1>7. G \in SUBSET GroupEntry
  <2>1. ASSUME NEW e \in E PROVE f[e] \in GroupEntry
    <3>1. e \in GroupEntry /\ e.nodes \subseteq B
      BY DEF GroupInv, Copied, Insertable
    <3> DEFINE Q == {NewId(n) : n \in e.nodes}
    <3>2. Q \in SUBSET NodeId
      BY <1>4, <3>1
    <3>3. f[e] = [e EXCEPT !.nodes = Q]
      BY DEF f
    <3> HIDE DEF Q
    <3> QED BY <3>1, <3>2, <3>3 DEF GroupEntry
  <2> QED BY <2>1 DEF G, ImageOf
<1>8. c \in Command /\ c.kind = "paste" /\ c.nodes = P /\ c.groups = G
  BY <1>5, <1>6, <1>7 DEF c, Command
<1>9. scene.nextGroupId + Cardinality(c.groups) <= InvalidGroupId
  <2>1. scene.nextGroupId + Cardinality(E) <= InvalidGroupId
    BY <1>1, <1>6, RoomForGroups DEF GroupInv
  <2> QED BY <1>6, <1>8, <2>1, NodesMade
<1>10. Makes(c, scene.nodes, scene.nodes \cup P)
  BY <1>5, <1>8 DEF Makes
<1>11. nextNodeId' \in nextNodeId .. InvalidNodeId /\ scene.nodes \cup P \in SUBSET (0 .. nextNodeId' - 1)
  <2>1. last \in Nat /\ nextNodeId <= last
    BY <1>3
  <2>2. nextNodeId' = last
    BY <1>1
  <2> HIDE DEF last
  <2>3. scene.nodes \cup P \in SUBSET (0 .. last - 1)
    <3>1. ASSUME NEW x \in scene.nodes PROVE x \in 0 .. last - 1
      BY <1>3, <2>1
    <3>2. ASSUME NEW x \in P PROVE x \in 0 .. last - 1
      BY <1>3, <1>4, <2>1
    <3> QED BY <3>1, <3>2
  <2> QED BY <1>1, <1>3, <2>1, <2>2, <2>3
<1> QED BY <1>1, <1>2, <1>8, <1>9, <1>10, <1>11, PushKeeps

LEMMA UndoKeepsInv ==
  ASSUME GroupInv, Undo, UNCHANGED session
  PROVE  GroupInv'
<1> DEFINE c == LastDone(history)
           j == history.index
<1>1. /\ CanUndo(history) /\ scene' = undoOf(c, scene) /\ history' = Undone(history, c)
      /\ UNCHANGED <<nextNodeId, clipboard>>
  BY DEF Undo
<1>2. /\ StackOf(history', Command) /\ history'.cmds = history.cmds /\ history'.index = j - 1 /\ c \in Command
  BY <1>1, UndoneIs DEF GroupInv
<1>3. PICK N : Trail(N, history, nextNodeId, scene.nodes)
  BY DEF GroupInv
<1>4. j \in 1 .. Len(history.cmds)
  BY <1>1 DEF GroupInv, StackOf, CanUndo
<1>5. N[j] = scene.nodes /\ Makes(c, N[j - 1], N[j])
  BY <1>3, <1>4 DEF Trail, LastDone
<1> HIDE DEF c
<1>6. Moved(scene, scene', N[j - 1])
  BY <1>1, <1>2, <1>5, MovedByUndo DEF GroupInv
<1>7. Trail(N, history', nextNodeId', scene'.nodes)
  <2>1. N[history'.index] = scene'.nodes
    BY <1>2, <1>6 DEF Moved
  <2> QED BY <1>1, <1>2, <1>3, <2>1, TrailMoved
<1>8. "toggle" \notin session.gestures => Reserved(history', scene'.nextGroupId)
  <2>1. scene'.nextGroupId \in Int /\ scene.nextGroupId \in Int /\ scene.nextGroupId <= scene'.nextGroupId
    BY <1>6, NodesMade DEF Moved, WellGrouped, Grouped
  <2>2. "toggle" \notin session.gestures => Reserved(history', scene.nextGroupId)
    BY <1>2 DEF GroupInv, Reserved
  <2> QED BY <1>2, <2>1, <2>2, ReservedGrows
<1> QED BY <1>1, <1>2, <1>6, <1>7, <1>8 DEF GroupInv, Moved

LEMMA RedoKeepsInv ==
  ASSUME GroupInv, Redo, UNCHANGED session
  PROVE  GroupInv'
<1> DEFINE c == NextUndone(history)
           j == history.index
<1>1. /\ CanRedo(history) /\ scene' = redoOf(c, scene) /\ history' = Redone(history, c)
      /\ UNCHANGED <<nextNodeId, clipboard>>
      /\ c.kind = "paste" => HasGroupIds(scene, Cardinality(c.groups))
  BY DEF Redo
<1>2. /\ StackOf(history', Command) /\ history'.cmds = history.cmds /\ history'.index = j + 1 /\ c \in Command
  BY <1>1, RedoneIs DEF GroupInv
<1>3. PICK N : Trail(N, history, nextNodeId, scene.nodes)
  BY DEF GroupInv
<1>4. j \in 0 .. Len(history.cmds) - 1 /\ j + 1 \in 1 .. Len(history.cmds) /\ (j + 1) - 1 = j
  BY <1>1 DEF GroupInv, StackOf, CanRedo
<1>5. N[j] = scene.nodes /\ Makes(c, N[j], N[j + 1])
  <2>1. Makes(c, N[(j + 1) - 1], N[j + 1])
    BY <1>3, <1>4 DEF Trail, NextUndone
  <2>2. N[(j + 1) - 1] = N[j]
    BY <1>4
  <2> QED BY <1>3, <2>1, <2>2 DEF Trail
<1> HIDE DEF c
<1>6. c.kind # "delete" => scene.nextGroupId + Cardinality(c.groups) <= InvalidGroupId
  <2>1. CASE c.kind = "paste"
    <3>1. Cardinality(c.groups) \in Nat
      BY <1>2, FS_CardinalityType DEF Command
    <3> QED BY <1>1, <2>1, <3>1, RoomForGroups DEF GroupInv
  <2>2. CASE c.kind = "create"
    <3>1. Cardinality(c.groups) = 0
      BY <1>2, <2>2, FS_EmptySet DEF Command
    <3>2. scene.nextGroupId \in 0 .. InvalidGroupId
      BY DEF GroupInv, WellGrouped, Grouped
    <3> QED BY <3>1, <3>2, GroupConstants
  <2> QED BY <1>2, <2>1, <2>2 DEF Command
<1>7. Moved(scene, scene', N[j + 1])
  BY <1>1, <1>2, <1>5, <1>6, MovedByRedo DEF GroupInv
<1>8. Trail(N, history', nextNodeId', scene'.nodes)
  <2>1. N[history'.index] = scene'.nodes
    BY <1>2, <1>7 DEF Moved
  <2> QED BY <1>1, <1>2, <1>3, <2>1, TrailMoved
<1>9. "toggle" \notin session.gestures => Reserved(history', scene'.nextGroupId)
  <2>1. scene'.nextGroupId \in Int /\ scene.nextGroupId \in Int /\ scene.nextGroupId <= scene'.nextGroupId
    BY <1>7, NodesMade DEF Moved, WellGrouped, Grouped
  <2>2. "toggle" \notin session.gestures => Reserved(history', scene.nextGroupId)
    BY <1>2 DEF GroupInv, Reserved
  <2> QED BY <1>2, <2>1, <2>2, ReservedGrows
<1> QED BY <1>1, <1>2, <1>7, <1>8, <1>9 DEF GroupInv, Moved

LEMMA RegroupingKeepsInv ==
  ASSUME GroupInv, UNCHANGED <<nextNodeId, history, clipboard, session>>, Moved(scene, scene', scene.nodes)
  PROVE  GroupInv'
<1>1. scene'.nextGroupId \in Int /\ scene.nextGroupId \in Int /\ scene.nextGroupId <= scene'.nextGroupId
  BY NodesMade DEF Moved, WellGrouped, Grouped
<1>2. "toggle" \notin session.gestures => Reserved(history', scene'.nextGroupId)
  BY <1>1, ReservedGrows DEF GroupInv
<1>3. scene'.nodes = scene.nodes /\ WellGrouped(scene')
  BY DEF Moved
<1> QED BY <1>2, <1>3 DEF GroupInv

LEMMA KeptIsMoved ==
  ASSUME NEW s, NEW t, Kept(s, t)
  PROVE  Moved(s, t, s.nodes)
BY DEF Kept, Follows, Moved

LEMMA GroupActionsKeepInv ==
  ASSUME GroupInv, UNCHANGED session,
         \/ \E ns \in SUBSET Selectable : GroupSelected(ns)
         \/ \E n \in Selectable, g \in GroupIds(scene) : AddToGroup(n, g)
         \/ \E n \in scene.nodes : RemoveFromGroup(n)
         \/ \E g \in GroupIds(scene) : ToggleLock(g)
  PROVE  GroupInv'
<1>0. WellGrouped(scene) /\ IsScene(scene)
  BY DEF GroupInv, WellGrouped
<1>1. ASSUME NEW ns \in SUBSET Selectable, GroupSelected(ns) PROVE GroupInv'
  <2>1. /\ HasGroupIds(scene, 1) /\ scene' = createGroup(scene, ns, None)
        /\ UNCHANGED <<nextNodeId, history, clipboard>>
    BY <1>1 DEF GroupSelected
  <2>2. scene.nextGroupId + 1 <= InvalidGroupId
    BY <1>0, <2>1, RoomForGroups
  <2>3. Grantable(scene, None) /\ ns \in SUBSET scene.nodes
    BY <2>2, NodesMade DEF Grantable, Selectable
  <2> QED BY <1>0, <2>1, <2>3, CreateKeeps, KeptIsMoved, RegroupingKeepsInv
<1>2. ASSUME NEW n \in Selectable, NEW g \in GroupIds(scene), AddToGroup(n, g) PROVE GroupInv'
  BY <1>0, <1>2, AddKeeps, KeptIsMoved, RegroupingKeepsInv DEF AddToGroup
<1>3. ASSUME NEW n \in scene.nodes, RemoveFromGroup(n) PROVE GroupInv'
  <2>1. scene' = removeNodeFromGroup(scene, n) /\ UNCHANGED <<nextNodeId, history, clipboard>>
    BY <1>3 DEF RemoveFromGroup
  <2>2. Kept(scene, scene')
    <3>1. CASE scene.enabled
      <4>1. removeNodeFromGroup(Removed(scene, {}), n) = Removed(scene, {} \cup {n})
        BY <1>0, <3>1, RemoveOneMore
      <4> QED BY <1>0, <2>1, <4>1, NothingRemoved, RemovedIsScene
    <3>2. CASE ~scene.enabled
      <4>1. scene' = scene
        BY <2>1, <3>2 DEF removeNodeFromGroup
      <4> QED BY <1>0, <4>1, KeptFacts
    <3> QED BY <3>1, <3>2
  <2> QED BY <2>1, <2>2, KeptIsMoved, RegroupingKeepsInv
<1>4. ASSUME NEW g \in GroupIds(scene), ToggleLock(g) PROVE GroupInv'
  <2> DEFINE b == ~scene.groups[g].locked
  <2>1. scene' = lock(scene, g, b) /\ UNCHANGED <<nextNodeId, history, clipboard>>
    BY <1>4 DEF ToggleLock
  <2>2. g \in DOMAIN scene.groups /\ b \in BOOLEAN
    BY DEF GroupIds
  <2> HIDE DEF b
  <2> QED BY <1>0, <2>1, <2>2, LockIsWell, KeptIsMoved, RegroupingKeepsInv
<1> QED BY <1>1, <1>2, <1>3, <1>4

LEMMA ToggleKeepsInv ==
  ASSUME GroupInv, UNCHANGED session, NEW enabled \in BOOLEAN, setGroupingEnabled(enabled)
  PROVE  GroupInv'
<1> DEFINE O == [n \in scene.nodes |-> None]
           L == [n \in scene.nodes |-> FALSE]
           G == [g \in {} |-> None]
<1>0. WellGrouped(scene) /\ IsScene(scene) /\ Grouped(scene.nodes, scene.groupOf, scene.nodeLocked, scene.groups, scene.nextGroupId)
  BY DEF GroupInv, WellGrouped
<1>1. "toggle" \in session.gestures /\ scene.enabled # enabled /\ UNCHANGED <<nextNodeId, history, clipboard>>
  BY DEF setGroupingEnabled
<1>2. WellGrouped(scene') /\ scene'.nodes = scene.nodes
  <2>1. CASE enabled
    <3>1. scene' = [scene EXCEPT !.enabled = TRUE]
      BY <2>1 DEF setGroupingEnabled
    <3>2. scene' = Scene(scene.nodes, scene.groupOf, scene.nodeLocked, scene.groups, scene.nextGroupId, TRUE)
      <4>1. IsScene(scene)
        BY <1>0
      <4> QED BY <3>1, <4>1 DEF IsScene, Scene
    <3>3. /\ IsScene(scene') /\ scene'.nodes = scene.nodes /\ scene'.groupOf = scene.groupOf
          /\ scene'.nodeLocked = scene.nodeLocked /\ scene'.groups = scene.groups
          /\ scene'.nextGroupId = scene.nextGroupId /\ scene'.enabled = TRUE
      BY <3>2 DEF IsScene, Scene
    <3> QED BY <1>0, <3>3 DEF WellGrouped
  <2>2. CASE ~enabled
    <3>1. scene' = [scene EXCEPT !.enabled = FALSE, !.groups = G, !.nextGroupId = 0,
                                 !.groupOf = O, !.nodeLocked = L]
      BY <2>2 DEF setGroupingEnabled
    <3> HIDE DEF O, L, G
    <3>2. scene' = Scene(scene.nodes, O, L, G, 0, FALSE)
      <4>1. IsScene(scene)
        BY <1>0
      <4> QED BY <3>1, <4>1 DEF IsScene, Scene
    <3>3. /\ IsScene(scene') /\ scene'.nodes = scene.nodes /\ scene'.groupOf = O
          /\ scene'.nodeLocked = L /\ scene'.groups = G
          /\ scene'.nextGroupId = 0 /\ scene'.enabled = FALSE
      BY <3>2 DEF IsScene, Scene
    <3>4. Grouped(scene.nodes, O, L, G, 0)
      BY <1>0, GroupConstants DEF Grouped, O, L, G
    <3>5. DOMAIN G = {}
      BY DEF G
    <3> QED BY <3>3, <3>4, <3>5 DEF WellGrouped
  <2> QED BY <2>1, <2>2
<1> QED BY <1>1, <1>2 DEF GroupInv

LEMMA GroupStep ==
  ASSUME GroupInv, [Next]_vars
  PROVE  GroupInv'
<1>1. CASE UNCHANGED vars
  <2>1. UNCHANGED <<scene, nextNodeId, history, clipboard, session>>
    BY <1>1 DEF vars
  <2> QED BY <2>1 DEF GroupInv
<1>2. CASE Step /\ UNCHANGED session
  <2>1. CASE Create
    BY <1>2, <2>1, CreateKeepsInv
  <2>2. CASE \E ns \in SUBSET Selectable, gs \in SUBSET GroupIds(scene) : Delete(ns, gs)
    BY <1>2, <2>2, DeleteKeepsInv
  <2>3. CASE \E ns \in SUBSET Selectable, gs \in SUBSET GroupIds(scene) : Copy(ns, gs)
    BY <1>2, <2>3, CopyKeepsInv
  <2>4. CASE Paste
    BY <1>2, <2>4, PasteKeepsInv
  <2>5. CASE PushNothing
    BY <1>2, <2>5, CutKeepsInv DEF PushNothing, GroupInv
  <2>6. CASE Undo
    BY <1>2, <2>6, UndoKeepsInv
  <2>7. CASE Redo
    BY <1>2, <2>7, RedoKeepsInv
  <2>8. CASE \/ \E ns \in SUBSET Selectable : GroupSelected(ns)
             \/ \E n \in Selectable, g \in GroupIds(scene) : AddToGroup(n, g)
             \/ \E n \in scene.nodes : RemoveFromGroup(n)
             \/ \E g \in GroupIds(scene) : ToggleLock(g)
    BY <1>2, <2>8, GroupActionsKeepInv
  <2>9. CASE \E enabled \in BOOLEAN : setGroupingEnabled(enabled)
    BY <1>2, <2>9, ToggleKeepsInv
  <2> QED BY <1>2, <2>1, <2>2, <2>3, <2>4, <2>5, <2>6, <2>7, <2>8, <2>9 DEF Step
<1> QED BY <1>1, <1>2 DEF Next

Blank ==
  Scene({}, [n \in {} |-> None], [n \in {} |-> FALSE], [g \in {} |-> None], 0, TRUE)

LEMMA StartingGroups ==
  ASSUME NEW ns \in SUBSET NodeId, \A members \in Start : members \in SUBSET ns
  PROVE  LET s == Starting!Fold(None, Loaded(Blank, ns), Start)
         IN  WellGrouped(s) /\ s.nodes = ns
<1> DEFINE l == Loaded(Blank, ns)
           R == {p \in (SUBSET Start) \X Scenes :
                   Kept(l, p[2]) /\ p[2].nextGroupId <= Cardinality(p[1])}
<1>1. WellGrouped(l) /\ l.nodes = ns /\ l.nextGroupId = 0
  <2>1. WellGrouped(Blank) /\ Blank.nodes = {}
    BY GroupConstants DEF Blank, Scene, WellGrouped, IsScene, Grouped
  <2>2. WellGrouped(l)
    BY <2>1, LoadedIsWell
  <2>3. l.nodes = ns /\ l.nextGroupId = 0
    BY DEF Loaded, Blank, Scene
  <2> QED BY <2>2, <2>3
<1> HIDE DEF l
<1>2. <<{}, l>> \in R
  <2>1. l.nextGroupId <= Cardinality({})
    BY <1>1, FS_EmptySet
  <2> QED BY <1>1, <2>1, KeptFacts, SceneIsIn
<1>3. IsFiniteSet(Start) /\ Cardinality(Start) <= InvalidGroupId /\ InvalidGroupId \in Nat /\ Cardinality(Start) \in Nat
  BY GroupConstants, FS_CardinalityType
<1>4. ASSUME NEW u \in SUBSET Start, NEW e \in Start, NEW t, e \notin u, <<u, t>> \in R
      PROVE  <<u \cup {e}, grouping(None, e, t)>> \in R
  <2>1. Kept(l, t) /\ t.nextGroupId <= Cardinality(u)
    BY <1>4
  <2>2. WellGrouped(t) /\ t.nodes = ns /\ t.nextGroupId \in Int /\ IsScene(t)
    BY <1>1, <2>1, GroupConstants DEF Kept, Follows, WellGrouped, Grouped
  <2>3. /\ Cardinality(u) \in Nat /\ Cardinality(u \cup {e}) = Cardinality(u) + 1
        /\ Cardinality(u \cup {e}) <= Cardinality(Start)
    <3>1. IsFiniteSet(u)
      BY <1>3, FS_Subset
    <3>2. Cardinality(u \cup {e}) = Cardinality(u) + 1
      BY <1>4, <3>1, FS_AddElement
    <3>3. u \cup {e} \in SUBSET Start
      OBVIOUS
    <3> QED BY <1>3, <3>1, <3>2, <3>3, FS_Subset, FS_CardinalityType
  <2>4. t.nextGroupId < InvalidGroupId
    BY <1>3, <2>1, <2>2, <2>3
  <2> DEFINE r == createGroup(t, e, None)
  <2>5. Grantable(t, None) /\ e \in SUBSET t.nodes
    BY <2>2, <2>4 DEF Grantable
  <2>6. Kept(t, r)
    BY <2>2, <2>5, CreateKeeps
  <2>7. r.nextGroupId <= t.nextGroupId + 1
    <3>1. CASE ~t.enabled \/ e = {}
      <4>1. r = t
        BY <3>1 DEF createGroup
      <4> HIDE DEF r
      <4> QED BY <2>2, <4>1
    <3>2. CASE t.enabled /\ e # {}
      <4> DEFINE f == Loosened(t, e)
      <4>1. NewGroup(f, r, e, IdGiven(t, None), TRUE) /\ f.nextGroupId = t.nextGroupId
        BY <2>2, <2>5, <3>2, CreateGives, LoosenedFacts
      <4> HIDE DEF r, f
      <4> QED BY <2>2, <4>1 DEF NewGroup, CounterAfter, IdGiven
    <3> QED BY <3>1, <3>2
  <2> HIDE DEF r
  <2>8. Kept(l, r)
    BY <1>1, <2>1, <2>6, KeptFacts
  <2>9. WellGrouped(r) /\ r.nextGroupId \in Int
    BY <2>6, GroupConstants DEF Kept, WellGrouped, Grouped
  <2>10. r.nextGroupId <= Cardinality(u \cup {e})
    BY <2>1, <2>2, <2>3, <2>7, <2>9
  <2>11. r \in Scenes /\ u \cup {e} \in SUBSET Start
    BY <2>9, SceneIsIn
  <2>12. <<u \cup {e}, r>> \in R
    BY <2>8, <2>10, <2>11
  <2> QED BY <2>12 DEF grouping, r
<1>5. <<Start, Starting!Fold(None, l, Start)>> \in R
  <2> HIDE DEF R
  <2> QED BY <1>2, <1>3, <1>4, Starting!FoldRelates DEF Starting!IsFiniteSet, IsFiniteSet
<1>6. Kept(l, Starting!Fold(None, l, Start))
  BY <1>5
<1> QED BY <1>1, <1>6 DEF Kept, Follows, l

LEMMA GroupInit ==
  ASSUME Init
  PROVE  GroupInv
<1> DEFINE ns == session.loose \cup UNION Start
           s == Starting!Fold(None, Loaded(Blank, ns), Start)
<1>1. session \in Sessions /\ nextNodeId = Cardinality(scene.nodes) /\ history = EmptyStack
      /\ clipboard = [nodes |-> {}, groups |-> {}]
  BY DEF Init
<1>2. scene = s
  <2>1. scene = FoldSet(LAMBDA members, t : createGroup(t, members, None), loadNodes(Blank, ns), Start)
    BY DEF Init, Blank, Scene
  <2>2. IsScene(Blank)
    BY DEF IsScene, Blank, Scene
  <2>3. loadNodes(Blank, ns) = Loaded(Blank, ns)
    BY <2>2, LoadIs
  <2>4. scene = FoldSet(LAMBDA members, t : createGroup(t, members, None), Loaded(Blank, ns), Start)
    BY <2>1, <2>3
  <2>5. FoldSet(LAMBDA members, t : createGroup(t, members, None), Loaded(Blank, ns), Start) = s
    BY DEF grouping, Starting!Fold, Starting!FoldSet, Starting!MapThenFoldSet, FoldSet, MapThenFoldSet
  <2> QED BY <2>4, <2>5
<1>3. ns \in SUBSET NodeId /\ ns = 0 .. Cardinality(ns) - 1 /\ \A members \in Start : members \in SUBSET ns
  BY <1>1, GroupConstants
<1>4. WellGrouped(s) /\ s.nodes = ns
  <2> HIDE DEF ns
  <2> QED BY <1>3, StartingGroups
<1> HIDE DEF s, ns
<1>5. WellGrouped(scene) /\ scene.nodes = ns /\ nextNodeId = Cardinality(ns)
  BY <1>1, <1>2, <1>4
<1>6. nextNodeId \in 0 .. InvalidNodeId
  <2>1. IsFiniteSet(ns) /\ IsFiniteSet(NodeId)
    BY <1>3, NodesAreFinite
  <2>2. Cardinality(NodeId) = InvalidNodeId
    <3>1. 0 \in Int /\ InvalidNodeId - 1 \in Int /\ InvalidNodeId \in Nat
      BY GroupConstants
    <3>2. Cardinality(NodeId) = IF 0 > InvalidNodeId - 1 THEN 0 ELSE (InvalidNodeId - 1) - 0 + 1
      BY <3>1, FS_Interval DEF NodeId
    <3> QED BY <3>1, <3>2
  <2>3. Cardinality(ns) \in Nat /\ Cardinality(ns) <= Cardinality(NodeId)
    BY <1>3, <2>1, FS_Subset, FS_CardinalityType
  <2> QED BY <1>5, <2>2, <2>3, GroupConstants
<1>7. StackOf(history, Command) /\ Len(history.cmds) = 0 /\ history.index = 0
  BY <1>1 DEF EmptyStack, StackOf
<1>8. \E N : Trail(N, history, nextNodeId, scene.nodes)
  <2> DEFINE N == [i \in 0 .. 0 |-> scene.nodes]
  <2>1. scene.nodes \in SUBSET (0 .. nextNodeId - 1)
    BY <1>3, <1>5
  <2>2. Trail(N, history, nextNodeId, scene.nodes)
    BY <1>7, <2>1 DEF Trail
  <2> QED BY <2>2
<1>9. Copied(clipboard)
  BY <1>1, FS_EmptySet DEF Copied, Insertable
<1>10. Reserved(history, scene.nextGroupId)
  BY <1>1 DEF EmptyStack, Reserved
<1> QED BY <1>1, <1>5, <1>6, <1>7, <1>8, <1>9, <1>10 DEF GroupInv

(* What a scene's groups hold, what the commands on the stack have taken   *)
(* and what the clipboard has: kept by every step of the module.           *)
THEOREM GroupInvariant == Spec => []GroupInv
<1>1. GroupInv /\ [Next]_vars => GroupInv'
  BY GroupStep
<1> QED BY GroupInit, <1>1, PTL DEF Spec

(* However nodes are grouped, deleted, pasted and brought back, a node is  *)
(* in one group at most, the group it points to lists it, and no group is  *)
(* empty.                                                                  *)
THEOREM GroupsArePartition == Spec => []GroupsPartition
<1>1. GroupInv => GroupsPartition
  BY DEF GroupInv, WellGrouped, Grouped, GroupsPartition, GroupIds, Members
<1> QED BY GroupInvariant, <1>1, PTL

(* A node is locked exactly while the group it is in is, also when the     *)
(* group was restored by an undo or the node joined it later.              *)
THEOREM LocksFollow == Spec => []LocksFollowGroups
<1>1. GroupInv => LocksFollowGroups
  BY DEF GroupInv, WellGrouped, Grouped, LocksFollowGroups
<1> QED BY GroupInvariant, <1>1, PTL

(* As long as grouping is not switched off, the ids a deletion on the      *)
(* stack remembers stay below the scene's counter, so that no new group is *)
(* given one of them and an undo meets its own groups only.                *)
THEOREM HeldIdsStayReserved == Spec => []HeldGroupIdsReserved
<1>1. GroupInv => HeldGroupIdsReserved
  BY DEF GroupInv, Reserved, HeldGroupIdsReserved
<1> QED BY GroupInvariant, <1>1, PTL

-----------------------------------------------------------------------------
(* Undoing a deletion.                                                     *)

\* t is s without the nodes W in its groups, said field by field.
IsRemoved(s, t, W) ==
  /\ IsScene(t) /\ t.nodes = s.nodes /\ t.nextGroupId = s.nextGroupId /\ t.enabled = s.enabled
  /\ t.groupOf \in [s.nodes -> GroupId \cup {None}]
  /\ \A n \in s.nodes : t.groupOf[n] = IF n \in W THEN None ELSE s.groupOf[n]
  /\ t.nodeLocked \in [s.nodes -> BOOLEAN]
  /\ \A n \in s.nodes : t.nodeLocked[n] <=> n \notin W /\ s.nodeLocked[n]
  /\ GroupMap(t.groups) /\ DOMAIN t.groups \subseteq DOMAIN s.groups
  /\ \A k \in DOMAIN s.groups : k \in DOMAIN t.groups <=> ~(s.groups[k].members \subseteq W)
  /\ \A k \in DOMAIN t.groups : /\ t.groups[k].members = s.groups[k].members \ W
                                /\ t.groups[k].locked = s.groups[k].locked

LEMMA RemovedAsTold ==
  ASSUME NEW s, WellGrouped(s), NEW W
  PROVE  IsRemoved(s, Removed(s, W), W)
<1> DEFINE t == Removed(s, W)
<1>1. /\ Kept(s, t) /\ t.groupOf = RemovedO(s, W) /\ t.nodeLocked = RemovedL(s, W)
      /\ t.groups = Without(s.groups, W) /\ t.nextGroupId = s.nextGroupId
  BY RemovedIsScene
<1> HIDE DEF t
<1>2. GroupMap(s.groups)
  BY DEF WellGrouped, Grouped, GroupMap
<1>3. IsScene(t) /\ t.nodes = s.nodes /\ t.nextGroupId = s.nextGroupId /\ t.enabled = s.enabled
      /\ t.groupOf \in [s.nodes -> GroupId \cup {None}] /\ t.nodeLocked \in [s.nodes -> BOOLEAN]
  BY <1>1 DEF Kept, Follows, WellGrouped, Grouped
<1>4. \A n \in s.nodes : t.groupOf[n] = IF n \in W THEN None ELSE s.groupOf[n]
  BY <1>1 DEF RemovedO
<1>5. \A n \in s.nodes : t.nodeLocked[n] <=> n \notin W /\ s.nodeLocked[n]
  BY <1>1 DEF RemovedL
<1>6. /\ GroupMap(t.groups) /\ DOMAIN t.groups \subseteq DOMAIN s.groups
      /\ \A k \in DOMAIN s.groups : k \in DOMAIN t.groups <=> ~(s.groups[k].members \subseteq W)
      /\ \A k \in DOMAIN t.groups : /\ t.groups[k].members = s.groups[k].members \ W
                                    /\ t.groups[k].locked = s.groups[k].locked
  BY <1>1, <1>2, WithoutShape
<1> QED BY <1>3, <1>4, <1>5, <1>6 DEF IsRemoved, t

LEMMA SameScene ==
  ASSUME NEW s, IsScene(s), NEW t, IsScene(t), s.nodes = t.nodes, s.groupOf = t.groupOf,
         s.nodeLocked = t.nodeLocked, s.groups = t.groups, s.nextGroupId = t.nextGroupId,
         s.enabled = t.enabled
  PROVE  s = t
BY DEF IsScene

LEMMA ToldAlike ==
  ASSUME NEW s, NEW t, NEW u, NEW W, IsRemoved(s, t, W), IsRemoved(s, u, W)
  PROVE  t = u
<1>1. t.groupOf = u.groupOf
  BY DEF IsRemoved
<1>2. t.nodeLocked = u.nodeLocked
  BY DEF IsRemoved
<1>3. t.groups = u.groups
  <2>1. DOMAIN t.groups = DOMAIN u.groups
    BY DEF IsRemoved
  <2>2. t.groups \in [DOMAIN t.groups -> Group] /\ u.groups \in [DOMAIN t.groups -> Group]
    BY <2>1 DEF IsRemoved, GroupMap
  <2>3. \A k \in DOMAIN t.groups : t.groups[k].members = u.groups[k].members /\ t.groups[k].locked = u.groups[k].locked
    <3>1. \A k \in DOMAIN t.groups : t.groups[k].members = s.groups[k].members \ W /\ t.groups[k].locked = s.groups[k].locked
      BY DEF IsRemoved
    <3>2. \A k \in DOMAIN u.groups : u.groups[k].members = s.groups[k].members \ W /\ u.groups[k].locked = s.groups[k].locked
      BY DEF IsRemoved
    <3> QED BY <2>1, <3>1, <3>2
  <2> QED BY <2>2, <2>3, SameGroups
<1> QED BY <1>1, <1>2, <1>3, SameScene DEF IsRemoved

\* Taking nodes that are in no group out of theirs changes nothing.
LEMMA LooseRemoved ==
  ASSUME NEW s, WellGrouped(s), NEW W \in SUBSET s.nodes, \A n \in W : s.groupOf[n] = None
  PROVE  Removed(s, W) = s
<1>1. Grouped(s.nodes, s.groupOf, s.nodeLocked, s.groups, s.nextGroupId) /\ IsScene(s)
  BY DEF WellGrouped
<1>2. \A k \in DOMAIN s.groups : \A n \in W : n \notin s.groups[k].members
  BY <1>1, GroupConstants DEF Grouped
<1>3. \A k \in DOMAIN s.groups : ~(s.groups[k].members \subseteq W) /\ s.groups[k].members \ W = s.groups[k].members
  BY <1>1, <1>2 DEF Grouped
<1>4. \A n \in s.nodes : s.nodeLocked[n] <=> n \notin W /\ s.nodeLocked[n]
  BY <1>1 DEF Grouped
<1>5. \A n \in s.nodes : s.groupOf[n] = IF n \in W THEN None ELSE s.groupOf[n]
  OBVIOUS
<1>6. IsRemoved(s, s, W)
  BY <1>1, <1>3, <1>4, <1>5 DEF IsRemoved, Grouped, GroupMap
<1> QED BY <1>6, RemovedAsTold, ToldAlike

\* A node that goes back into what is left of its group.
LEMMA AddBack ==
  ASSUME NEW s, WellGrouped(s), s.enabled, NEW W \in SUBSET s.nodes, NEW n \in W,
         NEW g \in DOMAIN Removed(s, W).groups, s.groupOf[n] = g
  PROVE  addNodeToGroup(Removed(s, W), n, g) = Removed(s, W \ {n})
<1> DEFINE t == Removed(s, W)
           u == addNodeToGroup(t, n, g)
<1>0. Grouped(s.nodes, s.groupOf, s.nodeLocked, s.groups, s.nextGroupId) /\ None \notin GroupId
  BY GroupConstants DEF WellGrouped
<1>1. WellGrouped(t) /\ IsRemoved(s, t, W)
  BY RemovedIsScene, RemovedAsTold DEF Kept
<1> HIDE DEF t, u
<1>2. /\ t.enabled /\ n \in t.nodes /\ g \in DOMAIN t.groups /\ t.groupOf[n] = None /\ g \in GroupId
      /\ g \in DOMAIN s.groups
  BY <1>0, <1>1 DEF IsRemoved, t, Grouped
<1>3. Joined(t, u, n, g)
  <2>1. Joined(Removed(t, {n}), u, n, g)
    BY <1>0, <1>1, <1>2, JoinIs DEF u
  <2>2. Removed(t, {n}) = t
    BY <1>1, <1>2, LooseRemoved
  <2> QED BY <2>1, <2>2
<1>4. \A m \in s.nodes : u.groupOf[m] = IF m \in W \ {n} THEN None ELSE s.groupOf[m]
  BY <1>1, <1>3 DEF Joined, IsRemoved
<1>5. n \in s.groups[g].members /\ \A k \in DOMAIN s.groups : k # g => n \notin s.groups[k].members
  BY <1>0, <1>2 DEF Grouped
<1>6. \A m \in s.nodes : u.nodeLocked[m] <=> m \notin W \ {n} /\ s.nodeLocked[m]
  <2>1. s.nodeLocked[n] <=> s.groups[g].locked
    BY <1>0, <1>2 DEF Grouped
  <2>2. t.groups[g].locked = s.groups[g].locked
    BY <1>1, <1>2 DEF IsRemoved
  <2>3. u.nodeLocked[n] = t.groups[g].locked
    BY <1>2, <1>3 DEF Joined
  <2>4. \A m \in s.nodes : m # n => u.nodeLocked[m] = t.nodeLocked[m]
    BY <1>1, <1>3 DEF Joined, IsRemoved
  <2>5. \A m \in s.nodes : t.nodeLocked[m] <=> m \notin W /\ s.nodeLocked[m]
    BY <1>1 DEF IsRemoved
  <2> QED BY <2>1, <2>2, <2>3, <2>4, <2>5
<1>7. DOMAIN u.groups = DOMAIN t.groups /\ GroupMap(u.groups) /\ DOMAIN t.groups \subseteq DOMAIN s.groups
  BY <1>1, <1>3 DEF Joined, IsRemoved
<1>8. \A k \in DOMAIN s.groups : k \in DOMAIN u.groups <=> ~(s.groups[k].members \subseteq W \ {n})
  <2>1. \A k \in DOMAIN s.groups : k \in DOMAIN t.groups <=> ~(s.groups[k].members \subseteq W)
    BY <1>1 DEF IsRemoved
  <2> QED BY <1>2, <1>5, <1>7, <2>1
<1>9. ASSUME NEW k \in DOMAIN u.groups
      PROVE  u.groups[k].members = s.groups[k].members \ (W \ {n}) /\ u.groups[k].locked = s.groups[k].locked
  <2>1. t.groups[k].members = s.groups[k].members \ W /\ t.groups[k].locked = s.groups[k].locked
    BY <1>1, <1>7 DEF IsRemoved
  <2>2. /\ u.groups[k].members = IF k = g THEN t.groups[k].members \cup {n} ELSE t.groups[k].members
        /\ u.groups[k].locked = t.groups[k].locked
    BY <1>3, <1>7 DEF Joined
  <2>3. CASE k = g
    <3>1. (s.groups[g].members \ W) \cup {n} = s.groups[g].members \ (W \ {n})
      BY <1>5
    <3> QED BY <2>1, <2>2, <2>3, <3>1
  <2>4. CASE k # g
    <3>1. s.groups[k].members \ W = s.groups[k].members \ (W \ {n})
      BY <1>5, <1>7, <2>4
    <3> QED BY <2>1, <2>2, <2>4, <3>1
  <2> QED BY <2>3, <2>4
<1>10. IsRemoved(s, u, W \ {n})
  <2>1. /\ IsScene(u) /\ u.nodes = s.nodes /\ u.nextGroupId = s.nextGroupId /\ u.enabled = s.enabled
        /\ u.groupOf \in [s.nodes -> GroupId \cup {None}] /\ u.nodeLocked \in [s.nodes -> BOOLEAN]
    BY <1>1, <1>3 DEF Joined, Follows, IsRemoved
  <2>2. DOMAIN u.groups \subseteq DOMAIN s.groups /\ GroupMap(u.groups)
    BY <1>7
  <2> QED BY <1>4, <1>6, <1>8, <1>9, <2>1, <2>2 DEF IsRemoved
<1> QED BY <1>10, RemovedAsTold, ToldAlike DEF t, u

LEMMA AddAllBack ==
  ASSUME NEW s, WellGrouped(s), s.enabled, NEW W \in SUBSET s.nodes, NEW ms \in SUBSET W,
         NEW g \in DOMAIN Removed(s, W).groups, \A n \in ms : s.groupOf[n] = g
  PROVE  Adding!Fold(g, Removed(s, W), ms) = Removed(s, W \ ms)
<1> DEFINE R == {<<u, Removed(s, W \ u)>> : u \in SUBSET ms}
<1>1. IsFiniteSet(ms)
  <2>1. ms \in SUBSET NodeId
    BY DEF WellGrouped, Grouped
  <2> QED BY <2>1, NodesAreFinite
<1>2. <<{}, Removed(s, W)>> \in R
  <2>1. W \ {} = W /\ {} \in SUBSET ms
    OBVIOUS
  <2> QED BY <2>1
<1>3. ASSUME NEW u \in SUBSET ms, NEW n \in ms, NEW t, n \notin u, <<u, t>> \in R
      PROVE  <<u \cup {n}, adding(g, n, t)>> \in R
  <2> DEFINE V == W \ u
  <2>1. t = Removed(s, V)
    BY <1>3
  <2>2. V \in SUBSET s.nodes /\ n \in V /\ s.groupOf[n] = g
    BY <1>3
  <2>3. g \in DOMAIN Removed(s, V).groups
    <3>1. IsRemoved(s, Removed(s, W), W) /\ IsRemoved(s, Removed(s, V), V)
      BY RemovedAsTold
    <3>2. g \in DOMAIN s.groups /\ ~(s.groups[g].members \subseteq W)
      BY <3>1 DEF IsRemoved
    <3>3. ~(s.groups[g].members \subseteq V)
      BY <3>2
    <3> HIDE DEF V
    <3> QED BY <3>1, <3>2, <3>3 DEF IsRemoved
  <2> HIDE DEF V
  <2>4. addNodeToGroup(Removed(s, V), n, g) = Removed(s, V \ {n})
    BY <2>2, <2>3, AddBack
  <2>5. V \ {n} = W \ (u \cup {n}) /\ u \cup {n} \in SUBSET ms
    BY DEF V
  <2>6. adding(g, n, t) = Removed(s, W \ (u \cup {n}))
    BY <2>1, <2>4, <2>5 DEF adding
  <2> QED BY <2>5, <2>6
<1>4. <<ms, Adding!Fold(g, Removed(s, W), ms)>> \in R
  <2> HIDE DEF R
  <2> QED BY <1>1, <1>2, <1>3, Adding!FoldRelates DEF Adding!IsFiniteSet, IsFiniteSet
<1> QED BY <1>4

\* A group that went with all its nodes is made again.
LEMMA CreateBack ==
  ASSUME NEW s, WellGrouped(s), s.enabled, NEW W \in SUBSET s.nodes,
         NEW g \in DOMAIN s.groups, Members(s, g) \subseteq W
  PROVE  /\ createGroup(Removed(s, W), Members(s, g), g) # Removed(s, W)
         /\ lock(createGroup(Removed(s, W), Members(s, g), g), g, s.groups[g].locked) =
              Removed(s, W \ Members(s, g))
<1> DEFINE t == Removed(s, W)
           ms == Members(s, g)
           c == createGroup(t, ms, g)
           b == s.groups[g].locked
           u == lock(c, g, b)
<1>0. Grouped(s.nodes, s.groupOf, s.nodeLocked, s.groups, s.nextGroupId) /\ None \notin GroupId
  BY GroupConstants DEF WellGrouped
<1>1. WellGrouped(t) /\ IsRemoved(s, t, W)
  BY RemovedIsScene, RemovedAsTold DEF Kept
<1>2. /\ g \in GroupId /\ ms \in SUBSET s.nodes /\ ms # {} /\ b \in BOOLEAN /\ g < s.nextGroupId
      /\ ms = s.groups[g].members /\ ms \subseteq W
  BY <1>0 DEF Grouped, Group, Members
<1> HIDE DEF t, c, b, u, ms
<1>3. g \notin DOMAIN t.groups /\ t.enabled /\ t.nodes = s.nodes /\ \A n \in ms : t.groupOf[n] = None
  BY <1>1, <1>2 DEF IsRemoved
<1>4. NewGroup(t, c, ms, g, TRUE)
  <2>1. Grantable(t, g) /\ IdGiven(t, g) = g
    BY <1>0, <1>2, <1>3 DEF Grantable, IdGiven, GroupIds
  <2>2. NewGroup(Loosened(t, ms), c, ms, g, TRUE)
    BY <1>1, <1>2, <1>3, <2>1, CreateGives DEF c
  <2>3. {n \in ms : t.groupOf[n] # None} = {}
    BY <1>3
  <2>4. Loosened(t, ms) = t
    BY <1>1, <2>3, NothingRemoved DEF Loosened
  <2> QED BY <2>2, <2>4
<1>5. c # t
  BY <1>3, <1>4 DEF NewGroup
<1>6. WellGrouped(c) /\ IsScene(c) /\ g \in DOMAIN c.groups
  <2>1. WellGrouped(c)
    BY <1>1, <1>2, <1>3, <1>4, NewGroupIsWell
  <2> QED BY <1>4, <2>1 DEF NewGroup, WellGrouped
<1>7. /\ IsScene(u) /\ u.nodes = c.nodes /\ u.groupOf = c.groupOf /\ u.nextGroupId = c.nextGroupId
      /\ u.enabled = c.enabled /\ u.groups = LockedGroups(c.groups, g, b)
      /\ u.nodeLocked = [n \in c.nodes |-> IF n \in c.groups[g].members THEN b ELSE c.nodeLocked[n]]
  <2>1. u = Locked(c, g, b)
    BY <1>6, LockIs DEF u
  <2> QED BY <2>1 DEF Locked, Scene, IsScene
<1>8. LockedLike(u.groups, c.groups, g, b)
  <2>1. GroupMap(c.groups)
    BY <1>6 DEF WellGrouped, Grouped, GroupMap
  <2> QED BY <1>2, <1>6, <1>7, <2>1, LockGroup
<1>9. u.nodes = s.nodes /\ u.nextGroupId = s.nextGroupId /\ u.enabled = s.enabled
  <2>1. t.nextGroupId = s.nextGroupId /\ t.nodes = s.nodes /\ t.enabled = s.enabled
    BY <1>1 DEF IsRemoved
  <2>2. c.nodes = t.nodes /\ c.enabled = t.enabled /\ c.nextGroupId = CounterAfter(t, g)
    BY <1>4 DEF NewGroup, Follows
  <2> QED BY <1>2, <1>7, <2>1, <2>2 DEF CounterAfter
<1>10. ASSUME NEW n \in s.nodes
       PROVE  u.groupOf[n] = IF n \in W \ ms THEN None ELSE s.groupOf[n]
  <2>1. u.groupOf[n] = IF n \in ms THEN g ELSE t.groupOf[n]
    BY <1>3, <1>4, <1>7 DEF NewGroup
  <2>2. t.groupOf[n] = IF n \in W THEN None ELSE s.groupOf[n]
    BY <1>1 DEF IsRemoved
  <2>3. n \in ms => s.groupOf[n] = g
    BY <1>0, <1>2 DEF Grouped
  <2> QED BY <2>1, <2>2, <2>3
<1>11. u.groupOf \in [s.nodes -> GroupId \cup {None}] /\ u.nodeLocked \in [s.nodes -> BOOLEAN]
  <2>1. c.groupOf \in [s.nodes -> GroupId \cup {None}] /\ c.nodeLocked \in [s.nodes -> BOOLEAN]
    BY <1>3, <1>4 DEF NewGroup
  <2> QED BY <1>2, <1>7, <1>9, <2>1
<1>12. ASSUME NEW n \in s.nodes
       PROVE  u.nodeLocked[n] <=> n \notin W \ ms /\ s.nodeLocked[n]
  <2>1. c.groups[g].members = ms
    BY <1>4 DEF NewGroup
  <2>2. u.nodeLocked[n] = IF n \in ms THEN b ELSE c.nodeLocked[n]
    BY <1>7, <1>9, <2>1
  <2>3. n \notin ms => c.nodeLocked[n] = t.nodeLocked[n]
    BY <1>3, <1>4 DEF NewGroup
  <2>4. t.nodeLocked[n] <=> n \notin W /\ s.nodeLocked[n]
    BY <1>1 DEF IsRemoved
  <2>5. n \in ms => (s.nodeLocked[n] <=> b)
    BY <1>0, <1>2 DEF Grouped, b
  <2> QED BY <2>2, <2>3, <2>4, <2>5
<1>13. DOMAIN u.groups = DOMAIN t.groups \cup {g} /\ GroupMap(u.groups)
  BY <1>4, <1>8 DEF LockedLike, NewGroup
<1>14. \A k \in DOMAIN s.groups : k # g => s.groups[k].members \cap ms = {}
  BY <1>0, <1>2 DEF Grouped
<1>15. DOMAIN t.groups \subseteq DOMAIN s.groups
       /\ \A k \in DOMAIN s.groups : k \in DOMAIN t.groups <=> ~(s.groups[k].members \subseteq W)
  BY <1>1 DEF IsRemoved
<1>16. ASSUME NEW k \in DOMAIN s.groups
       PROVE  k \in DOMAIN u.groups <=> ~(s.groups[k].members \subseteq W \ ms)
  <2>1. CASE k = g
    BY <1>2, <1>13, <2>1
  <2>2. CASE k # g
    BY <1>13, <1>14, <1>15, <2>2
  <2> QED BY <2>1, <2>2
<1>17. ASSUME NEW k \in DOMAIN u.groups
       PROVE  u.groups[k].members = s.groups[k].members \ (W \ ms) /\ u.groups[k].locked = s.groups[k].locked
  <2>1. u.groups[k].members = c.groups[k].members /\ (k # g => u.groups[k].locked = c.groups[k].locked)
        /\ u.groups[g].locked = b
    BY <1>8 DEF LockedLike
  <2>2. CASE k = g
    <3>1. c.groups[g].members = ms
      BY <1>4 DEF NewGroup
    <3>2. ms \ (W \ ms) = ms
      OBVIOUS
    <3> QED BY <1>2, <2>1, <2>2, <3>1, <3>2 DEF b
  <2>3. CASE k # g
    <3>1. k \in DOMAIN t.groups /\ k \in DOMAIN s.groups
      BY <1>13, <1>15, <2>3
    <3>2. c.groups[k] = t.groups[k]
      BY <1>4, <3>1 DEF NewGroup
    <3>3. t.groups[k].members = s.groups[k].members \ W /\ t.groups[k].locked = s.groups[k].locked
      BY <1>1, <3>1 DEF IsRemoved
    <3>4. s.groups[k].members \ W = s.groups[k].members \ (W \ ms)
      BY <1>14, <2>3, <3>1
    <3> QED BY <2>1, <2>3, <3>2, <3>3, <3>4
  <2> QED BY <2>2, <2>3
<1>18. IsRemoved(s, u, W \ ms)
  <2>1. DOMAIN u.groups \subseteq DOMAIN s.groups /\ IsScene(u)
    BY <1>7, <1>13, <1>15
  <2> QED BY <1>9, <1>10, <1>11, <1>12, <1>13, <1>16, <1>17, <2>1 DEF IsRemoved
<1>19. u = Removed(s, W \ ms)
  BY <1>18, RemovedAsTold, ToldAlike
<1> QED BY <1>5, <1>19 DEF t, c, b, u, ms

\* The nodes that group g loses with ns, of which DeleteCommand() makes an entry.
Lost(s, g, ns) == Members(s, g) \cap ns

LEMMA RestoreBack ==
  ASSUME NEW s, WellGrouped(s), s.enabled, NEW ns \in SUBSET s.nodes,
         NEW g \in DOMAIN s.groups, NEW W \in SUBSET ns, Lost(s, g, ns) \subseteq W
  PROVE  restoreEntry(Removed(s, W), Entry(s, g, Lost(s, g, ns)), TRUE) = Removed(s, W \ Lost(s, g, ns))
<1> DEFINE t == Removed(s, W)
           ms == Lost(s, g, ns)
           e == Entry(s, g, ms)
           r == restoreEntry(t, e, TRUE)
<1>0. Grouped(s.nodes, s.groupOf, s.nodeLocked, s.groups, s.nextGroupId) /\ Members(s, g) = s.groups[g].members
  BY DEF WellGrouped, Members
<1>1. e.id = g /\ e.nodes = ms /\ e.locked = s.groups[g].locked
  BY DEF Entry
<1>2. IsRemoved(s, t, W)
  BY RemovedAsTold
<1>3. t.nodes = s.nodes /\ GroupIds(t) = DOMAIN t.groups /\ e.nodes \cap t.nodes = ms
  <2>1. t.nodes = s.nodes
    BY <1>2 DEF IsRemoved
  <2>2. ms \subseteq s.nodes
    OBVIOUS
  <2> HIDE DEF ms
  <2> QED BY <1>1, <2>1, <2>2 DEF GroupIds
<1>6. W \in SUBSET s.nodes /\ ms \in SUBSET W /\ ms = Members(s, g) \cap ns
  BY DEF Lost
<1> HIDE DEF t, e, r, ms
<1>4. CASE g \in DOMAIN t.groups
  <2>1. r = FoldSet(LAMBDA n, x : addNodeToGroup(x, n, e.id), t, e.nodes \cap t.nodes)
    BY <1>1, <1>3, <1>4 DEF r, restoreEntry
  <2>5. FoldSet(LAMBDA n, x : addNodeToGroup(x, n, e.id), t, e.nodes \cap t.nodes) =
          Adding!Fold(e.id, t, e.nodes \cap t.nodes)
    BY DEF adding, Adding!Fold, Adding!FoldSet, Adding!MapThenFoldSet, FoldSet, MapThenFoldSet
  <2>2. r = Adding!Fold(g, t, ms)
    BY <1>1, <1>3, <2>1, <2>5
  <2>3. \A n \in ms : s.groupOf[n] = g
    BY <1>0, <1>6 DEF Grouped
  <2>4. Adding!Fold(g, t, ms) = Removed(s, W \ ms)
    BY <1>4, <1>6, <2>3, AddAllBack DEF t
  <2> QED BY <2>2, <2>4 DEF r, t, e, ms
<1>5. CASE g \notin DOMAIN t.groups
  <2>1. s.groups[g].members \subseteq W
    BY <1>2, <1>5 DEF IsRemoved
  <2>2. ms = Members(s, g)
    BY <1>0, <1>6, <2>1
  <2>3. createGroup(t, ms, g) # t /\ lock(createGroup(t, ms, g), g, s.groups[g].locked) = Removed(s, W \ ms)
    <3>1. /\ createGroup(Removed(s, W), Members(s, g), g) # Removed(s, W)
          /\ lock(createGroup(Removed(s, W), Members(s, g), g), g, s.groups[g].locked) =
               Removed(s, W \ Members(s, g))
      BY <1>6, <2>2, CreateBack
    <3> QED BY <2>2, <3>1 DEF t
  <2>4. r = IF createGroup(t, ms, g) = t THEN t ELSE lock(createGroup(t, ms, g), g, s.groups[g].locked)
    BY <1>1, <1>3, <1>5 DEF r, restoreEntry
  <2> QED BY <2>3, <2>4 DEF r, t, e, ms
<1> QED BY <1>4, <1>5

LEMMA ReloadedIsRemoved ==
  ASSUME NEW s, WellGrouped(s), NEW ns \in SUBSET s.nodes
  PROVE  Loaded(Deleted(s, ns), ns) = Removed(s, ns)
<1> DEFINE d == Deleted(s, ns)
           t == Loaded(d, ns)
<1>0. s.nodeLocked \in [s.nodes -> BOOLEAN]
  BY DEF WellGrouped, Grouped
<1>1. /\ d.nodes = s.nodes \ ns /\ d.groupOf = [n \in s.nodes \ ns |-> s.groupOf[n]]
      /\ d.nodeLocked = [n \in s.nodes \ ns |-> s.nodeLocked[n]] /\ d.groups = Without(s.groups, ns)
      /\ d.nextGroupId = s.nextGroupId /\ d.enabled = s.enabled
  BY DEF Deleted, Scene
<1> HIDE DEF d
<1>2. (s.nodes \ ns) \cup ns = s.nodes
  OBVIOUS
<1>3. t = Scene(s.nodes, [n \in s.nodes |-> IF n \in ns THEN None ELSE d.groupOf[n]],
                [n \in s.nodes |-> IF n \in ns THEN FALSE ELSE d.nodeLocked[n]],
                d.groups, d.nextGroupId, d.enabled)
  <2>1. d.nodes \cup ns = s.nodes
    BY <1>1, <1>2
  <2> QED BY <2>1 DEF Loaded
<1>4. [n \in s.nodes |-> IF n \in ns THEN None ELSE d.groupOf[n]] = RemovedO(s, ns)
  BY <1>1 DEF RemovedO
<1>5. [n \in s.nodes |-> IF n \in ns THEN FALSE ELSE d.nodeLocked[n]] = RemovedL(s, ns)
  <2>1. \A n \in s.nodes : (IF n \in ns THEN FALSE ELSE d.nodeLocked[n]) = (n \notin ns /\ s.nodeLocked[n])
    <3>1. \A n \in s.nodes : n \notin ns => d.nodeLocked[n] = s.nodeLocked[n] /\ s.nodeLocked[n] \in BOOLEAN
      BY <1>0, <1>1
    <3> QED BY <3>1
  <2> QED BY <2>1 DEF RemovedL
<1>6. t = Scene(s.nodes, RemovedO(s, ns), RemovedL(s, ns), Without(s.groups, ns), s.nextGroupId, s.enabled)
  BY <1>1, <1>3, <1>4, <1>5
<1> QED BY <1>6 DEF Removed, d

LEMMA UndoneDeletion ==
  ASSUME NEW s, WellGrouped(s), s.enabled, NEW ns \in SUBSET s.nodes
  PROVE  undoOf(DeleteCommand(s, ns), redoOf(DeleteCommand(s, ns), s)) = s
<1> DEFINE c == DeleteCommand(s, ns)
           E == c.groups
           Taken(D) == UNION {e.nodes : e \in D}
           R == {<<D, Removed(s, ns \ Taken(D))>> : D \in SUBSET E}
<1>0. Grouped(s.nodes, s.groupOf, s.nodeLocked, s.groups, s.nextGroupId) /\ IsScene(s)
  BY DEF WellGrouped
<1>1. c \in Command /\ c.kind = "delete" /\ c.nodes = ns
  BY DeleteCommandIs
<1>2. E = {Entry(s, g, Lost(s, g, ns)) : g \in {s.groupOf[n] : n \in ns} \ {None}}
  BY DEF DeleteCommand, Lost
<1>3. \A e \in E : \E g \in DOMAIN s.groups : e = Entry(s, g, Lost(s, g, ns))
  <2>1. \A n \in ns : s.groupOf[n] # None => s.groupOf[n] \in DOMAIN s.groups
    <3>1. \A n \in ns : s.groupOf[n] # None => s.groupOf[n] \in GroupId
      BY <1>0 DEF Grouped
    <3> QED BY <1>0, <3>1 DEF Grouped
  <2> HIDE DEF E, c
  <2> QED BY <1>2, <2>1
<1>4. \A n \in ns : s.groupOf[n] # None => n \in Taken(E)
  <2>1. ASSUME NEW n \in ns, s.groupOf[n] # None PROVE n \in Taken(E)
    <3> DEFINE g == s.groupOf[n]
    <3>1. Entry(s, g, Lost(s, g, ns)) \in E
      BY <1>2, <2>1
    <3>2. n \in Members(s, g)
      BY <1>0, <2>1 DEF Grouped, Members
    <3> QED BY <3>1, <3>2 DEF Entry, Lost
  <2> QED BY <2>1
<1> HIDE DEF c, E
<1>5. IsFiniteSet(E)
  BY <1>1 DEF Command, E
<1>6. <<{}, Removed(s, ns)>> \in R
  <2>1. ns \ Taken({}) = ns /\ {} \in SUBSET E
    OBVIOUS
  <2> QED BY <2>1
<1>7. ASSUME NEW D \in SUBSET E, NEW e \in E, NEW t, e \notin D, <<D, t>> \in R
      PROVE  <<D \cup {e}, restoring(TRUE, e, t)>> \in R
  <2> DEFINE W == ns \ Taken(D)
  <2>1. t = Removed(s, W)
    BY <1>7
  <2>2. PICK g \in DOMAIN s.groups : e = Entry(s, g, Lost(s, g, ns))
    BY <1>3
  <2> DEFINE ms == Lost(s, g, ns)
  <2>3. ms \cap Taken(D) = {}
    <3>1. SUFFICES ASSUME NEW d \in D, NEW n \in ms \cap d.nodes PROVE FALSE
      OBVIOUS
    <3>2. PICK h \in DOMAIN s.groups : d = Entry(s, h, Lost(s, h, ns))
      BY <1>3
    <3>3. h # g
      BY <1>7, <2>2, <3>2
    <3>4. n \in s.groups[g].members /\ n \in s.groups[h].members /\ n \in s.nodes
      BY <3>1, <3>2 DEF Entry, Lost, Members
    <3> QED BY <1>0, <3>3, <3>4 DEF Grouped
  <2>4. ms \subseteq W
    BY <2>3 DEF Lost
  <2>5. W \in SUBSET ns /\ W \ ms = ns \ Taken(D \cup {e})
    <3>1. e.nodes = ms
      BY <2>2 DEF Entry
    <3> QED BY <3>1
  <2> HIDE DEF W, ms
  <2>6. restoreEntry(Removed(s, W), Entry(s, g, ms), TRUE) = Removed(s, W \ ms)
    BY <2>4, <2>5, RestoreBack DEF ms
  <2>7. restoring(TRUE, e, t) = Removed(s, ns \ Taken(D \cup {e})) /\ D \cup {e} \in SUBSET E
    BY <2>1, <2>2, <2>5, <2>6 DEF restoring, ms
  <2> HIDE DEF Taken
  <2> QED BY <2>7
<1>8. <<E, Restoring!Fold(TRUE, Removed(s, ns), E)>> \in R
  <2> HIDE DEF R
  <2> QED BY <1>5, <1>6, <1>7, Restoring!FoldRelates DEF Restoring!IsFiniteSet, IsFiniteSet
<1>9. Restoring!Fold(TRUE, Removed(s, ns), E) = Removed(s, ns \ Taken(E))
  <2> HIDE DEF Taken
  <2> QED BY <1>8
<1>10. Removed(s, ns \ Taken(E)) = s
  <2>1. \A n \in ns \ Taken(E) : s.groupOf[n] = None
    BY <1>4
  <2> HIDE DEF Taken
  <2>2. ns \ Taken(E) \in SUBSET s.nodes
    OBVIOUS
  <2> QED BY <2>1, <2>2, LooseRemoved
<1>11. undoOf(c, redoOf(c, s)) = Restoring!Fold(TRUE, Removed(s, ns), E)
  <2>1. redoOf(c, s) = Deleted(s, ns)
    <3>1. redoOf(c, s) = deleteNodes(s, ns)
      BY <1>1 DEF redoOf
    <3> QED BY <3>1, DeleteIs
  <2>2. undoOf(c, Deleted(s, ns)) = insertSerializedItems(Deleted(s, ns), c, TRUE)
    BY <1>1 DEF undoOf
  <2>3. insertSerializedItems(Deleted(s, ns), c, TRUE) = Restoring!Fold(TRUE, loadNodes(Deleted(s, ns), ns), E)
    BY <1>1, FoldsAre DEF E
  <2>4. loadNodes(Deleted(s, ns), ns) = Removed(s, ns)
    <3>1. IsScene(Deleted(s, ns))
      BY DeletedIsWell DEF WellGrouped
    <3> QED BY <3>1, LoadIs, ReloadedIsRemoved
  <2> QED BY <2>1, <2>2, <2>3, <2>4
<1> QED BY <1>9, <1>10, <1>11 DEF c

(* Whatever is selected, deleting it and undoing that brings back every    *)
(* group that shrank or went, under its id, with its nodes and its lock.   *)
THEOREM DeletionsAreUndone == Spec => []DeletionIsUndone
<1>1. GroupInv => DeletionIsUndone
  <2>1. SUFFICES ASSUME GroupInv, scene.enabled, NEW ns \in SUBSET Selectable, NEW gs \in SUBSET GroupIds(scene)
                 PROVE  LET cmd == DeleteCommand(scene, Selected(ns, gs))
                        IN  Grouping(undoOf(cmd, redoOf(cmd, scene))) = Grouping(scene)
    BY DEF DeletionIsUndone
  <2>2. WellGrouped(scene) /\ Selected(ns, gs) \in SUBSET scene.nodes
    BY <2>1, SelectedNodes DEF GroupInv
  <2>3. undoOf(DeleteCommand(scene, Selected(ns, gs)),
               redoOf(DeleteCommand(scene, Selected(ns, gs)), scene)) = scene
    BY <2>1, <2>2, UndoneDeletion
  <2> QED BY <2>3
<1> QED BY GroupInvariant, <1>1, PTL

-----------------------------------------------------------------------------
(* What a desk is made of, and what may be stale on it.                    *)

Desk(at, extent, place, ends, groups) ==
  [at |-> at, extent |-> extent, place |-> place, ends |-> ends, groups |-> groups]
GroupItem(nodes, on, child, frame) ==
  [nodes |-> nodes, locked |-> on, child |-> child, frame |-> frame]

GroupIs(r) ==
  /\ r = GroupItem(r.nodes, r.locked, r.child, r.frame)
  /\ r.nodes \in (SUBSET CanvasNode) \ {{}} /\ r.locked \in BOOLEAN
  /\ r.child \in CanvasNode \cup {NoItem}

GroupsAre(G) ==
  /\ G = [g \in DOMAIN G |-> G[g]] /\ DOMAIN G \subseteq CanvasGroup
  /\ \A g \in DOMAIN G : GroupIs(G[g])
  /\ \A g, h \in DOMAIN G : g # h => G[g].nodes \cap G[h].nodes = {}

DeskIs(d, P) ==
  /\ d = Desk(d.at, d.extent, d.place, d.ends, d.groups)
  /\ d.at \in [CanvasNode -> Spot] /\ d.extent \in Extents /\ d.place \in [CanvasNode -> P]
  /\ d.ends = [w \in CanvasWire |-> d.ends[w]]
  /\ GroupsAre(d.groups)

WiresOk(d, W) == \A w \in CanvasWire \ W : d.ends[w] = portsOf(d, w)
FramesOk(d, F) == \A g \in DOMAIN d.groups \ F : d.groups[g].frame = computeGroupRect(d, g)
PlacesOk(d, N) == \A n \in CanvasNode \ N : d.at[n] = d.place[n]
ChildrenOk(d, C) == \A g \in DOMAIN d.groups \ {C} : d.groups[g].child = NoItem

\* A desk on which at most these are not where they belong: wires W, the frames
\* of the groups F, the model's positions of the nodes N; group C may have a child.
Sound(d, P, W, F, N, C) ==
  DeskIs(d, P) /\ WiresOk(d, W) /\ FramesOk(d, F) /\ PlacesOk(d, N) /\ ChildrenOk(d, C)

\* The same groups with the same members.
Alike(d, e) ==
  /\ DOMAIN e.groups = DOMAIN d.groups
  /\ \A g \in DOMAIN d.groups : /\ e.groups[g].nodes = d.groups[g].nodes
                                /\ e.groups[g].locked = d.groups[g].locked

\* The updates of one field that the model writes in place.
replaced(f, n, v) == [f EXCEPT ![n] = v]
atOf(d, n, p) == [d EXCEPT !.at[n] = p]
placed(d, n, p) == [d EXCEPT !.place[n] = p]
sized(d, n, x) == [d EXCEPT !.extent[n] = x]
grouped(d, G) == [d EXCEPT !.groups = G]

-----------------------------------------------------------------------------

LEMMA FieldsOf ==
  ASSUME NEW a, NEW x, NEW p, NEW e, NEW G
  PROVE  LET d == Desk(a, x, p, e, G)
         IN d.at = a /\ d.extent = x /\ d.place = p /\ d.ends = e /\ d.groups = G
BY DEF Desk

LEMMA GroupFields ==
  ASSUME NEW ns, NEW on, NEW child, NEW frame
  PROVE  LET r == GroupItem(ns, on, child, frame)
         IN r.nodes = ns /\ r.locked = on /\ r.child = child /\ r.frame = frame
BY DEF GroupItem

LEMMA UpdatesAre ==
  ASSUME NEW d, NEW P, DeskIs(d, P), NEW n, NEW v
  PROVE  /\ atOf(d, n, v) = Desk(replaced(d.at, n, v), d.extent, d.place, d.ends, d.groups)
         /\ placed(d, n, v) = Desk(d.at, d.extent, replaced(d.place, n, v), d.ends, d.groups)
         /\ sized(d, n, v) = Desk(d.at, replaced(d.extent, n, v), d.place, d.ends, d.groups)
         /\ grouped(d, v) = Desk(d.at, d.extent, d.place, d.ends, v)
<1>1. d = Desk(d.at, d.extent, d.place, d.ends, d.groups)
  BY DEF DeskIs
<1>2. ASSUME NEW a, NEW x, NEW p, NEW e, NEW G, d = Desk(a, x, p, e, G)
      PROVE  /\ atOf(d, n, v) = Desk(replaced(a, n, v), x, p, e, G)
             /\ placed(d, n, v) = Desk(a, x, replaced(p, n, v), e, G)
             /\ sized(d, n, v) = Desk(a, replaced(x, n, v), p, e, G)
             /\ grouped(d, v) = Desk(a, x, p, e, v)
  BY <1>2 DEF Desk, atOf, placed, sized, grouped, replaced
<1> QED BY <1>1, <1>2

LEMMA RectSame ==
  ASSUME NEW d, NEW e, NEW g, e.groups[g].nodes = d.groups[g].nodes,
         e.groups[g].child = d.groups[g].child,
         \A n \in d.groups[g].nodes \cup ({d.groups[g].child} \ {NoItem}) :
           e.place[n] = d.place[n] /\ e.extent[n] = d.extent[n]
  PROVE  computeGroupRect(e, g) = computeGroupRect(d, g)
<1> DEFINE ns == d.groups[g].nodes \cup ({d.groups[g].child} \ {NoItem})
<1>1. \A n \in ns : e.place[n] = d.place[n] /\ e.extent[n] = d.extent[n]
  OBVIOUS
<1>2. e.groups[g].nodes \cup ({e.groups[g].child} \ {NoItem}) = ns
  OBVIOUS
<1> HIDE DEF ns
<1>3. {e.place[n] : n \in ns} = {d.place[n] : n \in ns}
  BY <1>1
<1>4. {e.place[n] + e.extent[n] : n \in ns} = {d.place[n] + d.extent[n] : n \in ns}
  BY <1>1
<1> QED BY <1>2, <1>3, <1>4 DEF computeGroupRect, ns

LEMMA Weaken ==
  ASSUME NEW d, NEW P, NEW W, NEW F, NEW N, NEW C, Sound(d, P, W, F, N, C),
         NEW Q, \A n \in CanvasNode : d.place[n] \in Q,
         NEW X, W \cap CanvasWire \subseteq X,
         NEW G, F \cap DOMAIN d.groups \subseteq G,
         NEW M, N \cap CanvasNode \subseteq M
  PROVE  Sound(d, Q, X, G, M, C)
<1>1. d.place \in [CanvasNode -> Q]
  BY DEF Sound, DeskIs
<1> QED BY <1>1 DEF Sound, DeskIs, WiresOk, FramesOk, PlacesOk

LEMMA AlikeSame ==
  ASSUME NEW d, NEW e, Alike(d, e)
  PROVE  /\ \A n : groupsOf(e, n) = groupsOf(d, n)
         /\ \A n : locked(e, n) <=> locked(d, n)
         /\ selectable(e) = selectable(d)
<1>1. \A n : groupsOf(e, n) = groupsOf(d, n)
  BY DEF Alike, groupsOf
<1>2. \A n : groupsOf(d, n) \subseteq DOMAIN d.groups
  BY DEF groupsOf
<1>3. \A n : locked(e, n) <=> locked(d, n)
  BY <1>1, <1>2 DEF locked, Alike
<1> QED BY <1>1, <1>3 DEF selectable, Alike

LEMMA AlikeChain ==
  /\ \A d : Alike(d, d)
  /\ \A d, e, f : Alike(d, e) /\ Alike(e, f) => Alike(d, f)
BY DEF Alike

-----------------------------------------------------------------------------
(* One lemma per operator of the model.                                    *)

LEMMA MoveConnectionsIs ==
  ASSUME NEW d, NEW P, DeskIs(d, P), NEW ns
  PROVE  LET e == moveConnections(d, ns)
         IN  /\ DeskIs(e, P) /\ e.at = d.at /\ e.extent = d.extent /\ e.place = d.place
             /\ e.groups = d.groups
             /\ \A w \in CanvasWire : e.ends[w] = IF w \in wiresOf(ns) THEN portsOf(d, w) ELSE d.ends[w]
<1> DEFINE ends == [w \in CanvasWire |-> IF w[1] \in ns \/ w[2] \in ns THEN portsOf(d, w) ELSE d.ends[w]]
<1>1. moveConnections(d, ns) = Desk(d.at, d.extent, d.place, ends, d.groups)
  <2>1. d = Desk(d.at, d.extent, d.place, d.ends, d.groups)
    BY DEF DeskIs
  <2> QED BY <2>1 DEF moveConnections, Desk
<1>2. \A w \in CanvasWire : ends[w] = IF w \in wiresOf(ns) THEN portsOf(d, w) ELSE d.ends[w]
  BY DEF wiresOf
<1>3. ends = [w \in CanvasWire |-> ends[w]]
  OBVIOUS
<1> HIDE DEF ends
<1> QED BY <1>1, <1>2, <1>3, FieldsOf DEF DeskIs

LEMMA MovingConnections ==
  ASSUME NEW d, NEW P, NEW W, NEW F, NEW N, NEW C, Sound(d, P, W, F, N, C), NEW ns,
         NEW X, W \subseteq X \cup wiresOf(ns)
  PROVE  LET e == moveConnections(d, ns)
         IN  /\ Sound(e, P, X, F, N, C) /\ Alike(d, e)
             /\ e.at = d.at /\ e.extent = d.extent /\ e.place = d.place /\ e.groups = d.groups
<1> DEFINE e == moveConnections(d, ns)
<1>1. /\ DeskIs(e, P) /\ e.at = d.at /\ e.extent = d.extent /\ e.place = d.place /\ e.groups = d.groups
      /\ \A w \in CanvasWire : e.ends[w] = IF w \in wiresOf(ns) THEN portsOf(d, w) ELSE d.ends[w]
  BY MoveConnectionsIs DEF Sound
<1> HIDE DEF e
<1>2. WiresOk(e, X)
  BY <1>1 DEF Sound, WiresOk, portsOf
<1>3. FramesOk(e, F)
  BY <1>1 DEF Sound, FramesOk, computeGroupRect
<1>4. PlacesOk(e, N) /\ ChildrenOk(e, C) /\ Alike(d, e)
  BY <1>1 DEF Sound, PlacesOk, ChildrenOk, Alike
<1>5. Sound(e, P, X, F, N, C)
  BY <1>1, <1>2, <1>3, <1>4 DEF Sound
<1> QED BY <1>1, <1>4, <1>5 DEF e

\* Frames are refreshed from the nodes.
reframed(d, gs) ==
  [g \in DOMAIN d.groups |->
     IF g \in gs THEN GroupItem(d.groups[g].nodes, d.groups[g].locked, d.groups[g].child, computeGroupRect(d, g))
     ELSE d.groups[g]]

LEMMA GroupUpdates ==
  ASSUME NEW r, GroupIs(r), NEW v
  PROVE  /\ [r EXCEPT !.nodes = v] = GroupItem(v, r.locked, r.child, r.frame)
         /\ [r EXCEPT !.locked = v] = GroupItem(r.nodes, v, r.child, r.frame)
         /\ [r EXCEPT !.child = v] = GroupItem(r.nodes, r.locked, v, r.frame)
         /\ [r EXCEPT !.frame = v] = GroupItem(r.nodes, r.locked, r.child, v)
<1>1. ASSUME NEW a, NEW b, NEW c, NEW f, r = GroupItem(a, b, c, f)
      PROVE  /\ [r EXCEPT !.nodes = v] = GroupItem(v, b, c, f)
             /\ [r EXCEPT !.locked = v] = GroupItem(a, v, c, f)
             /\ [r EXCEPT !.child = v] = GroupItem(a, b, v, f)
             /\ [r EXCEPT !.frame = v] = GroupItem(a, b, c, v)
  BY <1>1 DEF GroupItem
<1> QED BY <1>1 DEF GroupIs

\* Groups whose members, lock and child are those of other groups, are groups.
LEMMA StillGroups ==
  ASSUME NEW G, GroupsAre(G), NEW H, H = [g \in DOMAIN G |-> H[g]],
         \A g \in DOMAIN G :
           /\ H[g] = GroupItem(H[g].nodes, H[g].locked, H[g].child, H[g].frame)
           /\ H[g].nodes = G[g].nodes /\ H[g].locked \in BOOLEAN
           /\ H[g].child \in CanvasNode \cup {NoItem}
  PROVE  GroupsAre(H)
<1>1. DOMAIN H = DOMAIN G
  OBVIOUS
<1>2. \A g \in DOMAIN H : GroupIs(H[g])
  BY <1>1 DEF GroupsAre, GroupIs
<1>3. \A g, h \in DOMAIN H : g # h => H[g].nodes \cap H[h].nodes = {}
  BY <1>1 DEF GroupsAre
<1> QED BY <1>1, <1>2, <1>3 DEF GroupsAre

LEMMA UpdateIs ==
  ASSUME NEW d, NEW P, DeskIs(d, P), NEW gs
  PROVE  LET e == updateGroupGeometry(d, gs)
         IN  /\ DeskIs(e, P) /\ e.at = d.at /\ e.extent = d.extent /\ e.place = d.place
             /\ e.ends = d.ends /\ Alike(d, e)
             /\ \A g \in DOMAIN d.groups :
                  /\ e.groups[g].child = d.groups[g].child
                  /\ e.groups[g].frame = IF g \in gs THEN computeGroupRect(d, g) ELSE d.groups[g].frame
<1> DEFINE H == reframed(d, gs)
<1>1. \A g \in DOMAIN d.groups : GroupIs(d.groups[g])
  BY DEF DeskIs, GroupsAre
<1>2. updateGroupGeometry(d, gs) = grouped(d, H)
  <2>1. [g \in DOMAIN d.groups |->
          IF g \in gs THEN [d.groups[g] EXCEPT !.frame = computeGroupRect(d, g)] ELSE d.groups[g]] = H
    BY <1>1, GroupUpdates DEF reframed
  <2>2. d = Desk(d.at, d.extent, d.place, d.ends, d.groups)
    BY DEF DeskIs
  <2> HIDE DEF H
  <2> QED BY <2>1, <2>2 DEF updateGroupGeometry, grouped, Desk
<1>3. \A g \in DOMAIN d.groups :
        /\ H[g] = GroupItem(H[g].nodes, H[g].locked, H[g].child, H[g].frame)
        /\ H[g].nodes = d.groups[g].nodes /\ H[g].locked = d.groups[g].locked
        /\ H[g].child = d.groups[g].child
        /\ H[g].frame = IF g \in gs THEN computeGroupRect(d, g) ELSE d.groups[g].frame
  <2> SUFFICES ASSUME NEW g \in DOMAIN d.groups
               PROVE /\ H[g] = GroupItem(H[g].nodes, H[g].locked, H[g].child, H[g].frame)
                     /\ H[g].nodes = d.groups[g].nodes /\ H[g].locked = d.groups[g].locked
                     /\ H[g].child = d.groups[g].child
                     /\ H[g].frame = IF g \in gs THEN computeGroupRect(d, g) ELSE d.groups[g].frame
    OBVIOUS
  <2>1. CASE g \in gs
    BY <2>1, GroupFields DEF reframed
  <2>2. CASE g \notin gs
    BY <2>2, <1>1 DEF reframed, GroupIs
  <2> QED BY <2>1, <2>2
<1>4. H = [g \in DOMAIN d.groups |-> H[g]]
  BY DEF reframed
<1> HIDE DEF H
<1>5. GroupsAre(H)
  <2>1. GroupsAre(d.groups)
    BY DEF DeskIs
  <2>2. \A g \in DOMAIN d.groups : H[g].locked \in BOOLEAN /\ H[g].child \in CanvasNode \cup {NoItem}
    BY <1>1, <1>3 DEF GroupIs
  <2> QED BY <1>3, <1>4, <2>1, <2>2, StillGroups
<1>6. grouped(d, H) = Desk(d.at, d.extent, d.place, d.ends, H)
  BY UpdatesAre
<1> DEFINE e == updateGroupGeometry(d, gs)
<1>7. e.at = d.at /\ e.extent = d.extent /\ e.place = d.place /\ e.ends = d.ends /\ e.groups = H
      /\ e = Desk(e.at, e.extent, e.place, e.ends, e.groups)
  BY <1>2, <1>6, FieldsOf
<1> HIDE DEF e
<1>8. DeskIs(e, P)
  BY <1>5, <1>7 DEF DeskIs
<1>9. Alike(d, e)
  BY <1>3, <1>4, <1>7 DEF Alike
<1> QED BY <1>3, <1>7, <1>8, <1>9 DEF e

LEMMA Updating ==
  ASSUME NEW d, NEW P, NEW W, NEW F, NEW N, NEW C, Sound(d, P, W, F, N, C), NEW gs,
         NEW G, F \subseteq G \cup gs
  PROVE  LET e == updateGroupGeometry(d, gs)
         IN  /\ Sound(e, P, W, G, N, C) /\ Alike(d, e)
             /\ e.at = d.at /\ e.extent = d.extent /\ e.place = d.place
             /\ \A g \in DOMAIN d.groups : e.groups[g].child = d.groups[g].child
<1> DEFINE e == updateGroupGeometry(d, gs)
<1>1. /\ DeskIs(e, P) /\ e.at = d.at /\ e.extent = d.extent /\ e.place = d.place
      /\ e.ends = d.ends /\ Alike(d, e)
      /\ \A g \in DOMAIN d.groups :
           /\ e.groups[g].child = d.groups[g].child
           /\ e.groups[g].frame = IF g \in gs THEN computeGroupRect(d, g) ELSE d.groups[g].frame
  BY UpdateIs DEF Sound
<1> HIDE DEF e
<1>2. WiresOk(e, W) /\ PlacesOk(e, N)
  BY <1>1 DEF Sound, WiresOk, PlacesOk, portsOf
<1>3. \A g \in DOMAIN d.groups : computeGroupRect(e, g) = computeGroupRect(d, g)
  BY <1>1, RectSame DEF Alike
<1>4. FramesOk(e, G)
  BY <1>1, <1>3 DEF Sound, FramesOk, Alike
<1>5. ChildrenOk(e, C)
  BY <1>1 DEF Sound, ChildrenOk, Alike
<1> QED BY <1>1, <1>2, <1>4, <1>5 DEF Sound, e

\* A node is drawn elsewhere, and nothing is told.
LEMMA Placing ==
  ASSUME NEW d, NEW P, NEW W, NEW F, NEW N, NEW C, Sound(d, P, W, F, N, C),
         NEW n \in CanvasNode, NEW p \in P,
         NEW X, W \cup wiresOf({n}) \subseteq X, NEW G, (F \cup groupsOf(d, n)) \cup {C} \subseteq G,
         NEW M, N \cup {n} \subseteq M
  PROVE  LET e == placed(d, n, p)
         IN  /\ Sound(e, P, X, G, M, C)
             /\ Alike(d, e) /\ e.at = d.at /\ e.extent = d.extent /\ e.groups = d.groups
             /\ e.place = replaced(d.place, n, p)
<1> DEFINE e == placed(d, n, p)
<1>1. /\ e.at = d.at /\ e.extent = d.extent /\ e.place = replaced(d.place, n, p)
      /\ e.ends = d.ends /\ e.groups = d.groups
      /\ e = Desk(e.at, e.extent, e.place, e.ends, e.groups)
  BY UpdatesAre, FieldsOf DEF Sound
<1> HIDE DEF e
<1>2. DeskIs(e, P)
  BY <1>1 DEF DeskIs, Sound, replaced
<1>3. \A m \in CanvasNode : m # n => e.place[m] = d.place[m]
  BY <1>1 DEF Sound, DeskIs, replaced
<1>4. WiresOk(e, X)
  <2>1. \A w \in CanvasWire \ wiresOf({n}) : portsOf(e, w) = portsOf(d, w)
    <3>1. \A w \in CanvasWire \ wiresOf({n}) :
            w[1] \in CanvasNode /\ w[2] \in CanvasNode /\ w[1] # n /\ w[2] # n
      BY CanvasConstants DEF wiresOf
    <3> QED BY <1>1, <1>3, <3>1 DEF portsOf
  <2> QED BY <1>1, <2>1 DEF Sound, WiresOk
<1>5. FramesOk(e, G)
  <2> SUFFICES ASSUME NEW g \in DOMAIN d.groups, g \notin F, n \notin d.groups[g].nodes, g # C
               PROVE  e.groups[g].frame = computeGroupRect(e, g)
    BY <1>1 DEF FramesOk, groupsOf
  <2>1. d.groups[g].child = NoItem /\ d.groups[g].nodes \subseteq CanvasNode
    BY DEF Sound, ChildrenOk, DeskIs, GroupsAre, GroupIs
  <2>2. \A m \in d.groups[g].nodes : e.place[m] = d.place[m]
    BY <1>3, <2>1
  <2>3. \A m \in d.groups[g].nodes \cup ({d.groups[g].child} \ {NoItem}) :
          e.place[m] = d.place[m] /\ e.extent[m] = d.extent[m]
    BY <1>1, <2>1, <2>2
  <2>4. computeGroupRect(e, g) = computeGroupRect(d, g)
    BY <1>1, <2>3, RectSame
  <2> QED BY <1>1, <2>4 DEF Sound, FramesOk
<1>6. PlacesOk(e, M)
  BY <1>1, <1>3 DEF Sound, PlacesOk
<1>7. ChildrenOk(e, C) /\ Alike(d, e)
  BY <1>1 DEF Sound, ChildrenOk, Alike
<1> QED BY <1>1, <1>2, <1>4, <1>5, <1>6, <1>7 DEF Sound, e

\* The model is told a position, and nothing is drawn.
LEMMA Positioning ==
  ASSUME NEW d, NEW P, NEW W, NEW F, NEW N, NEW C, Sound(d, P, W, F, N, C),
         NEW n \in CanvasNode, NEW p \in Spot,
         NEW M, \/ N \cup {n} \subseteq M
                \/ N \subseteq M \cup {n} /\ d.place[n] = p
  PROVE  LET e == atOf(d, n, p)
         IN  /\ Sound(e, P, W, F, M, C)
             /\ Alike(d, e) /\ e.at = replaced(d.at, n, p) /\ e.extent = d.extent
             /\ e.groups = d.groups /\ e.place = d.place
<1> DEFINE e == atOf(d, n, p)
<1>1. /\ e.at = replaced(d.at, n, p) /\ e.extent = d.extent /\ e.place = d.place
      /\ e.ends = d.ends /\ e.groups = d.groups
      /\ e = Desk(e.at, e.extent, e.place, e.ends, e.groups)
  BY UpdatesAre, FieldsOf DEF Sound
<1> HIDE DEF e
<1>2. DeskIs(e, P)
  BY <1>1 DEF DeskIs, Sound, replaced
<1>3. e.at[n] = p /\ \A m \in CanvasNode : m # n => e.at[m] = d.at[m]
  BY <1>1 DEF Sound, DeskIs, replaced
<1>4. WiresOk(e, W)
  BY <1>1 DEF Sound, WiresOk, portsOf
<1>5. FramesOk(e, F)
  BY <1>1 DEF Sound, FramesOk, computeGroupRect
<1>6. PlacesOk(e, M)
  BY <1>1, <1>3 DEF Sound, PlacesOk
<1>7. ChildrenOk(e, C) /\ Alike(d, e)
  BY <1>1 DEF Sound, ChildrenOk, Alike
<1> QED BY <1>1, <1>2, <1>4, <1>5, <1>6, <1>7 DEF Sound, e

\* A node has another size, and nothing is told.
LEMMA Sizing ==
  ASSUME NEW d, NEW P, NEW W, NEW F, NEW N, NEW C, Sound(d, P, W, F, N, C),
         NEW n \in CanvasNode, NEW x \in Extent[n],
         NEW X, W \cup wiresOf({n}) \subseteq X, NEW G, (F \cup groupsOf(d, n)) \cup {C} \subseteq G
  PROVE  LET e == sized(d, n, x)
         IN  /\ Sound(e, P, X, G, N, C)
             /\ Alike(d, e) /\ e.groups = d.groups /\ e.place = d.place /\ e.at = d.at
<1> DEFINE e == sized(d, n, x)
<1>1. /\ e.at = d.at /\ e.place = d.place /\ e.extent = replaced(d.extent, n, x)
      /\ e.ends = d.ends /\ e.groups = d.groups
      /\ e = Desk(e.at, e.extent, e.place, e.ends, e.groups)
  BY UpdatesAre, FieldsOf DEF Sound
<1> HIDE DEF e
<1>2. e.extent \in Extents
  <2>1. x \in UNION Range(Extent)
    BY CanvasConstants DEF Range
  <2>2. d.extent \in [CanvasNode -> UNION Range(Extent)] /\ \A m \in CanvasNode : d.extent[m] \in Extent[m]
    BY DEF Sound, DeskIs, Extents
  <2>3. e.extent \in [CanvasNode -> UNION Range(Extent)] /\ \A m \in CanvasNode : e.extent[m] \in Extent[m]
    BY <1>1, <2>1, <2>2 DEF replaced
  <2> QED BY <2>3 DEF Extents
<1>3. DeskIs(e, P)
  BY <1>1, <1>2 DEF DeskIs, Sound
<1>4. \A m \in CanvasNode : m # n => e.extent[m] = d.extent[m]
  BY <1>1 DEF Sound, DeskIs, Extents, replaced
<1>5. WiresOk(e, X)
  <2>1. \A w \in CanvasWire \ wiresOf({n}) : portsOf(e, w) = portsOf(d, w)
    <3>1. \A w \in CanvasWire \ wiresOf({n}) :
            w[1] \in CanvasNode /\ w[2] \in CanvasNode /\ w[1] # n /\ w[2] # n
      BY CanvasConstants DEF wiresOf
    <3> QED BY <1>1, <1>4, <3>1 DEF portsOf
  <2> QED BY <1>1, <2>1 DEF Sound, WiresOk
<1>6. FramesOk(e, G)
  <2> SUFFICES ASSUME NEW g \in DOMAIN d.groups, g \notin F, n \notin d.groups[g].nodes, g # C
               PROVE  e.groups[g].frame = computeGroupRect(e, g)
    BY <1>1 DEF FramesOk, groupsOf
  <2>1. d.groups[g].child = NoItem /\ d.groups[g].nodes \subseteq CanvasNode
    BY DEF Sound, ChildrenOk, DeskIs, GroupsAre, GroupIs
  <2>2. \A m \in d.groups[g].nodes : e.extent[m] = d.extent[m]
    BY <1>4, <2>1
  <2>3. \A m \in d.groups[g].nodes \cup ({d.groups[g].child} \ {NoItem}) :
          e.place[m] = d.place[m] /\ e.extent[m] = d.extent[m]
    BY <1>1, <2>1, <2>2
  <2>4. computeGroupRect(e, g) = computeGroupRect(d, g)
    BY <1>1, <2>3, RectSame
  <2> QED BY <1>1, <2>4 DEF Sound, FramesOk
<1>7. PlacesOk(e, N) /\ ChildrenOk(e, C) /\ Alike(d, e)
  BY <1>1 DEF Sound, PlacesOk, ChildrenOk, Alike
<1> QED BY <1>1, <1>3, <1>5, <1>6, <1>7 DEF Sound, e

\* The connections that do not come along when a node is put somewhere, and
\* where it comes to be.
stale(d, n) == IF locked(d, n) THEN wiresOf({n}) ELSE {}
landing(d, n, p) == IF locked(d, n) THEN p ELSE Snap[p]

LEMMA SnapIs == \A p \in Spot : Snap[p] \in Spot /\ Snap[Snap[p]] = Snap[p]
BY CanvasConstants

LEMMA SetPosIs ==
  ASSUME NEW d, NEW n, NEW p
  PROVE  /\ locked(d, n) => setPos(d, n, p) = placed(d, n, p)
         /\ ~locked(d, n) => setPos(d, n, p) = moveConnections(placed(d, n, Snap[p]), {n})
BY DEF setPos, placed

LEMMA SettingPos ==
  ASSUME NEW P, Spot \subseteq P,
         NEW d, NEW W, NEW F, NEW N, NEW C, Sound(d, P, W, F, N, C),
         NEW n \in CanvasNode, NEW p \in P, locked(d, n) \/ p \in Spot,
         NEW X, W \cup stale(d, n) \subseteq X, NEW G, (F \cup groupsOf(d, n)) \cup {C} \subseteq G,
         NEW M, N \cup {n} \subseteq M
  PROVE  LET e == setPos(d, n, p)
         IN  /\ Sound(e, P, X, G, M, C)
             /\ Alike(d, e) /\ e.at = d.at /\ e.place = replaced(d.place, n, landing(d, n, p))
<1> DEFINE e == setPos(d, n, p)
<1>1. CASE locked(d, n)
  <2> DEFINE f == placed(d, n, p)
  <2>1. W \cup wiresOf({n}) \subseteq X
    BY <1>1 DEF stale
  <2>3. e = f /\ landing(d, n, p) = p
    BY <1>1, SetPosIs DEF landing
  <2> HIDE DEF e
  <2>2. Sound(f, P, X, G, M, C) /\ Alike(d, f) /\ f.at = d.at /\ f.place = replaced(d.place, n, p)
    BY <2>1, Placing
  <2> QED BY <2>2, <2>3 DEF e
<1>2. CASE ~locked(d, n)
  <2> DEFINE q == Snap[p]
             f == placed(d, n, q)
             Y == W \cup wiresOf({n})
  <2>1. q \in P /\ landing(d, n, p) = q
    BY <1>2, SnapIs DEF landing
  <2>2. e = moveConnections(f, {n})
    BY <1>2, SetPosIs
  <2>3. W \cup wiresOf({n}) \subseteq Y /\ Y \subseteq X \cup wiresOf({n})
    OBVIOUS
  <2> HIDE DEF q, e, Y
  <2>4. /\ Sound(f, P, Y, G, M, C)
        /\ Alike(d, f) /\ f.at = d.at /\ f.place = replaced(d.place, n, q)
    BY <2>1, <2>3, Placing
  <2> HIDE DEF f
  <2>5. Sound(e, P, X, G, M, C) /\ Alike(f, e) /\ e.at = f.at /\ e.place = f.place
    <3> DEFINE b == moveConnections(f, {n})
    <3>1. Sound(b, P, X, G, M, C) /\ Alike(f, b) /\ b.at = f.at /\ b.place = f.place
      <4>1. Sound(f, P, Y, G, M, C) /\ Y \subseteq X \cup wiresOf({n})
        BY <2>3, <2>4
      <4> QED BY <4>1, MovingConnections
    <3> QED BY <2>2, <3>1
  <2>6. Alike(d, e)
    BY <2>4, <2>5, AlikeChain
  <2> QED BY <2>1, <2>4, <2>5, <2>6 DEF e
<1> QED BY <1>1, <1>2

LEMMA SyncIs ==
  ASSUME NEW d, NEW n, NEW p
  PROVE  /\ syncNodePosition(d, n) = atOf(setPos(d, n, Snap[d.at[n]]), n, Snap[d.at[n]])
         /\ setModelPosition(d, n, p) =
              updateGroupGeometry(syncNodePosition(atOf(d, n, p), n), groupsOf(d, n))
BY DEF syncNodePosition, setModelPosition, atOf

LEMMA SettingModelPosition ==
  ASSUME NEW P, Spot \subseteq P,
         NEW d, NEW W, NEW F, NEW N, NEW C, Sound(d, P, W, F, N, C),
         NEW n \in CanvasNode, NEW p \in Spot,
         NEW X, W \cup stale(d, n) \subseteq X, NEW G, F \cup {C} \subseteq G \cup groupsOf(d, n),
         NEW M, N \subseteq M \cup {n}
  PROVE  LET e == setModelPosition(d, n, p)
         IN  Sound(e, P, X, G, M, C) /\ Alike(d, e)
<1> DEFINE a == atOf(d, n, p)
           q == Snap[p]
           b == setPos(a, n, q)
           c == atOf(b, n, q)
           gs == groupsOf(d, n)
           e == updateGroupGeometry(c, gs)
           K == (F \cup gs) \cup {C}
           L == N \cup {n}
<1>1. N \cup {n} \subseteq L /\ L \cup {n} \subseteq L /\ L \subseteq M \cup {n} /\ K \subseteq G \cup gs
  OBVIOUS
<1>2. q \in Spot /\ Snap[q] = q
  BY SnapIs
<1> HIDE DEF L
<1>3. Sound(a, P, W, F, L, C) /\ Alike(d, a) /\ a.at = replaced(d.at, n, p) /\ a.place = d.place
  BY <1>1, Positioning
<1>4. a.at[n] = p
  <2>1. d.at \in [CanvasNode -> Spot]
    BY DEF Sound, DeskIs
  <2> HIDE DEF a
  <2> QED BY <1>3, <2>1 DEF replaced
<1>5. setModelPosition(d, n, p) = e
  <2>1. syncNodePosition(a, n) = atOf(setPos(a, n, Snap[a.at[n]]), n, Snap[a.at[n]])
    BY SyncIs
  <2>2. setModelPosition(d, n, p) = updateGroupGeometry(syncNodePosition(a, n), gs)
    BY SyncIs
  <2> HIDE DEF a
  <2> QED BY <2>1, <2>2, <1>4
<1> HIDE DEF a, q
<1>6. groupsOf(a, n) = gs /\ stale(a, n) = stale(d, n) /\ landing(a, n, q) = q
  BY <1>3, <1>2, AlikeSame DEF stale, landing
<1>7. W \cup stale(a, n) \subseteq X /\ (F \cup groupsOf(a, n)) \cup {C} \subseteq K
  BY <1>6
<1> HIDE DEF K, gs
<1>8. Sound(b, P, X, K, L, C) /\ Alike(a, b) /\ b.place = replaced(a.place, n, landing(a, n, q))
  <2>1. q \in P
    BY <1>2
  <2> QED BY <1>1, <1>2, <1>3, <1>7, <2>1, SettingPos
<1> HIDE DEF b
<1>9. b.place[n] = q
  <2>1. d.place \in [CanvasNode -> P]
    BY DEF Sound, DeskIs
  <2> QED BY <1>8, <1>6, <1>3, <2>1 DEF replaced
<1>10. Sound(c, P, X, K, M, C) /\ Alike(b, c)
  BY <1>1, <1>2, <1>8, <1>9, Positioning
<1> HIDE DEF c
<1>11. Sound(e, P, X, G, M, C) /\ Alike(c, e)
  BY <1>1, <1>10, Updating
<1> HIDE DEF e
<1>12. Alike(d, e)
  BY <1>3, <1>8, <1>10, <1>11, AlikeChain
<1> QED BY <1>5, <1>11, <1>12

LEMMA TellingModel ==
  ASSUME NEW d, NEW W, NEW F, NEW N, NEW C, Sound(d, Spot, W, F, N, C), NEW n \in CanvasNode,
         NEW X, W \cup (IF d.at[n] = d.place[n] THEN {} ELSE stale(d, n)) \subseteq X,
         NEW G, \/ d.at[n] = d.place[n] /\ F \subseteq G
                \/ d.at[n] # d.place[n] /\ F \cup {C} \subseteq G \cup groupsOf(d, n),
         NEW M, N \subseteq M \cup {n}
  PROVE  LET e == update_model_position_if_needed(d, n)
         IN  Sound(e, Spot, X, G, M, C) /\ Alike(d, e)
<1> DEFINE e == update_model_position_if_needed(d, n)
<1>1. d.place[n] \in Spot /\ \A m \in CanvasNode : d.place[m] \in Spot
  BY DEF Sound, DeskIs
<1>2. CASE d.at[n] = d.place[n]
  <2>1. e = d
    BY <1>2 DEF update_model_position_if_needed
  <2>2. Sound(d, Spot, W, F, M, C)
    BY <1>2 DEF Sound, PlacesOk
  <2>3. W \cap CanvasWire \subseteq X /\ F \cap DOMAIN d.groups \subseteq G /\ M \cap CanvasNode \subseteq M
    BY <1>2
  <2>4. Sound(d, Spot, X, G, M, C)
    BY <1>1, <2>2, <2>3, Weaken
  <2> QED BY <2>1, <2>4, AlikeChain
<1>3. CASE d.at[n] # d.place[n]
  <2>1. e = setModelPosition(d, n, d.place[n])
    BY <1>3 DEF update_model_position_if_needed
  <2> DEFINE q == d.place[n]
  <2>2. e = setModelPosition(d, n, q) /\ q \in Spot /\ Spot \subseteq Spot
    BY <2>1, <1>1
  <2>3. W \cup stale(d, n) \subseteq X /\ F \cup {C} \subseteq G \cup groupsOf(d, n)
    BY <1>3
  <2> HIDE DEF e, q
  <2>4. Sound(e, Spot, X, G, M, C) /\ Alike(d, e)
    BY <2>2, <2>3, SettingModelPosition
  <2> QED BY <2>4 DEF e
<1> QED BY <1>2, <1>3

\* The operators the module folds with.
telling(unused, n, d) == update_model_position_if_needed(d, n)
pushing(offset, n, d) == setPos(d, n, d.place[n] + offset)
shifting(to, n, d) == setPos(d, n, to[1][n] + to[2])

Telling == INSTANCE FoldFacts WITH Op <- telling
Pushing == INSTANCE FoldFacts WITH Op <- pushing
Shifting == INSTANCE FoldFacts WITH Op <- shifting

toldAll(d, S) == forNodes(update_model_position_if_needed, d, S)
pushedAll(d, offset, S) == forNodes(LAMBDA e, n : setPos(e, n, e.place[n] + offset), d, S)
shiftedAll(d, from, way, S) == forNodes(LAMBDA e, n : setPos(e, n, from[n] + way), d, S)

LEMMA CanvasFoldsAre ==
  /\ \A d, S : toldAll(d, S) = Telling!Fold(NoItem, d, S)
  /\ \A d, offset, S : pushedAll(d, offset, S) = Pushing!Fold(offset, d, S)
  /\ \A d, from, way, S : shiftedAll(d, from, way, S) = Shifting!Fold(<<from, way>>, d, S)
<1>1. \A d, S : toldAll(d, S) = Telling!Fold(NoItem, d, S)
  BY DEF toldAll, forNodes, telling, Telling!Fold, Telling!FoldSet, Telling!MapThenFoldSet, FoldSet, MapThenFoldSet
<1>2. \A d, offset, S : pushedAll(d, offset, S) = Pushing!Fold(offset, d, S)
  BY DEF pushedAll, forNodes, pushing, Pushing!Fold, Pushing!FoldSet, Pushing!MapThenFoldSet, FoldSet, MapThenFoldSet
<1>3. \A d, from, way, S : shiftedAll(d, from, way, S) = Shifting!Fold(<<from, way>>, d, S)
  BY DEF shiftedAll, forNodes, shifting, Shifting!Fold, Shifting!FoldSet, Shifting!MapThenFoldSet, FoldSet, MapThenFoldSet
<1> QED BY <1>1, <1>2, <1>3

LEMMA CanvasNodesAreFinite == \A S \in SUBSET CanvasNode : IsFiniteSet(S)
BY CanvasConstants, FS_Subset

LEMMA WiresOfOne == \A S : \A n \in S : wiresOf({n}) \subseteq wiresOf(S)
BY DEF wiresOf

LEMMA StaleWires == \A d, n : stale(d, n) \subseteq wiresOf({n}) /\ (~locked(d, n) => stale(d, n) = {})
BY DEF stale

LEMMA PushedNodes ==
  ASSUME NEW P, Spot \subseteq P,
         NEW d, NEW W, NEW F, NEW N, NEW C, Sound(d, P, W, F, N, C),
         NEW S \in SUBSET CanvasNode, NEW offset,
         \A n \in S : d.place[n] + offset \in P /\ (locked(d, n) \/ d.place[n] + offset \in Spot),
         NEW X, W \cup wiresOf(S) \subseteq X,
         NEW G, F \cup {C} \subseteq G, \A n \in S : groupsOf(d, n) \subseteq G,
         NEW M, N \cup S \subseteq M
  PROVE  LET e == pushedAll(d, offset, S)
         IN  Sound(e, P, X, G, M, C) /\ Alike(d, e)
<1>0. IsFiniteSet(S)
  BY CanvasNodesAreFinite
<1>1. PICK g : Pushing!Along(S, offset, d, g) /\ Pushing!Fold(offset, d, S) = g[S]
  BY <1>0, Pushing!FoldAlong DEF Pushing!IsFiniteSet, IsFiniteSet
<1> DEFINE Fine(t, s) == /\ Sound(t, P, X, G, M, C) /\ Alike(d, t)
                         /\ \A n \in CanvasNode \ s : t.place[n] = d.place[n]
           Good == {s \in SUBSET S : Fine(g[s], s)}
<1>2. Fine(d, {})
  <2>1. W \cap CanvasWire \subseteq X /\ F \cap DOMAIN d.groups \subseteq G /\ N \cap CanvasNode \subseteq M
    OBVIOUS
  <2>2. \A n \in CanvasNode : d.place[n] \in P
    BY DEF Sound, DeskIs
  <2>3. Sound(d, P, X, G, M, C)
    BY <2>1, <2>2, Weaken
  <2> QED BY <2>3, AlikeChain
<1>3. ASSUME NEW s \in SUBSET S, NEW x \in S, NEW t, x \notin s, Fine(t, s)
      PROVE  Fine(pushing(offset, x, t), s \cup {x})
  <2> DEFINE p == t.place[x] + offset
             u == setPos(t, x, p)
  <2>1. x \in CanvasNode /\ Sound(t, P, X, G, M, C) /\ Alike(d, t) /\ t.place[x] = d.place[x]
    BY <1>3
  <2>2. /\ groupsOf(t, x) = groupsOf(d, x) /\ (locked(t, x) <=> locked(d, x))
    BY <2>1, AlikeSame
  <2>3. p \in P /\ (locked(t, x) \/ p \in Spot)
    BY <2>1, <2>2
  <2>4. /\ X \cup stale(t, x) \subseteq X /\ (G \cup groupsOf(t, x)) \cup {C} \subseteq G
        /\ M \cup {x} \subseteq M
    BY <2>2, StaleWires, WiresOfOne
  <2> HIDE DEF p, Fine
  <2>5. Sound(u, P, X, G, M, C) /\ Alike(t, u) /\ u.place = replaced(t.place, x, landing(t, x, p))
    BY <2>1, <2>3, <2>4, SettingPos
  <2>6. u = pushing(offset, x, t)
    BY DEF p, pushing
  <2> HIDE DEF u
  <2>7. Alike(d, u)
    BY <2>1, <2>5, AlikeChain
  <2>8. \A n \in CanvasNode \ (s \cup {x}) : u.place[n] = d.place[n]
    <3>1. \A n \in CanvasNode \ s : t.place[n] = d.place[n]
      BY <1>3 DEF Fine
    <3>2. t.place \in [CanvasNode -> P]
      BY <2>1 DEF Sound, DeskIs
    <3> QED BY <2>5, <3>1, <3>2 DEF replaced
  <2> QED BY <2>5, <2>6, <2>7, <2>8 DEF Fine
<1> HIDE DEF Fine
<1>4. {} \in Good
  BY <1>1, <1>2 DEF Pushing!Along
<1>5. \A s \in SUBSET S, x \in S :
        x \notin s /\ s \in Good /\ g[s \cup {x}] = pushing(offset, x, g[s]) => s \cup {x} \in Good
  BY <1>3
<1>6. S \in Good
  <2>1. Good \in SUBSET SUBSET S
    OBVIOUS
  <2> HIDE DEF Good
  <2> QED BY <1>1, <1>4, <1>5, <2>1 DEF Pushing!Along
<1>7. Fine(pushedAll(d, offset, S), S)
  BY <1>1, <1>6, CanvasFoldsAre
<1> QED BY <1>7 DEF Fine

LEMMA Shifted ==
  ASSUME NEW d, NEW W, NEW F, NEW N, NEW C, Sound(d, Spot, W, F, N, C),
         NEW S \in SUBSET CanvasNode, NEW from, NEW way,
         \A n \in S : ~locked(d, n) /\ from[n] + way \in Spot,
         NEW G, F \cup {C} \subseteq G, \A n \in S : groupsOf(d, n) \subseteq G,
         NEW M, N \cup S \subseteq M
  PROVE  LET e == shiftedAll(d, from, way, S)
         IN  Sound(e, Spot, W, G, M, C) /\ Alike(d, e)
<1> DEFINE to == <<from, way>>
<1>0. IsFiniteSet(S)
  BY CanvasNodesAreFinite
<1>1. PICK g : Shifting!Along(S, to, d, g) /\ Shifting!Fold(to, d, S) = g[S]
  <2> HIDE DEF to
  <2> QED BY <1>0, Shifting!FoldAlong DEF Shifting!IsFiniteSet, IsFiniteSet
<1> DEFINE Fine(t) == Sound(t, Spot, W, G, M, C) /\ Alike(d, t)
           Good == {s \in SUBSET S : Fine(g[s])}
<1>2. Fine(d)
  <2>1. W \cap CanvasWire \subseteq W /\ F \cap DOMAIN d.groups \subseteq G /\ N \cap CanvasNode \subseteq M
    OBVIOUS
  <2>2. \A n \in CanvasNode : d.place[n] \in Spot
    BY DEF Sound, DeskIs
  <2>3. Sound(d, Spot, W, G, M, C)
    BY <2>1, <2>2, Weaken
  <2> QED BY <2>3, AlikeChain
<1>3. ASSUME NEW x \in S, NEW t, Fine(t)
      PROVE  Fine(shifting(to, x, t))
  <2> DEFINE p == from[x] + way
             u == setPos(t, x, p)
  <2>1. x \in CanvasNode /\ Sound(t, Spot, W, G, M, C) /\ Alike(d, t)
    BY <1>3
  <2>2. /\ groupsOf(t, x) = groupsOf(d, x) /\ ~locked(t, x)
    BY <2>1, AlikeSame
  <2>3. p \in Spot /\ Spot \subseteq Spot
    OBVIOUS
  <2>4. /\ W \cup stale(t, x) \subseteq W /\ (G \cup groupsOf(t, x)) \cup {C} \subseteq G
        /\ M \cup {x} \subseteq M
    BY <2>2, StaleWires
  <2> HIDE DEF p, Fine
  <2>5. Sound(u, Spot, W, G, M, C) /\ Alike(t, u)
    BY <2>1, <2>3, <2>4, SettingPos
  <2>6. u = shifting(to, x, t)
    BY DEF p, shifting
  <2> HIDE DEF u
  <2>7. Alike(d, u)
    BY <2>1, <2>5, AlikeChain
  <2> QED BY <2>5, <2>6, <2>7 DEF Fine
<1> HIDE DEF Fine, to
<1>4. {} \in Good
  BY <1>1, <1>2 DEF Shifting!Along
<1>5. \A s \in SUBSET S, x \in S :
        x \notin s /\ s \in Good /\ g[s \cup {x}] = shifting(to, x, g[s]) => s \cup {x} \in Good
  BY <1>3
<1>6. S \in Good
  <2>1. Good \in SUBSET SUBSET S
    OBVIOUS
  <2> HIDE DEF Good
  <2> QED BY <1>1, <1>4, <1>5, <2>1 DEF Shifting!Along
<1>7. Fine(shiftedAll(d, from, way, S))
  BY <1>1, <1>6, CanvasFoldsAre DEF to
<1> QED BY <1>7 DEF Fine

LEMMA Told ==
  ASSUME NEW d, NEW W, NEW F, NEW N, NEW C, Sound(d, Spot, W, F, N, C),
         NEW S \in SUBSET CanvasNode,
         NEW X, W \cup wiresOf(S) \subseteq X, NEW G, F \cup {C} \subseteq G,
         NEW M, N \subseteq M \cup S
  PROVE  LET e == toldAll(d, S)
         IN  Sound(e, Spot, X, G, M, C) /\ Alike(d, e)
<1>0. IsFiniteSet(S)
  BY CanvasNodesAreFinite
<1>1. PICK g : Telling!Along(S, NoItem, d, g) /\ Telling!Fold(NoItem, d, S) = g[S]
  BY <1>0, Telling!FoldAlong DEF Telling!IsFiniteSet, IsFiniteSet
<1> DEFINE Fine(t, s) == Sound(t, Spot, X, G, M \cup (S \ s), C) /\ Alike(d, t)
           Good == {s \in SUBSET S : Fine(g[s], s)}
<1>2. Fine(d, {})
  <2> DEFINE L == M \cup (S \ {})
  <2>1. W \cap CanvasWire \subseteq X /\ F \cap DOMAIN d.groups \subseteq G /\ N \cap CanvasNode \subseteq L
    OBVIOUS
  <2>2. \A n \in CanvasNode : d.place[n] \in Spot
    BY DEF Sound, DeskIs
  <2> HIDE DEF L
  <2>3. Sound(d, Spot, X, G, L, C)
    BY <2>1, <2>2, Weaken
  <2> QED BY <2>3, AlikeChain DEF L
<1>3. ASSUME NEW s \in SUBSET S, NEW x \in S, NEW t, Fine(t, s)
      PROVE  Fine(telling(NoItem, x, t), s \cup {x})
  <2> DEFINE u == update_model_position_if_needed(t, x)
             K == M \cup (S \ s)
             L == M \cup (S \ (s \cup {x}))
  <2>1. x \in CanvasNode /\ Sound(t, Spot, X, G, K, C) /\ Alike(d, t)
    BY <1>3
  <2>2. /\ X \cup (IF t.at[x] = t.place[x] THEN {} ELSE stale(t, x)) \subseteq X
        /\ K \subseteq L \cup {x}
    BY StaleWires, WiresOfOne
  <2>3. \/ t.at[x] = t.place[x] /\ G \subseteq G
        \/ t.at[x] # t.place[x] /\ G \cup {C} \subseteq G \cup groupsOf(t, x)
    OBVIOUS
  <2> HIDE DEF K, L, Fine
  <2>4. Sound(u, Spot, X, G, L, C) /\ Alike(t, u)
    BY <2>1, <2>2, <2>3, TellingModel
  <2> HIDE DEF u
  <2>5. Alike(d, u)
    BY <2>1, <2>4, AlikeChain
  <2> QED BY <2>4, <2>5 DEF Fine, telling, u, L
<1> HIDE DEF Fine
<1>4. {} \in Good
  BY <1>1, <1>2 DEF Telling!Along
<1>5. \A s \in SUBSET S, x \in S :
        x \notin s /\ s \in Good /\ g[s \cup {x}] = telling(NoItem, x, g[s]) => s \cup {x} \in Good
  BY <1>3
<1>6. S \in Good
  <2>1. Good \in SUBSET SUBSET S
    OBVIOUS
  <2> HIDE DEF Good
  <2> QED BY <1>1, <1>4, <1>5, <2>1 DEF Telling!Along
<1>7. Fine(toldAll(d, S), S)
  BY <1>1, <1>6, CanvasFoldsAre
<1>8. M \cup (S \ S) = M
  OBVIOUS
<1> QED BY <1>7, <1>8 DEF Fine

\* Groups are replaced: a frame may be wrong where it was, or where the group
\* has other members or another child.
LEMMA Regrouping ==
  ASSUME NEW d, NEW P, NEW W, NEW F, NEW N, NEW C, Sound(d, P, W, F, N, C),
         NEW H, GroupsAre(H),
         NEW K, \A g \in DOMAIN H \ {K} : H[g].child = NoItem,
         NEW G, \A g \in DOMAIN H \ G :
                  /\ g \in DOMAIN d.groups \ F /\ H[g].nodes = d.groups[g].nodes
                  /\ H[g].child = d.groups[g].child /\ H[g].frame = d.groups[g].frame
  PROVE  LET e == grouped(d, H)
         IN  Sound(e, P, W, G, N, K) /\ e.groups = H /\ e.place = d.place
<1> DEFINE e == grouped(d, H)
<1>1. /\ e.at = d.at /\ e.extent = d.extent /\ e.place = d.place /\ e.ends = d.ends /\ e.groups = H
      /\ e = Desk(e.at, e.extent, e.place, e.ends, e.groups)
  BY UpdatesAre, FieldsOf DEF Sound
<1> HIDE DEF e
<1>2. DeskIs(e, P)
  BY <1>1 DEF DeskIs, Sound
<1>3. WiresOk(e, W) /\ PlacesOk(e, N) /\ ChildrenOk(e, K)
  BY <1>1 DEF Sound, WiresOk, PlacesOk, ChildrenOk, portsOf
<1>4. FramesOk(e, G)
  <2> SUFFICES ASSUME NEW g \in DOMAIN H \ G PROVE e.groups[g].frame = computeGroupRect(e, g)
    BY <1>1 DEF FramesOk
  <2>1. d.groups[g].frame = computeGroupRect(d, g)
    BY DEF Sound, FramesOk
  <2>2. e.groups[g].nodes = d.groups[g].nodes /\ e.groups[g].child = d.groups[g].child
    BY <1>1
  <2>3. \A m \in d.groups[g].nodes \cup ({d.groups[g].child} \ {NoItem}) :
          e.place[m] = d.place[m] /\ e.extent[m] = d.extent[m]
    BY <1>1
  <2>4. computeGroupRect(e, g) = computeGroupRect(d, g)
    BY <2>2, <2>3, RectSame
  <2> QED BY <1>1, <2>1, <2>4
<1> QED BY <1>1, <1>2, <1>3, <1>4 DEF Sound, e

\* One group is replaced by another with the same name.
LEMMA ReplacedGroups ==
  ASSUME NEW A, GroupsAre(A), NEW g \in DOMAIN A, NEW r, GroupIs(r),
         \A h \in DOMAIN A \ {g} : r.nodes \cap A[h].nodes = {}
  PROVE  LET H == replaced(A, g, r)
         IN  /\ GroupsAre(H) /\ DOMAIN H = DOMAIN A
             /\ H[g] = r /\ \A h \in DOMAIN A \ {g} : H[h] = A[h]
<1> DEFINE H == replaced(A, g, r)
<1>1. DOMAIN H = DOMAIN A /\ H = [h \in DOMAIN H |-> H[h]]
  BY DEF replaced
<1>2. H[g] = r /\ \A h \in DOMAIN A \ {g} : H[h] = A[h]
  BY DEF replaced
<1> HIDE DEF H
<1>3. \A h \in DOMAIN H : GroupIs(H[h])
  BY <1>1, <1>2 DEF GroupsAre
<1>4. ASSUME NEW h \in DOMAIN H, NEW k \in DOMAIN H, h # k
      PROVE  H[h].nodes \cap H[k].nodes = {}
  <2>1. CASE h = g
    BY <2>1, <1>1, <1>2, <1>4
  <2>2. CASE k = g
    BY <2>2, <1>1, <1>2, <1>4
  <2>3. CASE h # g /\ k # g
    BY <2>3, <1>1, <1>2, <1>4 DEF GroupsAre
  <2> QED BY <2>1, <2>2, <2>3
<1>5. GroupsAre(H)
  BY <1>1, <1>3, <1>4 DEF GroupsAre
<1> QED BY <1>1, <1>2, <1>5 DEF H

childSet(d, g, n) == [d EXCEPT !.groups[g].child = n]
membersSet(d, g, ns) == [d EXCEPT !.groups[g].nodes = ns]

LEMMA GroupFieldUpdates ==
  ASSUME NEW d, NEW P, DeskIs(d, P), NEW g \in DOMAIN d.groups, NEW v
  PROVE  LET r == d.groups[g]
         IN  /\ childSet(d, g, v) = grouped(d, replaced(d.groups, g, GroupItem(r.nodes, r.locked, v, r.frame)))
             /\ membersSet(d, g, v) = grouped(d, replaced(d.groups, g, GroupItem(v, r.locked, r.child, r.frame)))
             /\ setLock(d, g, v) = grouped(d, replaced(d.groups, g, GroupItem(r.nodes, v, r.child, r.frame)))
<1>1. d = Desk(d.at, d.extent, d.place, d.ends, d.groups) /\ GroupIs(d.groups[g])
  BY DEF DeskIs, GroupsAre
<1> DEFINE r == d.groups[g]
<1>2. /\ childSet(d, g, v) = grouped(d, replaced(d.groups, g, [r EXCEPT !.child = v]))
      /\ membersSet(d, g, v) = grouped(d, replaced(d.groups, g, [r EXCEPT !.nodes = v]))
      /\ setLock(d, g, v) = grouped(d, replaced(d.groups, g, [r EXCEPT !.locked = v]))
  <2>1. ASSUME NEW a, NEW x, NEW p, NEW e, NEW A, d = Desk(a, x, p, e, A)
        PROVE  /\ childSet(d, g, v) = grouped(d, replaced(A, g, [A[g] EXCEPT !.child = v]))
               /\ membersSet(d, g, v) = grouped(d, replaced(A, g, [A[g] EXCEPT !.nodes = v]))
               /\ setLock(d, g, v) = grouped(d, replaced(A, g, [A[g] EXCEPT !.locked = v]))
    BY <2>1 DEF Desk, childSet, membersSet, setLock, grouped, replaced
  <2> QED BY <2>1, <1>1
<1>3. /\ [r EXCEPT !.nodes = v] = GroupItem(v, r.locked, r.child, r.frame)
      /\ [r EXCEPT !.locked = v] = GroupItem(r.nodes, v, r.child, r.frame)
      /\ [r EXCEPT !.child = v] = GroupItem(r.nodes, r.locked, v, r.frame)
  BY <1>1, GroupUpdates
<1> QED BY <1>2, <1>3

LEMMA SettingChild ==
  ASSUME NEW d, NEW P, NEW W, NEW F, NEW N, NEW C, Sound(d, P, W, F, N, C),
         NEW g \in DOMAIN d.groups, C \in {NoItem, g}, NEW n \in CanvasNode \cup {NoItem},
         NEW K, K = g \/ n = NoItem,
         NEW G, F \subseteq G \cup {g}
  PROVE  LET e == setPossibleChild(d, g, n)
         IN  Sound(e, P, W, G, N, K) /\ Alike(d, e) /\ e.place = d.place
<1> DEFINE q == d.groups[g]
           r == GroupItem(q.nodes, q.locked, n, q.frame)
           H == replaced(d.groups, g, r)
           f == grouped(d, H)
           e == updateGroupGeometry(f, {g})
           Y == F \cup {g}
<1>1. setPossibleChild(d, g, n) = e
  BY GroupFieldUpdates DEF Sound, setPossibleChild, childSet
<1>2. GroupsAre(d.groups) /\ GroupIs(q)
  BY DEF Sound, DeskIs, GroupsAre
<1>3. r.nodes = q.nodes /\ r.locked = q.locked /\ r.child = n /\ r.frame = q.frame
  BY GroupFields
<1>4. GroupIs(r)
  BY <1>2, <1>3 DEF GroupIs
<1>5. \A h \in DOMAIN d.groups \ {g} : r.nodes \cap d.groups[h].nodes = {}
  BY <1>2, <1>3 DEF GroupsAre
<1> HIDE DEF r
<1>6. GroupsAre(H) /\ DOMAIN H = DOMAIN d.groups /\ H[g] = r
      /\ \A h \in DOMAIN d.groups \ {g} : H[h] = d.groups[h]
  BY <1>2, <1>4, <1>5, ReplacedGroups
<1> HIDE DEF H
<1>7. \A h \in DOMAIN H \ {K} : H[h].child = NoItem
  <2>1. \A h \in DOMAIN d.groups : h # NoItem
    BY <1>2, CanvasConstants DEF GroupsAre
  <2>2. \A h \in DOMAIN d.groups \ {g} : d.groups[h].child = NoItem
    BY <2>1 DEF Sound, ChildrenOk
  <2> QED BY <1>3, <1>6, <2>2
<1>8. \A h \in DOMAIN H \ Y : /\ h \in DOMAIN d.groups \ F /\ H[h].nodes = d.groups[h].nodes
                              /\ H[h].child = d.groups[h].child /\ H[h].frame = d.groups[h].frame
  BY <1>6
<1>9. Y \subseteq G \cup {g}
  OBVIOUS
<1> HIDE DEF Y
<1>10. Sound(f, P, W, Y, N, K) /\ f.groups = H /\ f.place = d.place
  BY <1>6, <1>7, <1>8, Regrouping
<1> HIDE DEF f
<1>11. Sound(e, P, W, G, N, K) /\ Alike(f, e) /\ e.place = f.place
  BY <1>9, <1>10, Updating
<1> HIDE DEF e
<1>12. Alike(d, f)
  BY <1>3, <1>6, <1>10 DEF Alike
<1>13. Alike(d, e)
  BY <1>11, <1>12, AlikeChain
<1> QED BY <1>1, <1>10, <1>11, <1>13

LEMMA Joining ==
  ASSUME NEW d, NEW P, NEW W, NEW F, NEW N, NEW C, Sound(d, P, W, F, N, C),
         NEW g \in DOMAIN d.groups, NEW n \in CanvasNode, groupsOf(d, n) = {},
         NEW G, F \subseteq G \cup {g}
  PROVE  LET e == joinGroup(d, n, g)
         IN  /\ Sound(e, P, W, G, N, C) /\ e.place = d.place /\ DOMAIN e.groups = DOMAIN d.groups
             /\ e.groups[g].nodes = d.groups[g].nodes \cup {n}
             /\ \A h \in DOMAIN d.groups : e.groups[h].locked = d.groups[h].locked
             /\ \A h \in DOMAIN d.groups \ {g} : e.groups[h].nodes = d.groups[h].nodes
<1> DEFINE q == d.groups[g]
           ns == q.nodes \cup {n}
           r == GroupItem(ns, q.locked, q.child, q.frame)
           H == replaced(d.groups, g, r)
           f == grouped(d, H)
           e == updateGroupGeometry(f, {g})
           Y == F \cup {g}
<1>1. joinGroup(d, n, g) = e
  <2>1. joinGroup(d, n, g) = updateGroupGeometry(membersSet(d, g, ns), {g})
    <3>1. d.groups = [h \in DOMAIN d.groups |-> d.groups[h]] /\ d = Desk(d.at, d.extent, d.place, d.ends, d.groups)
      BY DEF Sound, DeskIs, GroupsAre
    <3> QED BY <3>1 DEF joinGroup, membersSet, Desk
  <2>2. membersSet(d, g, ns) = f
    <3> HIDE DEF ns
    <3> QED BY GroupFieldUpdates DEF Sound
  <2> QED BY <2>1, <2>2
<1>2. GroupsAre(d.groups) /\ GroupIs(q)
  BY DEF Sound, DeskIs, GroupsAre
<1>3. r.nodes = ns /\ r.locked = q.locked /\ r.child = q.child /\ r.frame = q.frame
  BY GroupFields
<1>4. GroupIs(r)
  BY <1>2, <1>3 DEF GroupIs
<1>5. \A h \in DOMAIN d.groups \ {g} : r.nodes \cap d.groups[h].nodes = {}
  <2>1. \A h \in DOMAIN d.groups : n \notin d.groups[h].nodes
    BY DEF groupsOf
  <2>2. \A h \in DOMAIN d.groups \ {g} : q.nodes \cap d.groups[h].nodes = {}
    BY <1>2 DEF GroupsAre
  <2> QED BY <1>3, <2>1, <2>2
<1> HIDE DEF r
<1>6. GroupsAre(H) /\ DOMAIN H = DOMAIN d.groups /\ H[g] = r
      /\ \A h \in DOMAIN d.groups \ {g} : H[h] = d.groups[h]
  BY <1>2, <1>4, <1>5, ReplacedGroups
<1> HIDE DEF H
<1>7. \A h \in DOMAIN H \ {C} : H[h].child = NoItem
  BY <1>3, <1>6 DEF Sound, ChildrenOk
<1>8. \A h \in DOMAIN H \ Y : /\ h \in DOMAIN d.groups \ F /\ H[h].nodes = d.groups[h].nodes
                              /\ H[h].child = d.groups[h].child /\ H[h].frame = d.groups[h].frame
  BY <1>6
<1>9. Y \subseteq G \cup {g}
  OBVIOUS
<1> HIDE DEF Y
<1>10. Sound(f, P, W, Y, N, C) /\ f.groups = H /\ f.place = d.place
  BY <1>6, <1>7, <1>8, Regrouping
<1> HIDE DEF f
<1>11. Sound(e, P, W, G, N, C) /\ Alike(f, e) /\ e.place = f.place
  BY <1>9, <1>10, Updating
<1> HIDE DEF e
<1> QED BY <1>1, <1>3, <1>6, <1>10, <1>11 DEF Alike

\* The groups after a node has left its own.
without(A, n) ==
  [g \in DOMAIN A |->
     IF n \in A[g].nodes THEN GroupItem(A[g].nodes \ {n}, A[g].locked, A[g].child, A[g].frame) ELSE A[g]]
filled(A) == {g \in DOMAIN A : A[g].nodes # {}}
remaining(A, n) == Restrict(without(A, n), filled(without(A, n)))

leftBy(d, n) ==
  [g \in DOMAIN d.groups |-> IF g \in groupsOf(d, n) THEN left(d.groups[g], n) ELSE d.groups[g]]
restricted(d, gs) == [d EXCEPT !.groups = Restrict(@, gs)]

LEMMA DetachedIs ==
  ASSUME NEW d, NEW P, DeskIs(d, P), NEW n
  PROVE  detached(d, n) =
           updateGroupGeometry(grouped(d, remaining(d.groups, n)),
                               groupsOf(d, n) \cap filled(without(d.groups, n)))
<1> DEFINE A == d.groups
           gs == groupsOf(d, n)
           Out == leftBy(d, n)
           out == grouped(d, Out)
           kept == filled(out.groups)
<1>1. detached(d, n) = updateGroupGeometry(restricted(out, kept), gs \cap kept)
  <2>1. [d EXCEPT !.groups = [g \in DOMAIN @ |-> IF g \in gs THEN left(@[g], n) ELSE @[g]]] = out
    BY DEF grouped, leftBy
  <2> HIDE DEF out
  <2>2. kept = {g \in DOMAIN out.groups : out.groups[g].nodes # {}}
    BY DEF filled
  <2> HIDE DEF gs
  <2>3. detached(d, n) = LET kk == {g \in DOMAIN out.groups : out.groups[g].nodes # {}}
                         IN updateGroupGeometry(restricted(out, kk), gs \cap kk)
    BY <2>1 DEF detached, restricted, gs
  <2> HIDE DEF kept
  <2> QED BY <2>2, <2>3
<1>2. Out = without(A, n)
  <2>1. ASSUME NEW g \in gs
        PROVE  left(A[g], n) = GroupItem(A[g].nodes \ {n}, A[g].locked, A[g].child, A[g].frame)
    <3>1. GroupIs(A[g])
      BY DEF DeskIs, GroupsAre, groupsOf
    <3>2. ASSUME NEW a, NEW b, NEW c, NEW f, NEW r, r = GroupItem(a, b, c, f)
          PROVE  left(r, n) = GroupItem(a \ {n}, b, c, f)
      BY <3>2 DEF GroupItem, left
    <3> HIDE DEF A
    <3> QED BY <3>1, <3>2 DEF GroupIs
  <2>2. \A g \in DOMAIN A : g \in gs <=> n \in A[g].nodes
    BY DEF groupsOf
  <2> HIDE DEF A, gs
  <2> QED BY <2>1, <2>2 DEF without, leftBy, A, gs
<1> HIDE DEF Out
<1>3. out = Desk(d.at, d.extent, d.place, d.ends, Out)
  BY UpdatesAre
<1>4. out.groups = Out
  BY <1>3, FieldsOf
<1>5. restricted(out, kept) = grouped(d, Restrict(Out, kept))
  <2>1. d = Desk(d.at, d.extent, d.place, d.ends, d.groups)
    BY DEF DeskIs
  <2> HIDE DEF kept, A
  <2>2. restricted(out, kept) = Desk(d.at, d.extent, d.place, d.ends, Restrict(Out, kept))
    <3> HIDE DEF out
    <3> QED BY <1>3, <1>4 DEF Desk, restricted
  <2>3. grouped(d, Restrict(Out, kept)) = Desk(d.at, d.extent, d.place, d.ends, Restrict(Out, kept))
    BY UpdatesAre
  <2> QED BY <2>2, <2>3
<1>6. kept = filled(without(A, n))
  BY <1>2, <1>4
<1> QED BY <1>1, <1>2, <1>5, <1>6 DEF remaining

LEMMA Remaining ==
  ASSUME NEW A, GroupsAre(A), NEW n
  PROVE  LET H == remaining(A, n)
         IN  /\ GroupsAre(H) /\ DOMAIN H = filled(without(A, n))
             /\ \A g : g \in DOMAIN H <=> g \in DOMAIN A /\ A[g].nodes \ {n} # {}
             /\ \A g \in DOMAIN H :
                  /\ H[g].nodes = A[g].nodes \ {n} /\ H[g].locked = A[g].locked
                  /\ H[g].child = A[g].child /\ H[g].frame = A[g].frame
<1> DEFINE B == without(A, n)
           H == remaining(A, n)
<1>1. \A g \in DOMAIN A : GroupIs(A[g])
  BY DEF GroupsAre
<1>2. DOMAIN B = DOMAIN A
  BY DEF without
<1>3. \A g \in DOMAIN A : /\ B[g].nodes = A[g].nodes \ {n} /\ B[g].locked = A[g].locked
                          /\ B[g].child = A[g].child /\ B[g].frame = A[g].frame
                          /\ B[g] = GroupItem(B[g].nodes, B[g].locked, B[g].child, B[g].frame)
  <2> SUFFICES ASSUME NEW g \in DOMAIN A
               PROVE /\ B[g].nodes = A[g].nodes \ {n} /\ B[g].locked = A[g].locked
                     /\ B[g].child = A[g].child /\ B[g].frame = A[g].frame
                     /\ B[g] = GroupItem(B[g].nodes, B[g].locked, B[g].child, B[g].frame)
    OBVIOUS
  <2>1. CASE n \in A[g].nodes
    <3> DEFINE ms == A[g].nodes \ {n}
    <3>1. B[g] = GroupItem(ms, A[g].locked, A[g].child, A[g].frame)
      BY <2>1 DEF without
    <3> HIDE DEF ms, B
    <3>2. B[g].nodes = ms /\ B[g].locked = A[g].locked /\ B[g].child = A[g].child /\ B[g].frame = A[g].frame
      BY <3>1, GroupFields
    <3> QED BY <3>1, <3>2 DEF ms
  <2>2. CASE n \notin A[g].nodes
    <3>1. B[g] = A[g] /\ A[g].nodes \ {n} = A[g].nodes
      BY <2>2 DEF without
    <3> HIDE DEF B
    <3> QED BY <3>1, <1>1 DEF GroupIs
  <2> QED BY <2>1, <2>2
<1> HIDE DEF B
<1>4. H = [g \in filled(B) |-> B[g]]
  BY DEF remaining, Restrict, B
<1>5. DOMAIN H = filled(B) /\ filled(B) \subseteq DOMAIN A
      /\ \A g \in filled(B) : H[g] = B[g] /\ B[g].nodes # {}
  BY <1>4, <1>2 DEF filled
<1>6. filled(B) = {g \in DOMAIN A : A[g].nodes \ {n} # {}}
  BY <1>2, <1>3 DEF filled
<1> HIDE DEF H
<1>7. \A g \in DOMAIN H : GroupIs(H[g])
  <2> SUFFICES ASSUME NEW g \in DOMAIN H PROVE GroupIs(H[g])
    OBVIOUS
  <2>1. g \in DOMAIN A /\ H[g] = B[g] /\ B[g].nodes # {} /\ GroupIs(A[g])
    BY <1>1, <1>5
  <2>2. B[g].nodes \in (SUBSET CanvasNode) \ {{}}
    BY <2>1, <1>3 DEF GroupIs
  <2> QED BY <2>1, <2>2, <1>3 DEF GroupIs
<1>8. \A g, h \in DOMAIN H : g # h => H[g].nodes \cap H[h].nodes = {}
  <2>1. \A g, h \in DOMAIN A : g # h => A[g].nodes \cap A[h].nodes = {}
    BY DEF GroupsAre
  <2> QED BY <2>1, <1>3, <1>5
<1>9. GroupsAre(H)
  <2>1. H = [g \in DOMAIN H |-> H[g]] /\ DOMAIN H \subseteq CanvasGroup
    BY <1>4, <1>5 DEF GroupsAre
  <2> QED BY <2>1, <1>7, <1>8 DEF GroupsAre
<1> QED BY <1>3, <1>5, <1>6, <1>9 DEF H, B

\* The node has left its groups, and those it was alone in are gone.
LeftGroups(d, e, n) ==
  /\ e.place = d.place
  /\ \A g : g \in DOMAIN e.groups <=> g \in DOMAIN d.groups /\ d.groups[g].nodes \ {n} # {}
  /\ \A g \in DOMAIN e.groups : /\ e.groups[g].nodes = d.groups[g].nodes \ {n}
                                /\ e.groups[g].locked = d.groups[g].locked

LEMMA Detaching ==
  ASSUME NEW d, NEW P, NEW W, NEW F, NEW N, Sound(d, P, W, F, N, NoItem), NEW n,
         NEW G, F \subseteq G \cup groupsOf(d, n)
  PROVE  LET e == detached(d, n)
         IN  Sound(e, P, W, G, N, NoItem) /\ LeftGroups(d, e, n)
<1> DEFINE A == d.groups
           H == remaining(A, n)
           kept == filled(without(A, n))
           gs == groupsOf(d, n)
           us == gs \cap kept
           f == grouped(d, H)
           e == updateGroupGeometry(f, us)
           Y == (F \cup gs) \cap kept
<1>1. detached(d, n) = e
  BY DetachedIs DEF Sound
<1>2. /\ GroupsAre(H) /\ DOMAIN H = kept
      /\ \A g : g \in DOMAIN H <=> g \in DOMAIN A /\ A[g].nodes \ {n} # {}
      /\ \A g \in DOMAIN H : /\ H[g].nodes = A[g].nodes \ {n} /\ H[g].locked = A[g].locked
                             /\ H[g].child = A[g].child /\ H[g].frame = A[g].frame
  <2>1. GroupsAre(A)
    BY DEF Sound, DeskIs
  <2> HIDE DEF A
  <2> QED BY <2>1, Remaining
<1> HIDE DEF H, kept
<1>3. \A g \in DOMAIN H : g \in DOMAIN A /\ g # NoItem
  <2>1. DOMAIN A \subseteq CanvasGroup
    BY DEF Sound, DeskIs, GroupsAre
  <2> QED BY <2>1, <1>2, CanvasConstants
<1>4. \A g \in DOMAIN H \ {NoItem} : H[g].child = NoItem
  BY <1>2, <1>3 DEF Sound, ChildrenOk
<1>5. \A g \in DOMAIN A \ gs : A[g].nodes \ {n} = A[g].nodes
  BY DEF groupsOf
<1>6. \A g \in DOMAIN H \ Y : /\ g \in DOMAIN d.groups \ F /\ H[g].nodes = d.groups[g].nodes
                              /\ H[g].child = d.groups[g].child /\ H[g].frame = d.groups[g].frame
  BY <1>2, <1>3, <1>5
<1>7. Y \subseteq G \cup us
  OBVIOUS
<1> HIDE DEF Y, us
<1>8. Sound(f, P, W, Y, N, NoItem) /\ f.groups = H /\ f.place = d.place
  BY <1>2, <1>4, <1>6, Regrouping
<1> HIDE DEF f
<1>9. Sound(e, P, W, G, N, NoItem) /\ Alike(f, e) /\ e.place = f.place
  BY <1>7, <1>8, Updating
<1> HIDE DEF e
<1>10. LeftGroups(d, e, n)
  BY <1>2, <1>8, <1>9 DEF Alike, LeftGroups
<1> QED BY <1>1, <1>9, <1>10

detaching(unused, n, d) == detached(d, n)
Detach == INSTANCE FoldFacts WITH Op <- detaching

detachedAll(d, S) == forNodes(detached, d, S)

\* The groups of a desk that have a node in S.
groupsOfAny(d, S) == {g \in DOMAIN d.groups : d.groups[g].nodes \cap S # {}}

LEMMA DetachedAll ==
  ASSUME NEW d, NEW P, NEW W, NEW F, NEW N, Sound(d, P, W, F, N, NoItem), NEW S \in SUBSET CanvasNode,
         NEW G, F \subseteq G \cup groupsOfAny(d, S)
  PROVE  LET e == detachedAll(d, S)
         IN  /\ Sound(e, P, W, G, N, NoItem) /\ e.place = d.place
             /\ DOMAIN e.groups \subseteq DOMAIN d.groups
             /\ \A g \in DOMAIN e.groups : e.groups[g].nodes = d.groups[g].nodes \ S
<1>0. IsFiniteSet(S)
  BY CanvasNodesAreFinite
<1>1. PICK g : Detach!Along(S, NoItem, d, g) /\ Detach!Fold(NoItem, d, S) = g[S]
  BY <1>0, Detach!FoldAlong DEF Detach!IsFiniteSet, IsFiniteSet
<1> DEFINE Stale(t, s) == (F \ groupsOfAny(d, s)) \cap DOMAIN t.groups
           Fine(t, s) == /\ Sound(t, P, W, Stale(t, s), N, NoItem) /\ t.place = d.place
                         /\ DOMAIN t.groups \subseteq DOMAIN d.groups
                         /\ \A h \in DOMAIN t.groups : t.groups[h].nodes = d.groups[h].nodes \ s
           Good == {s \in SUBSET S : Fine(g[s], s)}
<1>2. Fine(d, {})
  <2> DEFINE L == Stale(d, {})
  <2>1. W \cap CanvasWire \subseteq W /\ F \cap DOMAIN d.groups \subseteq L /\ N \cap CanvasNode \subseteq N
    BY DEF groupsOfAny
  <2>2. \A n \in CanvasNode : d.place[n] \in P
    BY DEF Sound, DeskIs
  <2> HIDE DEF L
  <2>3. Sound(d, P, W, L, N, NoItem)
    BY <2>1, <2>2, Weaken
  <2> QED BY <2>3 DEF L
<1>3. ASSUME NEW s \in SUBSET S, NEW x \in S, NEW t, x \notin s, Fine(t, s)
      PROVE  Fine(detaching(NoItem, x, t), s \cup {x})
  <2> DEFINE u == detached(t, x)
             K == Stale(t, s)
             T == (F \ groupsOfAny(d, s \cup {x})) \cap DOMAIN t.groups
             L == Stale(u, s \cup {x})
  <2>1. /\ Sound(t, P, W, K, N, NoItem) /\ t.place = d.place
        /\ DOMAIN t.groups \subseteq DOMAIN d.groups
        /\ \A h \in DOMAIN t.groups : t.groups[h].nodes = d.groups[h].nodes \ s
    BY <1>3
  <2>2. K \subseteq T \cup groupsOf(t, x)
    <3> SUFFICES ASSUME NEW h \in K, h \notin T PROVE h \in groupsOf(t, x)
      OBVIOUS
    <3>1. h \in DOMAIN t.groups /\ h \in DOMAIN d.groups /\ h \in F
      BY <2>1
    <3>2. d.groups[h].nodes \cap s = {} /\ d.groups[h].nodes \cap (s \cup {x}) # {}
      BY <3>1 DEF groupsOfAny
    <3>3. x \in t.groups[h].nodes
      BY <3>1, <3>2, <2>1, <1>3
    <3> QED BY <3>1, <3>3 DEF groupsOf
  <2> HIDE DEF K, T, Fine
  <2>3. Sound(u, P, W, T, N, NoItem) /\ LeftGroups(t, u, x)
    BY <2>1, <2>2, Detaching
  <2> HIDE DEF u
  <2>4. T \cap DOMAIN u.groups \subseteq L /\ W \cap CanvasWire \subseteq W /\ N \cap CanvasNode \subseteq N
    BY DEF T
  <2>5. \A n \in CanvasNode : u.place[n] \in P
    BY <2>3 DEF Sound, DeskIs
  <2> HIDE DEF L
  <2>6. Sound(u, P, W, L, N, NoItem)
    BY <2>3, <2>4, <2>5, Weaken
  <2>7. DOMAIN u.groups \subseteq DOMAIN d.groups
        /\ \A h \in DOMAIN u.groups : u.groups[h].nodes = d.groups[h].nodes \ (s \cup {x})
    BY <2>1, <2>3 DEF LeftGroups
  <2> QED BY <2>1, <2>3, <2>6, <2>7 DEF Fine, L, u, detaching, LeftGroups
<1> HIDE DEF Fine
<1>4. {} \in Good
  BY <1>1, <1>2 DEF Detach!Along
<1>5. \A s \in SUBSET S, x \in S :
        x \notin s /\ s \in Good /\ g[s \cup {x}] = detaching(NoItem, x, g[s]) => s \cup {x} \in Good
  BY <1>3
<1>6. S \in Good
  <2>1. Good \in SUBSET SUBSET S
    OBVIOUS
  <2> HIDE DEF Good
  <2> QED BY <1>1, <1>4, <1>5, <2>1 DEF Detach!Along
<1> DEFINE e == detachedAll(d, S)
<1>7. e = Detach!Fold(NoItem, d, S)
  BY DEF detachedAll, forNodes, detaching, Detach!Fold, Detach!FoldSet, Detach!MapThenFoldSet, FoldSet, MapThenFoldSet
<1> HIDE DEF e
<1>8. Fine(e, S)
  BY <1>1, <1>6, <1>7
<1>9. Sound(e, P, W, G, N, NoItem)
  <2> DEFINE L == Stale(e, S)
  <2>1. Sound(e, P, W, L, N, NoItem)
    BY <1>8 DEF Fine
  <2>2. L \cap DOMAIN e.groups \subseteq G /\ W \cap CanvasWire \subseteq W /\ N \cap CanvasNode \subseteq N
    OBVIOUS
  <2>3. \A n \in CanvasNode : e.place[n] \in P
    BY <2>1 DEF Sound, DeskIs
  <2> HIDE DEF L
  <2> QED BY <2>1, <2>2, <2>3, Weaken
<1> QED BY <1>8, <1>9 DEF Fine, e

\* Frames are moved.
LEMMA Reframing ==
  ASSUME NEW d, NEW P, NEW W, NEW F, NEW N, NEW C, Sound(d, P, W, F, N, C),
         NEW H, H = [g \in DOMAIN d.groups |-> H[g]],
         NEW G, F \subseteq G,
         \A g \in DOMAIN d.groups :
           /\ H[g] = GroupItem(H[g].nodes, H[g].locked, H[g].child, H[g].frame)
           /\ H[g].nodes = d.groups[g].nodes /\ H[g].locked = d.groups[g].locked
           /\ H[g].child = d.groups[g].child
           /\ g \in G \/ H[g].frame = d.groups[g].frame
  PROVE  LET e == grouped(d, H)
         IN  Sound(e, P, W, G, N, C) /\ Alike(d, e) /\ e.place = d.place
<1> DEFINE A == d.groups
           e == grouped(d, H)
<1>1. GroupsAre(A) /\ DOMAIN H = DOMAIN A /\ \A g \in DOMAIN A : GroupIs(A[g])
  BY DEF Sound, DeskIs, GroupsAre
<1>2. GroupsAre(H)
  <2>1. \A g \in DOMAIN A : H[g].locked \in BOOLEAN /\ H[g].child \in CanvasNode \cup {NoItem}
    BY <1>1 DEF GroupIs
  <2> QED BY <1>1, <2>1, StillGroups
<1>3. \A g \in DOMAIN H \ {C} : H[g].child = NoItem
  BY <1>1 DEF Sound, ChildrenOk
<1>4. \A g \in DOMAIN H \ G : /\ g \in DOMAIN d.groups \ F /\ H[g].nodes = d.groups[g].nodes
                              /\ H[g].child = d.groups[g].child /\ H[g].frame = d.groups[g].frame
  BY <1>1
<1>5. Sound(e, P, W, G, N, C) /\ e.groups = H /\ e.place = d.place
  BY <1>2, <1>3, <1>4, Regrouping
<1> HIDE DEF e
<1>6. Alike(d, e)
  BY <1>1, <1>5 DEF Alike
<1> QED BY <1>5, <1>6 DEF e

\* The frames of the groups among the items go with them.
framesBy(A, items, way) == [g \in DOMAIN A |-> IF g \in items THEN shifted(A[g], way) ELSE A[g]]

LEMMA FramesBy ==
  ASSUME NEW d, NEW P, NEW W, NEW F, NEW N, NEW C, Sound(d, P, W, F, N, C),
         NEW items, NEW way, NEW G, F \subseteq G, items \cap DOMAIN d.groups \subseteq G
  PROVE  LET e == grouped(d, framesBy(d.groups, items, way))
         IN  Sound(e, P, W, G, N, C) /\ Alike(d, e) /\ e.place = d.place
<1> DEFINE A == d.groups
           H == framesBy(A, items, way)
<1>1. \A g \in DOMAIN A : GroupIs(A[g])
  BY DEF Sound, DeskIs, GroupsAre
<1>2. H = [g \in DOMAIN A |-> H[g]]
  BY DEF framesBy
<1>3. \A g \in DOMAIN A :
           /\ H[g] = GroupItem(H[g].nodes, H[g].locked, H[g].child, H[g].frame)
           /\ H[g].nodes = A[g].nodes /\ H[g].locked = A[g].locked
           /\ H[g].child = A[g].child
           /\ g \in G \/ H[g].frame = A[g].frame
  <2> SUFFICES ASSUME NEW g \in DOMAIN A
               PROVE /\ H[g] = GroupItem(H[g].nodes, H[g].locked, H[g].child, H[g].frame)
                     /\ H[g].nodes = A[g].nodes /\ H[g].locked = A[g].locked
                     /\ H[g].child = A[g].child
                     /\ g \in G \/ H[g].frame = A[g].frame
    OBVIOUS
  <2>1. CASE g \in items
    <3>1. H[g] = shifted(A[g], way) /\ g \in G
      BY <2>1 DEF framesBy
    <3>2. ASSUME NEW a, NEW b, NEW c, NEW f, NEW r, r = GroupItem(a, b, c, f)
          PROVE  /\ shifted(r, way) = GroupItem(a, b, c, shifted(r, way).frame)
                 /\ shifted(r, way).nodes = a /\ shifted(r, way).locked = b /\ shifted(r, way).child = c
      BY <3>2 DEF shifted, GroupItem
    <3>3. A[g] = GroupItem(A[g].nodes, A[g].locked, A[g].child, A[g].frame)
      BY <1>1 DEF GroupIs
    <3> HIDE DEF H, A
    <3>4. /\ H[g] = GroupItem(A[g].nodes, A[g].locked, A[g].child, H[g].frame)
          /\ H[g].nodes = A[g].nodes /\ H[g].locked = A[g].locked /\ H[g].child = A[g].child
      BY <3>1, <3>2, <3>3
    <3> QED BY <3>1, <3>4
  <2>2. CASE g \notin items
    <3>1. H[g] = A[g]
      BY <2>2 DEF framesBy
    <3> HIDE DEF H, A
    <3> QED BY <3>1, <1>1 DEF GroupIs
  <2> QED BY <2>1, <2>2
<1> HIDE DEF H
<1> DEFINE e == grouped(d, H)
<1>4. Sound(e, P, W, G, N, C) /\ Alike(d, e) /\ e.place = d.place
  BY <1>2, <1>3, Reframing
<1> QED BY <1>4 DEF H

LEMMA OneGroup ==
  ASSUME NEW d, GroupsAre(d.groups), NEW g \in DOMAIN d.groups, NEW n \in d.groups[g].nodes
  PROVE  groupsOf(d, n) = {g}
BY DEF GroupsAre, groupsOf

LEMMA MovingNodes ==
  ASSUME NEW P, Spot \subseteq P,
         NEW d, NEW W, NEW F, NEW N, NEW C, Sound(d, P, W, F, N, C),
         NEW g \in DOMAIN d.groups, NEW offset,
         \A n \in d.groups[g].nodes :
           d.place[n] + offset \in P /\ (locked(d, n) \/ d.place[n] + offset \in Spot),
         NEW X, W \cup wiresOf(d.groups[g].nodes) \subseteq X,
         NEW G, F \cup {C} \subseteq G \cup {g},
         NEW M, N \cup d.groups[g].nodes \subseteq M
  PROVE  LET e == moveNodes(d, g, offset)
         IN  Sound(e, P, X, G, M, C) /\ Alike(d, e)
<1> DEFINE S == d.groups[g].nodes
           Y == G \cup {g}
           f == pushedAll(d, offset, S)
           e == updateGroupGeometry(f, {g})
<1>1. moveNodes(d, g, offset) = e
  BY DEF moveNodes, pushedAll
<1>2. GroupsAre(d.groups) /\ S \in SUBSET CanvasNode
  BY DEF Sound, DeskIs, GroupsAre, GroupIs
<1>3. \A n \in S : groupsOf(d, n) \subseteq Y
  BY <1>2, OneGroup
<1>4. F \cup {C} \subseteq Y
  OBVIOUS
<1>5. /\ \A n \in S : d.place[n] + offset \in P /\ (locked(d, n) \/ d.place[n] + offset \in Spot)
      /\ W \cup wiresOf(S) \subseteq X /\ N \cup S \subseteq M
  OBVIOUS
<1> HIDE DEF Y, S
<1>6. Sound(f, P, X, Y, M, C) /\ Alike(d, f)
  BY <1>2, <1>3, <1>4, <1>5, PushedNodes
<1>7. Y \subseteq G \cup {g}
  BY DEF Y
<1> HIDE DEF f
<1>8. Sound(e, P, X, G, M, C) /\ Alike(f, e)
  BY <1>6, <1>7, Updating
<1> HIDE DEF e
<1>9. Alike(d, e)
  BY <1>6, <1>8, AlikeChain
<1> QED BY <1>1, <1>8, <1>9

(* The invariant.                                                          *)

MouseRecord(item, resizing, from, way, into, original) ==
  [item |-> item, resizing |-> resizing, from |-> from, way |-> way, into |-> into, original |-> original]

\* What the mouse may hold on desk d; the group it makes room in is unlocked.
MouseFits(d, m) ==
  /\ m = MouseRecord(m.item, m.resizing, m.from, m.way, m.into, m.original)
  /\ m.item \in (CanvasNode \cup DOMAIN d.groups) \cup {NoItem} /\ m.way \in Int
  /\ m.into \in DOMAIN d.groups \cup {NoItem}
  /\ m.into # NoItem =>
       m.item \in CanvasNode /\ groupsOf(d, m.item) = {} /\ ~d.groups[m.into].locked

\* The node the mouse holds, or the members of its group, may be ahead of the model.
HeldNodes(d, m) ==
  {n \in CanvasNode : m.item = n \/ (m.item \in DOMAIN d.groups /\ n \in d.groups[m.item].nodes)}

selectableIn(d, pins) ==
  {n \in CanvasNode : n \notin pins /\ \A g \in groupsOf(d, n) : ~d.groups[g].locked} \cup DOMAIN d.groups

Fits(d, m, odd, pins, items) ==
  /\ Sound(d, Spot, odd, odd \cup {m.into}, odd \cup HeldNodes(d, m), m.into)
  /\ MouseFits(d, m) /\ pins \subseteq MayBePinned /\ items \subseteq selectableIn(d, pins)

CanvasInv == Fits(desk, mouse, strays, pinned, chosen)

-----------------------------------------------------------------------------

LEMMA Kinds ==
  /\ \A x : ~(x \in CanvasNode /\ x \in CanvasGroup) /\ ~(x \in CanvasWire /\ x \in CanvasGroup)
            /\ ~(x \in CanvasWire /\ x \in CanvasNode)
  /\ NoItem \notin CanvasNode /\ NoItem \notin CanvasGroup /\ NoItem \notin CanvasWire
  /\ \A S : wiresOf(S) \subseteq CanvasWire
BY CanvasConstants DEF wiresOf

LEMMA GroupKinds ==
  ASSUME NEW d, NEW P, NEW W, NEW F, NEW N, NEW C, Sound(d, P, W, F, N, C)
  PROVE  /\ DOMAIN d.groups \subseteq CanvasGroup /\ GroupsAre(d.groups)
         /\ \A n : groupsOf(d, n) \subseteq CanvasGroup
         /\ \A n : groupsOf(d, n) \subseteq DOMAIN d.groups
         /\ \A g \in DOMAIN d.groups : d.groups[g].nodes \subseteq CanvasNode
BY DEF Sound, DeskIs, GroupsAre, GroupIs, groupsOf

LEMMA SelectableIs == \A d : selectable(d) = selectableIn(d, pinned)
BY DEF selectable, selectableIn, locked

LEMMA LockedIs ==
  ASSUME NEW d, NEW P, NEW W, NEW F, NEW N, NEW C, Sound(d, P, W, F, N, C), NEW n \in CanvasNode
  PROVE  locked(d, n) <=> n \notin selectable(d)
BY GroupKinds, Kinds DEF selectable

\* What is stale, by kind.
LEMMA FromInv ==
  ASSUME CanvasInv
  PROVE  /\ Sound(desk, Spot, strays \cap CanvasWire, (strays \cap CanvasGroup) \cup {mouse.into},
                  (strays \cap CanvasNode) \cup HeldNodes(desk, mouse), mouse.into)
         /\ MouseFits(desk, mouse) /\ chosen \subseteq selectable(desk) /\ pinned \subseteq MayBePinned
<1> DEFINE W == strays
           F == strays \cup {mouse.into}
           N == strays \cup HeldNodes(desk, mouse)
           X == strays \cap CanvasWire
           G == (strays \cap CanvasGroup) \cup {mouse.into}
           M == (strays \cap CanvasNode) \cup HeldNodes(desk, mouse)
<1>1. Sound(desk, Spot, W, F, N, mouse.into)
  BY DEF CanvasInv, Fits
<1>2. W \cap CanvasWire \subseteq X /\ F \cap DOMAIN desk.groups \subseteq G /\ N \cap CanvasNode \subseteq M
  BY <1>1, GroupKinds
<1>3. \A n \in CanvasNode : desk.place[n] \in Spot
  BY <1>1 DEF Sound, DeskIs
<1> HIDE DEF W, F, N, X, G, M
<1>4. Sound(desk, Spot, X, G, M, mouse.into)
  BY <1>1, <1>2, <1>3, Weaken
<1> QED BY <1>4, SelectableIs DEF X, G, M, CanvasInv, Fits

LEMMA Arrive ==
  ASSUME NEW d, NEW W, NEW F, NEW N, NEW C, Sound(d, Spot, W, F, N, C),
         NEW m, MouseFits(d, m), m.into = C,
         NEW odd, W \cap CanvasWire \subseteq odd, F \cap CanvasGroup \subseteq odd \cup {C},
         N \cap CanvasNode \subseteq odd \cup HeldNodes(d, m),
         NEW pins, pins \subseteq MayBePinned, NEW items, items \subseteq selectableIn(d, pins)
  PROVE  Fits(d, m, odd, pins, items)
<1> DEFINE G == odd \cup {C}
           M == odd \cup HeldNodes(d, m)
<1>1. W \cap CanvasWire \subseteq odd /\ F \cap DOMAIN d.groups \subseteq G /\ N \cap CanvasNode \subseteq M
  BY GroupKinds
<1>2. \A n \in CanvasNode : d.place[n] \in Spot
  BY DEF Sound, DeskIs
<1> HIDE DEF G, M
<1>3. Sound(d, Spot, odd, G, M, C)
  BY <1>1, <1>2, Weaken
<1> QED BY <1>3 DEF Fits, G, M

LEMMA AlikeFits ==
  ASSUME NEW d, NEW e, Alike(d, e)
  PROVE  /\ \A m : MouseFits(d, m) <=> MouseFits(e, m)
         /\ \A m : HeldNodes(e, m) = HeldNodes(d, m)
         /\ \A pins : selectableIn(e, pins) = selectableIn(d, pins)
<1>1. \A n : groupsOf(e, n) = groupsOf(d, n) /\ groupsOf(d, n) \subseteq DOMAIN d.groups
  BY AlikeSame DEF groupsOf
<1>2. \A m : HeldNodes(e, m) = HeldNodes(d, m)
  BY DEF HeldNodes, Alike
<1>3. \A pins : selectableIn(e, pins) = selectableIn(d, pins)
  BY <1>1 DEF selectableIn, Alike
<1>4. \A m : MouseFits(d, m) <=> MouseFits(e, m)
  BY <1>1, CanvasConstants DEF MouseFits, Alike
<1> QED BY <1>2, <1>3, <1>4

LEMMA HeldIs ==
  ASSUME NEW d, NEW P, NEW W, NEW F, NEW N, NEW C, Sound(d, P, W, F, N, C), NEW m
  PROVE  /\ m.item \in CanvasNode => HeldNodes(d, m) = {m.item}
         /\ m.item \in DOMAIN d.groups => HeldNodes(d, m) = d.groups[m.item].nodes
         /\ m.item = NoItem => HeldNodes(d, m) = {}
BY GroupKinds, Kinds DEF HeldNodes

LEMMA MouseFields ==
  ASSUME NEW i, NEW r, NEW f, NEW w, NEW t, NEW o
  PROVE  LET m == MouseRecord(i, r, f, w, t, o)
         IN m.item = i /\ m.resizing = r /\ m.from = f /\ m.way = w /\ m.into = t /\ m.original = o
BY DEF MouseRecord

LEMMA JustHeld ==
  ASSUME NEW d, NEW item \in (CanvasNode \cup DOMAIN d.groups) \cup {NoItem}, NEW resizing
  PROVE  LET m == held(item, resizing)
         IN  m.item = item /\ m.into = NoItem /\ MouseFits(d, m)
<1> DEFINE m == held(item, resizing)
<1>1. m = MouseRecord(item, resizing, << >>, 0, NoItem, NoRect)
  BY DEF held, MouseRecord
<1> HIDE DEF m
<1>2. /\ m.item = item /\ m.resizing = resizing /\ m.from = << >> /\ m.way = 0 /\ m.into = NoItem
      /\ m.original = NoRect
  BY <1>1, MouseFields
<1> QED BY <1>1, <1>2 DEF MouseFits, m

-----------------------------------------------------------------------------

LEMMA AfterSelect ==
  ASSUME CanvasInv, NEW items, Select(items)
  PROVE  CanvasInv'
BY SelectableIs DEF CanvasInv, Fits, Select

LEMMA AfterPress ==
  ASSUME CanvasInv, Idle, NEW item \in CanvasNode \cup DOMAIN desk.groups, NEW resizing,
         mouse' = held(item, resizing), UNCHANGED <<desk, pinned, strays>>,
         chosen' \subseteq selectable(desk)
  PROVE  CanvasInv'
<1> DEFINE m == held(item, resizing)
           W == strays \cap CanvasWire
           F == (strays \cap CanvasGroup) \cup {NoItem}
           N == strays \cap CanvasNode
<1>1. Sound(desk, Spot, W, F, N, NoItem) /\ pinned \subseteq MayBePinned
  <2>1. MouseFits(desk, mouse) /\ mouse.item = NoItem
    BY FromInv DEF Idle
  <2>2. mouse.into = NoItem
    BY <2>1, Kinds DEF MouseFits
  <2>3. /\ Sound(desk, Spot, strays \cap CanvasWire, (strays \cap CanvasGroup) \cup {mouse.into},
                  (strays \cap CanvasNode) \cup HeldNodes(desk, mouse), mouse.into)
        /\ pinned \subseteq MayBePinned
    BY FromInv
  <2>4. HeldNodes(desk, mouse) = {}
    BY <2>1, <2>3, HeldIs
  <2>5. (strays \cap CanvasNode) \cup {} = N
    OBVIOUS
  <2> QED BY <2>2, <2>3, <2>4, <2>5
<1>2. m.into = NoItem /\ MouseFits(desk, m)
  BY JustHeld
<1>3. /\ W \cap CanvasWire \subseteq strays /\ F \cap CanvasGroup \subseteq strays \cup {NoItem}
      /\ N \cap CanvasNode \subseteq strays \cup HeldNodes(desk, m)
  OBVIOUS
<1>4. chosen' \subseteq selectableIn(desk, pinned)
  BY SelectableIs
<1> HIDE DEF m, W, F, N
<1>5. Fits(desk, m, strays, pinned, chosen')
  BY <1>1, <1>2, <1>3, <1>4, Arrive
<1> QED BY <1>5 DEF CanvasInv, m

LEMMA AfterPressNode ==
  ASSUME CanvasInv, NEW n \in CanvasNode, NEW resizing, PressNode(n, resizing)
  PROVE  CanvasInv'
<1>1. Idle /\ mouse' = held(n, resizing) /\ UNCHANGED <<desk, pinned, strays>>
  BY DEF PressNode
<1>2. chosen \subseteq selectable(desk)
  BY FromInv
<1>3. chosen' = IF locked(desk, n) THEN {} ELSE IF n \in chosen THEN chosen ELSE {n}
  BY DEF PressNode
<1>4. chosen' \subseteq selectable(desk)
  BY <1>2, <1>3 DEF selectable
<1> QED BY <1>1, <1>4, AfterPress

LEMMA AfterPressGroup ==
  ASSUME CanvasInv, NEW g \in DOMAIN desk.groups, PressGroup(g)
  PROVE  CanvasInv'
<1>1. Idle /\ mouse' = held(g, FALSE) /\ UNCHANGED <<desk, pinned, strays>>
  BY DEF PressGroup
<1>2. chosen \subseteq selectable(desk)
  BY FromInv
<1>3. chosen' = IF g \in chosen THEN chosen ELSE {g}
  BY DEF PressGroup
<1>4. chosen' \subseteq selectable(desk)
  BY <1>2, <1>3 DEF selectable
<1> QED BY <1>1, <1>4, AfterPress

LEMMA AfterResizeNode ==
  ASSUME CanvasInv, NEW n \in CanvasNode, NEW x \in Extent[n], ResizeNode(n, x)
  PROVE  CanvasInv'
<1> DEFINE W == strays \cap CanvasWire
           F == (strays \cap CanvasGroup) \cup {mouse.into}
           N == (strays \cap CanvasNode) \cup HeldNodes(desk, mouse)
           gs == groupsOf(desk, n)
           ws == wiresOf({n})
           X == W \cup ws
           Y == W \ ws
           G == F \cup gs
           a == sized(desk, n, x)
           b == moveConnections(a, {n})
           odd == (strays \ ws) \cup gs
<1>1. /\ Sound(desk, Spot, W, F, N, mouse.into)
      /\ MouseFits(desk, mouse) /\ chosen \subseteq selectable(desk) /\ pinned \subseteq MayBePinned
  BY FromInv
<1>2. desk' = b /\ strays' = odd /\ pinned' = pinned /\ mouse' = mouse
  BY DEF ResizeNode, sized
<1>3. chosen' \subseteq selectableIn(desk, pinned)
  <2>1. chosen' = IF n \in chosen THEN chosen ELSE {n} \cap selectable(desk)
    BY DEF ResizeNode
  <2> QED BY <1>1, <2>1, SelectableIs
<1>4. W \cup ws \subseteq X /\ (F \cup gs) \cup {mouse.into} \subseteq G /\ X \subseteq Y \cup ws
  OBVIOUS
<1>5. /\ Y \cap CanvasWire \subseteq odd /\ G \cap CanvasGroup \subseteq odd \cup {mouse.into}
      /\ N \cap CanvasNode \subseteq odd \cup HeldNodes(desk, mouse)
  BY Kinds
<1> HIDE DEF W, F, N, X, Y, G, odd, a, b
<1>6. Sound(a, Spot, X, G, N, mouse.into) /\ Alike(desk, a)
  BY <1>1, <1>4, Sizing DEF a
<1>7. Sound(b, Spot, Y, G, N, mouse.into) /\ Alike(a, b)
  BY <1>4, <1>6, MovingConnections DEF b
<1>8. Alike(desk, b)
  BY <1>6, <1>7, AlikeChain
<1>9. MouseFits(b, mouse) /\ HeldNodes(b, mouse) = HeldNodes(desk, mouse)
      /\ selectableIn(b, pinned) = selectableIn(desk, pinned)
  BY <1>1, <1>8, AlikeFits
<1>10. Fits(b, mouse, odd, pinned, chosen')
  BY <1>1, <1>3, <1>5, <1>7, <1>9, Arrive
<1> QED BY <1>2, <1>10 DEF CanvasInv

LEMMA AfterNodeUpdated ==
  ASSUME CanvasInv, NEW n \in CanvasNode, NEW x \in Extent[n], NodeUpdated(n, x)
  PROVE  CanvasInv'
<1> DEFINE W == strays \cap CanvasWire
           F == (strays \cap CanvasGroup) \cup {mouse.into}
           N == (strays \cap CanvasNode) \cup HeldNodes(desk, mouse)
           gs == groupsOf(desk, n)
           ws == wiresOf({n})
           X == W \cup ws
           Y == W \ ws
           G == F \cup gs
           K == (F \ gs) \cup {mouse.into}
           a == sized(desk, n, x)
           b == updateGroupGeometry(a, gs)
           c == moveConnections(b, {n})
           odd == strays \ (gs \cup ws)
<1>1. /\ Sound(desk, Spot, W, F, N, mouse.into)
      /\ MouseFits(desk, mouse) /\ chosen \subseteq selectable(desk) /\ pinned \subseteq MayBePinned
  BY FromInv
<1>2. desk' = c /\ strays' = odd /\ pinned' = pinned /\ mouse' = mouse /\ chosen' = chosen
  BY DEF NodeUpdated, sized
<1>3. chosen \subseteq selectableIn(desk, pinned)
  BY <1>1, SelectableIs
<1>4. /\ W \cup ws \subseteq X /\ (F \cup gs) \cup {mouse.into} \subseteq G /\ X \subseteq Y \cup ws
      /\ G \subseteq K \cup gs
  OBVIOUS
<1>5. /\ Y \cap CanvasWire \subseteq odd /\ K \cap CanvasGroup \subseteq odd \cup {mouse.into}
      /\ N \cap CanvasNode \subseteq odd \cup HeldNodes(desk, mouse)
  <2>1. gs \subseteq CanvasGroup
    BY <1>1, GroupKinds
  <2> HIDE DEF gs
  <2> QED BY <2>1, Kinds
<1> HIDE DEF W, F, N, X, Y, G, K, odd, a, b, c
<1>6. Sound(a, Spot, X, G, N, mouse.into) /\ Alike(desk, a)
  BY <1>1, <1>4, Sizing DEF a
<1>7. Sound(b, Spot, X, K, N, mouse.into) /\ Alike(a, b)
  BY <1>4, <1>6, Updating DEF b
<1>8. Sound(c, Spot, Y, K, N, mouse.into) /\ Alike(b, c)
  BY <1>4, <1>7, MovingConnections DEF c
<1>9. Alike(desk, c)
  BY <1>6, <1>7, <1>8, AlikeChain
<1>10. MouseFits(c, mouse) /\ HeldNodes(c, mouse) = HeldNodes(desk, mouse)
      /\ selectableIn(c, pinned) = selectableIn(desk, pinned)
  BY <1>1, <1>9, AlikeFits
<1>11. Fits(c, mouse, odd, pinned, chosen)
  BY <1>1, <1>3, <1>5, <1>8, <1>10, Arrive
<1> QED BY <1>2, <1>11 DEF CanvasInv

LEMMA AfterNodePositionUpdated ==
  ASSUME CanvasInv, NEW n \in CanvasNode, NEW p \in Spot, NodePositionUpdated(n, p)
  PROVE  CanvasInv'
<1> DEFINE W == strays \cap CanvasWire
           F == (strays \cap CanvasGroup) \cup {mouse.into}
           N == (strays \cap CanvasNode) \cup HeldNodes(desk, mouse)
           gs == groupsOf(desk, n)
           X == W \cup stale(desk, n)
           G == (F \ gs) \cup {mouse.into}
           M == N \ {n}
           e == setModelPosition(desk, n, p)
           odd == (strays \ ({n} \cup gs)) \cup unfollowed(n)
<1>1. /\ Sound(desk, Spot, W, F, N, mouse.into)
      /\ MouseFits(desk, mouse) /\ chosen \subseteq selectable(desk) /\ pinned \subseteq MayBePinned
  BY FromInv
<1>2. desk' = e /\ strays' = odd /\ pinned' = pinned /\ mouse' = mouse /\ chosen' = chosen
  BY DEF NodePositionUpdated
<1>3. chosen \subseteq selectableIn(desk, pinned)
  BY <1>1, SelectableIs
<1>4. /\ W \cup stale(desk, n) \subseteq X /\ F \cup {mouse.into} \subseteq G \cup gs
      /\ N \subseteq M \cup {n} /\ Spot \subseteq Spot
  OBVIOUS
<1>5. /\ X \cap CanvasWire \subseteq odd /\ G \cap CanvasGroup \subseteq odd \cup {mouse.into}
      /\ M \cap CanvasNode \subseteq odd \cup HeldNodes(desk, mouse)
  <2>1. gs \subseteq CanvasGroup
    BY <1>1, GroupKinds
  <2>2. unfollowed(n) = stale(desk, n)
    BY DEF unfollowed, stale
  <2> HIDE DEF gs
  <2> QED BY <2>1, <2>2, Kinds
<1> HIDE DEF W, F, N, X, G, M, odd, e
<1>6. Sound(e, Spot, X, G, M, mouse.into) /\ Alike(desk, e)
  BY <1>1, <1>4, SettingModelPosition DEF e
<1>7. MouseFits(e, mouse) /\ HeldNodes(e, mouse) = HeldNodes(desk, mouse)
      /\ selectableIn(e, pinned) = selectableIn(desk, pinned)
  BY <1>1, <1>6, AlikeFits
<1>8. Fits(e, mouse, odd, pinned, chosen)
  BY <1>1, <1>3, <1>5, <1>6, <1>7, Arrive
<1> QED BY <1>2, <1>8 DEF CanvasInv

LEMMA AfterNodeFlagsUpdated ==
  ASSUME CanvasInv, NEW n \in MayBePinned, NodeFlagsUpdated(n)
  PROVE  CanvasInv'
<1>1. UNCHANGED <<desk, mouse, strays>> /\ Fits(desk, mouse, strays, pinned, chosen)
  BY DEF NodeFlagsUpdated, CanvasInv
<1>2. pinned' \subseteq MayBePinned /\ chosen' \subseteq selectableIn(desk, pinned')
  <2>1. n \in CanvasNode /\ DOMAIN desk.groups \subseteq CanvasGroup
    BY <1>1, CanvasConstants, GroupKinds DEF Fits
  <2>2. pinned' = (IF n \in pinned THEN pinned \ {n} ELSE pinned \cup {n})
        /\ chosen' = (IF n \in pinned THEN chosen ELSE chosen \ {n})
    BY DEF NodeFlagsUpdated
  <2> QED BY <1>1, <2>1, <2>2 DEF Fits, selectableIn
<1> QED BY <1>1, <1>2 DEF CanvasInv, Fits

resized(d, x) == [d EXCEPT !.extent = x]

LEMMA Resizing ==
  ASSUME NEW d, NEW P, NEW W, NEW F, NEW N, NEW C, Sound(d, P, W, F, N, C), NEW x \in Extents
  PROVE  LET e == resized(d, x)
         IN Sound(e, P, CanvasWire, DOMAIN d.groups, N, C) /\ Alike(d, e) /\ e.groups = d.groups
<1> DEFINE e == resized(d, x)
<1>1. e = Desk(d.at, x, d.place, d.ends, d.groups)
  <2>1. d = Desk(d.at, d.extent, d.place, d.ends, d.groups)
    BY DEF Sound, DeskIs
  <2> QED BY <2>1 DEF Desk, resized
<1> HIDE DEF e
<1>2. /\ e.at = d.at /\ e.place = d.place /\ e.extent = x /\ e.ends = d.ends /\ e.groups = d.groups
      /\ e = Desk(e.at, e.extent, e.place, e.ends, e.groups)
  BY <1>1, FieldsOf
<1>3. DeskIs(e, P)
  BY <1>2 DEF DeskIs, Sound
<1> QED BY <1>2, <1>3 DEF Sound, WiresOk, FramesOk, PlacesOk, ChildrenOk, Alike, e

LEMMA AfterStyleDefaults ==
  ASSUME CanvasInv, NEW extent \in Extents, applyStyleDefaults(extent)
  PROVE  CanvasInv'
<1> DEFINE W == strays \cap CanvasWire
           F == (strays \cap CanvasGroup) \cup {mouse.into}
           N == (strays \cap CanvasNode) \cup HeldNodes(desk, mouse)
           gs == DOMAIN desk.groups
           a == resized(desk, extent)
           b == moveConnections(a, CanvasNode)
           c == updateGroupGeometry(b, gs)
           odd == strays \cap CanvasNode
<1>1. /\ Sound(desk, Spot, W, F, N, mouse.into)
      /\ MouseFits(desk, mouse) /\ chosen \subseteq selectable(desk) /\ pinned \subseteq MayBePinned
  BY FromInv
<1>2. desk' = c /\ strays' = odd /\ pinned' = pinned /\ mouse' = mouse /\ chosen' = chosen
  BY DEF applyStyleDefaults, resized
<1>3. chosen \subseteq selectableIn(desk, pinned)
  BY <1>1, SelectableIs
<1>4. CanvasWire \subseteq {} \cup wiresOf(CanvasNode) /\ gs \subseteq {} \cup gs
  BY CanvasConstants DEF wiresOf
<1>5. /\ {} \cap CanvasWire \subseteq odd /\ {} \cap CanvasGroup \subseteq odd \cup {mouse.into}
      /\ N \cap CanvasNode \subseteq odd \cup HeldNodes(desk, mouse)
  OBVIOUS
<1> HIDE DEF W, F, N, odd, gs, a, b, c
<1>6. Sound(a, Spot, CanvasWire, gs, N, mouse.into) /\ Alike(desk, a)
  BY <1>1, Resizing DEF a, gs
<1>7. Sound(b, Spot, {}, gs, N, mouse.into) /\ Alike(a, b)
  BY <1>4, <1>6, MovingConnections DEF b
<1>8. Sound(c, Spot, {}, {}, N, mouse.into) /\ Alike(b, c)
  BY <1>4, <1>7, Updating DEF c
<1>9. Alike(desk, c)
  BY <1>6, <1>7, <1>8, AlikeChain
<1>10. MouseFits(c, mouse) /\ HeldNodes(c, mouse) = HeldNodes(desk, mouse)
      /\ selectableIn(c, pinned) = selectableIn(desk, pinned)
  BY <1>1, <1>9, AlikeFits
<1>11. Fits(c, mouse, odd, pinned, chosen)
  BY <1>1, <1>3, <1>5, <1>8, <1>10, Arrive
<1> QED BY <1>2, <1>11 DEF CanvasInv

\* With the mouse up.
LEMMA WhenIdle ==
  ASSUME CanvasInv, Idle
  PROVE  /\ Sound(desk, Spot, strays \cap CanvasWire, strays \cap CanvasGroup, strays \cap CanvasNode, NoItem)
         /\ mouse.into = NoItem /\ \A d : MouseFits(d, mouse)
         /\ chosen \subseteq selectable(desk) /\ pinned \subseteq MayBePinned
<1> DEFINE W == strays \cap CanvasWire
           F == (strays \cap CanvasGroup) \cup {mouse.into}
           N == (strays \cap CanvasNode) \cup HeldNodes(desk, mouse)
           G == strays \cap CanvasGroup
           M == strays \cap CanvasNode
<1>1. /\ Sound(desk, Spot, W, F, N, mouse.into)
      /\ MouseFits(desk, mouse) /\ chosen \subseteq selectable(desk) /\ pinned \subseteq MayBePinned
  BY FromInv
<1>2. mouse.item = NoItem /\ mouse.into = NoItem /\ HeldNodes(desk, mouse) = {}
  BY <1>1, Kinds, HeldIs DEF Idle, MouseFits
<1>3. \A d : MouseFits(d, mouse)
  BY <1>1, <1>2 DEF MouseFits
<1>4. W \cap CanvasWire \subseteq W /\ F \cap DOMAIN desk.groups \subseteq G /\ N \cap CanvasNode \subseteq M
  BY <1>1, <1>2, GroupKinds, Kinds
<1>5. \A n \in CanvasNode : desk.place[n] \in Spot
  BY <1>1 DEF Sound, DeskIs
<1> HIDE DEF W, F, N, G, M
<1>6. Sound(desk, Spot, W, G, M, mouse.into)
  BY <1>1, <1>4, <1>5, Weaken
<1> QED BY <1>1, <1>2, <1>3, <1>6 DEF W, G, M

\* Groups are changed with the mouse up.
LEMMA AfterRegrouping ==
  ASSUME CanvasInv, Idle, NEW d, NEW G,
         Sound(d, Spot, strays \cap CanvasWire, G, strays \cap CanvasNode, NoItem),
         deskBecomes(d), UNCHANGED <<pinned, mouse>>,
         G \cap CanvasGroup \subseteq strays', strays \ CanvasGroup \subseteq strays'
  PROVE  CanvasInv'
<1> DEFINE W == strays \cap CanvasWire
           N == strays \cap CanvasNode
<1>1. mouse.into = NoItem /\ MouseFits(d, mouse) /\ pinned \subseteq MayBePinned
  BY WhenIdle
<1>2. desk' = d /\ chosen' \subseteq selectableIn(d, pinned)
  BY SelectableIs DEF deskBecomes
<1>3. /\ W \cap CanvasWire \subseteq strays' /\ G \cap CanvasGroup \subseteq strays' \cup {NoItem}
      /\ N \cap CanvasNode \subseteq strays' \cup HeldNodes(d, mouse)
  BY Kinds
<1>4. Sound(d, Spot, W, G, N, NoItem)
  OBVIOUS
<1> HIDE DEF W, N
<1>5. Fits(d, mouse, strays', pinned, chosen')
  BY <1>1, <1>2, <1>3, <1>4, Arrive
<1> QED BY <1>2, <1>5 DEF CanvasInv

LEMMA AfterRemoveNodeFromGroup ==
  ASSUME CanvasInv, NEW n \in CanvasNode, RemoveNodeFromGroup(n)
  PROVE  CanvasInv'
<1> DEFINE W == strays \cap CanvasWire
           F == strays \cap CanvasGroup
           N == strays \cap CanvasNode
           gs == groupsOf(desk, n)
           G == F \ gs
           e == detached(desk, n)
<1>1. /\ Idle /\ deskBecomes(e) /\ UNCHANGED <<pinned, mouse>> /\ strays' = strays \ gs
  BY DEF RemoveNodeFromGroup
<1>2. Sound(desk, Spot, W, F, N, NoItem)
  BY <1>1, WhenIdle
<1>3. F \subseteq G \cup gs
  OBVIOUS
<1>4. gs \subseteq CanvasGroup
  BY <1>2, GroupKinds
<1>5. G \cap CanvasGroup \subseteq strays' /\ strays \ CanvasGroup \subseteq strays'
  BY <1>1, <1>4
<1> HIDE DEF W, F, N, G, gs
<1>6. Sound(e, Spot, W, G, N, NoItem)
  BY <1>2, <1>3, Detaching DEF gs
<1> HIDE DEF e
<1> QED BY <1>1, <1>5, <1>6, AfterRegrouping DEF W, N

LEMMA AfterAddNodeToGroup ==
  ASSUME CanvasInv, NEW n \in CanvasNode, NEW g \in CanvasGroup, AddNodeToGroup(n, g)
  PROVE  CanvasInv'
<1> DEFINE W == strays \cap CanvasWire
           F == strays \cap CanvasGroup
           N == strays \cap CanvasNode
           gs == groupsOf(desk, n)
           G == F \ gs
           K == G \ {g}
           a == detached(desk, n)
           e == joinGroup(a, n, g)
<1>1. /\ Idle /\ deskBecomes(e) /\ UNCHANGED <<pinned, mouse>> /\ strays' = strays \ (gs \cup {g})
      /\ g \in DOMAIN desk.groups /\ n \notin desk.groups[g].nodes
  BY DEF AddNodeToGroup
<1>2. Sound(desk, Spot, W, F, N, NoItem)
  BY <1>1, WhenIdle
<1>3. F \subseteq G \cup gs /\ G \subseteq K \cup {g}
  OBVIOUS
<1>4. gs \subseteq CanvasGroup
  BY <1>2, GroupKinds
<1>5. K \cap CanvasGroup \subseteq strays' /\ strays \ CanvasGroup \subseteq strays'
  BY <1>1, <1>4
<1> HIDE DEF W, F, N, G, K, gs, e
<1>6. Sound(a, Spot, W, G, N, NoItem) /\ LeftGroups(desk, a, n)
  BY <1>2, <1>3, Detaching DEF gs
<1> HIDE DEF a
<1>7. g \in DOMAIN a.groups
  <2>1. desk.groups[g].nodes # {}
    BY <1>1, <1>2 DEF Sound, DeskIs, GroupsAre, GroupIs
  <2>2. desk.groups[g].nodes \ {n} # {}
    BY <1>1, <2>1
  <2> QED BY <1>1, <1>6, <2>2 DEF LeftGroups
<1>8. groupsOf(a, n) = {}
  BY <1>6 DEF LeftGroups, groupsOf
<1>9. Sound(e, Spot, W, K, N, NoItem)
  BY <1>3, <1>6, <1>7, <1>8, Joining DEF e
<1> QED BY <1>1, <1>5, <1>9, AfterRegrouping DEF W, N

LEMMA Locking ==
  ASSUME NEW d, NEW P, NEW W, NEW F, NEW N, NEW C, Sound(d, P, W, F, N, C),
         NEW g \in DOMAIN d.groups, NEW on \in BOOLEAN
  PROVE  Sound(setLock(d, g, on), P, W, F, N, C)
<1> DEFINE q == d.groups[g]
           r == GroupItem(q.nodes, on, q.child, q.frame)
           H == replaced(d.groups, g, r)
           f == grouped(d, H)
<1>1. setLock(d, g, on) = f
  BY GroupFieldUpdates DEF Sound
<1>2. GroupsAre(d.groups) /\ GroupIs(q)
  BY DEF Sound, DeskIs, GroupsAre
<1>3. r.nodes = q.nodes /\ r.locked = on /\ r.child = q.child /\ r.frame = q.frame
  BY GroupFields
<1>4. GroupIs(r)
  BY <1>2, <1>3 DEF GroupIs
<1>5. \A h \in DOMAIN d.groups \ {g} : r.nodes \cap d.groups[h].nodes = {}
  BY <1>2, <1>3 DEF GroupsAre
<1> HIDE DEF r
<1>6. GroupsAre(H) /\ DOMAIN H = DOMAIN d.groups /\ H[g] = r
      /\ \A h \in DOMAIN d.groups \ {g} : H[h] = d.groups[h]
  BY <1>2, <1>4, <1>5, ReplacedGroups
<1> HIDE DEF H
<1>7. \A h \in DOMAIN H \ {C} : H[h].child = NoItem
  BY <1>3, <1>6 DEF Sound, ChildrenOk
<1>8. \A h \in DOMAIN H \ F : /\ h \in DOMAIN d.groups \ F /\ H[h].nodes = d.groups[h].nodes
                              /\ H[h].child = d.groups[h].child /\ H[h].frame = d.groups[h].frame
  BY <1>3, <1>6
<1>9. Sound(f, P, W, F, N, C)
  BY <1>6, <1>7, <1>8, Regrouping
<1> QED BY <1>1, <1>9

LEMMA AfterDoubleClickGroup ==
  ASSUME CanvasInv, NEW g \in DOMAIN desk.groups, DoubleClickGroup(g)
  PROVE  CanvasInv'
<1> DEFINE W == strays \cap CanvasWire
           F == strays \cap CanvasGroup
           N == strays \cap CanvasNode
           on == ~desk.groups[g].locked
           e == setLock(desk, g, on)
<1>1. Idle /\ deskBecomes(e) /\ UNCHANGED <<pinned, mouse, strays>>
  BY DEF DoubleClickGroup
<1>2. Sound(desk, Spot, W, F, N, NoItem)
  BY <1>1, WhenIdle
<1>3. F \cap CanvasGroup \subseteq strays' /\ strays \ CanvasGroup \subseteq strays'
  BY <1>1
<1>4. on \in BOOLEAN
  OBVIOUS
<1> HIDE DEF W, F, N, on
<1>5. Sound(e, Spot, W, F, N, NoItem)
  BY <1>2, <1>4, Locking
<1> HIDE DEF e
<1> QED BY <1>1, <1>3, <1>5, AfterRegrouping DEF W, N

added(A, g, r) == [k \in DOMAIN A \cup {g} |-> IF k = g THEN r ELSE A[k]]

LEMMA AfterCreateGroup ==
  ASSUME CanvasInv, NEW g \in CanvasGroup, CreateGroup(g)
  PROVE  CanvasInv'
<1> DEFINE W == strays \cap CanvasWire
           F == strays \cap CanvasGroup
           N == strays \cap CanvasNode
           ns == chosen \cap CanvasNode
           gs == groupsOfAny(desk, ns)
           G == F \ gs
           K == G \cup {g}
           d == detachedAll(desk, ns)
           r == GroupItem(ns, TRUE, NoItem, NoRect)
           H == added(d.groups, g, r)
           f == grouped(d, H)
           e == updateGroupGeometry(f, {g})
<1>1. /\ Idle /\ UNCHANGED <<pinned, mouse>> /\ ns # {} /\ g \notin DOMAIN desk.groups
      /\ strays' = strays \ (CanvasGroup \cap UNION {groupsOf(desk, n) : n \in ns})
  BY DEF CreateGroup
<1>2. Sound(desk, Spot, W, F, N, NoItem)
  BY <1>1, WhenIdle
<1>3. F \subseteq G \cup gs /\ K \subseteq G \cup {g}
  OBVIOUS
<1>4. UNION {groupsOf(desk, n) : n \in ns} = gs
  BY DEF groupsOf, groupsOfAny
<1>5. G \cap CanvasGroup \subseteq strays' /\ strays \ CanvasGroup \subseteq strays'
  BY <1>1, <1>4
<1>6. deskBecomes(e)
  <2>1. ASSUME NEW t
        PROVE  [t EXCEPT !.groups = [k \in DOMAIN @ \cup {g} |->
                  IF k = g THEN [nodes |-> ns, locked |-> TRUE, child |-> NoItem, frame |-> NoRect] ELSE @[k]]]
                = grouped(t, added(t.groups, g, r))
    BY DEF grouped, added, GroupItem
  <2>2. forNodes(detached, desk, ns) = d
    BY DEF detachedAll
  <2> HIDE DEF d, ns
  <2> QED BY <2>1, <2>2 DEF CreateGroup, ns
<1>7. ns \in SUBSET CanvasNode
  OBVIOUS
<1> HIDE DEF W, F, N, G, K, gs, ns
<1>8. /\ Sound(d, Spot, W, G, N, NoItem) /\ d.place = desk.place
      /\ DOMAIN d.groups \subseteq DOMAIN desk.groups
      /\ \A k \in DOMAIN d.groups : d.groups[k].nodes = desk.groups[k].nodes \ ns
  BY <1>2, <1>3, <1>7, DetachedAll DEF gs
<1> HIDE DEF d
<1>9. /\ r.nodes = ns /\ r.locked \in BOOLEAN /\ r.child = NoItem
      /\ r = GroupItem(r.nodes, r.locked, r.child, r.frame)
  BY DEF GroupItem
<1>10. GroupIs(r)
  BY <1>1, <1>7, <1>9 DEF GroupIs
<1> HIDE DEF r
<1>11. /\ H = [k \in DOMAIN H |-> H[k]] /\ DOMAIN H = DOMAIN d.groups \cup {g} /\ H[g] = r
       /\ \A k \in DOMAIN d.groups : k # g /\ H[k] = d.groups[k]
  BY <1>1, <1>8 DEF added
<1> HIDE DEF H
<1>12. GroupsAre(H)
  <2>1. GroupsAre(d.groups)
    BY <1>8, GroupKinds
  <2>2. \A k \in DOMAIN H : GroupIs(H[k])
    BY <1>10, <1>11, <2>1 DEF GroupsAre
  <2>3. ASSUME NEW h \in DOMAIN H, NEW k \in DOMAIN H, h # k
        PROVE  H[h].nodes \cap H[k].nodes = {}
    <3>1. CASE h = g
      BY <3>1, <2>3, <1>8, <1>9, <1>11
    <3>2. CASE k = g
      BY <3>2, <2>3, <1>8, <1>9, <1>11
    <3>3. CASE h # g /\ k # g
      BY <3>3, <2>1, <2>3, <1>11 DEF GroupsAre
    <3> QED BY <3>1, <3>2, <3>3
  <2> QED BY <1>11, <2>1, <2>2, <2>3 DEF GroupsAre
<1>13. \A k \in DOMAIN H \ {NoItem} : H[k].child = NoItem
  BY <1>8, <1>9, <1>11 DEF Sound, ChildrenOk
<1>14. \A k \in DOMAIN H \ K : /\ k \in DOMAIN d.groups \ G /\ H[k].nodes = d.groups[k].nodes
                               /\ H[k].child = d.groups[k].child /\ H[k].frame = d.groups[k].frame
  BY <1>11 DEF K
<1>15. Sound(f, Spot, W, K, N, NoItem)
  BY <1>8, <1>12, <1>13, <1>14, Regrouping
<1> HIDE DEF f
<1>16. Sound(e, Spot, W, G, N, NoItem)
  BY <1>3, <1>15, Updating
<1> HIDE DEF e
<1> QED BY <1>1, <1>5, <1>6, <1>16, AfterRegrouping DEF W, N

LEMMA FreshIs ==
  ASSUME NEW at \in [CanvasNode -> Spot], NEW extent \in Extents
  PROVE  Sound(Fresh(at, extent), Spot, {}, {}, {}, NoItem)
<1> DEFINE place == [n \in CanvasNode |-> Snap[at[n]]]
           d == Desk(place, extent, place, << >>, << >>)
           ends == [w \in CanvasWire |-> portsOf(d, w)]
           e == Desk(place, extent, place, ends, << >>)
<1>1. Fresh(at, extent) = e
  <2> HIDE DEF place
  <2>1. ASSUME NEW v PROVE [d EXCEPT !.ends = v] = Desk(place, extent, place, v, << >>)
    BY DEF Desk
  <2>2. Fresh(at, extent) = [d EXCEPT !.ends = ends]
    BY DEF Fresh, Desk, place
  <2> HIDE DEF d, ends
  <2> QED BY <2>1, <2>2
<1>2. place \in [CanvasNode -> Spot]
  BY SnapIs
<1> HIDE DEF place
<1>3. d.place = place /\ d.extent = extent
  BY FieldsOf
<1>4. /\ e.at = place /\ e.extent = extent /\ e.place = place /\ e.ends = ends /\ e.groups = << >>
      /\ e = Desk(e.at, e.extent, e.place, e.ends, e.groups)
  BY FieldsOf
<1>5. \A w \in CanvasWire : ends[w] = portsOf(e, w)
  BY <1>3, <1>4 DEF portsOf
<1>6. ends = [w \in CanvasWire |-> ends[w]]
  OBVIOUS
<1> HIDE DEF d, e, ends
<1>7. DOMAIN e.groups = {} /\ e.groups = [g \in {} |-> e.groups[g]]
  BY <1>4
<1>8. GroupsAre(e.groups)
  BY <1>7 DEF GroupsAre
<1>9. DeskIs(e, Spot)
  BY <1>2, <1>4, <1>6, <1>8 DEF DeskIs
<1>10. Sound(e, Spot, {}, {}, {}, NoItem)
  BY <1>4, <1>5, <1>7, <1>9 DEF Sound, WiresOk, FramesOk, PlacesOk, ChildrenOk
<1> QED BY <1>1, <1>10

LEMMA StartsFresh ==
  ASSUME NEW at \in [CanvasNode -> Spot], NEW extent \in Extents, NEW pins, pins \subseteq MayBePinned
  PROVE  Fits(Fresh(at, extent), held(NoItem, FALSE), {}, pins, {})
<1> DEFINE d == Fresh(at, extent)
           m == held(NoItem, FALSE)
<1>1. Sound(d, Spot, {}, {}, {}, NoItem)
  BY FreshIs
<1>2. MouseFits(d, m) /\ m.into = NoItem
  BY JustHeld
<1> HIDE DEF d, m
<1>3. Fits(d, m, {}, pins, {})
  BY <1>1, <1>2, Arrive
<1> QED BY <1>3 DEF d, m

LEMMA AfterReset ==
  ASSUME CanvasInv, onModelReset
  PROVE  CanvasInv'
<1>1. desk.at \in [CanvasNode -> Spot] /\ desk.extent \in Extents /\ pinned \subseteq MayBePinned
  BY DEF CanvasInv, Fits, Sound, DeskIs
<1> QED BY <1>1, StartsFresh DEF onModelReset, CanvasInv

\* The mouse lets go.
LEMMA AfterRelease ==
  ASSUME CanvasInv, NEW d, NEW W, NEW F, NEW N, Sound(d, Spot, W, F, N, NoItem),
         desk' = d, mouse' = held(NoItem, FALSE), UNCHANGED pinned, chosen' \subseteq selectable(d),
         W \cap CanvasWire \subseteq strays', F \cap CanvasGroup \subseteq strays', N \cap CanvasNode \subseteq strays'
  PROVE  CanvasInv'
<1> DEFINE m == held(NoItem, FALSE)
<1>1. m.into = NoItem /\ MouseFits(d, m) /\ pinned \subseteq MayBePinned
  BY JustHeld, FromInv
<1>2. chosen' \subseteq selectableIn(d, pinned)
  BY SelectableIs
<1>3. F \cap CanvasGroup \subseteq strays' \cup {NoItem} /\ N \cap CanvasNode \subseteq strays' \cup HeldNodes(d, m)
  OBVIOUS
<1> HIDE DEF m
<1>4. Fits(d, m, strays', pinned, chosen')
  BY <1>1, <1>2, <1>3, Arrive
<1> QED BY <1>4 DEF CanvasInv, m

LEMMA AfterReleaseGroup ==
  ASSUME CanvasInv, NEW g \in DOMAIN desk.groups, ReleaseGroup(g)
  PROVE  CanvasInv'
<1> DEFINE ms == desk.groups[g].nodes
           ws == wiresOf(ms)
           W == strays \cap CanvasWire
           F == (strays \cap CanvasGroup) \cup {NoItem}
           N == (strays \cap CanvasNode) \cup ms
           X == W \cup ws
           Y == W \ ws
           G == F \ {g}
           M == N \ ms
           a == toldAll(desk, ms)
           b == moveConnections(a, ms)
           c == updateGroupGeometry(b, {g})
<1>1. /\ mouse.item = g /\ desk' = c /\ chosen' = clicked(g, c) /\ mouse' = held(NoItem, FALSE)
      /\ strays' = strays \ (({g} \cup ms) \cup ws) /\ pinned' = pinned
  BY DEF ReleaseGroup, toldAll
<1>2. /\ Sound(desk, Spot, W, (strays \cap CanvasGroup) \cup {mouse.into},
                  (strays \cap CanvasNode) \cup HeldNodes(desk, mouse), mouse.into)
      /\ MouseFits(desk, mouse) /\ chosen \subseteq selectable(desk)
  BY FromInv
<1>3. g \in CanvasGroup /\ g \notin CanvasNode /\ g # NoItem /\ ms \in SUBSET CanvasNode
  BY <1>2, GroupKinds, Kinds
<1>4. mouse.into = NoItem /\ HeldNodes(desk, mouse) = ms
  BY <1>1, <1>2, <1>3, HeldIs DEF MouseFits
<1>5. Sound(desk, Spot, W, F, N, NoItem)
  BY <1>2, <1>4
<1>6. /\ W \cup ws \subseteq X /\ F \cup {NoItem} \subseteq F /\ N \subseteq M \cup ms
      /\ X \subseteq Y \cup ws /\ F \subseteq G \cup {g}
  OBVIOUS
<1>7. Y \cap CanvasWire \subseteq strays' /\ G \cap CanvasGroup \subseteq strays' /\ M \cap CanvasNode \subseteq strays'
  BY <1>1, <1>3, Kinds
<1> HIDE DEF W, F, N, X, Y, G, M, ms, a, b, c
<1>8. Sound(a, Spot, X, F, M, NoItem) /\ Alike(desk, a)
  BY <1>3, <1>5, <1>6, Told DEF a, ws
<1>9. Sound(b, Spot, Y, F, M, NoItem) /\ Alike(a, b)
  BY <1>6, <1>8, MovingConnections DEF b, ws
<1>10. Sound(c, Spot, Y, G, M, NoItem) /\ Alike(b, c)
  BY <1>6, <1>9, Updating DEF c
<1>11. Alike(desk, c)
  BY <1>8, <1>9, <1>10, AlikeChain
<1>12. chosen' \subseteq selectable(c)
  <2>1. g \in selectable(c)
    BY <1>11 DEF Alike, selectable
  <2> QED BY <1>1, <2>1 DEF clicked
<1> QED BY <1>1, <1>7, <1>10, <1>12, AfterRelease

LEMMA AfterReleaseNode ==
  ASSUME CanvasInv, NEW n \in CanvasNode, ReleaseNode(n)
  PROVE  CanvasInv'
<1> DEFINE into == mouse.into
           gs == groupsOf(desk, n)
           ws == wiresOf({n})
           W == strays \cap CanvasWire
           F == (strays \cap CanvasGroup) \cup {into}
           N == (strays \cap CanvasNode) \cup {n}
           Y == W \ ws
           there == desk.at[n] = desk.place[n]
           X == Y \cup (IF there THEN {} ELSE stale(desk, n))
           G == IF there THEN F ELSE (F \ gs) \cup {into}
           K == G \ {into}
           M == N \ {n}
           a == moveConnections(desk, {n})
           b == update_model_position_if_needed(a, n)
           c == joinGroup(b, n, into)
           e == setPossibleChild(c, into, NoItem)
           d == IF into = NoItem THEN b ELSE e
           told == strays \ ({n, into} \cup ws)
<1>1. /\ mouse.item = n /\ desk' = d /\ chosen' = clicked(n, d) /\ mouse' = held(NoItem, FALSE)
      /\ strays' = (IF there THEN told ELSE (told \ gs) \cup unfollowed(n)) /\ pinned' = pinned
  BY DEF ReleaseNode
<1>2. /\ Sound(desk, Spot, W, F, (strays \cap CanvasNode) \cup HeldNodes(desk, mouse), into)
      /\ MouseFits(desk, mouse) /\ chosen \subseteq selectable(desk)
  BY FromInv
<1>3. Sound(desk, Spot, W, F, N, into)
  BY <1>1, <1>2, HeldIs
<1>4. gs \subseteq CanvasGroup /\ into \in CanvasGroup \cup {NoItem}
  BY <1>2, GroupKinds DEF MouseFits
<1>5. /\ into # NoItem => into \in DOMAIN desk.groups /\ gs = {} /\ ~desk.groups[into].locked
  BY <1>1, <1>2 DEF MouseFits
<1>6. X \cap CanvasWire \subseteq strays' /\ K \cap CanvasGroup \subseteq strays' /\ M \cap CanvasNode \subseteq strays'
  <2>1. unfollowed(n) = stale(desk, n) /\ stale(desk, n) \subseteq CanvasWire
    BY Kinds DEF unfollowed, stale
  <2>2. \A x \in CanvasWire : x # into /\ x # n /\ x \notin gs
    BY <1>4, Kinds
  <2>3. \A x \in CanvasGroup : x # n /\ x \notin ws
    BY Kinds
  <2>4. \A x \in CanvasNode : x # into /\ x \notin ws /\ x \notin gs
    BY <1>4, Kinds
  <2> HIDE DEF gs, into, ws
  <2>5. CASE there
    BY <2>1, <2>2, <2>3, <2>4, <2>5, <1>1
  <2>6. CASE ~there
    BY <2>1, <2>2, <2>3, <2>4, <2>6, <1>1
  <2> QED BY <2>5, <2>6
<1>7. W \subseteq Y \cup ws /\ K \subseteq K /\ G \subseteq K \cup {into} /\ N \subseteq M \cup {n}
  OBVIOUS
<1> HIDE DEF W, F, N, Y, a, ws, into
<1>8. /\ Sound(a, Spot, Y, F, N, into) /\ Alike(desk, a) /\ a.at = desk.at /\ a.place = desk.place
  BY <1>3, <1>7, MovingConnections DEF a, ws
<1>9. groupsOf(a, n) = gs /\ stale(a, n) = stale(desk, n)
  BY <1>8, AlikeSame DEF stale
<1>10. /\ Y \cup (IF a.at[n] = a.place[n] THEN {} ELSE stale(a, n)) \subseteq X
       /\ \/ a.at[n] = a.place[n] /\ F \subseteq G
          \/ a.at[n] # a.place[n] /\ F \cup {into} \subseteq G \cup groupsOf(a, n)
  <2> HIDE DEF F, gs
  <2>1. CASE there
    BY <2>1, <1>8, <1>9
  <2>2. CASE ~there
    BY <2>2, <1>8, <1>9
  <2> QED BY <2>1, <2>2
<1> HIDE DEF X, G, K, M, b, gs
<1>11. Sound(b, Spot, X, G, M, into) /\ Alike(a, b)
  BY <1>7, <1>8, <1>10, TellingModel DEF b
<1>12. Alike(desk, b)
  BY <1>8, <1>11, AlikeChain
<1>13. CASE into = NoItem
  <2>1. d = b /\ G \cap CanvasGroup \subseteq strays'
    BY <1>13, <1>6, <1>7, Kinds
  <2>2. chosen' \subseteq selectable(b)
    <3>1. selectable(b) = selectable(desk)
      BY <1>12, AlikeSame
    <3> QED BY <1>1, <2>1, <3>1 DEF clicked
  <2>3. Sound(b, Spot, X, G, M, NoItem)
    BY <1>11, <1>13
  <2> HIDE DEF d
  <2> QED BY <1>1, <1>6, <2>1, <2>2, <2>3, AfterRelease
<1>14. CASE into # NoItem
  <2>1. /\ into \in DOMAIN b.groups /\ groupsOf(b, n) = {} /\ ~b.groups[into].locked
        /\ DOMAIN b.groups = DOMAIN desk.groups
    BY <1>5, <1>12, <1>14, AlikeSame DEF Alike, gs
  <2>2. /\ Sound(c, Spot, X, K, M, into) /\ DOMAIN c.groups = DOMAIN b.groups
        /\ c.groups[into].nodes = b.groups[into].nodes \cup {n}
        /\ \A h \in DOMAIN b.groups : c.groups[h].locked = b.groups[h].locked
        /\ \A h \in DOMAIN b.groups \ {into} : c.groups[h].nodes = b.groups[h].nodes
    BY <1>7, <1>11, <2>1, Joining
  <2> HIDE DEF c
  <2>3. into \in DOMAIN c.groups /\ into \in {NoItem, into} /\ NoItem \in CanvasNode \cup {NoItem}
        /\ K \subseteq K \cup {into} /\ (NoItem = into \/ NoItem = NoItem)
    BY <2>1, <2>2
  <2>4. Sound(e, Spot, X, K, M, NoItem) /\ Alike(c, e)
    BY <2>2, <2>3, SettingChild
  <2> HIDE DEF e
  <2>5. n \in selectable(desk) => n \in selectable(e)
    <3>1. groupsOf(c, n) = {into}
      BY <2>1, <2>2 DEF groupsOf
    <3>2. groupsOf(e, n) = {into} /\ ~e.groups[into].locked
      BY <3>1, <2>1, <2>2, <2>3, <2>4, AlikeSame DEF Alike
    <3>3. n \notin DOMAIN desk.groups
      BY <1>3, GroupKinds, Kinds
    <3> QED BY <3>2, <3>3 DEF selectable, locked
  <2>6. d = e
    BY <1>14
  <2> HIDE DEF d
  <2>7. chosen' \subseteq selectable(e)
    BY <1>1, <2>5, <2>6 DEF clicked
  <2> QED BY <1>1, <1>6, <2>4, <2>6, <2>7, AfterRelease
<1> QED BY <1>13, <1>14

\* What approach() leaves alone of the mouse.
SameDrag(m, k) ==
  /\ k = MouseRecord(k.item, k.resizing, k.from, k.way, k.into, k.original)
  /\ k.item = m.item /\ k.way = m.way

entered(m, g, r) == [m EXCEPT !.into = g, !.original = r]

LEMMA Entering ==
  ASSUME NEW m, m = MouseRecord(m.item, m.resizing, m.from, m.way, m.into, m.original), NEW g, NEW r
  PROVE  SameDrag(m, entered(m, g, r)) /\ entered(m, g, r).into = g
<1>1. ASSUME NEW a, NEW b, NEW c, NEW d, NEW e, NEW f, NEW t, t = MouseRecord(a, b, c, d, e, f)
      PROVE  entered(t, g, r) = MouseRecord(a, b, c, d, g, r)
  <2> DEFINE u == [t EXCEPT !.into = g]
  <2>1. t = [item |-> a, resizing |-> b, from |-> c, way |-> d, into |-> e, original |-> f]
    BY <1>1 DEF MouseRecord
  <2>2. [t EXCEPT !.into = g, !.original = r] = [u EXCEPT !.original = r]
    BY <2>1, SMTT(60)
  <2>3. u = [item |-> a, resizing |-> b, from |-> c, way |-> d, into |-> g, original |-> f]
    BY <2>1
  <2> HIDE DEF u
  <2>4. [u EXCEPT !.original = r]
          = [item |-> a, resizing |-> b, from |-> c, way |-> d, into |-> g, original |-> r]
    BY <2>3
  <2> QED BY <2>2, <2>4 DEF entered, MouseRecord
<1>2. entered(m, g, r) = MouseRecord(m.item, m.resizing, m.from, m.way, g, r)
  BY <1>1
<1> DEFINE k == entered(m, g, r)
<1>3. k = MouseRecord(m.item, m.resizing, m.from, m.way, g, r)
  BY <1>2
<1> HIDE DEF k
<1>4. SameDrag(m, k) /\ k.into = g
  BY <1>3, MouseFields DEF SameDrag
<1> QED BY <1>4 DEF k

\* The mouse enters or leaves groups that are not locked.
LEMMA Approaching ==
  ASSUME NEW d, NEW W, NEW F, NEW N, NEW C, Sound(d, Spot, W, F, N, C),
         C \in DOMAIN d.groups \cup {NoItem}, C # NoItem => ~d.groups[C].locked, NEW n \in CanvasNode,
         NEW m, m = MouseRecord(m.item, m.resizing, m.from, m.way, m.into, m.original), m.into = C,
         NEW Z, F \cap CanvasGroup \subseteq Z \cup {C}, NEW r \in approach(d, n, m)
  PROVE  LET e == r[1]
             k == r[2]
         IN  /\ \E G : Sound(e, Spot, W, G, N, k.into) /\ G \cap CanvasGroup \subseteq Z \cup {k.into}
             /\ Alike(d, e) /\ e.place = d.place /\ SameDrag(m, k)
             /\ k.into \in DOMAIN d.groups \cup {NoItem} /\ (k.into # NoItem => ~d.groups[k.into].locked)
<1> DEFINE Arrives(e, k) ==
             /\ \E G : Sound(e, Spot, W, G, N, k.into) /\ G \cap CanvasGroup \subseteq Z \cup {k.into}
             /\ Alike(d, e) /\ e.place = d.place /\ SameDrag(m, k)
             /\ k.into \in DOMAIN d.groups \cup {NoItem} /\ (k.into # NoItem => ~d.groups[k.into].locked)
<1>1. Arrives(d, m)
  BY AlikeChain DEF SameDrag
<1>2. ASSUME NEW t, NEW Y, Sound(t, Spot, W, Y, N, NoItem), Y \cap CanvasGroup \subseteq Z \cup {NoItem},
             Alike(d, t), t.place = d.place, NEW g \in hits(d, n), NEW f
      PROVE  Arrives(setPossibleChild(t, g, n), entered(m, g, f))
  <2> DEFINE e == setPossibleChild(t, g, n)
             k == entered(m, g, f)
             G == Y \ {g}
  <2>1. g \in DOMAIN d.groups /\ ~d.groups[g].locked /\ g \in DOMAIN t.groups
    BY <1>2 DEF hits, Alike
  <2>2. /\ NoItem \in {NoItem, g} /\ n \in CanvasNode \cup {NoItem} /\ (g = g \/ n = NoItem)
        /\ Y \subseteq G \cup {g}
    OBVIOUS
  <2> HIDE DEF G
  <2>3. Sound(e, Spot, W, G, N, g) /\ Alike(t, e) /\ e.place = t.place
    BY <1>2, <2>1, <2>2, SettingChild
  <2>4. SameDrag(m, k) /\ k.into = g
    BY Entering
  <2>5. G \cap CanvasGroup \subseteq Z \cup {g}
    BY <1>2, Kinds DEF G
  <2> HIDE DEF e, k
  <2>6. Alike(d, e)
    BY <1>2, <2>3, AlikeChain
  <2> QED BY <1>2, <2>1, <2>3, <2>4, <2>5, <2>6 DEF e, k
<1>3. ASSUME NEW f, NEW g \in hits(d, n), C = NoItem
      PROVE  Arrives(setPossibleChild(d, g, n), entered(m, g, f))
  <2>1. Sound(d, Spot, W, F, N, NoItem) /\ Alike(d, d)
    BY <1>3, AlikeChain
  <2> HIDE DEF Arrives
  <2> QED BY <1>2, <1>3, <2>1
<1>4. ASSUME C # NoItem
      PROVE  LET u == setPossibleChild(d, C, NoItem)
             IN  /\ Arrives(u, entered(m, NoItem, NoRect))
                 /\ \A g \in hits(d, n) : \A f : Arrives(setPossibleChild(u, g, n), entered(m, g, f))
  <2> DEFINE u == setPossibleChild(d, C, NoItem)
             k == entered(m, NoItem, NoRect)
             G == F \ {C}
  <2>1. /\ C \in {NoItem, C} /\ NoItem \in CanvasNode \cup {NoItem} /\ (NoItem = C \/ NoItem = NoItem)
        /\ F \subseteq G \cup {C} /\ C \in DOMAIN d.groups
    BY <1>4
  <2>2. G \cap CanvasGroup \subseteq Z \cup {NoItem}
    OBVIOUS
  <2> HIDE DEF G
  <2>3. Sound(u, Spot, W, G, N, NoItem) /\ Alike(d, u) /\ u.place = d.place
    BY <2>1, SettingChild
  <2>4. SameDrag(m, k) /\ k.into = NoItem
    BY Entering
  <2> HIDE DEF u, k
  <2>5. Arrives(u, k)
    BY <2>2, <2>3, <2>4
  <2>6. ASSUME NEW g \in hits(d, n), NEW f PROVE Arrives(setPossibleChild(u, g, n), entered(m, g, f))
    <3> HIDE DEF Arrives
    <3> QED BY <1>2, <2>2, <2>3
  <2> HIDE DEF Arrives
  <2> QED BY <2>5, <2>6 DEF u, k
<1> HIDE DEF Arrives
<1>5. Arrives(r[1], r[2])
  <2>1. CASE r = <<d, m>>
    BY <2>1, <1>1
  <2>2. CASE C = NoItem /\ r # <<d, m>>
    <3>1. PICK g \in hits(d, n) : r = <<setPossibleChild(d, g, n), entered(m, g, d.groups[g].frame)>>
      BY <2>2 DEF approach, entered
    <3> QED BY <3>1, <2>2, <1>3
  <2>3. CASE C # NoItem /\ r # <<d, m>>
    <3> DEFINE u == setPossibleChild(d, C, NoItem)
    <3>1. \/ r = <<u, entered(m, NoItem, NoRect)>>
          \/ \E g \in hits(d, n) : r = <<setPossibleChild(u, g, n), entered(m, g, d.groups[g].frame)>>
      BY <2>3 DEF approach, entered
    <3>2. CASE r = <<u, entered(m, NoItem, NoRect)>>
      BY <3>2, <2>3, <1>4
    <3>3. CASE \E g \in hits(d, n) : r = <<setPossibleChild(u, g, n), entered(m, g, d.groups[g].frame)>>
      <4>1. PICK g \in hits(d, n) : r = <<setPossibleChild(u, g, n), entered(m, g, d.groups[g].frame)>>
        BY <3>3
      <4> QED BY <4>1, <2>3, <1>4
    <3> QED BY <3>1, <3>2, <3>3
  <2> QED BY <2>1, <2>2, <2>3
<1> QED BY <1>5 DEF Arrives

\* The mouse after a step of a drag.
dragged(m, from, way) == [m EXCEPT !.from = from, !.way = way]

LEMMA DraggedIs ==
  ASSUME NEW m, m = MouseRecord(m.item, m.resizing, m.from, m.way, m.into, m.original), NEW from, NEW way
  PROVE  LET k == dragged(m, from, way)
         IN  /\ k = MouseRecord(k.item, k.resizing, k.from, k.way, k.into, k.original)
             /\ k.item = m.item /\ k.way = way /\ k.into = m.into
<1>1. ASSUME NEW a, NEW b, NEW c, NEW d, NEW e, NEW f, NEW t, t = MouseRecord(a, b, c, d, e, f)
      PROVE  dragged(t, from, way) = MouseRecord(a, b, from, way, e, f)
  <2> DEFINE u == [t EXCEPT !.from = from]
  <2>1. t = [item |-> a, resizing |-> b, from |-> c, way |-> d, into |-> e, original |-> f]
    BY <1>1 DEF MouseRecord
  <2>2. [t EXCEPT !.from = from, !.way = way] = [u EXCEPT !.way = way]
    BY <2>1, SMTT(60)
  <2>3. u = [item |-> a, resizing |-> b, from |-> from, way |-> d, into |-> e, original |-> f]
    BY <2>1
  <2> HIDE DEF u
  <2>4. [u EXCEPT !.way = way]
          = [item |-> a, resizing |-> b, from |-> from, way |-> way, into |-> e, original |-> f]
    BY <2>3
  <2> QED BY <2>2, <2>4 DEF dragged, MouseRecord
<1> DEFINE k == dragged(m, from, way)
<1>2. k = MouseRecord(m.item, m.resizing, from, way, m.into, m.original)
  BY <1>1
<1> HIDE DEF k
<1>3. k.item = m.item /\ k.resizing = m.resizing /\ k.from = from /\ k.way = way /\ k.into = m.into
      /\ k.original = m.original
  BY <1>2, MouseFields
<1> QED BY <1>2, <1>3 DEF k

\* The selected items that may move are moved, with the frames of the groups among them.
LEMMA Dragging ==
  ASSUME NEW W, NEW F, NEW N, NEW C, Sound(desk, Spot, W, F, N, C),
         NEW items, items \subseteq selectable(desk), NEW from, NEW way,
         \A i \in items \cap CanvasNode : from[i] + way \in Spot,
         NEW G, F \cup {C} \subseteq G, items \cap DOMAIN desk.groups \subseteq G,
         \A i \in items \cap CanvasNode : groupsOf(desk, i) \subseteq G,
         NEW M, N \cup (items \cap CanvasNode) \subseteq M
  PROVE  LET e == drag(items, from, way)
         IN  Sound(e, Spot, W, G, M, C) /\ Alike(desk, e)
<1> DEFINE S == items \cap CanvasNode
           at == shiftedAll(desk, from, way, S)
           e == drag(items, from, way)
<1>1. S \in SUBSET CanvasNode /\ N \cup S \subseteq M
  OBVIOUS
<1>2. \A i \in S : ~locked(desk, i) /\ from[i] + way \in Spot /\ groupsOf(desk, i) \subseteq G
  BY LockedIs
<1>3. e = grouped(at, framesBy(at.groups, items, way - mouse.way))
  BY DEF drag, grouped, framesBy, shiftedAll
<1> HIDE DEF S, at, e
<1>4. Sound(at, Spot, W, G, M, C) /\ Alike(desk, at)
  BY <1>1, <1>2, Shifted DEF at
<1>5. items \cap DOMAIN at.groups \subseteq G
  BY <1>4 DEF Alike
<1>6. Sound(e, Spot, W, G, M, C) /\ Alike(at, e)
  BY <1>3, <1>4, <1>5, FramesBy
<1> QED BY <1>4, <1>6, AlikeChain DEF e

\* A step of a drag.
LEMMA AfterMove ==
  ASSUME CanvasInv, NEW d, NEW k, NEW W, NEW F, NEW N, Sound(d, Spot, W, F, N, k.into), Alike(desk, d),
         desk' = d, mouse' = k, UNCHANGED pinned, chosen' \subseteq selectable(desk), MouseFits(desk, k),
         W \cap CanvasWire \subseteq strays', F \cap CanvasGroup \subseteq strays' \cup {k.into},
         N \cap CanvasNode \subseteq strays' \cup HeldNodes(desk, k)
  PROVE  CanvasInv'
<1>1. MouseFits(d, k) /\ HeldNodes(d, k) = HeldNodes(desk, k)
  BY AlikeFits
<1>2. chosen' \subseteq selectableIn(d, pinned) /\ pinned \subseteq MayBePinned
  <2>1. selectable(d) = selectable(desk)
    BY AlikeSame
  <2> QED BY <2>1, SelectableIs, FromInv
<1>3. N \cap CanvasNode \subseteq strays' \cup HeldNodes(d, k)
  BY <1>1
<1>4. Fits(d, k, strays', pinned, chosen')
  BY <1>1, <1>2, <1>3, Arrive
<1> QED BY <1>4 DEF CanvasInv

LEMMA AfterMoveGroup ==
  ASSUME CanvasInv, NEW g \in DOMAIN desk.groups, NEW way \in MouseWay, MoveGroup(g, way)
  PROVE  CanvasInv'
<1> DEFINE items == movable(desk, chosen \cup {g})
           from == IF mouse.from = << >> THEN positions(desk, items) ELSE mouse.from
           ms == desk.groups[g].nodes
           ws == wiresOf(ms)
           offset == way - mouse.way
           moved == drag(items, from, way)
           a == moveNodes(moved, g, offset)
           b == moveConnections(a, ms)
           k == dragged(mouse, from, way)
           W == strays \cap CanvasWire
           F == (strays \cap CanvasGroup) \cup {NoItem}
           N == (strays \cap CanvasNode) \cup ms
           G == (F \cup (items \cap CanvasGroup)) \cup UNION {groupsOf(desk, i) : i \in items}
           M == N \cup (items \cap CanvasNode)
           X == W \cup ws
           Y == W \ ws
           H == G \ {g}
<1>1. /\ mouse.item = g /\ pinned' = pinned /\ chosen' = chosen
      /\ \A i \in items \cap CanvasNode : from[i] + way \in Spot
      /\ \A i \in ms : moved.place[i] + way - mouse.way \in Spot
      /\ desk' = b /\ mouse' = k
      /\ strays' = carry(g, items \ ms) \ ({g} \cup ws)
  BY DEF MoveGroup, dragged
<1>2. /\ Sound(desk, Spot, W, (strays \cap CanvasGroup) \cup {mouse.into},
                  (strays \cap CanvasNode) \cup HeldNodes(desk, mouse), mouse.into)
      /\ MouseFits(desk, mouse) /\ chosen \subseteq selectable(desk)
  BY FromInv
<1>3. g \in CanvasGroup /\ g \notin CanvasNode /\ g # NoItem /\ ms \in SUBSET CanvasNode
  BY <1>2, GroupKinds, Kinds
<1>4. mouse.into = NoItem /\ HeldNodes(desk, mouse) = ms
  BY <1>1, <1>2, <1>3, HeldIs DEF MouseFits
<1>5. Sound(desk, Spot, W, F, N, NoItem)
  BY <1>2, <1>4
<1>6. items \subseteq selectable(desk) /\ DOMAIN desk.groups \subseteq CanvasGroup
  BY <1>5, GroupKinds DEF movable
<1>7. k.item = g /\ k.into = NoItem /\ MouseFits(desk, k) /\ HeldNodes(desk, k) = ms
  <2>1. mouse = MouseRecord(mouse.item, mouse.resizing, mouse.from, mouse.way, mouse.into, mouse.original)
    BY <1>2 DEF MouseFits
  <2>2. way \in Int
    BY CanvasConstants
  <2> HIDE DEF from
  <2>3. /\ k = MouseRecord(k.item, k.resizing, k.from, k.way, k.into, k.original)
        /\ k.item = mouse.item /\ k.way = way /\ k.into = mouse.into
    BY <2>1, DraggedIs
  <2> HIDE DEF k
  <2>4. MouseFits(desk, k)
    BY <1>1, <1>2, <1>4, <2>2, <2>3 DEF MouseFits
  <2> QED BY <1>1, <1>3, <1>4, <1>5, <2>3, <2>4, HeldIs
<1>8. mouse.way \in Int
  BY <1>2 DEF MouseFits
<1>9. Y \cap CanvasWire \subseteq strays' /\ H \cap CanvasGroup \subseteq strays' \cup {NoItem}
      /\ M \cap CanvasNode \subseteq strays' \cup ms
  <2>1. \A i \in ms : groupsOf(desk, i) = {g}
    BY <1>5, GroupKinds, OneGroup
  <2>2. \A i \in CanvasGroup : i \notin ms /\ i \notin ws
    BY <1>3, Kinds
  <2>3. \A i \in CanvasNode : i \notin ws /\ i # g
    BY <1>3, Kinds
  <2>4. \A i \in CanvasWire : i # g
    BY <1>3, Kinds
  <2>5. strays' = (strays \cup ((items \ ms) \ {g})
                    \cup UNION {groupsOf(desk, i) : i \in (items \ ms) \ {g}}) \ ({g} \cup ws)
    BY <1>1 DEF carry
  <2> HIDE DEF items, ms, ws
  <2>6. Y \cap CanvasWire \subseteq strays'
    BY <2>4, <2>5
  <2>7. groupsOf(desk, g) = {}
    BY <1>3, <1>5, GroupKinds DEF groupsOf
  <2>8. ASSUME NEW x \in H \cap CanvasGroup PROVE x \in strays' \cup {NoItem}
    <3>1. x # g /\ x \notin ms /\ x \notin ws
      BY <2>2
    <3>2. CASE x \in UNION {groupsOf(desk, i) : i \in items}
      <4>1. PICK i \in items : x \in groupsOf(desk, i)
        BY <3>2
      <4>2. i \notin ms /\ i # g
        BY <2>1, <2>7, <4>1, <3>1
      <4> QED BY <4>1, <4>2, <3>1, <2>5
    <3> QED BY <3>1, <3>2, <2>5
  <2>9. M \cap CanvasNode \subseteq strays' \cup ms
    BY <2>3, <2>5
  <2> QED BY <2>6, <2>8, <2>9
<1>10. /\ F \cup {NoItem} \subseteq G /\ items \cap DOMAIN desk.groups \subseteq G
       /\ \A i \in items \cap CanvasNode : groupsOf(desk, i) \subseteq G
       /\ N \cup (items \cap CanvasNode) \subseteq M
  BY <1>6
<1>11. ms \subseteq M /\ M \cup ms \subseteq M /\ W \cup ws \subseteq X /\ X \subseteq Y \cup ws
       /\ G \cup {NoItem} \subseteq H \cup {g}
  OBVIOUS
<1> HIDE DEF W, F, N, G, M, X, Y, H, moved, a, b, k, items, from
<1>12. Sound(moved, Spot, W, G, M, NoItem) /\ Alike(desk, moved)
  <2>1. items \subseteq selectable(desk) /\ \A i \in items \cap CanvasNode : from[i] + way \in Spot
    BY <1>1, <1>6
  <2>2. Sound(drag(items, from, way), Spot, W, G, M, NoItem) /\ Alike(desk, drag(items, from, way))
    BY <2>1, <1>5, <1>10, Dragging
  <2> QED BY <2>2 DEF moved
<1>13. g \in DOMAIN moved.groups /\ moved.groups[g].nodes = ms
  BY <1>12 DEF Alike
<1>14. \A i \in moved.groups[g].nodes : moved.place[i] + offset \in Spot
  <2>1. \A i \in ms : moved.place[i] \in Spot
    BY <1>3, <1>12 DEF Sound, DeskIs
  <2>2. way \in Int
    BY CanvasConstants
  <2>3. Spot \subseteq Int
    BY CanvasConstants DEF Spot
  <2> HIDE DEF ms
  <2>4. ASSUME NEW i \in ms PROVE moved.place[i] + (way - mouse.way) \in Spot
    <3> DEFINE p == moved.place[i]
               u == mouse.way
    <3>1. p \in Int /\ u \in Int /\ p + way - u \in Spot
      BY <1>1, <1>8, <2>1, <2>3
    <3> HIDE DEF p, u
    <3>2. p + (way - u) = p + way - u
      BY <2>2, <3>1
    <3>3. p + (way - u) \in Spot
      BY <3>1, <3>2
    <3> QED BY <3>3 DEF p, u
  <2> QED BY <1>13, <2>4
<1> HIDE DEF ms, ws, offset
<1>15. Sound(a, Spot, X, H, M, NoItem) /\ Alike(moved, a)
  <2>1. /\ W \cup wiresOf(moved.groups[g].nodes) \subseteq X /\ M \cup moved.groups[g].nodes \subseteq M
    BY <1>11, <1>13 DEF ws
  <2>2. Spot \subseteq Spot
    OBVIOUS
  <2> QED BY <1>11, <1>12, <1>13, <1>14, <2>1, <2>2, MovingNodes DEF a
<1>16. Sound(b, Spot, Y, H, M, NoItem) /\ Alike(a, b)
  BY <1>11, <1>15, MovingConnections DEF b, ws
<1>17. Alike(desk, b)
  BY <1>12, <1>15, <1>16, AlikeChain
<1>18. Sound(b, Spot, Y, H, M, k.into) /\ H \cap CanvasGroup \subseteq strays' \cup {k.into}
       /\ M \cap CanvasNode \subseteq strays' \cup HeldNodes(desk, k) /\ chosen' \subseteq selectable(desk)
  BY <1>1, <1>2, <1>7, <1>9, <1>16
<1> QED BY <1>1, <1>7, <1>9, <1>17, <1>18, AfterMove

\* A node that is in a group, and what goes with it.
LEMMA Together ==
  ASSUME NEW d, NEW W, NEW F, NEW N, Sound(d, Spot, W, F, N, NoItem),
         NEW n \in CanvasNode, NEW g \in DOMAIN d.groups, n \in d.groups[g].nodes,
         NEW m, NEW offset \in Int, NEW r \in draggedNode(d, n, m, offset),
         \A i \in CanvasNode : r[1].place[i] \in Spot
  PROVE  /\ r[2] = m /\ Alike(d, r[1])
         /\ LET ws == IF d.groups[g].locked THEN wiresOf(d.groups[g].nodes) ELSE {}
                ns == IF d.groups[g].locked THEN d.groups[g].nodes ELSE {}
            IN  Sound(r[1], Spot, W \cup ws, F \ {g}, N \cup ns, NoItem)
<1> DEFINE ms == d.groups[g].nodes
           a == moveConnections(d, ms)
           on == d.groups[g].locked
           b == IF on THEN moveNodes(a, g, offset) ELSE updateGroupGeometry(a, {g})
           G == F \ {g}
           X == W \cup wiresOf(ms)
           M == N \cup ms
<1>1. GroupsAre(d.groups)
  BY GroupKinds
<1>2. groupsOf(d, n) = {g}
  BY <1>1, OneGroup
<1>3. (CHOOSE k \in {g} : TRUE) = g
  OBVIOUS
<1>4. draggedNode(d, n, m, offset) = {<<b, m>>}
  BY <1>2, <1>3 DEF draggedNode
<1>5. r[1] = b /\ r[2] = m
  BY <1>4
<1>6. /\ W \subseteq W \cup wiresOf(ms) /\ W \cup wiresOf(ms) \subseteq X
      /\ F \subseteq G \cup {g} /\ F \cup {NoItem} \subseteq (G \cup {NoItem}) \cup {g} /\ N \cup ms \subseteq M
  OBVIOUS
<1>7. ms \subseteq CanvasNode /\ DOMAIN d.groups \subseteq CanvasGroup
  BY GroupKinds
<1> HIDE DEF ms, a, b, X, M, G
<1>8. Sound(a, Spot, W, F, N, NoItem) /\ Alike(d, a)
  BY <1>6, MovingConnections DEF a
<1>9. g \in DOMAIN a.groups /\ a.groups[g].nodes = ms /\ a.groups[g].locked = on
  BY <1>8 DEF Alike, ms
<1> HIDE DEF on
<1>10. CASE ~on
  <2>1. b = updateGroupGeometry(a, {g})
    BY <1>10 DEF b
  <2>2. Sound(b, Spot, W, G, N, NoItem) /\ Alike(a, b)
    BY <1>6, <1>8, <2>1, Updating
  <2>3. Alike(d, b)
    BY <1>8, <2>2, AlikeChain
  <2>4. W \cup {} = W /\ N \cup {} = N
    OBVIOUS
  <2> QED BY <1>5, <1>10, <2>2, <2>3, <2>4 DEF G, on
<1>11. CASE on
  <2>1. b = moveNodes(a, g, offset)
    BY <1>11 DEF b
  <2>2. Spot \subseteq Int
    BY CanvasConstants DEF Spot
  <2>3. ASSUME NEW i \in CanvasNode PROVE a.place[i] \in Spot
    BY <1>8 DEF Sound, DeskIs
  <2>4. Sound(a, Int, W, F, N, NoItem)
    <3>1. \A i \in CanvasNode : a.place[i] \in Int
      BY <2>2, <2>3
    <3>2. W \cap CanvasWire \subseteq W /\ F \cap DOMAIN a.groups \subseteq F /\ N \cap CanvasNode \subseteq N
      OBVIOUS
    <3> QED BY <1>8, <3>1, <3>2, Weaken
  <2>5. \A i \in a.groups[g].nodes :
          a.place[i] + offset \in Int /\ (locked(a, i) \/ a.place[i] + offset \in Spot)
    <3>1. ASSUME NEW i \in ms PROVE a.place[i] + offset \in Int
      <4> DEFINE p == a.place[i]
      <4>1. p \in Int
        BY <1>7, <2>2, <2>3
      <4> HIDE DEF p
      <4>2. p + offset \in Int
        BY <4>1
      <4> QED BY <4>2 DEF p
    <3>2. ASSUME NEW i \in ms PROVE locked(a, i)
      BY <1>9, <1>11 DEF locked, groupsOf
    <3> QED BY <1>9, <3>1, <3>2
  <2>6. W \cup wiresOf(a.groups[g].nodes) \subseteq X /\ N \cup a.groups[g].nodes \subseteq M
    BY <1>6, <1>9
  <2> DEFINE H == G \cup {NoItem}
  <2>7. F \cup {NoItem} \subseteq H \cup {g}
    BY <1>6
  <2> HIDE DEF H
  <2>8. Sound(b, Int, X, H, M, NoItem) /\ Alike(a, b)
    <3>1. g \in DOMAIN a.groups
      BY <1>9
    <3>2. Sound(moveNodes(a, g, offset), Int, X, H, M, NoItem) /\ Alike(a, moveNodes(a, g, offset))
      BY <3>1, <2>2, <2>4, <2>5, <2>6, <2>7, MovingNodes
    <3> QED BY <3>2, <2>1
  <2>9. Sound(b, Spot, X, G, M, NoItem)
    <3>1. \A i \in CanvasNode : b.place[i] \in Spot
      BY <1>5
    <3>2. NoItem \notin DOMAIN b.groups
      BY <2>8, GroupKinds, Kinds
    <3>3. X \cap CanvasWire \subseteq X /\ H \cap DOMAIN b.groups \subseteq G /\ M \cap CanvasNode \subseteq M
      BY <3>2 DEF H
    <3> QED BY <2>8, <3>1, <3>3, Weaken
  <2>10. Alike(d, b)
    BY <1>8, <2>8, AlikeChain
  <2> QED BY <1>5, <1>11, <2>9, <2>10 DEF G, X, M, on, ms
<1> QED BY <1>10, <1>11

LEMMA AfterMoveNode ==
  ASSUME CanvasInv, NEW n \in CanvasNode, NEW way \in MouseWay, MoveNode(n, way)
  PROVE  CanvasInv'
<1> DEFINE selected == IF n \in chosen THEN chosen ELSE {n} \cap selectable(desk)
           free == ~locked(desk, n)
           items == IF free THEN movable(desk, selected) ELSE {}
           from == IF mouse.from = << >> THEN positions(desk, selected \cup {n}) ELSE mouse.from
           moved == IF free THEN drag(items, from, way) ELSE desk
           start == IF free THEN from ELSE mouse.from
           k == dragged(mouse, start, way)
           offset == way - mouse.way
           into == mouse.into
           gs == groupsOf(desk, n)
           W == strays \cap CanvasWire
           F == (strays \cap CanvasGroup) \cup {into}
           N == (strays \cap CanvasNode) \cup {n}
           G == (F \cup (items \cap CanvasGroup)) \cup UNION {groupsOf(desk, i) : i \in items}
           M == N \cup (items \cap CanvasNode)
<1>1. /\ mouse.item = n /\ pinned' = pinned /\ chosen' = selected
      /\ \A i \in items \cap CanvasNode : from[i] + way \in Spot
      /\ strays' = (carry(n, items) \cup withGroup(n)) \ (gs \cup {n})
  BY DEF MoveNode
<1>2. PICK r \in draggedNode(moved, n, k, offset) :
        desk' = r[1] /\ mouse' = r[2] /\ \A i \in CanvasNode : r[1].place[i] \in Spot
  BY DEF MoveNode, dragged
<1>3. /\ Sound(desk, Spot, W, F, (strays \cap CanvasNode) \cup HeldNodes(desk, mouse), into)
      /\ MouseFits(desk, mouse) /\ chosen \subseteq selectable(desk)
  BY FromInv
<1>4. Sound(desk, Spot, W, F, N, into)
  BY <1>1, <1>3, HeldIs
<1>5. items \subseteq selectable(desk) /\ selected \subseteq selectable(desk)
  BY <1>3 DEF movable
<1>6. /\ DOMAIN desk.groups \subseteq CanvasGroup /\ gs \subseteq DOMAIN desk.groups
      /\ \A i : groupsOf(desk, i) \subseteq CanvasGroup
  BY <1>4, GroupKinds
<1>7. /\ F \cup {into} \subseteq G /\ items \cap DOMAIN desk.groups \subseteq G
      /\ \A i \in items \cap CanvasNode : groupsOf(desk, i) \subseteq G
      /\ N \cup (items \cap CanvasNode) \subseteq M
  BY <1>6
<1>8. G \cap CanvasGroup \subseteq ((strays' \cap CanvasGroup) \cup gs) \cup {into}
  <2>1. \A i \in CanvasGroup : i # n
    BY Kinds
  <2> HIDE DEF items, gs
  <2>2. strays' = ((strays \cup (items \ {n}) \cup UNION {groupsOf(desk, i) : i \in items \ {n}})
                    \cup withGroup(n)) \ (gs \cup {n})
    BY <1>1 DEF carry
  <2>3. ASSUME NEW x \in G \cap CanvasGroup PROVE x \in ((strays' \cap CanvasGroup) \cup gs) \cup {into}
    <3>1. CASE x \in UNION {groupsOf(desk, i) : i \in items}
      <4>1. PICK i \in items : x \in groupsOf(desk, i)
        BY <3>1
      <4>2. CASE i = n
        BY <4>1, <4>2 DEF gs
      <4>3. CASE i # n
        BY <4>1, <4>3, <2>1, <2>2
      <4> QED BY <4>2, <4>3
    <3> QED BY <3>1, <2>1, <2>2
  <2> QED BY <2>3
<1>9. W \subseteq strays' /\ M \cap CanvasNode \subseteq strays' \cup {n}
  <2>1. \A i \in CanvasWire : i # n /\ i \notin gs
    BY <1>6, Kinds
  <2>2. \A i \in CanvasNode : i \notin gs
    BY <1>6, Kinds
  <2> HIDE DEF items, gs
  <2> QED BY <1>1, <2>1, <2>2 DEF carry
<1>10. chosen' \subseteq selectable(desk)
  BY <1>1, <1>5
<1> HIDE DEF W, F, N, G, M, items, from, selected, into, offset
<1>11. Sound(moved, Spot, W, G, M, into) /\ Alike(desk, moved)
  <2>1. CASE free
    <3>1. Sound(drag(items, from, way), Spot, W, G, M, into) /\ Alike(desk, drag(items, from, way))
      <4>1. \A i \in items \cap CanvasNode : from[i] + way \in Spot
        BY <1>1
      <4> QED BY <4>1, <1>4, <1>5, <1>7, Dragging
    <3> QED BY <2>1, <3>1
  <2>2. CASE ~free
    <3>1. \A i \in CanvasNode : desk.place[i] \in Spot
      BY <1>4 DEF Sound, DeskIs
    <3>2. W \cap CanvasWire \subseteq W /\ F \cap DOMAIN desk.groups \subseteq G /\ N \cap CanvasNode \subseteq M
      BY <1>7
    <3>3. Sound(desk, Spot, W, G, M, into)
      BY <1>4, <3>1, <3>2, Weaken
    <3> QED BY <2>2, <3>3, AlikeChain
  <2> QED BY <2>1, <2>2
<1>12. /\ k = MouseRecord(k.item, k.resizing, k.from, k.way, k.into, k.original)
       /\ k.item = n /\ k.way = way /\ k.into = into /\ way \in Int
  <2>1. mouse = MouseRecord(mouse.item, mouse.resizing, mouse.from, mouse.way, mouse.into, mouse.original)
    BY <1>3 DEF MouseFits
  <2>2. way \in Int
    BY CanvasConstants
  <2> HIDE DEF start
  <2>3. /\ k = MouseRecord(k.item, k.resizing, k.from, k.way, k.into, k.original)
        /\ k.item = mouse.item /\ k.way = way /\ k.into = mouse.into
    BY <2>1, DraggedIs
  <2> QED BY <1>1, <2>2, <2>3 DEF into
<1> HIDE DEF moved, k, start, free
<1>13. /\ into \in DOMAIN desk.groups \cup {NoItem}
       /\ into # NoItem => gs = {} /\ ~desk.groups[into].locked
  BY <1>1, <1>3 DEF MouseFits, into
<1>14. CASE gs = {}
  <2> DEFINE e == moveConnections(moved, {n})
             Z == strays' \cap CanvasGroup
  <2>1. groupsOf(moved, n) = {}
    BY <1>11, <1>14, AlikeSame
  <2>2. r \in approach(e, n, k)
    BY <1>2, <2>1 DEF draggedNode
  <2>3. W \subseteq W \cup wiresOf({n}) /\ G \cap CanvasGroup \subseteq Z \cup {into}
    BY <1>8, <1>14
  <2> HIDE DEF e, Z
  <2>4. Sound(e, Spot, W, G, M, into) /\ Alike(moved, e)
    BY <1>11, <2>3, MovingConnections DEF e
  <2>5. Alike(desk, e)
    BY <1>11, <2>4, AlikeChain
  <2>6. into \in DOMAIN e.groups \cup {NoItem} /\ (into # NoItem => ~e.groups[into].locked)
    BY <1>13, <2>5 DEF Alike
  <2> DEFINE d == r[1]
             j == r[2]
  <2>7. /\ \E H : Sound(d, Spot, W, H, M, j.into) /\ H \cap CanvasGroup \subseteq Z \cup {j.into}
        /\ Alike(e, d) /\ SameDrag(k, j)
        /\ j.into \in DOMAIN e.groups \cup {NoItem} /\ (j.into # NoItem => ~e.groups[j.into].locked)
    BY <1>12, <2>2, <2>3, <2>4, <2>6, Approaching
  <2> HIDE DEF d, j
  <2>8. PICK H : Sound(d, Spot, W, H, M, j.into) /\ H \cap CanvasGroup \subseteq Z \cup {j.into}
    BY <2>7
  <2>9. Alike(desk, d)
    BY <2>5, <2>7, AlikeChain
  <2>10. /\ j = MouseRecord(j.item, j.resizing, j.from, j.way, j.into, j.original)
         /\ j.item = n /\ j.way = way
    BY <1>12, <2>7 DEF SameDrag
  <2>11. MouseFits(desk, j)
    <3>1. DOMAIN e.groups = DOMAIN desk.groups
          /\ \A g \in DOMAIN desk.groups : e.groups[g].locked = desk.groups[g].locked
      BY <2>5 DEF Alike
    <3>2. NoItem \notin DOMAIN desk.groups
      BY <1>6, Kinds
    <3>3. groupsOf(desk, n) = {}
      BY <1>14
    <3> HIDE DEF gs
    <3> QED BY <1>12, <2>7, <2>10, <3>1, <3>2, <3>3 DEF MouseFits
  <2>12. HeldNodes(desk, j) = {n}
    BY <1>4, <2>10, HeldIs
  <2>13. /\ W \cap CanvasWire \subseteq strays' /\ H \cap CanvasGroup \subseteq strays' \cup {j.into}
         /\ M \cap CanvasNode \subseteq strays' \cup HeldNodes(desk, j)
    BY <1>9, <2>8, <2>12 DEF Z
  <2>14. desk' = d /\ mouse' = j
    BY <1>2 DEF d, j
  <2> QED BY <1>1, <1>10, <2>8, <2>9, <2>11, <2>13, <2>14, AfterMove
<1>15. CASE gs # {}
  <2>1. PICK g \in DOMAIN desk.groups : n \in desk.groups[g].nodes /\ g \in gs
    BY <1>15, <1>6 DEF groupsOf
  <2>2. gs = {g} /\ into = NoItem
    <3>1. GroupsAre(desk.groups)
      BY <1>4, GroupKinds
    <3> QED BY <1>13, <1>15, <2>1, <3>1, OneGroup
  <2>3. Sound(moved, Spot, W, G, M, NoItem) /\ g \in DOMAIN moved.groups
        /\ moved.groups[g].nodes = desk.groups[g].nodes /\ moved.groups[g].locked = desk.groups[g].locked
    BY <1>11, <2>1, <2>2 DEF Alike
  <2>4. offset \in Int
    <3>1. mouse.way \in Int
      BY <1>3 DEF MouseFits
    <3> DEFINE u == mouse.way
    <3> HIDE DEF u
    <3>2. u \in Int => way - u \in Int
      BY <1>12
    <3> QED BY <3>1, <3>2 DEF offset, u
  <2> DEFINE on == desk.groups[g].locked
             ms == desk.groups[g].nodes
             ws == IF on THEN wiresOf(ms) ELSE {}
             ns == IF on THEN ms ELSE {}
             d == r[1]
             X == W \cup ws
             H == G \ {g}
             O == M \cup ns
  <2>5. r[2] = k /\ Alike(moved, d) /\ Sound(d, Spot, X, H, O, NoItem)
    <3>1. n \in moved.groups[g].nodes
      BY <2>1, <2>3
    <3>2. \A i \in CanvasNode : r[1].place[i] \in Spot
      BY <1>2
    <3>3. /\ r[2] = k /\ Alike(moved, r[1])
          /\ LET xs == IF moved.groups[g].locked THEN wiresOf(moved.groups[g].nodes) ELSE {}
                 zs == IF moved.groups[g].locked THEN moved.groups[g].nodes ELSE {}
             IN  Sound(r[1], Spot, W \cup xs, G \ {g}, M \cup zs, NoItem)
      BY <1>2, <2>3, <2>4, <3>1, <3>2, Together
    <3> QED BY <3>3, <2>3
  <2>6. ws \subseteq strays' /\ ns \subseteq strays' \cup {n}
    <3>1. withGroup(n) = IF on THEN ms \cup wiresOf(ms) ELSE {}
      <4>1. CASE on
        <5>1. {i \in gs : desk.groups[i].locked} = {g}
          BY <2>2, <4>1
        <5> QED BY <4>1, <5>1 DEF withGroup
      <4>2. CASE ~on
        <5>1. {i \in gs : desk.groups[i].locked} = {}
          BY <2>2, <4>2
        <5> QED BY <4>2, <5>1 DEF withGroup
      <4> QED BY <4>1, <4>2
    <3>2. \A i \in wiresOf(ms) : i # g /\ i # n
      BY <1>6, <2>1, Kinds
    <3>3. \A i \in ms : i # g
      BY <1>4, <1>6, <2>1, GroupKinds, Kinds
    <3>4. strays' = (carry(n, items) \cup withGroup(n)) \ ({g} \cup {n})
      BY <1>1, <2>2
    <3> HIDE DEF ms, on
    <3> QED BY <3>1, <3>2, <3>3, <3>4
  <2>7. H \cap CanvasGroup \subseteq strays' \cup {NoItem}
    BY <1>8, <2>2
  <2> HIDE DEF d, X, H, O, ws, ns
  <2>8. Alike(desk, d)
    BY <1>11, <2>5, AlikeChain
  <2>9. MouseFits(desk, k) /\ HeldNodes(desk, k) = {n} /\ k.into = NoItem
    BY <1>4, <1>12, <2>2, HeldIs DEF MouseFits
  <2>10. /\ X \cap CanvasWire \subseteq strays' /\ H \cap CanvasGroup \subseteq strays' \cup {k.into}
         /\ O \cap CanvasNode \subseteq strays' \cup HeldNodes(desk, k) /\ Sound(d, Spot, X, H, O, k.into)
    BY <1>9, <2>5, <2>6, <2>7, <2>9 DEF X, O
  <2>11. desk' = d /\ mouse' = k
    BY <1>2, <2>5 DEF d
  <2> QED BY <1>1, <1>10, <2>8, <2>9, <2>10, <2>11, AfterMove
<1> QED BY <1>14, <1>15

\* FiniteSetsExt's Min() finds an extent.
LEMMA SmallestExtent == \A n \in CanvasNode : Min(Extent[n]) \in Extent[n]
<1>1. ASSUME NEW n \in CanvasNode PROVE Extent[n] \in SUBSET Nat /\ Extent[n] # {}
  BY CanvasConstants
<1>2. ASSUME NEW S \in SUBSET Nat, S # {} PROVE Min(S) \in S
  <2>1. \E m \in S : \A k \in S : m <= k
    BY <1>2, Telling!LeastNat
  <2> QED BY <2>1 DEF Min
<1> QED BY <1>1, <1>2

LEMMA CanvasInitFits == CanvasInit => CanvasInv
<1> DEFINE at == [n \in CanvasNode |-> 0]
           extent == [n \in CanvasNode |-> Min(Extent[n])]
<1>1. at \in [CanvasNode -> Spot]
  BY CanvasConstants DEF Spot
<1>2. extent \in Extents
  <2>1. \A n \in CanvasNode : extent[n] \in Extent[n]
    BY SmallestExtent
  <2>2. \A n \in CanvasNode : Extent[n] \in Range(Extent)
    BY CanvasConstants DEF Range
  <2> QED BY <2>1, <2>2 DEF Extents
<1> HIDE DEF at, extent
<1>3. Fits(Fresh(at, extent), held(NoItem, FALSE), {}, {}, {})
  BY <1>1, <1>2, StartsFresh
<1>4. ASSUME CanvasInit PROVE desk = Fresh(at, extent)
  BY <1>4 DEF CanvasInit, at, extent
<1> QED BY <1>3, <1>4 DEF CanvasInit, CanvasInv

LEMMA CanvasStep == CanvasInv /\ [CanvasNext]_canvasVars => CanvasInv'
<1> SUFFICES ASSUME CanvasInv, [CanvasNext]_canvasVars PROVE CanvasInv'
  OBVIOUS
<1>1. CASE \E items \in SUBSET (CanvasNode \cup CanvasGroup) : Select(items)
  BY <1>1, AfterSelect
<1>2. CASE \E n \in CanvasNode, resizing \in BOOLEAN : PressNode(n, resizing)
  BY <1>2, AfterPressNode
<1>3. CASE Drag
  <2>1. CASE \E n \in CanvasNode : \E way \in MouseWay : MoveNode(n, way)
    BY <2>1, AfterMoveNode
  <2>2. CASE \E n \in CanvasNode : \E e \in Extent[n] : ResizeNode(n, e)
    BY <2>2, AfterResizeNode
  <2>3. CASE \E n \in CanvasNode : ReleaseNode(n)
    BY <2>3, AfterReleaseNode
  <2>4. CASE \E g \in DOMAIN desk.groups : \E way \in MouseWay : MoveGroup(g, way)
    BY <2>4, AfterMoveGroup
  <2>5. CASE \E g \in DOMAIN desk.groups : ReleaseGroup(g)
    BY <2>5, AfterReleaseGroup
  <2> QED BY <1>3, <2>1, <2>2, <2>3, <2>4, <2>5 DEF Drag
<1>4. CASE \E g \in CanvasGroup : CreateGroup(g)
  BY <1>4, AfterCreateGroup
<1>5. CASE \E g \in DOMAIN desk.groups : PressGroup(g) \/ DoubleClickGroup(g)
  BY <1>5, AfterPressGroup, AfterDoubleClickGroup
<1>6. CASE \E n \in CanvasNode, g \in CanvasGroup : AddNodeToGroup(n, g)
  BY <1>6, AfterAddNodeToGroup
<1>7. CASE \E n \in CanvasNode : RemoveNodeFromGroup(n)
  BY <1>7, AfterRemoveNodeFromGroup
<1>8. CASE \E n \in MayBePinned : NodeFlagsUpdated(n)
  BY <1>8, AfterNodeFlagsUpdated
<1>9. CASE \E n \in CanvasNode : \E e \in Extent[n] : NodeUpdated(n, e)
  BY <1>9, AfterNodeUpdated
<1>10. CASE \E extent \in Extents : applyStyleDefaults(extent)
  BY <1>10, AfterStyleDefaults
<1>11. CASE \E n \in CanvasNode, p \in Spot : NodePositionUpdated(n, p)
  BY <1>11, AfterNodePositionUpdated
<1>12. CASE onModelReset
  BY <1>12, AfterReset
<1>13. CASE UNCHANGED canvasVars
  BY <1>13 DEF canvasVars, CanvasInv
<1> QED BY <1>1, <1>2, <1>3, <1>4, <1>5, <1>6, <1>7, <1>8, <1>9, <1>10, <1>11, <1>12, <1>13 DEF CanvasNext

LEMMA CanvasInvSuffices == CanvasInv => CanvasConsistent
<1> SUFFICES ASSUME CanvasInv PROVE CanvasConsistent
  OBVIOUS
<1>1. /\ Sound(desk, Spot, strays, strays \cup {mouse.into}, strays \cup HeldNodes(desk, mouse), mouse.into)
      /\ MouseFits(desk, mouse) /\ pinned \subseteq MayBePinned /\ chosen \subseteq selectable(desk)
  BY SelectableIs DEF CanvasInv, Fits
<1>2. CanvasTypeOK
  <2>1. /\ desk.at \in [CanvasNode -> Spot] /\ desk.place \in [CanvasNode -> Spot] /\ desk.extent \in Extents
        /\ GroupsAre(desk.groups)
    BY <1>1 DEF Sound, DeskIs
  <2>2. /\ DOMAIN desk.groups \subseteq CanvasGroup
        /\ \A g \in DOMAIN desk.groups : desk.groups[g].nodes \in (SUBSET CanvasNode) \ {{}}
    BY <2>1 DEF GroupsAre, GroupIs
  <2>3. /\ Idle \/ mouse.item \in CanvasNode \cup DOMAIN desk.groups
        /\ mouse.into \in DOMAIN desk.groups \cup {NoItem}
    BY <1>1 DEF MouseFits, Idle
  <2> QED BY <1>1, <2>1, <2>2, <2>3 DEF CanvasTypeOK
<1>3. WiresFollowPorts
  BY <1>1 DEF Sound, WiresOk, WiresFollowPorts
<1>4. SettledAtRest
  <2> SUFFICES ASSUME Idle PROVE /\ \A n \in CanvasNode \ strays : desk.at[n] = desk.place[n]
                                 /\ \A g \in DOMAIN desk.groups :
                                      /\ desk.groups[g].child = NoItem
                                      /\ g \in strays \/ desk.groups[g].frame = computeGroupRect(desk, g)
    BY DEF SettledAtRest
  <2>1. mouse.item = NoItem /\ mouse.into = NoItem
    BY <1>1, Kinds DEF Idle, MouseFits
  <2>2. HeldNodes(desk, mouse) = {}
    BY <1>1, <2>1, HeldIs
  <2>3. NoItem \notin DOMAIN desk.groups
    BY <1>1, GroupKinds, Kinds
  <2>4. PlacesOk(desk, strays)
    <3>1. strays \cup HeldNodes(desk, mouse) = strays
      BY <2>2
    <3> QED BY <1>1, <3>1 DEF Sound
  <2>5. FramesOk(desk, strays \cup {NoItem}) /\ ChildrenOk(desk, NoItem)
    BY <1>1, <2>1 DEF Sound
  <2> QED BY <2>3, <2>4, <2>5 DEF PlacesOk, FramesOk, ChildrenOk
<1> QED BY <1>2, <1>3, <1>4 DEF CanvasConsistent

\* A drag, a resize, an edit of the groups or a report of the model leaves the
\* connections at their ports, and at rest the model and the frames agree with
\* what is drawn.
THEOREM CanvasStaysConsistent == CanvasSpec => []CanvasConsistent
<1>1. CanvasInit => CanvasInv
  BY CanvasInitFits
<1>2. CanvasInv /\ [CanvasNext]_canvasVars => CanvasInv'
  BY CanvasStep
<1>3. CanvasInv => CanvasConsistent
  BY CanvasInvSuffices
<1> QED BY <1>1, <1>2, <1>3, PTL DEF CanvasSpec
==============================================================================
