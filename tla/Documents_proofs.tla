---------------------------- MODULE Documents_proofs ----------------------------
(***************************************************************************)
(* Proofs about the modules the documents run checks side by side: scene   *)
(* files (SceneFile), the dynamic ports example (DynamicPortsModel), the   *)
(* layout of a node (NodeGeometry), the icon of a delegate's status        *)
(* (StatusIcon) and a result that comes later (RandomNumber).              *)
(*                                                                         *)
(* What the first two share is the round trip through a file: a set is     *)
(* written as a list (SetToSeq) and read back as the range of the list.    *)
(***************************************************************************)
EXTENDS DynamicPortsModel, SceneFile, NodeGeometry, StatusIcon, RandomNumber,
        FiniteSetTheorems, TLAPS

-----------------------------------------------------------------------------
(* Lists, finite sets and the ends of a set of numbers.                    *)

countPorts(counts, n, t) == counts[n].In + counts[n].Out + t
Counting == INSTANCE FoldFacts WITH Op <- countPorts

\* What SetToSeq returns: every element of a finite set at one place.
LEMMA ListOf ==
  ASSUME NEW S, IsFiniteSet(S)
  PROVE  /\ Cardinality(S) \in Nat
         /\ SetToSeq(S) \in [1 .. Cardinality(S) -> S]
         /\ IsInjective(SetToSeq(S))
         /\ Range(SetToSeq(S)) = S
         /\ SetToSeq(S) \in Seq(S)
         /\ Len(SetToSeq(S)) = Cardinality(S)
         /\ DOMAIN SetToSeq(S) = 1 .. Cardinality(S)
<1>1. Cardinality(S) \in Nat
  BY FS_CardinalityType
<1> DEFINE k == Cardinality(S)
           Good(f) == f \in [1 .. k -> S] /\ IsInjective(f)
<1>2. \E f : Good(f)
  <2>1. PICK n \in Nat : ExistsBijection(1 .. n, S)
    BY FS_NatBijection
  <2>2. n = k
    BY <2>1, FS_CountingElements
  <2>3. ExistsBijection(1 .. k, S)
    BY <2>1, <2>2
  <2> QED BY <2>3 DEF ExistsBijection, Bijection, Injection
<1> DEFINE s == SetToSeq(S)
<1>3. s = CHOOSE f \in [1 .. k -> S] : IsInjective(f)
  BY DEF SetToSeq
<1>4. Good(s)
  BY <1>2, <1>3
<1>5. Range(s) = S
  <2>1. s \in Injection(1 .. k, S)
    BY <1>4 DEF Injection
  <2>2. Cardinality(1 .. k) = k /\ IsFiniteSet(1 .. k)
    <3>1. 1 \in Int /\ k \in Int
      BY <1>1
    <3> HIDE DEF k
    <3> QED BY <1>1, <3>1, FS_Interval DEF k
  <2> HIDE DEF s
  <2>3. s \in Surjection(1 .. k, S)
    BY <2>1, <2>2, FS_Injection
  <2> QED BY <2>3, <1>4 DEF Surjection, Range
<1> HIDE DEF s
<1>6. s \in Seq(S) /\ Len(s) = k /\ DOMAIN s = 1 .. k
  <2> HIDE DEF k
  <2> QED BY <1>1, <1>4 DEF Good, k
<1> QED BY <1>1, <1>4, <1>5, <1>6 DEF s

\* The range of a list is finite.
LEMMA RangeIsFinite ==
  ASSUME NEW s, NEW n \in Nat, DOMAIN s = 1 .. n, NEW D \in SUBSET DOMAIN s
  PROVE  IsFiniteSet({s[i] : i \in D})
<1>1. IsFiniteSet(1 .. n)
  <2>1. 1 \in Int /\ n \in Int
    OBVIOUS
  <2> QED BY <2>1, FS_Interval
<1>2. IsFiniteSet(D)
  BY <1>1, FS_Subset
<1> DEFINE f == [i \in D |-> s[i]]
<1>3. f \in Surjection(D, {s[i] : i \in D})
  BY DEF Surjection
<1> HIDE DEF f
<1> QED BY <1>2, <1>3, FS_Surjection

\* The image of a finite set is finite.
LEMMA FiniteImage ==
  ASSUME NEW S, IsFiniteSet(S), NEW T, NEW f \in [S -> T], \A t \in T : \E s \in S : f[s] = t
  PROVE  IsFiniteSet(T)
<1>1. f \in Surjection(S, T)
  BY DEF Surjection
<1> QED BY <1>1, FS_Surjection

\* The range of a list is finite and no longer than the list.
LEMMA ListFinite ==
  ASSUME NEW T, NEW s \in Seq(T)
  PROVE  /\ Len(s) \in Nat /\ DOMAIN s = 1 .. Len(s) /\ IsFiniteSet(Range(s))
         /\ Cardinality(Range(s)) <= Len(s) /\ Cardinality(Range(s)) \in Nat
<1>1. Len(s) \in Nat /\ DOMAIN s = 1 .. Len(s) /\ s \in [1 .. Len(s) -> T]
  OBVIOUS
<1> DEFINE k == Len(s)
<1>2. s \in Surjection(1 .. k, Range(s))
  BY <1>1 DEF Surjection, Range
<1>3. IsFiniteSet(1 .. k) /\ Cardinality(1 .. k) = k
  <2>1. 1 \in Int /\ k \in Int /\ k \in Nat
    BY <1>1
  <2> HIDE DEF k
  <2> QED BY <2>1, FS_Interval
<1> HIDE DEF k
<1>4. IsFiniteSet(Range(s)) /\ Cardinality(Range(s)) <= k
  BY <1>2, <1>3, FS_Surjection
<1>5. Cardinality(Range(s)) \in Nat
  BY <1>4, FS_CardinalityType
<1> QED BY <1>1, <1>4, <1>5 DEF k

\* The entries of a list.
LEMMA ListEntries ==
  ASSUME NEW T, NEW s \in Seq(T)
  PROVE  \A i \in DOMAIN s : s[i] \in T
OBVIOUS

\* Two finite sets with nothing in common count as their sum.
LEMMA DisjointSum ==
  ASSUME NEW S, IsFiniteSet(S), NEW T, IsFiniteSet(T), S \cap T = {}
  PROVE  IsFiniteSet(S \cup T) /\ Cardinality(S \cup T) = Cardinality(S) + Cardinality(T)
<1>1. Cardinality(S) \in Nat /\ Cardinality(T) \in Nat
  BY FS_CardinalityType
<1>2. Cardinality(S \cap T) = 0
  BY FS_EmptySet
<1>3. /\ IsFiniteSet(S \cup T)
      /\ Cardinality(S \cup T) = Cardinality(S) + Cardinality(T) - Cardinality(S \cap T)
  BY FS_Union
<1> QED BY <1>1, <1>2, <1>3

\* The least of a set of natural numbers.
LEMMA MinIs ==
  ASSUME NEW S \in SUBSET Nat, S # {}
  PROVE  Min(S) \in S /\ \A y \in S : Min(S) <= y
BY Counting!LeastNat DEF Min

\* The greatest of a bounded set of natural numbers.
LEMMA MaxIs ==
  ASSUME NEW b \in Nat, NEW S \in SUBSET (0 .. b), S # {}
  PROVE  Max(S) \in S /\ \A y \in S : Max(S) >= y
<1> DEFINE T == {b - x : x \in S}
<1>1. T \in SUBSET Nat /\ T # {}
  <2>1. \A x \in S : x \in Int /\ x <= b
    OBVIOUS
  <2>2. \A x \in S : b - x \in Nat
    BY <2>1
  <2> QED BY <2>2
<1>2. PICK m \in T : \A n \in T : m <= n
  BY <1>1, Counting!LeastNat
<1>3. PICK x \in S : m = b - x
  BY <1>2
<1>4. \A y \in S : b - x <= b - y
  BY <1>2, <1>3
<1>5. \A y \in S : x >= y
  <2> HIDE DEF T
  <2> SUFFICES ASSUME NEW y \in S PROVE x >= y
    OBVIOUS
  <2>1. b - x <= b - y /\ x \in Int /\ y \in Int
    BY <1>4
  <2> QED BY <2>1
<1> HIDE DEF T
<1>6. \E z \in S : \A y \in S : z >= y
  BY <1>5
<1> QED BY <1>6 DEF Max

-----------------------------------------------------------------------------
(* SceneFile: what a document builds, and the round trip. A scene is whole *)
(* when it is a record of maps and finite sets; a whole scene, saved and   *)
(* read back, is itself.                                                   *)

First(list, skip, k) == {list[i] : i \in {j \in DOMAIN list : j + skip <= k}}
NodesOf(es) == [n \in {e.id : e \in es} |-> (CHOOSE e \in es : e.id = n).model]
GroupsOf(es) ==
  [k \in {e.id : e \in es} |-> LET e == CHOOSE h \in es : h.id = k
                               IN  [nodes |-> Range(e.nodes), locked |-> e.locked]]
Filled(es) == {e \in es : e.nodes # << >>}

\* The three parts of the scene a document has built after k entries.
LEMMA AfterIs ==
  ASSUME NEW doc, NEW k
  PROVE  After(doc, k) =
           [nodes  |-> NodesOf(First(doc.nodes, 0, k)),
            conns  |-> First(doc.conns, Len(doc.nodes), k),
            groups |-> GroupsOf(Filled(First(doc.groups, Len(doc.nodes) + Len(doc.conns), k)))]
BY DEF After, First, NodesOf, GroupsOf, Filled

\* All entries of a list are read when k is past the last.
LEMMA FirstIsAll ==
  ASSUME NEW list, NEW n \in Nat, DOMAIN list = 1 .. n, NEW skip \in Nat, NEW k \in Nat, n + skip <= k
  PROVE  First(list, skip, k) = Range(list)
BY DEF First, Range

\* The nodes of a scene, saved and read back, are its nodes.
LEMMA NodesComeBack ==
  ASSUME NEW g, NEW N, g.nodes = [n \in N |-> g.nodes[n]]
  PROVE  NodesOf({saveNode(g, n) : n \in N}) = g.nodes
<1> DEFINE es == {saveNode(g, n) : n \in N}
<1>1. \A n \in N : saveNode(g, n) = [id |-> n, model |-> g.nodes[n]]
  BY DEF saveNode
<1>2. {e.id : e \in es} = N
  BY <1>1
<1>3. ASSUME NEW n \in N PROVE (CHOOSE e \in es : e.id = n).model = g.nodes[n]
  <2>1. \E e \in es : e.id = n
    BY <1>1
  <2>2. \A e \in es : e.id = n => e.model = g.nodes[n]
    BY <1>1
  <2> HIDE DEF es
  <2> QED BY <2>1, <2>2
<1> HIDE DEF es
<1>4. NodesOf(es) = [n \in N |-> g.nodes[n]]
  BY <1>2, <1>3 DEF NodesOf
<1> QED BY <1>4 DEF es

\* And so are its groups, in whatever order their nodes are written.
savedGroup(g, k) ==
  [id |-> k, nodes |-> SetToSeq(g.groups[k].nodes), locked |-> g.groups[k].locked]

AreGroups(G) ==
  /\ G = [k \in DOMAIN G |-> [nodes |-> G[k].nodes, locked |-> G[k].locked]]
  /\ \A k \in DOMAIN G : IsFiniteSet(G[k].nodes) /\ G[k].nodes # {}

\* A group in a file lists its nodes, has its id and its lock.
LEMMA SavedGroupIs ==
  ASSUME NEW g, AreGroups(g.groups), NEW k \in DOMAIN g.groups
  PROVE  /\ Range(savedGroup(g, k).nodes) = g.groups[k].nodes
         /\ savedGroup(g, k).nodes # << >>
         /\ savedGroup(g, k).id = k /\ savedGroup(g, k).locked = g.groups[k].locked
<1> DEFINE ns == g.groups[k].nodes
<1>1. IsFiniteSet(ns) /\ ns # {}
  BY DEF AreGroups
<1>2. savedGroup(g, k).nodes = SetToSeq(ns) /\ savedGroup(g, k).id = k
      /\ savedGroup(g, k).locked = g.groups[k].locked
  BY DEF savedGroup
<1> HIDE DEF ns
<1>3. Range(SetToSeq(ns)) = ns
  BY <1>1, ListOf
<1>4. SetToSeq(ns) # << >>
  BY <1>1, <1>3 DEF Range
<1> QED BY <1>2, <1>3, <1>4 DEF ns

\* The groups of a scene, saved and read back, are its groups.
LEMMA GroupsComeBack ==
  ASSUME NEW g, AreGroups(g.groups)
  PROVE  GroupsOf(Filled({savedGroup(g, k) : k \in DOMAIN g.groups})) = g.groups
<1> DEFINE K == DOMAIN g.groups
           es == {savedGroup(g, k) : k \in K}
<1>1. \A k \in K : /\ Range(savedGroup(g, k).nodes) = g.groups[k].nodes
                   /\ savedGroup(g, k).nodes # << >>
                   /\ savedGroup(g, k).id = k /\ savedGroup(g, k).locked = g.groups[k].locked
  BY SavedGroupIs
<1>2. Filled(es) = es
  BY <1>1 DEF Filled
<1>3. {e.id : e \in es} = K
  BY <1>1
<1>4. ASSUME NEW k \in K
      PROVE  LET e == CHOOSE h \in es : h.id = k
             IN  [nodes |-> Range(e.nodes), locked |-> e.locked]
                 = [nodes |-> g.groups[k].nodes, locked |-> g.groups[k].locked]
  <2>1. \E e \in es : e.id = k
    BY <1>1
  <2>2. \A e \in es : e.id = k => Range(e.nodes) = g.groups[k].nodes /\ e.locked = g.groups[k].locked
    BY <1>1
  <2> HIDE DEF es
  <2> QED BY <2>1, <2>2
<1> HIDE DEF es, K
<1>5. GroupsOf(es) = [k \in K |-> [nodes |-> g.groups[k].nodes, locked |-> g.groups[k].locked]]
  BY <1>3, <1>4 DEF GroupsOf
<1>6. g.groups = [k \in K |-> [nodes |-> g.groups[k].nodes, locked |-> g.groups[k].locked]]
  BY DEF K, AreGroups
<1> QED BY <1>2, <1>5, <1>6 DEF es, K
\* The length and the domain of an array.
LEMMA ArrayIs ==
  ASSUME NEW a, IsArray(a)
  PROVE  Len(a) \in Nat /\ DOMAIN a = 1 .. Len(a)
BY DEF IsArray

\* The list of a finite set is an array.
LEMMA ListIsArray ==
  ASSUME NEW S, IsFiniteSet(S)
  PROVE  IsArray(SetToSeq(S))
<1>1. SetToSeq(S) \in Seq(S) /\ Range(SetToSeq(S)) = S
  BY ListOf
<1> QED BY <1>1 DEF IsArray

IsWhole(g) ==
  /\ g = [nodes |-> g.nodes, conns |-> g.conns, groups |-> g.groups]
  /\ g.nodes = [n \in DOMAIN g.nodes |-> g.nodes[n]]
  /\ IsFiniteSet(DOMAIN g.nodes) /\ IsFiniteSet(g.conns) /\ IsFiniteSet(DOMAIN g.groups)
  /\ AreGroups(g.groups)

IsDocument(doc) ==
  /\ IsArray(doc.nodes) /\ IsArray(doc.conns) /\ IsArray(doc.groups)
  /\ \A i \in DOMAIN doc.groups : IsArray(doc.groups[i].nodes)

savedNodes(g) == {saveNode(g, n) : n \in DOMAIN g.nodes}
savedGroups(g) == {savedGroup(g, k) : k \in DOMAIN g.groups}

\* A whole scene is saved as finitely many entries.
LEMMA SavedSets ==
  ASSUME NEW g, IsWhole(g)
  PROVE  IsFiniteSet(savedNodes(g)) /\ IsFiniteSet(savedGroups(g))
<1>1. IsFiniteSet(savedNodes(g))
  <2> DEFINE f == [n \in DOMAIN g.nodes |-> saveNode(g, n)]
  <2>1. /\ f \in [DOMAIN g.nodes -> savedNodes(g)]
        /\ \A t \in savedNodes(g) : \E s \in DOMAIN g.nodes : f[s] = t
    BY DEF savedNodes
  <2> HIDE DEF f
  <2> QED BY <2>1, FiniteImage DEF IsWhole
<1>2. IsFiniteSet(savedGroups(g))
  <2> DEFINE f == [n \in DOMAIN g.groups |-> savedGroup(g, n)]
  <2>1. /\ f \in [DOMAIN g.groups -> savedGroups(g)]
        /\ \A t \in savedGroups(g) : \E s \in DOMAIN g.groups : f[s] = t
    BY DEF savedGroups
  <2> HIDE DEF f
  <2> QED BY <2>1, FiniteImage DEF IsWhole
<1> QED BY <1>1, <1>2

\* The lists of the document a scene is saved in.
LEMMA SavedIs ==
  ASSUME NEW g
  PROVE  LET doc == scene_json_with_groups(g)
         IN  /\ doc.nodes = SetToSeq(savedNodes(g)) /\ doc.conns = SetToSeq(g.conns)
             /\ doc.groups = SetToSeq(savedGroups(g))
BY DEF scene_json_with_groups, save, savedNodes, savedGroups, savedGroup

\* What is saved is a document.
LEMMA SavedIsDocument ==
  ASSUME NEW g, IsWhole(g)
  PROVE  IsDocument(scene_json_with_groups(g))
<1> DEFINE doc == scene_json_with_groups(g)
<1>1. /\ doc.nodes = SetToSeq(savedNodes(g)) /\ doc.conns = SetToSeq(g.conns)
      /\ doc.groups = SetToSeq(savedGroups(g))
  BY SavedIs
<1>2. IsArray(doc.nodes) /\ IsArray(doc.conns) /\ IsArray(doc.groups)
  BY <1>1, SavedSets, ListIsArray DEF IsWhole
<1>3. ASSUME NEW i \in DOMAIN doc.groups PROVE IsArray(doc.groups[i].nodes)
  <2>1. doc.groups[i] \in Range(doc.groups)
    BY DEF Range
  <2>2. doc.groups[i] \in savedGroups(g)
    BY <1>1, <2>1, SavedSets, ListOf
  <2>3. PICK k \in DOMAIN g.groups : doc.groups[i] = savedGroup(g, k)
    BY <2>2 DEF savedGroups
  <2>4. doc.groups[i].nodes = SetToSeq(g.groups[k].nodes)
    BY <2>3 DEF savedGroup
  <2>5. IsFiniteSet(g.groups[k].nodes)
    BY DEF IsWhole, AreGroups
  <2> QED BY <2>4, <2>5, ListIsArray
<1> QED BY <1>2, <1>3 DEF IsDocument

\* A scene that is whole is the content of the file it is saved in.
LEMMA SceneComesBack ==
  ASSUME NEW g, IsWhole(g)
  PROVE  Content(scene_json_with_groups(g)) = g
<1> DEFINE doc == scene_json_with_groups(g)
<1>1. /\ doc.nodes = SetToSeq(savedNodes(g)) /\ doc.conns = SetToSeq(g.conns)
      /\ doc.groups = SetToSeq(savedGroups(g))
  BY SavedIs
<1>2. /\ Range(doc.nodes) = savedNodes(g) /\ Range(doc.conns) = g.conns
      /\ Range(doc.groups) = savedGroups(g)
  BY <1>1, SavedSets, ListOf DEF IsWhole
<1>3. /\ Len(doc.nodes) \in Nat /\ DOMAIN doc.nodes = 1 .. Len(doc.nodes)
      /\ Len(doc.conns) \in Nat /\ DOMAIN doc.conns = 1 .. Len(doc.conns)
      /\ Len(doc.groups) \in Nat /\ DOMAIN doc.groups = 1 .. Len(doc.groups)
  BY SavedIsDocument, ArrayIs DEF IsDocument
<1> HIDE DEF doc
<1> DEFINE a == Len(doc.nodes)
           b == Len(doc.conns)
           c == Len(doc.groups)
           k == Entries(doc)
<1>4. a \in Nat /\ b \in Nat /\ c \in Nat
  BY <1>3
<1>13. k = a + b + c
  BY DEF Entries
<1> HIDE DEF k, a, b, c
<1>14. k \in Nat /\ a + b \in Nat /\ 0 \in Nat
  BY <1>4, <1>13
<1>15. a + 0 <= k /\ b + a <= k /\ c + (a + b) <= k
  BY <1>4, <1>13
<1>16. DOMAIN doc.nodes = 1 .. a /\ DOMAIN doc.conns = 1 .. b /\ DOMAIN doc.groups = 1 .. c
  BY <1>3 DEF a, b, c
<1>5. First(doc.nodes, 0, k) = Range(doc.nodes)
  BY <1>4, <1>14, <1>15, <1>16, FirstIsAll
<1>6. First(doc.conns, Len(doc.nodes), k) = Range(doc.conns)
  <2>1. First(doc.conns, a, k) = Range(doc.conns)
    BY <1>4, <1>14, <1>15, <1>16, FirstIsAll
  <2> QED BY <2>1 DEF a
<1>7. First(doc.groups, Len(doc.nodes) + Len(doc.conns), k) = Range(doc.groups)
  <2>1. First(doc.groups, a + b, k) = Range(doc.groups)
    BY <1>4, <1>14, <1>15, <1>16, FirstIsAll
  <2> QED BY <2>1 DEF a, b
<1>8. After(doc, k) = [nodes |-> NodesOf(savedNodes(g)), conns |-> g.conns,
                       groups |-> GroupsOf(Filled(savedGroups(g)))]
  BY <1>2, <1>5, <1>6, <1>7, AfterIs
<1>9. NodesOf(savedNodes(g)) = g.nodes
  BY NodesComeBack DEF savedNodes, IsWhole
<1>10. GroupsOf(Filled(savedGroups(g))) = g.groups
  BY GroupsComeBack DEF savedGroups, IsWhole
<1>11. g = [nodes |-> g.nodes, conns |-> g.conns, groups |-> g.groups]
  BY DEF IsWhole
<1>12. After(doc, k) = g
  BY <1>8, <1>9, <1>10, <1>11
<1> QED BY <1>12 DEF Content, k, doc

\* Whatever is read of a document is whole, though it may be wrong.
LEMMA FirstIsFinite ==
  ASSUME NEW list, IsArray(list), NEW skip, NEW k
  PROVE  IsFiniteSet(First(list, skip, k))
<1> DEFINE D == {j \in DOMAIN list : j + skip <= k}
<1>1. First(list, skip, k) = {list[i] : i \in D}
  BY DEF First
<1>2. D \in SUBSET DOMAIN list
  OBVIOUS
<1> HIDE DEF D
<1>3. Len(list) \in Nat /\ DOMAIN list = 1 .. Len(list)
  BY ArrayIs
<1> QED BY <1>1, <1>2, <1>3, RangeIsFinite

\* Finitely many entries have finitely many ids.
LEMMA IdsAreFinite ==
  ASSUME NEW es, IsFiniteSet(es)
  PROVE  IsFiniteSet({e.id : e \in es})
<1> DEFINE f == [e \in es |-> e.id]
           T == {e.id : e \in es}
<1>1. f \in [es -> T] /\ \A t \in T : \E e \in es : f[e] = t
  OBVIOUS
<1> HIDE DEF f, T
<1>2. IsFiniteSet(T)
  BY <1>1, FiniteImage
<1> QED BY <1>2 DEF T

\* What has been read of a document is whole.
LEMMA ReadIsWhole ==
  ASSUME NEW doc, IsDocument(doc), NEW k
  PROVE  IsWhole(After(doc, k))
<1> DEFINE ns == First(doc.nodes, 0, k)
           cs == First(doc.conns, Len(doc.nodes), k)
           some == First(doc.groups, Len(doc.nodes) + Len(doc.conns), k)
           gs == Filled(some)
           g == After(doc, k)
<1>1. g = [nodes |-> NodesOf(ns), conns |-> cs, groups |-> GroupsOf(gs)]
  BY AfterIs
<1>2. IsFiniteSet(ns) /\ IsFiniteSet(cs) /\ IsFiniteSet(some)
  BY FirstIsFinite DEF IsDocument
<1>3. IsFiniteSet(gs)
  <2>1. gs \in SUBSET some
    BY DEF Filled
  <2> HIDE DEF gs, some
  <2> QED BY <1>2, <2>1, FS_Subset
<1>4. \A e \in gs : IsArray(e.nodes) /\ e.nodes # << >>
  <2>1. \A e \in some : \E i \in DOMAIN doc.groups : e = doc.groups[i]
    BY DEF First
  <2> HIDE DEF some
  <2> QED BY <2>1 DEF Filled, IsDocument
<1> HIDE DEF ns, cs, gs, some, g
<1>5. g.nodes = [n \in DOMAIN g.nodes |-> g.nodes[n]] /\ IsFiniteSet(DOMAIN g.nodes)
  <2>1. g.nodes = NodesOf(ns)
    BY <1>1
  <2>2. /\ DOMAIN NodesOf(ns) = {e.id : e \in ns}
        /\ NodesOf(ns) = [n \in DOMAIN NodesOf(ns) |-> NodesOf(ns)[n]]
    BY DEF NodesOf
  <2> QED BY <1>2, <2>1, <2>2, IdsAreFinite
<1>6. IsFiniteSet(DOMAIN g.groups) /\ AreGroups(g.groups)
  <2>1. g.groups = GroupsOf(gs)
    BY <1>1
  <2> DEFINE K == {e.id : e \in gs}
             chosen(x) == CHOOSE h \in gs : h.id = x
             G == GroupsOf(gs)
  <2>2. G = [x \in K |-> [nodes |-> Range(chosen(x).nodes), locked |-> chosen(x).locked]]
    BY DEF GroupsOf
  <2>3. \A x \in K : chosen(x) \in gs
    <3> SUFFICES ASSUME NEW x \in K PROVE chosen(x) \in gs
      OBVIOUS
    <3>1. \E h \in gs : h.id = x
      OBVIOUS
    <3> QED BY <3>1
  <2>4. IsFiniteSet(K)
    BY <1>3, IdsAreFinite
  <2> HIDE DEF K, chosen, G
  <2>5. ASSUME NEW x \in K
        PROVE  IsFiniteSet(Range(chosen(x).nodes)) /\ Range(chosen(x).nodes) # {}
    <3> DEFINE s == chosen(x).nodes
    <3>1. IsArray(s) /\ s # << >>
      BY <1>4, <2>3
    <3> HIDE DEF s
    <3>2. Len(s) \in Nat /\ DOMAIN s = 1 .. Len(s) /\ s \in Seq(Range(s))
      BY <3>1, ArrayIs DEF IsArray
    <3>3. Len(s) > 0
      BY <3>1, <3>2
    <3>4. IsFiniteSet({s[i] : i \in DOMAIN s})
      <4>1. DOMAIN s \in SUBSET DOMAIN s
        OBVIOUS
      <4> QED BY <3>2, <4>1, RangeIsFinite
    <3>5. Range(s) # {}
      <4>1. 1 \in DOMAIN s
        BY <3>2, <3>3
      <4> QED BY <4>1 DEF Range
    <3> QED BY <3>4, <3>5 DEF Range, s
  <2>6. DOMAIN G = K
    BY <2>2
  <2>7. \A x \in K : G[x] = [nodes |-> Range(chosen(x).nodes), locked |-> chosen(x).locked]
    BY <2>2
  <2>8. \A x \in K : G[x].nodes = Range(chosen(x).nodes) /\ G[x].locked = chosen(x).locked
    <3> SUFFICES ASSUME NEW x \in K
                 PROVE  G[x].nodes = Range(chosen(x).nodes) /\ G[x].locked = chosen(x).locked
      OBVIOUS
    <3>1. G[x] = [nodes |-> Range(chosen(x).nodes), locked |-> chosen(x).locked]
      BY <2>7
    <3> QED BY <3>1
  <2>9. G = [x \in K |-> [nodes |-> G[x].nodes, locked |-> G[x].locked]]
    BY <2>2, <2>8
  <2>10. AreGroups(G)
    BY <2>5, <2>6, <2>8, <2>9 DEF AreGroups
  <2> QED BY <2>1, <2>4, <2>6, <2>10 DEF G
<1>7. IsFiniteSet(g.conns)
  BY <1>1, <1>2
<1>8. g = [nodes |-> g.nodes, conns |-> g.conns, groups |-> g.groups]
  BY <1>1
<1> QED BY <1>5, <1>6, <1>7, <1>8 DEF IsWhole, g
-----------------------------------------------------------------------------
(* SceneFile: an edit of a whole scene leaves it whole.                    *)

IsMap(f) == f = [x \in DOMAIN f |-> f[x]] /\ IsFiniteSet(DOMAIN f)

\* A record of a map, a finite set and groups is whole.
LEMMA WholeOf ==
  ASSUME NEW ns, IsMap(ns), NEW cs, IsFiniteSet(cs), NEW gs, AreGroups(gs), IsFiniteSet(DOMAIN gs)
  PROVE  IsWhole([nodes |-> ns, conns |-> cs, groups |-> gs])
BY DEF IsWhole, IsMap

\* The parts of a whole scene.
LEMMA PartsOf ==
  ASSUME NEW g, IsWhole(g)
  PROVE  /\ g = [nodes |-> g.nodes, conns |-> g.conns, groups |-> g.groups]
         /\ IsMap(g.nodes) /\ IsFiniteSet(g.conns)
         /\ AreGroups(g.groups) /\ IsFiniteSet(DOMAIN g.groups)
BY DEF IsWhole, IsMap

\* A map over another is a map.
LEMMA OverIsMap ==
  ASSUME NEW new, NEW old, IsFiniteSet(DOMAIN new), IsFiniteSet(DOMAIN old)
  PROVE  IsMap(Over(new, old))
<1>1. IsFiniteSet(DOMAIN new \cup DOMAIN old)
  BY FS_Union
<1> QED BY <1>1 DEF IsMap, Over

\* A group is a record of a finite set that is not empty and a lock.
LEMMA GroupIs ==
  ASSUME NEW G, AreGroups(G), NEW k \in DOMAIN G
  PROVE  /\ G[k] = [nodes |-> G[k].nodes, locked |-> G[k].locked]
         /\ IsFiniteSet(G[k].nodes) /\ G[k].nodes # {}
<1> DEFINE F == [x \in DOMAIN G |-> [nodes |-> G[x].nodes, locked |-> G[x].locked]]
<1>1. G = F /\ IsFiniteSet(G[k].nodes) /\ G[k].nodes # {}
  BY DEF AreGroups
<1>2. F[k] = [nodes |-> G[k].nodes, locked |-> G[k].locked]
  OBVIOUS
<1>3. G[k] = F[k]
  <2> HIDE DEF F
  <2> QED BY <1>1
<1> QED BY <1>1, <1>2, <1>3

\* One more group leaves a scene whole.
LEMMA WithGroupIsWhole ==
  ASSUME NEW g, IsWhole(g), NEW gid, NEW ns, IsFiniteSet(ns), ns # {}, NEW locked
  PROVE  IsWhole(WithGroup(g, gid, ns, locked))
<1> DEFINE new == [k \in {gid} |-> [nodes |-> ns, locked |-> locked]]
           old == g.groups
           gs == Over(new, old)
<1>1. g = [nodes |-> g.nodes, conns |-> g.conns, groups |-> g.groups]
  BY PartsOf
<1>2. WithGroup(g, gid, ns, locked) = [nodes |-> g.nodes, conns |-> g.conns, groups |-> gs]
  BY <1>1 DEF WithGroup
<1>3. IsFiniteSet(DOMAIN new)
  BY FS_Singleton
<1>4. IsFiniteSet(DOMAIN gs) /\ DOMAIN gs = {gid} \cup DOMAIN old
  BY <1>3, PartsOf, OverIsMap DEF IsMap, Over
<1>5. \A k \in DOMAIN gs : gs[k] = IF k = gid THEN [nodes |-> ns, locked |-> locked] ELSE old[k]
  BY DEF Over
<1>6. \A k \in DOMAIN old :
        /\ old[k] = [nodes |-> old[k].nodes, locked |-> old[k].locked]
        /\ IsFiniteSet(old[k].nodes) /\ old[k].nodes # {}
  <2>1. AreGroups(old)
    BY PartsOf
  <2> QED BY <2>1, GroupIs
<1>7. gs = [k \in DOMAIN gs |-> gs[k]]
  BY DEF Over
<1> HIDE DEF gs, old
<1>8. \A k \in DOMAIN gs :
        /\ gs[k] = [nodes |-> gs[k].nodes, locked |-> gs[k].locked]
        /\ IsFiniteSet(gs[k].nodes) /\ gs[k].nodes # {}
  <2> SUFFICES ASSUME NEW k \in DOMAIN gs
               PROVE  /\ gs[k] = [nodes |-> gs[k].nodes, locked |-> gs[k].locked]
                      /\ IsFiniteSet(gs[k].nodes) /\ gs[k].nodes # {}
    OBVIOUS
  <2>1. CASE k = gid
    BY <1>5, <2>1
  <2>2. CASE k # gid
    BY <1>4, <1>5, <1>6, <2>2
  <2> QED BY <2>1, <2>2
<1>9. AreGroups(gs)
  BY <1>7, <1>8 DEF AreGroups
<1> QED BY <1>2, <1>4, <1>9, PartsOf, WholeOf

\* What is left of the groups when nodes leave them.
LEMMA UngroupedAreGroups ==
  ASSUME NEW G, AreGroups(G), IsFiniteSet(DOMAIN G), NEW ns
  PROVE  AreGroups(Ungrouped(G, ns)) /\ IsFiniteSet(DOMAIN Ungrouped(G, ns))
<1> DEFINE left == {k \in DOMAIN G : ~(G[k].nodes \subseteq ns)}
           U == Ungrouped(G, ns)
<1>1. U = [k \in left |-> [G[k] EXCEPT !.nodes = @ \ ns]]
  BY DEF Ungrouped
<1>2. \A k \in DOMAIN G :
        /\ G[k] = [nodes |-> G[k].nodes, locked |-> G[k].locked]
        /\ IsFiniteSet(G[k].nodes)
  BY DEF AreGroups
<1>3. ASSUME NEW k \in left
      PROVE  U[k] = [nodes |-> G[k].nodes \ ns, locked |-> G[k].locked]
  BY <1>1, <1>2
<1>4. DOMAIN U = left /\ left \in SUBSET DOMAIN G
  BY <1>1
<1>5. IsFiniteSet(left)
  BY <1>4, FS_Subset
<1>6. \A k \in left : IsFiniteSet(G[k].nodes \ ns)
  BY <1>2, FS_Difference
<1>7. \A k \in left : G[k].nodes \ ns # {}
  OBVIOUS
<1>8. U = [k \in DOMAIN U |-> U[k]]
  BY <1>1
<1> HIDE DEF U, left
<1>9. AreGroups(U)
  BY <1>3, <1>4, <1>6, <1>7, <1>8 DEF AreGroups
<1> QED BY <1>4, <1>5, <1>9 DEF U

\* Nodes that leave their groups leave the scene whole.
LEMMA DetachedIsWhole ==
  ASSUME NEW g, IsWhole(g), NEW ns
  PROVE  IsWhole([g EXCEPT !.groups = Ungrouped(@, ns)])
<1>1. [g EXCEPT !.groups = Ungrouped(@, ns)]
        = [nodes |-> g.nodes, conns |-> g.conns, groups |-> Ungrouped(g.groups, ns)]
  BY PartsOf
<1>2. IsWhole([nodes |-> g.nodes, conns |-> g.conns, groups |-> Ungrouped(g.groups, ns)])
  BY PartsOf, UngroupedAreGroups, WholeOf
<1> QED BY <1>1, <1>2

\* A list of n things gives finitely many ids.
LEMMA NewIdsAreFinite ==
  ASSUME NEW doc, IsArray(doc.nodes)
  PROVE  IsFiniteSet({newId(i) : i \in DOMAIN doc.nodes})
<1> DEFINE f == [i \in DOMAIN doc.nodes |-> newId(i)]
           T == {newId(i) : i \in DOMAIN doc.nodes}
           D == DOMAIN doc.nodes
<1>1. f \in [D -> T] /\ \A t \in T : \E i \in D : f[i] = t
  OBVIOUS
<1>2. IsFiniteSet(D)
  <2>1. Len(doc.nodes) \in Int /\ 1 \in Int /\ D = 1 .. Len(doc.nodes)
    BY ArrayIs
  <2> HIDE DEF D
  <2> QED BY <2>1, FS_Interval
<1> HIDE DEF f, T, D
<1>3. IsFiniteSet(T)
  BY <1>1, <1>2, FiniteImage
<1> QED BY <1>3 DEF T

\* What a group file may be.
IsGroupDocument(doc) == IsArray(doc.nodes) /\ IsArray(doc.conns)

\* What a group is saved as is a group document.
LEMMA SerializedIsDocument ==
  ASSUME NEW g, IsWhole(g), NEW k \in DOMAIN g.groups
  PROVE  IsGroupDocument(serialized(g, k))
<1> DEFINE ns == g.groups[k].nodes
           N == {saveNode(g, n) : n \in ns}
           C == {c \in g.conns : {c.outNodeId, c.inNodeId} \subseteq ns}
<1>1. serialized(g, k).nodes = SetToSeq(N) /\ serialized(g, k).conns = SetToSeq(C)
  BY DEF serialized
<1>2. IsFiniteSet(ns)
  BY PartsOf DEF AreGroups
<1>3. IsFiniteSet(N)
  <2> DEFINE f == [n \in ns |-> saveNode(g, n)]
  <2>1. f \in [ns -> N] /\ \A t \in N : \E n \in ns : f[n] = t
    OBVIOUS
  <2> HIDE DEF f, N, ns
  <2> QED BY <1>2, <2>1, FiniteImage
<1>4. IsFiniteSet(C)
  <2>1. C \in SUBSET g.conns
    OBVIOUS
  <2> HIDE DEF C
  <2> QED BY <2>1, PartsOf, FS_Subset
<1> HIDE DEF N, C
<1> QED BY <1>1, <1>3, <1>4, ListIsArray DEF IsGroupDocument
\* What may be opened as a group: a file, or a group as it would be saved.
LEMMA ListedGroupFile ==
  ASSUME IsWhole(live), NEW doc \in GroupFiles \cup {serialized(live, k) : k \in DOMAIN live.groups}
  PROVE  IsGroupDocument(doc)
BY SerializedIsDocument, SceneConstants DEF IsGroupDocument

\* A group file that is loaded, or taken back, leaves the scene whole.
LEMMA GroupFileKeepsWhole ==
  ASSUME IsWhole(live), NEW doc, IsGroupDocument(doc), restoreGroup(doc)
  PROVE  IsWhole(live') /\ Uncommanded
<1> DEFINE made == withNodes(doc)
           cs   == {remapped(doc, c) : c \in Range(doc.conns)}
           all  == [made EXCEPT !.conns = @ \cup cs]
           new  == {newId(i) : i \in DOMAIN doc.nodes}
           gid  == freeGroupId(live)
<1>1. \/ live' = live
      \/ new = {} /\ live' = all
      \/ new # {} /\ live' = WithGroup(all, gid, new, TRUE)
  BY DEF restoreGroup
<1>2. Uncommanded
  BY DEF restoreGroup
<1>3. IsFiniteSet(new)
  BY NewIdsAreFinite DEF IsGroupDocument
<1>4. IsFiniteSet(cs)
  <2> DEFINE f == [c \in Range(doc.conns) |-> remapped(doc, c)]
  <2>1. f \in [Range(doc.conns) -> cs] /\ \A t \in cs : \E c \in Range(doc.conns) : f[c] = t
    OBVIOUS
  <2>2. IsFiniteSet(Range(doc.conns))
    <3>1. Len(doc.conns) \in Nat /\ DOMAIN doc.conns = 1 .. Len(doc.conns)
      BY ArrayIs DEF IsGroupDocument
    <3>2. DOMAIN doc.conns \in SUBSET DOMAIN doc.conns
      OBVIOUS
    <3> QED BY <3>1, <3>2, RangeIsFinite DEF Range
  <2> HIDE DEF f, cs
  <2> QED BY <2>1, <2>2, FiniteImage
<1> DEFINE fresh == [n \in new |-> doc.nodes[n - nextNode + 1].model]
           ns    == Over(fresh, live.nodes)
<1>5. made = [nodes |-> ns, conns |-> live.conns, groups |-> live.groups]
  BY PartsOf DEF withNodes
<1>6. IsMap(ns)
  <2>1. DOMAIN fresh = new
    OBVIOUS
  <2> HIDE DEF fresh, new
  <2> QED BY <1>3, <2>1, PartsOf, OverIsMap DEF IsMap
<1>7. all = [nodes |-> ns, conns |-> live.conns \cup cs, groups |-> live.groups]
  <2> HIDE DEF made, cs, ns
  <2> QED BY <1>5
<1>8. IsWhole(all)
  <2>1. IsFiniteSet(live.conns \cup cs)
    <3> HIDE DEF cs
    <3> QED BY <1>4, PartsOf, FS_Union
  <2> HIDE DEF all, cs, ns
  <2> QED BY <1>6, <1>7, <2>1, PartsOf, WholeOf
<1> HIDE DEF all, new, gid
<1> QED BY <1>1, <1>2, <1>3, <1>8, WithGroupIsWhole

\* A new node is a command and leaves the scene whole.
LEMMA NewNodeKeepsWhole ==
  ASSUME IsWhole(live), NEW m, addSceneNode(m)
  PROVE  IsWhole(live') /\ Command
<1> DEFINE new == [n \in {nextNode} |-> m]
<1>1. live' = [nodes |-> Over(new, live.nodes), conns |-> live.conns, groups |-> live.groups]
  BY PartsOf DEF addSceneNode
<1>2. IsFiniteSet(DOMAIN new)
  BY FS_Singleton
<1> HIDE DEF new
<1>3. IsMap(Over(new, live.nodes))
  BY <1>2, PartsOf, OverIsMap DEF IsMap
<1> QED BY <1>1, <1>3, PartsOf, WholeOf DEF addSceneNode

\* A deletion is a command and leaves the scene whole.
LEMMA DeletionKeepsWhole ==
  ASSUME IsWhole(live), NEW n, deleteSceneNode(n)
  PROVE  IsWhole(live') /\ Command
<1> DEFINE ns == Restrict(live.nodes, DOMAIN live.nodes \ {n})
           cs == {c \in live.conns : n \notin {c.inNodeId, c.outNodeId}}
           gs == Ungrouped(live.groups, {n})
<1>1. live' = [nodes |-> ns, conns |-> cs, groups |-> gs] /\ Command
  BY DEF deleteSceneNode
<1>2. IsMap(ns)
  <2>1. IsFiniteSet(DOMAIN live.nodes \ {n})
    BY PartsOf, FS_RemoveElement DEF IsMap
  <2> QED BY <2>1 DEF IsMap, Restrict
<1>3. IsFiniteSet(cs)
  <2>1. cs \in SUBSET live.conns
    OBVIOUS
  <2> HIDE DEF cs
  <2> QED BY <2>1, PartsOf, FS_Subset
<1>4. AreGroups(gs) /\ IsFiniteSet(DOMAIN gs)
  BY PartsOf, UngroupedAreGroups
<1> HIDE DEF ns, cs, gs
<1> QED BY <1>1, <1>2, <1>3, <1>4, WholeOf

\* A connection is a command and leaves the scene whole.
LEMMA ConnectionKeepsWhole ==
  ASSUME IsWhole(live), NEW c, addSceneConnection(c)
  PROVE  IsWhole(live') /\ Command
<1>1. live' = [nodes |-> live.nodes, conns |-> live.conns \cup {c}, groups |-> live.groups] /\ Command
  BY PartsOf DEF addSceneConnection
<1>2. IsFiniteSet(live.conns \cup {c})
  BY PartsOf, FS_AddElement
<1> QED BY <1>1, <1>2, PartsOf, WholeOf

\* A new group leaves the scene whole, with an id or without.
LEMMA GroupKeepsWhole ==
  ASSUME IsWhole(live), NEW ns \in SUBSET DOMAIN live.nodes, ns # {}, createGroup(ns)
  PROVE  IsWhole(live') /\ Uncommanded
<1> DEFINE detached == [live EXCEPT !.groups = Ungrouped(@, ns)]
           gid == freeGroupId(detached)
<1>1. (live' = detached \/ live' = WithGroup(detached, gid, ns, TRUE)) /\ Uncommanded
  BY DEF createGroup
<1>2. IsWhole(detached)
  BY DetachedIsWhole
<1>3. IsFiniteSet(ns)
  BY PartsOf, FS_Subset DEF IsMap
<1> HIDE DEF detached, gid
<1> QED BY <1>1, <1>2, <1>3, WithGroupIsWhole

\* A toggled lock leaves the scene whole.
LEMMA LockKeepsWhole ==
  ASSUME IsWhole(live), NEW k \in DOMAIN live.groups, toggleLock(k)
  PROVE  IsWhole(live') /\ Uncommanded
<1> DEFINE G == live.groups
           H == [G EXCEPT ![k].locked = ~@]
<1>1. live' = [nodes |-> live.nodes, conns |-> live.conns, groups |-> H] /\ Uncommanded
  BY PartsOf DEF toggleLock
<1>2. AreGroups(G) /\ IsFiniteSet(DOMAIN G)
  BY PartsOf
<1>3. H = [j \in DOMAIN G |-> IF j = k THEN [G[k] EXCEPT !.locked = ~@] ELSE G[j]]
  <2>1. G = [j \in DOMAIN G |-> [nodes |-> G[j].nodes, locked |-> G[j].locked]]
    BY <1>2 DEF AreGroups
  <2> QED BY <2>1
<1> HIDE DEF G
<1>4. G[k] = [nodes |-> G[k].nodes, locked |-> G[k].locked]
  BY <1>2, GroupIs DEF G
<1> DEFINE e == [G[k] EXCEPT !.locked = ~@]
<1>5. e = [nodes |-> G[k].nodes, locked |-> ~G[k].locked]
  BY <1>4
<1>6. DOMAIN H = DOMAIN G /\ H = [j \in DOMAIN H |-> H[j]]
      /\ \A j \in DOMAIN H : H[j] = IF j = k THEN e ELSE G[j]
  BY <1>3
<1> HIDE DEF H, e
<1>7. ASSUME NEW j \in DOMAIN H
      PROVE  /\ H[j] = [nodes |-> H[j].nodes, locked |-> H[j].locked]
             /\ IsFiniteSet(H[j].nodes) /\ H[j].nodes # {}
  <2>1. CASE j = k
    <3>1. H[j] = [nodes |-> G[k].nodes, locked |-> ~G[k].locked]
      BY <1>5, <1>6, <2>1
    <3>2. IsFiniteSet(G[k].nodes) /\ G[k].nodes # {}
      BY <1>2, <1>6, <2>1, GroupIs
    <3> QED BY <3>1, <3>2
  <2>2. CASE j # k
    <3>1. H[j] = G[j] /\ j \in DOMAIN G
      BY <1>6, <2>2
    <3> QED BY <1>2, <3>1, GroupIs
  <2> QED BY <2>1, <2>2
<1>8. AreGroups(H)
  BY <1>6, <1>7 DEF AreGroups
<1> QED BY <1>1, <1>2, <1>6, <1>8, PartsOf, WholeOf

\* Every edit leaves the scene whole and treats the history in one of two ways.
LEMMA EditKeepsWhole ==
  ASSUME IsWhole(live), editScene
  PROVE  IsWhole(live') /\ (Command \/ Uncommanded)
<1>1. ASSUME NEW m \in SceneModel, addSceneNode(m) PROVE IsWhole(live') /\ (Command \/ Uncommanded)
  BY <1>1, NewNodeKeepsWhole
<1>2. ASSUME NEW n \in DOMAIN live.nodes, deleteSceneNode(n)
      PROVE  IsWhole(live') /\ (Command \/ Uncommanded)
  BY <1>2, DeletionKeepsWhole
<1>3. ASSUME NEW c, addSceneConnection(c) PROVE IsWhole(live') /\ (Command \/ Uncommanded)
  BY <1>3, ConnectionKeepsWhole
<1>4. ASSUME NEW ns \in (SUBSET DOMAIN live.nodes) \ {{}}, createGroup(ns)
      PROVE  IsWhole(live') /\ (Command \/ Uncommanded)
  BY <1>4, GroupKeepsWhole
<1>5. ASSUME NEW k \in DOMAIN live.groups, toggleLock(k)
      PROVE  IsWhole(live') /\ (Command \/ Uncommanded)
  BY <1>5, LockKeepsWhole
<1>6. ASSUME NEW doc \in GroupFiles \cup {serialized(live, k) : k \in DOMAIN live.groups},
             restoreGroup(doc)
      PROVE  IsWhole(live') /\ (Command \/ Uncommanded)
  BY <1>6, GroupFileKeepsWhole, ListedGroupFile
<1> QED BY <1>1, <1>2, <1>3, <1>4, <1>5, <1>6 DEF editScene
-----------------------------------------------------------------------------
(* SceneFile: the stages of opening a file, and Document.                  *)

Opening(stage, doc, before, firstId) ==
  [stage |-> stage, doc |-> doc, before |-> before, firstId |-> firstId]

\* Nothing stands beside scenes and openings and is none of them.
NothingStandsApart ==
  /\ \A ns, cs, gs : Nothing # [nodes |-> ns, conns |-> cs, groups |-> gs]
  /\ \A stage, doc, before, firstId : Nothing # Opening(stage, doc, before, firstId)

\* Between two stages the scene is what the stage leaves, the copy is whole and
\* the file is made of arrays.
OpeningInv ==
  opening # Nothing =>
    /\ opening = Opening(opening.stage, opening.doc, opening.before, opening.firstId)
    /\ opening.stage \in {"clear", "build", "restore"}
    /\ IsWhole(opening.before) /\ IsDocument(opening.doc)
    /\ opening.stage = "clear" => live = opening.before
    /\ opening.stage = "build" => live = After(opening.doc, built)
    /\ opening.stage = "restore" => live = Empty

StagesInv == IsWhole(live) /\ OpeningInv

\* The cleared scene is whole.
LEMMA EmptyIsWhole == IsWhole(Empty)
<1>1. IsMap(<< >>) /\ AreGroups(<< >>) /\ IsFiniteSet({}) /\ DOMAIN << >> = {}
  <2>1. << >> = [x \in {} |-> << >>[x]]
    OBVIOUS
  <2>2. << >> = [x \in {} |-> [nodes |-> << >>[x].nodes, locked |-> << >>[x].locked]]
    OBVIOUS
  <2>3. DOMAIN << >> = {}
    OBVIOUS
  <2> QED BY <2>1, <2>2, <2>3, FS_EmptySet DEF IsMap, AreGroups
<1> QED BY <1>1, WholeOf DEF Empty

\* Before its first entry a document has built nothing.
LEMMA NothingBuilt ==
  ASSUME NEW doc, IsDocument(doc)
  PROVE  After(doc, 0) = Empty
<1> DEFINE a == Len(doc.nodes)
           b == Len(doc.conns)
           c == Len(doc.groups)
<1>1. a \in Nat /\ b \in Nat /\ c \in Nat /\ DOMAIN doc.nodes = 1 .. a
      /\ DOMAIN doc.conns = 1 .. b /\ DOMAIN doc.groups = 1 .. c
  BY ArrayIs DEF IsDocument
<1> HIDE DEF a, b, c
<1>2. First(doc.nodes, 0, 0) = {}
  BY <1>1 DEF First
<1>3. First(doc.conns, a, 0) = {}
  BY <1>1 DEF First
<1>4. First(doc.groups, a + b, 0) = {}
  BY <1>1 DEF First
<1>5. NodesOf({}) = << >> /\ GroupsOf(Filled({})) = << >>
  BY DEF NodesOf, GroupsOf, Filled
<1>6. After(doc, 0) = [nodes |-> NodesOf({}), conns |-> {}, groups |-> GroupsOf(Filled({}))]
  BY <1>2, <1>3, <1>4, AfterIs DEF a, b
<1> QED BY <1>5, <1>6 DEF Empty

\* What may be opened: a file, or the scene as it would be saved.
LEMMA ListedSceneFile ==
  ASSUME IsWhole(live), NEW doc \in SceneFiles \cup {scene_json_with_groups(live)}
  PROVE  IsDocument(doc)
BY SavedIsDocument, SceneConstants DEF IsDocument

\* A whole scene is not Nothing.
LEMMA WholeIsSomething ==
  ASSUME NothingStandsApart, NEW g, IsWhole(g)
  PROVE  g # Nothing
<1>1. g = [nodes |-> g.nodes, conns |-> g.conns, groups |-> g.groups]
  BY PartsOf
<1> QED BY <1>1 DEF NothingStandsApart

\* What is put back is the copy: the round trip at work.
LEMMA RestoredIsBefore ==
  ASSUME StagesInv, restoreScene, opening # Nothing
  PROVE  live' = opening.before
BY SceneComesBack DEF restoreScene, StagesInv, OpeningInv

Shown == IF opening = Nothing THEN live ELSE opening.before
Asked == IF opening = Nothing THEN Nothing ELSE Content(opening.doc)

\* What the stages of opening a file do to the invariant and to the abstract
\* document: Ask is the staging, the others are stutters until the last.
LEMMA StageFileStep ==
  ASSUME NothingStandsApart, StagesInv,
         NEW doc \in SceneFiles \cup {scene_json_with_groups(live)}, stageFile(doc)
  PROVE  StagesInv' /\ Doc!Ask
<1>1. opening = Nothing /\ opening' = Opening("clear", doc, live, nextNode)
      /\ live' = live /\ history' = history
  BY DEF stageFile, Opening
<1>2. opening' # Nothing
  BY <1>1 DEF NothingStandsApart
<1>3. /\ opening'.stage = "clear" /\ opening'.doc = doc /\ opening'.before = live
      /\ opening'.firstId = nextNode
  BY <1>1 DEF Opening
<1>4. IsDocument(doc)
  BY ListedSceneFile DEF StagesInv
<1>5. StagesInv'
  BY <1>1, <1>3, <1>4 DEF StagesInv, OpeningInv
<1>6. Content(doc) # Nothing
  BY <1>4, ReadIsWhole, WholeIsSomething DEF Content
<1>7. Doc!Ask
  BY <1>1, <1>2, <1>3, <1>6 DEF Doc!Ask
<1> QED BY <1>5, <1>7

\* Clearing the scene is not seen by Document.
LEMMA ClearStep ==
  ASSUME NothingStandsApart, StagesInv, clearScene
  PROVE  StagesInv' /\ UNCHANGED <<Shown, history, Asked>>
<1>1. opening # Nothing /\ opening.stage = "clear" /\ live' = Empty /\ built' = 0 /\ history' = history
      /\ opening' = [opening EXCEPT !.stage = "build"]
  BY DEF clearScene, Staged
<1>2. opening' = Opening("build", opening.doc, opening.before, opening.firstId)
  BY <1>1 DEF StagesInv, OpeningInv, Opening
<1>3. opening' # Nothing
  BY <1>2 DEF NothingStandsApart
<1>4. /\ opening'.stage = "build" /\ opening'.doc = opening.doc /\ opening'.before = opening.before
      /\ opening'.firstId = opening.firstId
  BY <1>2 DEF Opening
<1>5. After(opening.doc, 0) = Empty
  BY <1>1, NothingBuilt DEF StagesInv, OpeningInv
<1>6. StagesInv'
  BY <1>1, <1>2, <1>4, <1>5, EmptyIsWhole DEF StagesInv, OpeningInv
<1> QED BY <1>1, <1>3, <1>4, <1>6 DEF Shown, Asked

\* Building one entry is not seen by Document.
LEMMA BuildStep ==
  ASSUME NothingStandsApart, StagesInv, buildEntry
  PROVE  StagesInv' /\ UNCHANGED <<Shown, history, Asked>>
<1>1. opening # Nothing /\ opening.stage = "build" /\ opening' = opening /\ history' = history
      /\ live' = After(opening.doc, built + 1) /\ built' = built + 1
  BY DEF buildEntry, Staged
<1>2. IsWhole(live')
  BY <1>1, ReadIsWhole DEF StagesInv, OpeningInv
<1>3. StagesInv'
  BY <1>1, <1>2 DEF StagesInv, OpeningInv
<1> QED BY <1>1, <1>3 DEF Shown, Asked

\* A failed building is not seen by Document.
LEMMA FailStep ==
  ASSUME NothingStandsApart, StagesInv, buildFails
  PROVE  StagesInv' /\ UNCHANGED <<Shown, history, Asked>>
<1>1. opening # Nothing /\ opening.stage = "build" /\ live' = Empty /\ history' = history
      /\ opening' = [opening EXCEPT !.stage = "restore"]
  BY DEF buildFails, Staged
<1>2. opening' = Opening("restore", opening.doc, opening.before, opening.firstId)
  BY <1>1 DEF StagesInv, OpeningInv, Opening
<1>3. opening' # Nothing
  BY <1>2 DEF NothingStandsApart
<1>4. /\ opening'.stage = "restore" /\ opening'.doc = opening.doc /\ opening'.before = opening.before
      /\ opening'.firstId = opening.firstId
  BY <1>2 DEF Opening
<1>5. StagesInv'
  BY <1>1, <1>2, <1>4, EmptyIsWhole DEF StagesInv, OpeningInv
<1> QED BY <1>1, <1>3, <1>4, <1>5 DEF Shown, Asked

\* The end of an opening is one of the three answers of Document.
LEMMA EndStep ==
  ASSUME NothingStandsApart, StagesInv, restoreScene \/ restoreFails \/ finishLoad
  PROVE  StagesInv' /\ (Doc!Open \/ Doc!Refuse \/ Doc!Lose)
<1>0. Asked # Nothing /\ opening # Nothing /\ opening' = Nothing
  <2>1. opening # Nothing /\ opening' = Nothing
    BY DEF restoreScene, restoreFails, finishLoad, Staged
  <2>2. Content(opening.doc) # Nothing
    BY <2>1, ReadIsWhole, WholeIsSomething DEF StagesInv, OpeningInv, Content
  <2> QED BY <2>1, <2>2 DEF Asked
<1>1. CASE restoreScene
  <2>1. live' = opening.before /\ history' = history
    BY <1>0, <1>1, RestoredIsBefore DEF restoreScene
  <2>2. StagesInv'
    BY <1>0, <2>1 DEF StagesInv, OpeningInv
  <2>3. Doc!Refuse
    BY <1>0, <2>1 DEF Doc!Refuse, Asked
  <2> QED BY <2>2, <2>3
<1>2. CASE restoreFails
  <2>1. live' = live /\ live = Empty /\ history' = history
    BY <1>0, <1>2 DEF restoreFails, Staged, StagesInv, OpeningInv
  <2>2. StagesInv'
    BY <1>0, <2>1 DEF StagesInv, OpeningInv
  <2>3. Doc!Lose
    BY <1>0, <2>1 DEF Doc!Lose, Asked
  <2> QED BY <2>2, <2>3
<1>3. CASE finishLoad
  <2>1. live' = live /\ live = Content(opening.doc) /\ history' = Nothing
    BY <1>0, <1>3 DEF finishLoad, Staged, StagesInv, OpeningInv, Content
  <2>2. StagesInv'
    BY <1>0, <2>1 DEF StagesInv, OpeningInv
  <2>3. Doc!Open
    BY <1>0, <2>1 DEF Doc!Open, Asked
  <2> QED BY <2>2, <2>3
<1> QED BY <1>1, <1>2, <1>3

\* An edit is an Edit of Document.
LEMMA EditStep ==
  ASSUME NothingStandsApart, StagesInv, editScene
  PROVE  StagesInv' /\ Doc!Edit
<1>1. opening = Nothing /\ opening' = Nothing
  BY DEF editScene
<1>2. IsWhole(live') /\ (Command \/ Uncommanded)
  BY EditKeepsWhole DEF StagesInv
<1>3. live' # Nothing
  BY <1>2, WholeIsSomething
<1>4. StagesInv'
  BY <1>1, <1>2 DEF StagesInv, OpeningInv
<1>5. Doc!Edit
  BY <1>1, <1>2, <1>3 DEF Doc!Edit, Command, Uncommanded
<1> QED BY <1>4, <1>5

\* A step that changes nothing changes nothing of Document.
LEMMA StillStep ==
  ASSUME StagesInv, UNCHANGED fileVars
  PROVE  StagesInv' /\ UNCHANGED Doc!vars
BY DEF fileVars, StagesInv, OpeningInv, Doc!vars

\* Every step keeps the invariant and is a step of Document or a stutter.
LEMMA FileStep ==
  ASSUME NothingStandsApart, StagesInv, [FilesNext]_fileVars
  PROVE  StagesInv' /\ [Doc!Next]_Doc!vars
<1>1. CASE editScene
  BY <1>1, EditStep DEF Doc!Next
<1>2. CASE rejectFile \/ UNCHANGED fileVars
  BY <1>2, StillStep DEF rejectFile
<1>3. ASSUME NEW doc \in SceneFiles \cup {scene_json_with_groups(live)}, stageFile(doc)
      PROVE  StagesInv' /\ [Doc!Next]_Doc!vars
  BY <1>3, StageFileStep DEF Doc!Next
<1>4. CASE clearScene \/ buildEntry \/ buildFails
  BY <1>4, ClearStep, BuildStep, FailStep DEF Doc!vars, Shown, Asked
<1>5. CASE restoreScene \/ restoreFails \/ finishLoad
  BY <1>5, EndStep DEF Doc!Next
<1> QED BY <1>1, <1>2, <1>3, <1>4, <1>5 DEF FilesNext, openFile

\* SceneFile implements Document (as the property ImplementsDocument says): to
\* whoever looks before and after, opening a file gives all of it and an empty
\* history, or leaves the old scene and the old history, or loses the scene
\* when the copy cannot be put back, and no edit or failed stage shows anything
\* else (loadFromFile).
THEOREM FilesImplementDocument ==
  ASSUME NothingStandsApart
  PROVE  FilesSpec => ImplementsDocument
<1>1. FilesInit => StagesInv /\ Doc!Init
  BY EmptyIsWhole DEF FilesInit, StagesInv, OpeningInv, Doc!Init
<1>2. StagesInv /\ [FilesNext]_fileVars => StagesInv' /\ [Doc!Next]_Doc!vars
  BY FileStep
<1> QED BY <1>1, <1>2, PTL DEF FilesSpec, ImplementsDocument, Doc!Spec
-----------------------------------------------------------------------------
(* SceneFile: the ids. The copy, the history and the place an opening      *)
(* rolls back to are all below the next id.                                *)

\* All ids of a scene are below k.
NodesBelow(g, k) == \A n \in DOMAIN g.nodes : n \in Nat /\ n < k

IdsInv ==
  /\ nextNode \in 0 .. SceneInvalidNodeId
  /\ NodesBelow(live, nextNode)
  /\ history # Nothing => NodesBelow(history, nextNode)
  /\ opening # Nothing =>
       /\ opening.firstId \in 0 .. nextNode
       /\ NodesBelow(opening.before, opening.firstId)
       /\ history # Nothing => NodesBelow(history, opening.firstId)
       /\ \A i \in DOMAIN opening.doc.nodes : opening.doc.nodes[i].id \in SceneNodeId

\* What is below a number is below a greater one.
LEMMA StillBelow ==
  ASSUME NEW g, NEW j \in Int, NEW k \in Int, j <= k, NodesBelow(g, j)
  PROVE  NodesBelow(g, k)
BY DEF NodesBelow

\* PastNodes() is past what it was and past the scene.
LEMMA PastNodesIs ==
  ASSUME NEW g, DOMAIN g.nodes \subseteq SceneNodeId, NEW next \in 0 .. SceneInvalidNodeId
  PROVE  /\ PastNodes(g, next) \in next .. SceneInvalidNodeId
         /\ NodesBelow(g, PastNodes(g, next))
<1> DEFINE S == {next} \cup {n + 1 : n \in DOMAIN g.nodes}
           m == Max(S)
<1>0. SceneInvalidNodeId \in Nat
  BY SceneConstants
<1>1. S \in SUBSET (0 .. SceneInvalidNodeId) /\ S # {} /\ next \in S
  BY <1>0 DEF SceneNodeId
<1>2. \A n \in DOMAIN g.nodes : n \in Nat /\ n + 1 \in S
  BY <1>0 DEF SceneNodeId
<1> HIDE DEF S
<1>3. m \in S /\ \A y \in S : m >= y
  BY <1>0, <1>1, MaxIs
<1>4. m \in 0 .. SceneInvalidNodeId /\ m >= next
  BY <1>1, <1>3
<1>5. \A n \in DOMAIN g.nodes : n \in Nat /\ m >= n + 1
  BY <1>2, <1>3
<1> HIDE DEF m
<1>6. PastNodes(g, next) = m
  BY DEF PastNodes, S, m
<1>7. m \in next .. SceneInvalidNodeId
  BY <1>0, <1>4
<1>8. NodesBelow(g, m)
  <2> SUFFICES ASSUME NEW n \in DOMAIN g.nodes PROVE n \in Nat /\ n < m
    BY DEF NodesBelow
  <2>1. m \in Int
    BY <1>4
  <2> QED BY <1>5, <2>1
<1> QED BY <1>6, <1>7, <1>8

\* What a document builds has the ids that are in it.
LEMMA BuiltIds ==
  ASSUME NEW doc, NEW k, \A i \in DOMAIN doc.nodes : doc.nodes[i].id \in SceneNodeId
  PROVE  DOMAIN After(doc, k).nodes \subseteq SceneNodeId
<1>1. After(doc, k).nodes = NodesOf(First(doc.nodes, 0, k))
  BY AfterIs
<1> QED BY <1>1 DEF NodesOf, First

\* A group file takes ids from the next one on, and the next id is past them
\* even when they are taken back.
LEMMA GroupFileTakesIds ==
  ASSUME IsWhole(live), IdsInv, opening = Nothing, opening' = Nothing,
         NEW doc, IsGroupDocument(doc), restoreGroup(doc)
  PROVE  IdsInv'
<1> DEFINE len == Len(doc.nodes)
           bad == {i \in DOMAIN doc.nodes : doc.nodes[i].model \notin SceneModel}
           took == IF bad = {} THEN len ELSE Min(bad)
           all  == [withNodes(doc) EXCEPT !.conns = @ \cup {remapped(doc, c) : c \in Range(doc.conns)}]
           new  == {newId(i) : i \in DOMAIN doc.nodes}
           gid  == freeGroupId(live)
           sum  == nextNode + took
<1>0. SceneInvalidNodeId \in Nat /\ nextNode \in Nat /\ nextNode <= SceneInvalidNodeId
  BY SceneConstants DEF IdsInv
<1>1. len \in Nat /\ DOMAIN doc.nodes = 1 .. len
  BY ArrayIs DEF IsGroupDocument
<1>2. took \in Nat
  <2>1. bad \in SUBSET Nat
    BY <1>1
  <2> HIDE DEF bad, len
  <2>2. CASE bad = {}
    BY <1>1, <2>2
  <2>3. CASE bad # {}
    <3>1. Min(bad) \in Nat
      BY <2>1, <2>3, MinIs
    <3> QED BY <2>3, <3>1
  <2> QED BY <2>2, <2>3
<1>3. nextNode' = Min({sum, SceneInvalidNodeId})
  BY DEF restoreGroup
<1>4. \/ live' = live
      \/ /\ creatableNodes(doc)
         /\ (live' = all \/ live' = WithGroup(all, gid, new, TRUE))
  BY DEF restoreGroup
<1>5. Uncommanded
  BY DEF restoreGroup
<1> HIDE DEF took
<1>6. sum \in Nat /\ sum >= nextNode
  BY <1>0, <1>2
<1> HIDE DEF sum
<1>7. nextNode' \in {sum, SceneInvalidNodeId} /\ nextNode' <= sum /\ nextNode' <= SceneInvalidNodeId
  <2>1. {sum, SceneInvalidNodeId} \in SUBSET Nat /\ {sum, SceneInvalidNodeId} # {}
    BY <1>0, <1>6
  <2>2. Min({sum, SceneInvalidNodeId}) \in {sum, SceneInvalidNodeId}
        /\ \A y \in {sum, SceneInvalidNodeId} : Min({sum, SceneInvalidNodeId}) <= y
    BY <2>1, MinIs
  <2> QED BY <1>3, <2>2
<1>8. nextNode' \in 0 .. SceneInvalidNodeId /\ nextNode <= nextNode'
  BY <1>0, <1>6, <1>7
<1>9. NodesBelow(live', nextNode')
  <2>1. CASE live' = live
    <3>1. NodesBelow(live, nextNode')
      BY <1>0, <1>8, StillBelow DEF IdsInv
    <3> QED BY <2>1, <3>1
  <2>2. CASE live' # live
    <3>1. creatableNodes(doc) /\ live'.nodes = all.nodes
      <4>1. WithGroup(all, gid, new, TRUE).nodes = all.nodes
        <5> DEFINE made == withNodes(doc)
                   cs == {remapped(doc, c) : c \in Range(doc.conns)}
        <5>2. made = [nodes |-> made.nodes, conns |-> made.conns, groups |-> made.groups]
          BY PartsOf DEF withNodes
        <5>3. all = [made EXCEPT !.conns = @ \cup cs]
          OBVIOUS
        <5> HIDE DEF made, cs, all
        <5>1. all = [nodes |-> all.nodes, conns |-> all.conns, groups |-> all.groups]
          BY <5>2, <5>3
        <5> HIDE DEF all
        <5> QED BY <5>1 DEF WithGroup
      <4> HIDE DEF all, gid, new
      <4> QED BY <1>4, <2>2, <4>1
    <3>2. DOMAIN all.nodes = new \cup DOMAIN live.nodes
      <4>1. all.nodes = withNodes(doc).nodes
        BY PartsOf DEF withNodes
      <4> QED BY <4>1, PartsOf DEF withNodes, Over
    <3>3. bad = {}
      BY <3>1 DEF creatableNodes
    <3>4. took = len
      BY <3>3 DEF took
    <3>5. \A i \in 1 .. len : newId(i) < SceneInvalidNodeId
      BY <1>1, <3>1 DEF creatableNodes
    <3> HIDE DEF len, bad, all
    <3>6. sum = nextNode + len
      BY <3>4 DEF sum
    <3>7. sum <= SceneInvalidNodeId
      <4>1. CASE len = 0
        BY <1>0, <3>6, <4>1
      <4>2. CASE len > 0
        <5>1. len \in 1 .. len
          BY <1>1, <4>2
        <5>2. nextNode + len - 1 < SceneInvalidNodeId
          BY <3>5, <5>1 DEF newId
        <5> QED BY <1>0, <1>1, <3>6, <5>2
      <4> QED BY <1>1, <4>1, <4>2
    <3>8. nextNode' = nextNode + len
      BY <1>0, <1>6, <1>7, <3>6, <3>7
    <3>9. ASSUME NEW n \in new PROVE n \in Nat /\ n < nextNode'
      <4>1. PICK i \in 1 .. len : n = nextNode + i - 1
        BY <1>1, <3>9 DEF newId, len
      <4> HIDE DEF new
      <4> QED BY <1>0, <1>1, <3>8, <4>1
    <3>10. \A n \in DOMAIN live.nodes : n \in Nat /\ n < nextNode'
      BY <1>0, <1>8, StillBelow DEF IdsInv, NodesBelow
    <3> HIDE DEF new
    <3> QED BY <3>1, <3>2, <3>9, <3>10 DEF NodesBelow
  <2> QED BY <2>1, <2>2
<1>10. history' # Nothing => NodesBelow(history', nextNode')
  BY <1>5, <1>9 DEF Uncommanded
<1> QED BY <1>8, <1>9, <1>10 DEF IdsInv
\* The numbers the ids are compared with.
LEMMA ConstantsOfIds ==
  ASSUME IdsInv
  PROVE  nextNode \in Nat /\ SceneInvalidNodeId \in Nat /\ nextNode <= SceneInvalidNodeId
BY SceneConstants DEF IdsInv

\* An edit takes ids from the next one on.
LEMMA EditTakesIds ==
  ASSUME IsWhole(live), IdsInv, editScene
  PROVE  IdsInv'
<1>1. opening = Nothing /\ opening' = Nothing
  BY DEF editScene
<1>2. nextNode \in Nat /\ SceneInvalidNodeId \in Nat /\ nextNode <= SceneInvalidNodeId
  BY ConstantsOfIds
<1>3. ASSUME nextNode' \in 0 .. SceneInvalidNodeId, nextNode <= nextNode', NodesBelow(live', nextNode'),
             Command \/ Uncommanded
      PROVE  IdsInv'
  BY <1>1, <1>3 DEF IdsInv, Command, Uncommanded
<1>4. ASSUME nextNode' = nextNode, DOMAIN live'.nodes \subseteq DOMAIN live.nodes,
             Command \/ Uncommanded
      PROVE  IdsInv'
  <2>1. NodesBelow(live', nextNode')
    BY <1>4 DEF IdsInv, NodesBelow
  <2>2. nextNode' \in 0 .. SceneInvalidNodeId /\ nextNode <= nextNode'
    BY <1>2, <1>4
  <2> QED BY <1>3, <1>4, <2>1, <2>2
<1>5. ASSUME NEW m \in SceneModel, addSceneNode(m) PROVE IdsInv'
  <2>1. nextNode # SceneInvalidNodeId /\ nextNode' = nextNode + 1 /\ Command
    BY <1>5 DEF addSceneNode
  <2>2. DOMAIN live'.nodes = {nextNode} \cup DOMAIN live.nodes
    BY <1>5, PartsOf DEF addSceneNode, Over
  <2>3. \A n \in DOMAIN live.nodes : n \in Nat /\ n < nextNode
    BY DEF IdsInv, NodesBelow
  <2>4. nextNode' \in 0 .. SceneInvalidNodeId /\ nextNode <= nextNode'
    BY <1>2, <2>1
  <2>5. NodesBelow(live', nextNode')
    <3> SUFFICES ASSUME NEW n \in DOMAIN live'.nodes PROVE n \in Nat /\ n < nextNode'
      BY DEF NodesBelow
    <3>1. CASE n = nextNode
      BY <1>2, <2>1, <3>1
    <3>2. CASE n # nextNode
      <4>1. n \in Nat /\ n < nextNode
        BY <2>2, <2>3, <3>2
      <4> QED BY <1>2, <2>1, <4>1
    <3> QED BY <3>1, <3>2
  <2> QED BY <1>3, <2>1, <2>4, <2>5
<1>6. ASSUME NEW n \in DOMAIN live.nodes, deleteSceneNode(n) PROVE IdsInv'
  <2>1. nextNode' = nextNode /\ Command /\ live'.nodes = Restrict(live.nodes, DOMAIN live.nodes \ {n})
    BY <1>6 DEF deleteSceneNode
  <2>2. DOMAIN live'.nodes \subseteq DOMAIN live.nodes
    BY <2>1 DEF Restrict
  <2> QED BY <1>4, <2>1, <2>2
<1>7. ASSUME NEW c, addSceneConnection(c) PROVE IdsInv'
  <2>1. nextNode' = nextNode /\ Command /\ live'.nodes = live.nodes
    BY <1>7, PartsOf DEF addSceneConnection
  <2> QED BY <1>4, <2>1
<1>8. ASSUME NEW ns \in (SUBSET DOMAIN live.nodes) \ {{}}, createGroup(ns) PROVE IdsInv'
  <2> DEFINE detached == [live EXCEPT !.groups = Ungrouped(@, ns)]
             gid == freeGroupId(detached)
  <2>1. /\ live' = detached \/ live' = WithGroup(detached, gid, ns, TRUE)
        /\ Uncommanded /\ nextNode' = nextNode
    BY <1>8 DEF createGroup
  <2>2. detached = [nodes |-> live.nodes, conns |-> live.conns, groups |-> detached.groups]
    BY PartsOf
  <2> HIDE DEF detached, gid
  <2>3. WithGroup(detached, gid, ns, TRUE).nodes = live.nodes /\ detached.nodes = live.nodes
    BY <2>2 DEF WithGroup
  <2>4. live'.nodes = live.nodes
    BY <2>1, <2>3
  <2> QED BY <1>4, <2>1, <2>4
<1>9. ASSUME NEW k \in DOMAIN live.groups, toggleLock(k) PROVE IdsInv'
  <2>1. nextNode' = nextNode /\ Uncommanded /\ live'.nodes = live.nodes
    BY <1>9, PartsOf DEF toggleLock
  <2> QED BY <1>4, <2>1
<1>10. ASSUME NEW doc \in GroupFiles \cup {serialized(live, k) : k \in DOMAIN live.groups},
              restoreGroup(doc)
       PROVE  IdsInv'
  BY <1>1, <1>10, GroupFileTakesIds, ListedGroupFile
<1> QED BY <1>5, <1>6, <1>7, <1>8, <1>9, <1>10 DEF editScene

\* A readable file has readable ids.
LEMMA ReadableIds ==
  ASSUME NEW doc, Readable(doc)
  PROVE  \A i \in DOMAIN doc.nodes : doc.nodes[i].id \in SceneNodeId
BY DEF Readable, stageable, loadable

\* Staging remembers the next id.
LEMMA StageTakesIds ==
  ASSUME IdsInv, NEW doc, stageFile(doc)
  PROVE  IdsInv'
<1>1. /\ opening = Nothing /\ opening' = Opening("clear", doc, live, nextNode) /\ Readable(doc)
      /\ live' = live /\ history' = history /\ nextNode' = nextNode
  BY DEF stageFile, Opening
<1>2. /\ opening'.doc = doc /\ opening'.before = live /\ opening'.firstId = nextNode
  BY <1>1 DEF Opening
<1>3. nextNode \in 0 .. nextNode
  BY ConstantsOfIds
<1> QED BY <1>1, <1>2, <1>3, ReadableIds DEF IdsInv

\* The cleared scene is below every id.
LEMMA EmptyBelow == \A k : NodesBelow(Empty, k)
BY DEF NodesBelow, Empty

\* A stage that changes neither the copy, the file nor the history and does not
\* move the next id down, or moves it to where the opening found it.
LEMMA StageKeepsIds ==
  ASSUME IdsInv, opening # Nothing, history' = history,
         opening'.doc = opening.doc, opening'.before = opening.before,
         opening'.firstId = opening.firstId,
         nextNode' \in opening.firstId .. SceneInvalidNodeId,
         NodesBelow(live', nextNode')
  PROVE  IdsInv'
<1>1. nextNode \in Nat /\ SceneInvalidNodeId \in Nat /\ nextNode <= SceneInvalidNodeId
  BY ConstantsOfIds
<1>2. /\ opening.firstId \in Nat /\ nextNode' \in Nat
      /\ opening.firstId <= nextNode' /\ nextNode' <= SceneInvalidNodeId
  BY <1>1 DEF IdsInv
<1>3. opening'.firstId \in 0 .. nextNode' /\ nextNode' \in 0 .. SceneInvalidNodeId
  BY <1>1, <1>2
<1>4. history' # Nothing => NodesBelow(history', nextNode') /\ NodesBelow(history', opening'.firstId)
  <2>1. ASSUME history # Nothing PROVE NodesBelow(history, opening.firstId)
    BY <2>1 DEF IdsInv
  <2>2. ASSUME history # Nothing PROVE NodesBelow(history, nextNode')
    BY <1>2, <2>1, <2>2, StillBelow
  <2> QED BY <2>1, <2>2
<1>5. NodesBelow(opening'.before, opening'.firstId)
  BY DEF IdsInv
<1>6. \A i \in DOMAIN opening'.doc.nodes : opening'.doc.nodes[i].id \in SceneNodeId
  BY DEF IdsInv
<1> QED BY <1>3, <1>4, <1>5, <1>6 DEF IdsInv

\* Neither a failed building nor what is put back makes a held id available.
LEMMA StagesTakeIds ==
  ASSUME StagesInv, IdsInv,
         clearScene \/ buildEntry \/ buildFails \/ restoreScene \/ restoreFails \/ finishLoad
  PROVE  IdsInv'
<1>0. opening # Nothing
  BY DEF clearScene, buildEntry, buildFails, restoreScene, restoreFails, finishLoad, Staged
<1>1. nextNode \in Nat /\ SceneInvalidNodeId \in Nat /\ nextNode <= SceneInvalidNodeId
  BY ConstantsOfIds
<1>2. opening.firstId \in Nat /\ opening.firstId <= nextNode
  BY <1>0, <1>1 DEF IdsInv
<1>3. nextNode \in opening.firstId .. SceneInvalidNodeId
  BY <1>1, <1>2
<1>4. CASE clearScene
  <2>1. live' = Empty /\ history' = history /\ nextNode' = nextNode
        /\ opening' = [opening EXCEPT !.stage = "build"]
    BY <1>4 DEF clearScene
  <2>2. opening' = Opening("build", opening.doc, opening.before, opening.firstId)
    BY <1>0, <2>1 DEF StagesInv, OpeningInv, Opening
  <2>3. /\ opening'.doc = opening.doc /\ opening'.before = opening.before
        /\ opening'.firstId = opening.firstId
    BY <2>2 DEF Opening
  <2> QED BY <1>0, <1>3, <2>1, <2>3, EmptyBelow, StageKeepsIds
<1>5. CASE buildEntry
  <2>1. live' = After(opening.doc, built + 1) /\ history' = history /\ opening' = opening
        /\ nextNode' = PastNodes(live', nextNode)
    BY <1>5 DEF buildEntry
  <2>2. DOMAIN live'.nodes \subseteq SceneNodeId
    BY <1>0, <2>1, BuiltIds DEF IdsInv
  <2>3. nextNode' \in nextNode .. SceneInvalidNodeId /\ NodesBelow(live', nextNode')
    BY <2>1, <2>2, PastNodesIs DEF IdsInv
  <2>4. nextNode' \in opening.firstId .. SceneInvalidNodeId
    BY <1>1, <1>2, <2>3
  <2> QED BY <1>0, <2>1, <2>3, <2>4, StageKeepsIds
<1>6. CASE buildFails
  <2>1. live' = Empty /\ history' = history /\ nextNode' \in {opening.firstId, nextNode}
        /\ opening' = [opening EXCEPT !.stage = "restore"]
    BY <1>6 DEF buildFails
  <2>2. opening' = Opening("restore", opening.doc, opening.before, opening.firstId)
    BY <1>0, <2>1 DEF StagesInv, OpeningInv, Opening
  <2>3. /\ opening'.doc = opening.doc /\ opening'.before = opening.before
        /\ opening'.firstId = opening.firstId
    BY <2>2 DEF Opening
  <2>4. nextNode' \in opening.firstId .. SceneInvalidNodeId
    BY <1>1, <1>2, <2>1
  <2> QED BY <1>0, <2>1, <2>3, <2>4, EmptyBelow, StageKeepsIds
<1>7. CASE restoreScene
  <2>1. live' = opening.before /\ history' = history /\ opening' = Nothing
        /\ nextNode' = PastNodes(live', nextNode)
    BY <1>0, <1>7, RestoredIsBefore DEF restoreScene
  <2>2. DOMAIN live'.nodes \subseteq SceneNodeId
    <3> SUFFICES ASSUME NEW n \in DOMAIN live'.nodes PROVE n \in SceneNodeId
      OBVIOUS
    <3>1. n \in Nat /\ n < opening.firstId
      BY <1>0, <2>1 DEF IdsInv, NodesBelow
    <3> QED BY <1>1, <1>2, <3>1 DEF SceneNodeId
  <2>3. nextNode' \in nextNode .. SceneInvalidNodeId /\ NodesBelow(live', nextNode')
    BY <2>1, <2>2, PastNodesIs DEF IdsInv
  <2>4. nextNode' \in Int /\ nextNode <= nextNode' /\ nextNode' \in 0 .. SceneInvalidNodeId
    BY <1>1, <2>3
  <2>5. history # Nothing => NodesBelow(history, nextNode')
    BY <1>1, <2>4, StillBelow DEF IdsInv
  <2> QED BY <2>1, <2>3, <2>4, <2>5 DEF IdsInv
<1>8. CASE restoreFails
  BY <1>8 DEF restoreFails, IdsInv
<1>9. CASE finishLoad
  BY <1>9 DEF finishLoad, IdsInv
<1> QED BY <1>4, <1>5, <1>6, <1>7, <1>8, <1>9

\* Every step keeps the ids below the next one.
LEMMA IdsStep ==
  ASSUME StagesInv, IdsInv, [FilesNext]_fileVars
  PROVE  IdsInv'
<1>1. CASE editScene
  BY <1>1, EditTakesIds DEF StagesInv
<1>2. CASE rejectFile \/ UNCHANGED fileVars
  BY <1>2 DEF rejectFile, fileVars, IdsInv
<1>3. ASSUME NEW doc \in SceneFiles \cup {scene_json_with_groups(live)}, stageFile(doc)
      PROVE  IdsInv'
  BY <1>3, StageTakesIds
<1> QED BY <1>1, <1>2, <1>3, StagesTakeIds DEF FilesNext, openFile

\* No load that fails half way and no rollback frees an id that the scene, the
\* copy or the history still holds (_nextNodeId in DataFlowGraphModel::load,
\* PastNodes).
THEOREM IdsAreTaken ==
  ASSUME NothingStandsApart
  PROVE  FilesSpec => []IdsStayTaken
<1>1. FilesInit => StagesInv /\ IdsInv
  BY EmptyIsWhole, EmptyBelow, SceneConstants DEF FilesInit, StagesInv, OpeningInv, IdsInv
<1>2. StagesInv /\ IdsInv /\ [FilesNext]_fileVars => StagesInv' /\ IdsInv'
  BY FileStep, IdsStep
<1>3. StagesInv /\ IdsInv => IdsStayTaken
  <2> SUFFICES ASSUME StagesInv, IdsInv PROVE IdsStayTaken
    OBVIOUS
  <2>1. nextNode \in Nat
    BY ConstantsOfIds
  <2>2. opening # Nothing => NodesBelow(opening.before, nextNode)
    <3> SUFFICES ASSUME opening # Nothing PROVE NodesBelow(opening.before, nextNode)
      OBVIOUS
    <3>1. /\ opening.firstId \in Int /\ opening.firstId <= nextNode
          /\ NodesBelow(opening.before, opening.firstId)
      BY <2>1 DEF IdsInv
    <3> QED BY <2>1, <3>1, StillBelow
  <2> QED BY <2>2 DEF IdsInv, IdsStayTaken, NodesBelow
<1> QED BY <1>1, <1>2, <1>3, PTL DEF FilesSpec
-----------------------------------------------------------------------------
(* SceneFile: sound graphs.                                                *)

PortAt(ns, side, c) == SceneLayout[ns[WireNode(side, c)]][side][WirePort(side, c) + 1]

\* What a connection asks of the nodes: they are there and have the ports, which
\* are of one type.
Joins(ns, c) ==
  /\ \A side \in Sides : /\ WireNode(side, c) \in DOMAIN ns
                         /\ WirePort(side, c) < Len(SceneLayout[ns[WireNode(side, c)]][side])
  /\ PortAt(ns, "Out", c).type = PortAt(ns, "In", c).type

\* Two connections meet at no port, unless it takes many.
Apart(ns, c, d) ==
  \A side \in Sides :
    WireNode(side, c) = WireNode(side, d) /\ WirePort(side, c) = WirePort(side, d) =>
      PortAt(ns, side, c).policy = "Many"

Leads(E, a, b) ==
  \A S \in SUBSET SceneNodeId :
    (a \in S /\ \A c \in E : c.outNodeId \in S => c.inNodeId \in S) => b \in S

\* The graphs that connectionPossible() lets come about.
Sound(ns, cs) ==
  /\ \A c \in cs : Joins(ns, c) /\ ~Leads(cs, c.inNodeId, c.outNodeId)
  /\ \A c, d \in cs : c = d \/ Apart(ns, c, d)

Admits(ns, cs, c) ==
  /\ Joins(ns, c) /\ c \notin cs
  /\ \A d \in cs : Apart(ns, c, d)
  /\ ~Leads(cs, c.inNodeId, c.outNodeId)

\* connectionPossible(), of a graph whose connections have their ports.
LEMMA PossibleIs ==
  ASSUME NEW g, \A d \in g.conns : Joins(g.nodes, d), NEW c
  PROVE  possible(g, c) <=> Admits(g.nodes, g.conns, c)
<1> DEFINE ns == g.nodes
           cs == g.conns
<1>1. \A d : /\ \A side \in Sides : Graph(g)!EndNode(side, d) = WireNode(side, d)
                                    /\ Graph(g)!EndPort(side, d) = WirePort(side, d)
             /\ WireNode("Out", d) = d.outNodeId /\ WireNode("In", d) = d.inNodeId
             /\ WirePort("Out", d) = d.outPortIndex /\ WirePort("In", d) = d.inPortIndex
  BY DEF Graph!EndNode, Graph!EndPort, WireNode, WirePort, Sides
<1>2. Graph(g)!Sides = Sides
  BY DEF Graph!Sides, Sides
<1>3. \A n, side : n \in DOMAIN ns =>
        Graph(g)!portCount(n, side) = Len(SceneLayout[ns[n]][side])
  BY DEF Graph!portCount, Graph!nodeExists
<1>4. \A d, side : side \in Sides /\ WireNode(side, d) \in DOMAIN ns =>
        Graph(g)!portAt(side, d) = PortAt(ns, side, d)
  BY <1>1 DEF Graph!portAt, PortAt
<1>5. Graph(g)!basicChecks(c, {}) <=> Joins(ns, c) /\ c \notin cs /\ \A d \in cs : Apart(ns, c, d)
  <2>1. ASSUME NEW side \in Sides, WireNode(side, c) \in DOMAIN ns
        PROVE  Graph(g)!portVacant(side, c, {}) <=>
                 \A d \in cs :
                   WireNode(side, c) = WireNode(side, d) /\ WirePort(side, c) = WirePort(side, d) =>
                     PortAt(ns, side, c).policy = "Many"
    <3>1. Graph(g)!portAt(side, c) = PortAt(ns, side, c)
      BY <1>4, <2>1
    <3>2. Graph(g)!connectionsAt(side, WireNode(side, c), WirePort(side, c)) =
            {d \in cs : WireNode(side, d) = WireNode(side, c) /\ WirePort(side, d) = WirePort(side, c)}
      BY <1>1 DEF Graph!connectionsAt
    <3> QED BY <1>1, <3>1, <3>2 DEF Graph!portVacant
  <2>2. Graph(g)!basicChecks(c, {}) <=>
          /\ c.outNodeId \in DOMAIN ns /\ c.inNodeId \in DOMAIN ns
          /\ c \notin cs
          /\ \A side \in Sides : WirePort(side, c) < Graph(g)!portCount(WireNode(side, c), side)
          /\ Graph(g)!portAt("Out", c).type = Graph(g)!portAt("In", c).type
          /\ \A side \in Sides : Graph(g)!portVacant(side, c, {})
    BY <1>1, <1>2 DEF Graph!basicChecks, Graph!nodeExists
  <2>3. Sides = {"In", "Out"}
    BY DEF Sides
  <2>4. Joins(ns, c) <=>
          /\ c.outNodeId \in DOMAIN ns /\ c.inNodeId \in DOMAIN ns
          /\ \A side \in Sides : WirePort(side, c) < Graph(g)!portCount(WireNode(side, c), side)
          /\ Graph(g)!portAt("Out", c).type = Graph(g)!portAt("In", c).type
    BY <1>1, <1>3, <1>4, <2>3 DEF Joins
  <2>5. ASSUME Joins(ns, c)
        PROVE  (\A side \in Sides : Graph(g)!portVacant(side, c, {})) <=> \A d \in cs : Apart(ns, c, d)
    BY <2>1, <2>5 DEF Joins, Apart
  <2> QED BY <2>2, <2>4, <2>5
<1>6. Graph(g)!Walked({}) = cs
  <2>1. \A d \in cs : /\ d.outNodeId \in DOMAIN ns
                     /\ d.outPortIndex < Len(SceneLayout[ns[d.outNodeId]]["Out"])
    BY <1>1 DEF Joins, Sides
  <2> QED BY <1>3, <2>1 DEF Graph!Walked
<1>7. Graph(g)!hasLoopsCached(c, {}) <=> Leads(cs, c.inNodeId, c.outNodeId)
  <2>1. <<c.outNodeId, c.inNodeId>> \notin DOMAIN << >>
    OBVIOUS
  <2>2. Graph(g)!hasLoopsCached(c, {}) = Graph(g)!hasLoops(c, {})
    BY <2>1 DEF Graph!hasLoopsCached
  <2>3. Graph(g)!hasLoops(c, {}) <=> Leads(cs, c.inNodeId, c.outNodeId)
    BY <1>6 DEF Graph!hasLoops, Graph!Reaches, Leads, Graph!NodeId, SceneNodeId
  <2> QED BY <2>2, <2>3
<1>8. possible(g, c) <=> Graph(g)!basicChecks(c, {}) /\ ~Graph(g)!hasLoopsCached(c, {})
  BY DEF possible, Graph!connectionPossible
<1> QED BY <1>5, <1>7, <1>8 DEF Admits

\* What leads somewhere still does when there are more connections.
LEMMA LeadsMore ==
  ASSUME NEW E, NEW F, E \subseteq F, NEW a, NEW b, Leads(E, a, b)
  PROVE  Leads(F, a, b)
BY DEF Leads

\* A part of the connections is sound, also on other nodes if those it joins are
\* the same.
LEMMA PartSound ==
  ASSUME NEW ns, NEW cs, Sound(ns, cs), NEW ds \in SUBSET cs, NEW ms,
         \A c \in ds, side \in Sides :
           WireNode(side, c) \in DOMAIN ms /\ ms[WireNode(side, c)] = ns[WireNode(side, c)]
  PROVE  Sound(ms, ds)
<1>1. \A c \in ds, side \in Sides : PortAt(ms, side, c) = PortAt(ns, side, c)
  BY DEF PortAt
<1>2. \A c \in ds : Joins(ns, c) /\ ~Leads(cs, c.inNodeId, c.outNodeId)
  BY DEF Sound
<1>3. ASSUME NEW c \in ds PROVE Joins(ms, c) /\ ~Leads(ds, c.inNodeId, c.outNodeId)
  <2>1. Joins(ms, c)
    BY <1>1, <1>2 DEF Joins, Sides
  <2> QED BY <1>2, <2>1, LeadsMore
<1>4. \A c, d \in ds : c = d \/ Apart(ms, c, d)
  BY <1>1 DEF Sound, Apart
<1> QED BY <1>3, <1>4 DEF Sound

\* A connection that was admitted closes no loop, whichever one looks from.
LEMMA ClosesNoLoop ==
  ASSUME NEW E, NEW c, ~Leads(E, c.inNodeId, c.outNodeId),
         \A d \in E : ~Leads(E, d.inNodeId, d.outNodeId)
  PROVE  \A d \in E \cup {c} : ~Leads(E \cup {c}, d.inNodeId, d.outNodeId)
<1> DEFINE F == E \cup {c}
<1>1. SUFFICES ASSUME NEW d \in F, Leads(F, d.inNodeId, d.outNodeId) PROVE FALSE
  OBVIOUS
<1>2. PICK S \in SUBSET SceneNodeId : /\ c.inNodeId \in S /\ c.outNodeId \notin S
                                     /\ \A x \in E : x.outNodeId \in S => x.inNodeId \in S
  BY DEF Leads
<1>3. \A x \in F : x.outNodeId \in S => x.inNodeId \in S
  BY <1>2
<1>4. d # c
  BY <1>1, <1>2, <1>3 DEF Leads
<1>5. PICK T \in SUBSET SceneNodeId : /\ d.inNodeId \in T /\ d.outNodeId \notin T
                                     /\ \A x \in E : x.outNodeId \in T => x.inNodeId \in T
  BY <1>1, <1>4 DEF Leads
<1>6. \A x \in F : x.outNodeId \in S \cup T => x.inNodeId \in S \cup T
  BY <1>2, <1>5
<1>7. d.outNodeId \in S \cup T
  BY <1>1, <1>5, <1>6 DEF Leads
<1>8. d.outNodeId \in S /\ d.inNodeId \in S
  BY <1>2, <1>4, <1>5, <1>7
<1>9. \A x \in F : x.outNodeId \in S \cap T => x.inNodeId \in S \cap T
  BY <1>2, <1>3, <1>5
<1>10. d.outNodeId \in S \cap T
  BY <1>1, <1>5, <1>8, <1>9 DEF Leads
<1> QED BY <1>5, <1>10

\* What is admitted keeps a graph sound.
LEMMA AddedSound ==
  ASSUME NEW ns, NEW cs, Sound(ns, cs), NEW c, Admits(ns, cs, c)
  PROVE  Sound(ns, cs \cup {c})
<1> DEFINE F == cs \cup {c}
<1>1. \A d \in F : ~Leads(F, d.inNodeId, d.outNodeId)
  BY ClosesNoLoop DEF Admits, Sound
<1>2. \A d \in F : Joins(ns, d)
  BY DEF Admits, Sound
<1>3. \A d \in cs : Apart(ns, c, d)
  BY DEF Admits
<1>4. \A d \in cs : Apart(ns, d, c)
  BY <1>3 DEF Apart, PortAt
<1>5. \A d, e \in F : d = e \/ Apart(ns, d, e)
  BY <1>3, <1>4 DEF Sound
<1> HIDE DEF F
<1>6. Sound(ns, F)
  BY <1>1, <1>2, <1>5 DEF Sound
<1> QED BY <1>6 DEF F

\* A connection of a sound graph is admitted to any part without it.
LEMMA PartAdmits ==
  ASSUME NEW ns, NEW cs, Sound(ns, cs), NEW ds \in SUBSET cs, NEW c \in cs, c \notin ds
  PROVE  Admits(ns, ds, c)
<1>1. Joins(ns, c) /\ ~Leads(cs, c.inNodeId, c.outNodeId)
  BY DEF Sound
<1>2. ~Leads(ds, c.inNodeId, c.outNodeId)
  BY <1>1, LeadsMore
<1>3. \A d \in ds : Apart(ns, c, d)
  BY DEF Sound
<1> QED BY <1>1, <1>2, <1>3 DEF Admits
-----------------------------------------------------------------------------
(* SceneFile: what a readable document builds.                             *)

\* Ids and models are in their ranges, groups are parts of the scene that share
\* no node, and the connections are sound.
Legal(g) ==
  /\ DOMAIN g.nodes \subseteq SceneNodeId
  /\ \A n \in DOMAIN g.nodes : g.nodes[n] \in SceneModel
  /\ DOMAIN g.groups \subseteq GroupIds
  /\ \A k \in DOMAIN g.groups : g.groups[k].nodes \subseteq DOMAIN g.nodes
  /\ \A k, l \in DOMAIN g.groups : k # l => g.groups[k].nodes \cap g.groups[l].nodes = {}
  /\ Sound(g.nodes, g.conns)

\* A record of parts that fit is legal.
LEMMA LegalOf ==
  ASSUME NEW ns, NEW cs, NEW gs,
         DOMAIN ns \subseteq SceneNodeId, \A n \in DOMAIN ns : ns[n] \in SceneModel,
         DOMAIN gs \subseteq GroupIds, \A k \in DOMAIN gs : gs[k].nodes \subseteq DOMAIN ns,
         \A k, l \in DOMAIN gs : k # l => gs[k].nodes \cap gs[l].nodes = {},
         Sound(ns, cs)
  PROVE  Legal([nodes |-> ns, conns |-> cs, groups |-> gs])
BY DEF Legal

\* Without connections every graph is sound.
LEMMA BareSound == \A ns : Sound(ns, {})
BY DEF Sound

\* The cleared scene is legal.
LEMMA EmptyIsLegal == Legal(Empty)
<1>1. DOMAIN << >> = {}
  OBVIOUS
<1> QED BY <1>1, BareSound, LegalOf DEF Empty

\* The nodes that were read are registered and have ids.
LEMMA ReadNodes ==
  ASSUME NEW doc, Readable(doc), NEW k
  PROVE  LET ns == NodesOf(First(doc.nodes, 0, k))
         IN  DOMAIN ns \subseteq SceneNodeId /\ \A n \in DOMAIN ns : ns[n] \in SceneModel
<1> DEFINE es == First(doc.nodes, 0, k)
           ns == NodesOf(es)
<1>1. \A i \in DOMAIN doc.nodes : doc.nodes[i].id \in SceneNodeId /\ doc.nodes[i].model \in SceneModel
  BY DEF Readable, stageable, loadable
<1>2. \A e \in es : e.id \in SceneNodeId /\ e.model \in SceneModel
  BY <1>1 DEF First
<1> HIDE DEF es
<1>3. DOMAIN ns = {e.id : e \in es} /\ \A n \in DOMAIN ns : ns[n] = (CHOOSE e \in es : e.id = n).model
  BY DEF NodesOf
<1>4. ASSUME NEW n \in {e.id : e \in es} PROVE (CHOOSE e \in es : e.id = n) \in es
  <2>1. \E e \in es : e.id = n
    OBVIOUS
  <2> QED BY <2>1
<1> HIDE DEF ns
<1>5. DOMAIN ns \subseteq SceneNodeId /\ \A n \in DOMAIN ns : ns[n] \in SceneModel
  BY <1>2, <1>3, <1>4
<1> QED BY <1>5 DEF ns, es

\* The first j connections of a document, with all its nodes.
LEMMA PrefixSound ==
  ASSUME NEW doc, IsDocument(doc), Readable(doc), NEW j \in 0 .. Len(doc.conns)
  PROVE  Sound(NodesOf(Range(doc.nodes)), First(doc.conns, 0, j))
<1> DEFINE a == Len(doc.nodes)
           b == Len(doc.conns)
           ns == NodesOf(Range(doc.nodes))
           P(i) == First(doc.conns, 0, i)
           Bad == {i \in 0 .. b : ~Sound(ns, P(i))}
<1>1. a \in Nat /\ b \in Nat /\ DOMAIN doc.nodes = 1 .. a /\ DOMAIN doc.conns = 1 .. b
  BY ArrayIs DEF IsDocument
<1>2. SUFFICES ASSUME Bad # {} PROVE FALSE
  OBVIOUS
<1>3. Bad \in SUBSET Nat
  BY <1>1
<1>4. PICK k \in Bad : \A i \in Bad : k <= i
  BY <1>2, <1>3, Counting!LeastNat
<1>5. k \in 0 .. b /\ ~Sound(ns, P(k))
  BY <1>4
<1>6. k # 0
  <2>1. P(0) = {}
    BY <1>1 DEF First
  <2> QED BY <1>5, <2>1, BareSound
<1>7. k - 1 \in 0 .. b /\ k \in 1 .. b /\ k \in Nat
  BY <1>1, <1>5, <1>6
<1>8. Sound(ns, P(k - 1))
  <2>1. k - 1 \notin Bad
    BY <1>4, <1>7
  <2> QED BY <1>7, <2>1
<1>9. P(k) = P(k - 1) \cup {doc.conns[k]}
  BY <1>1, <1>7 DEF First
<1> DEFINE g == After(doc, a + k - 1)
<1>10. g.nodes = ns
  <2>1. First(doc.nodes, 0, a + k - 1) = Range(doc.nodes)
    BY <1>1, <1>7, FirstIsAll
  <2> QED BY <2>1, AfterIs
<1>11. g.conns = P(k - 1)
  <2>1. \A i \in DOMAIN doc.conns : i + a <= a + k - 1 <=> i + 0 <= k - 1
    BY <1>1, <1>7
  <2>2. First(doc.conns, a, a + k - 1) = P(k - 1)
    BY <2>1 DEF First
  <2> QED BY <2>2, AfterIs
<1>12. possible(g, doc.conns[k])
  BY <1>1, <1>7 DEF Readable, stageable
<1> HIDE DEF g, ns, P
<1>13. Admits(ns, P(k - 1), doc.conns[k])
  <2>1. \A d \in g.conns : Joins(g.nodes, d)
    BY <1>8, <1>10, <1>11 DEF Sound
  <2> QED BY <1>10, <1>11, <1>12, <2>1, PossibleIs
<1>14. Sound(ns, P(k))
  BY <1>8, <1>9, <1>13, AddedSound
<1> QED BY <1>5, <1>14

\* A prefix of a readable document has sound connections.
LEMMA ReadSound ==
  ASSUME NEW doc, IsDocument(doc), Readable(doc), NEW k \in Nat
  PROVE  Sound(NodesOf(First(doc.nodes, 0, k)), First(doc.conns, Len(doc.nodes), k))
<1> DEFINE a == Len(doc.nodes)
           b == Len(doc.conns)
<1>1. a \in Nat /\ b \in Nat /\ DOMAIN doc.nodes = 1 .. a /\ DOMAIN doc.conns = 1 .. b
  BY ArrayIs DEF IsDocument
<1>2. CASE k <= a
  <2>1. First(doc.conns, a, k) = {}
    BY <1>1, <1>2 DEF First
  <2> QED BY <2>1, BareSound
<1>3. CASE ~(k <= a)
  <2> DEFINE j == IF k - a <= b THEN k - a ELSE b
  <2>1. j \in 0 .. b
    BY <1>1, <1>3
  <2>2. \A i \in DOMAIN doc.conns : i + a <= k <=> i + 0 <= j
    BY <1>1, <1>3
  <2>3. First(doc.conns, a, k) = First(doc.conns, 0, j)
    BY <2>2 DEF First
  <2>4. First(doc.nodes, 0, k) = Range(doc.nodes)
    <3>1. a + 0 <= k
      BY <1>1, <1>3
    <3> HIDE DEF a
    <3> QED BY <1>1, <3>1, FirstIsAll
  <2> HIDE DEF j
  <2> QED BY <2>1, <2>3, <2>4, PrefixSound
<1> QED BY <1>2, <1>3

\* The groups a validated document makes.
LEMMA ReadGroups ==
  ASSUME NEW doc, IsDocument(doc), validate_groups_json(doc), NEW skip, NEW k
  PROVE  LET gs == GroupsOf(Filled(First(doc.groups, skip, k)))
         IN  /\ DOMAIN gs \subseteq GroupIds
             /\ \A m \in DOMAIN gs : gs[m].nodes \subseteq Range(ids(doc.nodes))
             /\ \A m, l \in DOMAIN gs : m # l => gs[m].nodes \cap gs[l].nodes = {}
<1> DEFINE es == Filled(First(doc.groups, skip, k))
           gs == GroupsOf(es)
           from(m) == CHOOSE e \in es : e.id = m
<1>1. \A e \in es : \E i \in DOMAIN doc.groups : e = doc.groups[i]
  BY DEF First, Filled
<1>2. CASE doc.groups = << >>
  <2>1. DOMAIN doc.groups = {}
    BY <1>2
  <2>2. es = {}
    BY <1>1, <2>1
  <2>3. DOMAIN gs = {}
    BY <2>2 DEF GroupsOf
  <2> QED BY <2>3
<1>3. CASE ~(doc.groups = << >>)
  <2>1. /\ Range(ids(doc.groups)) \subseteq GroupIds
        /\ groupedNodes(doc) \subseteq Range(ids(doc.nodes)) /\ listedOnce(doc)
    BY <1>3 DEF validate_groups_json
  <2>2. \A i \in DOMAIN doc.groups : doc.groups[i].id \in GroupIds
    BY <2>1 DEF ids, Range
  <2> HIDE DEF es
  <2>3. DOMAIN gs = {e.id : e \in es} /\ \A m \in DOMAIN gs : gs[m].nodes = Range(from(m).nodes)
    BY DEF GroupsOf
  <2>4. ASSUME NEW m \in DOMAIN gs PROVE from(m) \in es /\ from(m).id = m
    <3>1. \E e \in es : e.id = m
      BY <2>3
    <3> QED BY <3>1
  <2> HIDE DEF gs, from
  <2>5. DOMAIN gs \subseteq GroupIds
    BY <1>1, <2>2, <2>3
  <2>6. ASSUME NEW m \in DOMAIN gs
        PROVE  \E i \in DOMAIN doc.groups : gs[m].nodes = listed(doc, i) /\ doc.groups[i].id = m
    BY <1>1, <2>3, <2>4 DEF listed
  <2>7. \A m \in DOMAIN gs : gs[m].nodes \subseteq Range(ids(doc.nodes))
    BY <2>1, <2>6 DEF groupedNodes
  <2>8. ASSUME NEW m \in DOMAIN gs, NEW l \in DOMAIN gs, m # l
        PROVE  gs[m].nodes \cap gs[l].nodes = {}
    <3>1. PICK i \in DOMAIN doc.groups : gs[m].nodes = listed(doc, i) /\ doc.groups[i].id = m
      BY <2>6
    <3>2. PICK j \in DOMAIN doc.groups : gs[l].nodes = listed(doc, j) /\ doc.groups[j].id = l
      BY <2>6
    <3>3. j \in DOMAIN doc.groups \ {i}
      BY <2>8, <3>1, <3>2
    <3> QED BY <2>1, <3>1, <3>2, <3>3 DEF listedOnce
  <2> QED BY <2>5, <2>7, <2>8 DEF gs, es
<1> QED BY <1>2, <1>3

\* While a readable document is being built, and at its end, the scene is legal.
LEMMA ReadIsLegal ==
  ASSUME NEW doc, IsDocument(doc), Readable(doc), NEW k \in Nat
  PROVE  Legal(After(doc, k))
<1> DEFINE a == Len(doc.nodes)
           b == Len(doc.conns)
           ns == NodesOf(First(doc.nodes, 0, k))
           cs == First(doc.conns, a, k)
           gs == GroupsOf(Filled(First(doc.groups, a + b, k)))
<1>1. a \in Nat /\ b \in Nat /\ DOMAIN doc.nodes = 1 .. a
      /\ Len(doc.groups) \in Nat /\ DOMAIN doc.groups = 1 .. Len(doc.groups)
  BY ArrayIs DEF IsDocument
<1>2. DOMAIN ns \subseteq SceneNodeId /\ \A n \in DOMAIN ns : ns[n] \in SceneModel
  BY ReadNodes
<1>3. /\ DOMAIN gs \subseteq GroupIds
      /\ \A m \in DOMAIN gs : gs[m].nodes \subseteq Range(ids(doc.nodes))
      /\ \A m, l \in DOMAIN gs : m # l => gs[m].nodes \cap gs[l].nodes = {}
  BY ReadGroups DEF Readable
<1>4. Sound(ns, cs)
  BY ReadSound
<1>5. \A m \in DOMAIN gs : gs[m].nodes \subseteq DOMAIN ns
  <2>1. CASE k <= a
    <3>1. First(doc.groups, a + b, k) = {}
      <4>1. ASSUME NEW i \in DOMAIN doc.groups PROVE ~(i + (a + b) <= k)
        <5> HIDE DEF a, b
        <5>1. i \in Nat /\ i >= 1
          BY <1>1
        <5> QED BY <1>1, <2>1, <5>1
      <4> QED BY <4>1 DEF First
    <3>2. Filled(First(doc.groups, a + b, k)) = {}
      BY <3>1 DEF Filled
    <3>3. DOMAIN gs = {}
      BY <3>2 DEF GroupsOf
    <3> QED BY <3>3
  <2>2. CASE ~(k <= a)
    <3>1. First(doc.nodes, 0, k) = Range(doc.nodes)
      <4>1. a + 0 <= k
        BY <1>1, <2>2
      <4> HIDE DEF a
      <4> QED BY <1>1, <4>1, FirstIsAll
    <3>2. DOMAIN ns = {e.id : e \in Range(doc.nodes)}
      BY <3>1 DEF NodesOf
    <3>3. Range(ids(doc.nodes)) = {e.id : e \in Range(doc.nodes)}
      BY DEF ids, Range
    <3> QED BY <1>3, <3>2, <3>3
  <2> QED BY <2>1, <2>2
<1>6. After(doc, k) = [nodes |-> ns, conns |-> cs, groups |-> gs]
  BY AfterIs
<1> HIDE DEF ns, cs, gs
<1> QED BY <1>2, <1>3, <1>4, <1>5, <1>6, LegalOf
-----------------------------------------------------------------------------
(* SceneFile: a legal scene is saved as a document that is read.           *)

\* Lists of entries whose ids tell them apart.
LEMMA DistinctIds ==
  ASSUME NEW S, IsFiniteSet(S), \A d, e \in S : d.id = e.id => d = e
  PROVE  /\ IsInjective(ids(SetToSeq(S))) /\ Range(ids(SetToSeq(S))) = {e.id : e \in S}
         /\ \A i, j \in DOMAIN SetToSeq(S) : SetToSeq(S)[i].id = SetToSeq(S)[j].id => i = j
<1> DEFINE s == SetToSeq(S)
<1>1. IsInjective(s) /\ Range(s) = S
  BY ListOf
<1> HIDE DEF s
<1>2. \A i \in DOMAIN s : s[i] \in S
  BY <1>1 DEF Range
<1>3. \A i, j \in DOMAIN s : s[i].id = s[j].id => i = j
  BY <1>1, <1>2 DEF IsInjective
<1>4. IsInjective(ids(s))
  BY <1>3 DEF ids, IsInjective
<1>5. Range(ids(s)) = {e.id : e \in S}
  BY <1>1 DEF ids, Range
<1> QED BY <1>3, <1>4, <1>5 DEF s

\* The entries of a scene are told apart by their ids.
LEMMA SavedIds ==
  ASSUME NEW g
  PROVE  /\ \A d, e \in savedNodes(g) : d.id = e.id => d = e
         /\ {e.id : e \in savedNodes(g)} = DOMAIN g.nodes
         /\ \A e \in savedNodes(g) : e.model = g.nodes[e.id]
         /\ \A d, e \in savedGroups(g) : d.id = e.id => d = e
         /\ {e.id : e \in savedGroups(g)} = DOMAIN g.groups
         /\ \A e \in savedGroups(g) : e = savedGroup(g, e.id)
<1>1. \A n \in DOMAIN g.nodes : saveNode(g, n).id = n /\ saveNode(g, n).model = g.nodes[n]
  BY DEF saveNode
<1>2. savedNodes(g) = {saveNode(g, n) : n \in DOMAIN g.nodes}
  BY DEF savedNodes
<1>3. /\ \A d, e \in savedNodes(g) : d.id = e.id => d = e
      /\ {e.id : e \in savedNodes(g)} = DOMAIN g.nodes
      /\ \A e \in savedNodes(g) : e.model = g.nodes[e.id]
  BY <1>1, <1>2
<1>4. \A k \in DOMAIN g.groups : savedGroup(g, k).id = k
  BY DEF savedGroup
<1>5. savedGroups(g) = {savedGroup(g, k) : k \in DOMAIN g.groups}
  BY DEF savedGroups
<1>6. /\ \A d, e \in savedGroups(g) : d.id = e.id => d = e
      /\ {e.id : e \in savedGroups(g)} = DOMAIN g.groups
      /\ \A e \in savedGroups(g) : e = savedGroup(g, e.id)
  BY <1>4, <1>5
<1> QED BY <1>3, <1>6

\* The validation accepts what is saved.
LEMMA SavedIsValid ==
  ASSUME NEW g, IsWhole(g), Legal(g)
  PROVE  validate_groups_json(scene_json_with_groups(g))
<1> DEFINE doc == scene_json_with_groups(g)
<1>1. IsFiniteSet(savedNodes(g)) /\ IsFiniteSet(savedGroups(g)) /\ AreGroups(g.groups)
  BY SavedSets, PartsOf
<1>2. doc.nodes = SetToSeq(savedNodes(g)) /\ doc.groups = SetToSeq(savedGroups(g))
  BY SavedIs
<1> HIDE DEF doc
<1>3. IsInjective(ids(doc.nodes)) /\ Range(ids(doc.nodes)) = DOMAIN g.nodes
  BY <1>1, <1>2, DistinctIds, SavedIds
<1>4. /\ IsInjective(ids(doc.groups)) /\ Range(ids(doc.groups)) = DOMAIN g.groups
      /\ \A i, j \in DOMAIN doc.groups : doc.groups[i].id = doc.groups[j].id => i = j
  BY <1>1, <1>2, DistinctIds, SavedIds
<1>5. ASSUME NEW i \in DOMAIN doc.groups
      PROVE  /\ doc.groups[i].id \in DOMAIN g.groups
             /\ doc.groups[i] = savedGroup(g, doc.groups[i].id)
  <2>1. Range(doc.groups) = savedGroups(g)
    BY <1>1, <1>2, ListOf
  <2>2. doc.groups[i] \in savedGroups(g)
    BY <2>1 DEF Range
  <2> QED BY <2>2, SavedIds
<1>6. ASSUME NEW i \in DOMAIN doc.groups
      PROVE  /\ listed(doc, i) = g.groups[doc.groups[i].id].nodes
             /\ IsInjective(doc.groups[i].nodes)
  <2> DEFINE k == doc.groups[i].id
  <2>1. k \in DOMAIN g.groups /\ doc.groups[i] = savedGroup(g, k)
    BY <1>5
  <2> HIDE DEF k
  <2>2. Range(savedGroup(g, k).nodes) = g.groups[k].nodes
    BY <1>1, <2>1, SavedGroupIs
  <2>3. savedGroup(g, k).nodes = SetToSeq(g.groups[k].nodes)
    BY DEF savedGroup
  <2>4. IsFiniteSet(g.groups[k].nodes)
    BY <1>1, <2>1, GroupIs
  <2>5. IsInjective(savedGroup(g, k).nodes)
    BY <2>3, <2>4, ListOf
  <2> QED BY <2>1, <2>2, <2>5 DEF listed, k
<1>7. listedOnce(doc)
  <2>1. ASSUME NEW i \in DOMAIN doc.groups, NEW j \in DOMAIN doc.groups \ {i}
        PROVE  listed(doc, i) \cap listed(doc, j) = {}
    <3>1. doc.groups[i].id # doc.groups[j].id
      BY <1>4
    <3>2. doc.groups[i].id \in DOMAIN g.groups /\ doc.groups[j].id \in DOMAIN g.groups
      BY <1>5
    <3> QED BY <1>6, <3>1, <3>2 DEF Legal
  <2> QED BY <1>6, <2>1 DEF listedOnce
<1>8. groupedNodes(doc) \subseteq DOMAIN g.nodes
  BY <1>5, <1>6 DEF groupedNodes, Legal
<1> QED BY <1>3, <1>4, <1>7, <1>8 DEF validate_groups_json, Legal, doc

\* The staging model takes what is saved, entry by entry.
LEMMA SavedIsStageable ==
  ASSUME NEW g, IsWhole(g), Legal(g)
  PROVE  stageable(scene_json_with_groups(g))
<1> DEFINE doc == scene_json_with_groups(g)
           a == Len(doc.nodes)
<1>1. /\ IsFiniteSet(savedNodes(g)) /\ IsFiniteSet(g.conns)
      /\ g.nodes = [n \in DOMAIN g.nodes |-> g.nodes[n]]
  BY SavedSets, PartsOf DEF IsMap
<1>2. doc.nodes = SetToSeq(savedNodes(g)) /\ doc.conns = SetToSeq(g.conns)
  BY SavedIs
<1> HIDE DEF doc
<1>3. /\ Range(doc.nodes) = savedNodes(g) /\ a \in Nat /\ DOMAIN doc.nodes = 1 .. a
      /\ Range(doc.conns) = g.conns /\ IsInjective(doc.conns)
      /\ Len(doc.conns) \in Nat /\ DOMAIN doc.conns = 1 .. Len(doc.conns)
  BY <1>1, <1>2, ListOf
<1>4. \A i, j \in DOMAIN doc.nodes : doc.nodes[i].id = doc.nodes[j].id => i = j
  BY <1>1, <1>2, DistinctIds, SavedIds
<1>5. ASSUME NEW i \in DOMAIN doc.nodes
      PROVE  loadable(After(doc, i - 1), doc.nodes[i])
  <2>1. doc.nodes[i] \in savedNodes(g)
    BY <1>3 DEF Range
  <2>2. doc.nodes[i].id \in DOMAIN g.nodes /\ doc.nodes[i].model = g.nodes[doc.nodes[i].id]
    BY <2>1, SavedIds
  <2>3. DOMAIN After(doc, i - 1).nodes = {e.id : e \in First(doc.nodes, 0, i - 1)}
    BY AfterIs DEF NodesOf
  <2>4. doc.nodes[i].id \notin {e.id : e \in First(doc.nodes, 0, i - 1)}
    <3>1. SUFFICES ASSUME NEW e \in First(doc.nodes, 0, i - 1), e.id = doc.nodes[i].id PROVE FALSE
      OBVIOUS
    <3>2. PICK j \in DOMAIN doc.nodes : j + 0 <= i - 1 /\ e = doc.nodes[j]
      BY DEF First
    <3>3. j = i
      BY <1>4, <3>1, <3>2
    <3> QED BY <1>3, <3>2, <3>3
  <2> QED BY <2>2, <2>3, <2>4 DEF loadable, Legal
<1>6. ASSUME NEW i \in DOMAIN doc.conns
      PROVE  possible(After(doc, a + i - 1), doc.conns[i])
  <2> DEFINE h == After(doc, a + i - 1)
             c == doc.conns[i]
             ds == First(doc.conns, a, a + i - 1)
  <2>0. i \in Nat /\ i >= 1 /\ a + i - 1 \in Nat
    BY <1>3
  <2>1. h.nodes = g.nodes
    <3>1. a + 0 <= a + i - 1
      BY <1>3, <2>0
    <3>2. First(doc.nodes, 0, a + i - 1) = Range(doc.nodes)
      <4> HIDE DEF a
      <4> QED BY <1>3, <2>0, <3>1, FirstIsAll
    <3>3. h.nodes = NodesOf(savedNodes(g))
      BY <1>3, <3>2, AfterIs
    <3> QED BY <1>1, <3>3, NodesComeBack DEF savedNodes
  <2>2. h.conns = ds
    BY AfterIs
  <2>3. c \in g.conns
    BY <1>3 DEF Range
  <2>4. ds \in SUBSET g.conns
    BY <1>3 DEF First, Range
  <2>5. c \notin ds
    <3>1. SUFFICES ASSUME NEW j \in DOMAIN doc.conns, j + a <= a + i - 1, c = doc.conns[j] PROVE FALSE
      BY DEF First
    <3>2. j = i
      BY <1>3, <3>1 DEF IsInjective
    <3> QED BY <1>3, <2>0, <3>1, <3>2
  <2>6. Sound(g.nodes, g.conns)
    BY DEF Legal
  <2> HIDE DEF h, ds, c
  <2>7. Admits(h.nodes, h.conns, c)
    BY <2>1, <2>2, <2>3, <2>4, <2>5, <2>6, PartAdmits
  <2>8. \A d \in h.conns : Joins(h.nodes, d)
    BY <2>1, <2>2, <2>4, <2>6 DEF Sound
  <2>9. possible(h, c)
    BY <2>7, <2>8, PossibleIs
  <2> QED BY <2>9 DEF h, c
<1> QED BY <1>5, <1>6 DEF stageable, doc

\* What is saved would be opened.
LEMMA SavedIsReadable ==
  ASSUME NEW g, IsWhole(g), Legal(g)
  PROVE  Readable(scene_json_with_groups(g))
BY SavedIsValid, SavedIsStageable DEF Readable
-----------------------------------------------------------------------------
(* SceneFile: an edit leaves a legal scene legal.                          *)

\* Legality of the scene, of the copy, and of what is being opened.
LegalInv ==
  /\ Legal(live) /\ nextGroup \in 0 .. InvalidGroupId /\ built \in Nat
  /\ opening # Nothing => Legal(opening.before) /\ Readable(opening.doc)

\* The group that is left of another.
LEMMA LeftGroups ==
  ASSUME NEW G, AreGroups(G), NEW ns
  PROVE  /\ DOMAIN Ungrouped(G, ns) \subseteq DOMAIN G
         /\ \A k \in DOMAIN Ungrouped(G, ns) : Ungrouped(G, ns)[k].nodes = G[k].nodes \ ns
<1> DEFINE left == {k \in DOMAIN G : ~(G[k].nodes \subseteq ns)}
           U == Ungrouped(G, ns)
<1>1. U = [k \in left |-> [G[k] EXCEPT !.nodes = @ \ ns]]
  BY DEF Ungrouped
<1>2. \A k \in DOMAIN G : G[k] = [nodes |-> G[k].nodes, locked |-> G[k].locked]
  BY GroupIs
<1>3. ASSUME NEW k \in left PROVE U[k].nodes = G[k].nodes \ ns
  <2>1. U[k] = [nodes |-> G[k].nodes \ ns, locked |-> G[k].locked]
    BY <1>1, <1>2
  <2> QED BY <2>1
<1>4. DOMAIN U = left /\ left \subseteq DOMAIN G
  BY <1>1
<1> QED BY <1>3, <1>4

\* Nodes that leave their groups leave a legal scene legal, and no group meets
\* them.
LEMMA DetachedLegal ==
  ASSUME NEW g, IsWhole(g), Legal(g), NEW ns
  PROVE  LET d == [g EXCEPT !.groups = Ungrouped(@, ns)]
         IN  /\ Legal(d) /\ d.nodes = g.nodes
             /\ \A k \in DOMAIN d.groups : d.groups[k].nodes \cap ns = {}
<1> DEFINE U == Ungrouped(g.groups, ns)
           d == [g EXCEPT !.groups = Ungrouped(@, ns)]
<1>1. d = [nodes |-> g.nodes, conns |-> g.conns, groups |-> U]
  BY PartsOf
<1>2. DOMAIN U \subseteq DOMAIN g.groups /\ \A k \in DOMAIN U : U[k].nodes = g.groups[k].nodes \ ns
  BY PartsOf, LeftGroups
<1> HIDE DEF U
<1>3. Legal([nodes |-> g.nodes, conns |-> g.conns, groups |-> U])
  BY <1>2 DEF Legal
<1> HIDE DEF d
<1>4. d.nodes = g.nodes /\ d.groups = U
  BY <1>1
<1> QED BY <1>1, <1>2, <1>3, <1>4 DEF d

\* A group with a new id of nodes that are in none leaves a legal scene legal.
LEMMA GroupedLegal ==
  ASSUME NEW g, g = [nodes |-> g.nodes, conns |-> g.conns, groups |-> g.groups],
         Legal(g), NEW gid \in GroupIds, gid \notin DOMAIN g.groups,
         NEW ns \in SUBSET DOMAIN g.nodes, \A k \in DOMAIN g.groups : g.groups[k].nodes \cap ns = {},
         NEW locked
  PROVE  Legal(WithGroup(g, gid, ns, locked))
<1> DEFINE e  == [nodes |-> ns, locked |-> locked]
           gs == Over([k \in {gid} |-> e], g.groups)
<1>1. WithGroup(g, gid, ns, locked) = [nodes |-> g.nodes, conns |-> g.conns, groups |-> gs]
  BY DEF WithGroup
<1>2. /\ DOMAIN gs = {gid} \cup DOMAIN g.groups /\ gs[gid] = e
      /\ \A k \in DOMAIN g.groups : gs[k] = g.groups[k]
  BY DEF Over
<1>3. e.nodes = ns
  OBVIOUS
<1> HIDE DEF gs, e
<1>4. \A k \in DOMAIN gs : gs[k].nodes \subseteq DOMAIN g.nodes
  BY <1>2, <1>3 DEF Legal
<1>5. ASSUME NEW k \in DOMAIN gs, NEW l \in DOMAIN gs, k # l
      PROVE  gs[k].nodes \cap gs[l].nodes = {}
  <2>1. CASE k = gid
    BY <1>2, <1>3, <1>5, <2>1
  <2>2. CASE l = gid
    BY <1>2, <1>3, <1>5, <2>2
  <2>3. CASE k # gid /\ l # gid
    BY <1>2, <1>5, <2>3 DEF Legal
  <2> QED BY <2>1, <2>2, <2>3
<1>6. Legal([nodes |-> g.nodes, conns |-> g.conns, groups |-> gs])
  BY <1>2, <1>4, <1>5 DEF Legal
<1> QED BY <1>1, <1>6

\* nextGroupId() finds an id that no group has, or none.
LEMMA FreeGroupIs ==
  ASSUME LegalInv, NEW g
  PROVE  \/ freeGroupId(g) = InvalidGroupId
         \/ /\ freeGroupId(g) \in GroupIds /\ freeGroupId(g) \notin DOMAIN g.groups
            /\ freeGroupId(g) + 1 \in 0 .. InvalidGroupId
<1>0. InvalidGroupId \in Nat /\ nextGroup \in Nat
  BY SceneConstants DEF LegalInv
<1> DEFINE S == {k \in nextGroup .. InvalidGroupId - 1 : k \notin DOMAIN g.groups}
<1>1. S \in SUBSET Nat
  BY <1>0
<1>2. freeGroupId(g) = IF S # {} THEN Min(S) ELSE InvalidGroupId
  <2>1. S # {} <=> \E k \in nextGroup .. InvalidGroupId - 1 : k \notin DOMAIN g.groups
    OBVIOUS
  <2> QED BY <2>1 DEF freeGroupId
<1>3. ASSUME S # {}
      PROVE  Min(S) \in GroupIds /\ Min(S) \notin DOMAIN g.groups /\ Min(S) + 1 \in 0 .. InvalidGroupId
  <2>1. Min(S) \in S
    BY <1>1, <1>3, MinIs
  <2>2. PICK m \in nextGroup .. InvalidGroupId - 1 : m = Min(S) /\ m \notin DOMAIN g.groups
    BY <2>1
  <2> HIDE DEF S
  <2>3. m \in 0 .. InvalidGroupId - 1 /\ m + 1 \in 0 .. InvalidGroupId
    BY <1>0
  <2> QED BY <2>2, <2>3 DEF GroupIds
<1> HIDE DEF S
<1> QED BY <1>2, <1>3

\* The ids that are taken next are in no use.
LEMMA NextIsUnused ==
  ASSUME IdsInv, NEW n \in Int, n >= nextNode
  PROVE  n \notin DOMAIN live.nodes
BY ConstantsOfIds DEF IdsInv, NodesBelow

\* More nodes leave a legal scene legal: no connection is at them.
LEMMA MoreNodesLegal ==
  ASSUME IsWhole(live), Legal(live), NEW new, DOMAIN new \cap DOMAIN live.nodes = {},
         DOMAIN new \subseteq SceneNodeId, \A n \in DOMAIN new : new[n] \in SceneModel
  PROVE  Legal([nodes |-> Over(new, live.nodes), conns |-> live.conns, groups |-> live.groups])
<1> DEFINE ns == Over(new, live.nodes)
<1>1. /\ DOMAIN ns = DOMAIN new \cup DOMAIN live.nodes
      /\ \A n \in DOMAIN new : ns[n] = new[n]
      /\ \A n \in DOMAIN live.nodes : ns[n] = live.nodes[n]
  BY DEF Over
<1> HIDE DEF ns
<1>2. DOMAIN ns \subseteq SceneNodeId /\ \A n \in DOMAIN ns : ns[n] \in SceneModel
  BY <1>1 DEF Legal
<1>3. Sound(live.nodes, live.conns)
  BY DEF Legal
<1>4. \A c \in live.conns, side \in Sides :
        WireNode(side, c) \in DOMAIN ns /\ ns[WireNode(side, c)] = live.nodes[WireNode(side, c)]
  BY <1>1, <1>3 DEF Sound, Joins
<1>5. live.conns \in SUBSET live.conns
  OBVIOUS
<1>6. Sound(ns, live.conns)
  BY <1>3, <1>4, <1>5, PartSound
<1>7. Legal([nodes |-> ns, conns |-> live.conns, groups |-> live.groups])
  BY <1>1, <1>2, <1>6 DEF Legal
<1> QED BY <1>7 DEF ns

\* A new node keeps the scene legal.
LEMMA NewNodeLegal ==
  ASSUME IsWhole(live), IdsInv, Legal(live), NEW m \in SceneModel, addSceneNode(m)
  PROVE  Legal(live') /\ nextGroup' = nextGroup
<1> DEFINE new == [n \in {nextNode} |-> m]
<1>1. live' = [nodes |-> Over(new, live.nodes), conns |-> live.conns, groups |-> live.groups]
      /\ nextNode # SceneInvalidNodeId /\ nextGroup' = nextGroup
  BY PartsOf DEF addSceneNode
<1>2. nextNode \in Nat /\ SceneInvalidNodeId \in Nat /\ nextNode <= SceneInvalidNodeId
  BY ConstantsOfIds
<1>3. nextNode \in SceneNodeId /\ nextNode \notin DOMAIN live.nodes
  BY <1>1, <1>2, NextIsUnused DEF SceneNodeId
<1>4. DOMAIN new = {nextNode} /\ new[nextNode] = m
  OBVIOUS
<1> HIDE DEF new
<1>5. Legal([nodes |-> Over(new, live.nodes), conns |-> live.conns, groups |-> live.groups])
  BY <1>3, <1>4, MoreNodesLegal
<1> QED BY <1>1, <1>5

\* A deletion keeps the scene legal.
LEMMA DeletionLegal ==
  ASSUME IsWhole(live), Legal(live), NEW n, deleteSceneNode(n)
  PROVE  Legal(live') /\ nextGroup' = nextGroup
<1> DEFINE ns == Restrict(live.nodes, DOMAIN live.nodes \ {n})
           cs == {c \in live.conns : n \notin {c.inNodeId, c.outNodeId}}
           gs == Ungrouped(live.groups, {n})
<1>1. live' = [nodes |-> ns, conns |-> cs, groups |-> gs] /\ nextGroup' = nextGroup
  BY DEF deleteSceneNode
<1>2. DOMAIN ns = DOMAIN live.nodes \ {n} /\ \A x \in DOMAIN ns : ns[x] = live.nodes[x]
  BY DEF Restrict
<1>3. cs \in SUBSET live.conns /\ \A c \in cs : n # c.inNodeId /\ n # c.outNodeId
  OBVIOUS
<1>4. /\ DOMAIN gs \subseteq DOMAIN live.groups
      /\ \A k \in DOMAIN gs : gs[k].nodes = live.groups[k].nodes \ {n}
  BY PartsOf, LeftGroups
<1> HIDE DEF ns, cs, gs
<1>5. Sound(ns, cs)
  <2>1. Sound(live.nodes, live.conns)
    BY DEF Legal
  <2>2. \A c \in cs, side \in Sides : WireNode(side, c) # n /\ WireNode(side, c) \in DOMAIN live.nodes
    BY <1>3, <2>1 DEF Sound, Joins, Sides, WireNode
  <2>3. \A c \in cs, side \in Sides :
          WireNode(side, c) \in DOMAIN ns /\ ns[WireNode(side, c)] = live.nodes[WireNode(side, c)]
    BY <1>2, <2>2
  <2> QED BY <1>3, <2>1, <2>3, PartSound
<1>6. Legal([nodes |-> ns, conns |-> cs, groups |-> gs])
  BY <1>2, <1>4, <1>5 DEF Legal
<1> QED BY <1>1, <1>6

\* A connection that is possible keeps the scene legal.
LEMMA ConnectionLegal ==
  ASSUME IsWhole(live), Legal(live), NEW c, addSceneConnection(c)
  PROVE  Legal(live') /\ nextGroup' = nextGroup
<1>1. live' = [nodes |-> live.nodes, conns |-> live.conns \cup {c}, groups |-> live.groups]
      /\ possible(live, c) /\ nextGroup' = nextGroup
  BY PartsOf DEF addSceneConnection
<1>2. Sound(live.nodes, live.conns)
  BY DEF Legal
<1>3. Admits(live.nodes, live.conns, c)
  BY <1>1, <1>2, PossibleIs DEF Sound
<1>4. Sound(live.nodes, live.conns \cup {c})
  BY <1>2, <1>3, AddedSound
<1>5. Legal([nodes |-> live.nodes, conns |-> live.conns \cup {c}, groups |-> live.groups])
  BY <1>4 DEF Legal
<1> QED BY <1>1, <1>5

\* A new group keeps the scene legal, with an id or without.
LEMMA GroupLegal ==
  ASSUME IsWhole(live), LegalInv, NEW ns \in SUBSET DOMAIN live.nodes, createGroup(ns)
  PROVE  Legal(live') /\ nextGroup' \in 0 .. InvalidGroupId
<1> DEFINE detached == [live EXCEPT !.groups = Ungrouped(@, ns)]
           gid == freeGroupId(detached)
<1>1. IF gid = InvalidGroupId
      THEN live' = detached /\ nextGroup' = InvalidGroupId
      ELSE live' = WithGroup(detached, gid, ns, TRUE) /\ nextGroup' = gid + 1
  BY DEF createGroup
<1>2. /\ IsWhole(detached) /\ Legal(detached) /\ detached.nodes = live.nodes
      /\ \A k \in DOMAIN detached.groups : detached.groups[k].nodes \cap ns = {}
  <2>1. Legal(live)
    BY DEF LegalInv
  <2> QED BY <2>1, DetachedIsWhole, DetachedLegal
<1> HIDE DEF detached
<1>3. \/ gid = InvalidGroupId
      \/ gid \in GroupIds /\ gid \notin DOMAIN detached.groups /\ gid + 1 \in 0 .. InvalidGroupId
  BY FreeGroupIs
<1> HIDE DEF gid
<1>4. CASE gid = InvalidGroupId
  <2>1. InvalidGroupId \in 0 .. InvalidGroupId
    BY SceneConstants
  <2> QED BY <1>1, <1>2, <1>4, <2>1
<1>5. CASE gid # InvalidGroupId
  <2>1. Legal(WithGroup(detached, gid, ns, TRUE))
    BY <1>2, <1>3, <1>5, PartsOf, GroupedLegal
  <2> QED BY <1>1, <1>3, <1>5, <2>1
<1> QED BY <1>4, <1>5

\* A toggled lock keeps the scene legal.
LEMMA LockLegal ==
  ASSUME IsWhole(live), Legal(live), NEW k \in DOMAIN live.groups, toggleLock(k)
  PROVE  Legal(live') /\ nextGroup' = nextGroup
<1> DEFINE G == live.groups
           H == [G EXCEPT ![k].locked = ~@]
<1>1. live' = [nodes |-> live.nodes, conns |-> live.conns, groups |-> H] /\ nextGroup' = nextGroup
  BY PartsOf DEF toggleLock
<1>2. H = [j \in DOMAIN G |-> IF j = k THEN [G[k] EXCEPT !.locked = ~@] ELSE G[j]]
  <2>1. G = [j \in DOMAIN G |-> [nodes |-> G[j].nodes, locked |-> G[j].locked]]
    BY PartsOf DEF AreGroups
  <2> QED BY <2>1
<1>3. G[k] = [nodes |-> G[k].nodes, locked |-> G[k].locked]
  BY PartsOf, GroupIs
<1> HIDE DEF G
<1> DEFINE e == [G[k] EXCEPT !.locked = ~@]
<1>4. e.nodes = G[k].nodes
  <2>1. e = [nodes |-> G[k].nodes, locked |-> ~G[k].locked]
    BY <1>3
  <2> QED BY <2>1
<1>5. DOMAIN H = DOMAIN G /\ \A j \in DOMAIN H : H[j] = IF j = k THEN e ELSE G[j]
  BY <1>2
<1> HIDE DEF H, e
<1>6. \A j \in DOMAIN H : H[j].nodes = G[j].nodes
  BY <1>4, <1>5
<1>7. Legal([nodes |-> live.nodes, conns |-> live.conns, groups |-> H])
  BY <1>5, <1>6 DEF Legal, G
<1> QED BY <1>1, <1>7
-----------------------------------------------------------------------------
(* SceneFile: a group file.                                                *)

madeNodes(doc) ==
  [n \in {newId(i) : i \in DOMAIN doc.nodes} |-> doc.nodes[n - nextNode + 1].model]

\* The nodes of a group file that can be made have new ids and known models.
LEMMA MadeNodes ==
  ASSUME IdsInv, NEW doc, IsGroupDocument(doc), creatableNodes(doc)
  PROVE  /\ DOMAIN madeNodes(doc) \subseteq SceneNodeId
         /\ \A n \in DOMAIN madeNodes(doc) : madeNodes(doc)[n] \in SceneModel
         /\ DOMAIN madeNodes(doc) \cap DOMAIN live.nodes = {}
<1> DEFINE new == madeNodes(doc)
<1>1. nextNode \in Nat /\ SceneInvalidNodeId \in Nat
  BY ConstantsOfIds
<1>2. Len(doc.nodes) \in Nat /\ DOMAIN doc.nodes = 1 .. Len(doc.nodes)
  BY ArrayIs DEF IsGroupDocument
<1>3. /\ DOMAIN new = {newId(i) : i \in DOMAIN doc.nodes}
      /\ \A n \in DOMAIN new : new[n] = doc.nodes[n - nextNode + 1].model
  BY DEF madeNodes
<1> HIDE DEF new
<1>4. ASSUME NEW n \in DOMAIN new
      PROVE  n \in SceneNodeId /\ new[n] \in SceneModel /\ n \notin DOMAIN live.nodes
  <2>1. PICK i \in DOMAIN doc.nodes : n = newId(i)
    BY <1>3
  <2>2. i \in Nat /\ i >= 1 /\ n = nextNode + i - 1
    BY <1>2, <2>1 DEF newId
  <2>3. newId(i) < SceneInvalidNodeId /\ doc.nodes[i].model \in SceneModel
    BY DEF creatableNodes
  <2>4. n - nextNode + 1 = i /\ n \in Int /\ n >= nextNode
    BY <1>1, <2>2
  <2>5. n \in SceneNodeId
    BY <1>1, <2>1, <2>3, <2>4 DEF SceneNodeId
  <2> QED BY <1>3, <2>3, <2>4, <2>5, NextIsUnused
<1> QED BY <1>4 DEF new

\* The connections a group file carries keep the graph sound.
LEMMA CarriedSound ==
  ASSUME IsWhole(live), NEW doc, IsGroupDocument(doc), carriable(doc),
         Sound(withNodes(doc).nodes, withNodes(doc).conns)
  PROVE  Sound(withNodes(doc).nodes,
               withNodes(doc).conns \cup {remapped(doc, c) : c \in Range(doc.conns)})
<1> DEFINE g == withNodes(doc)
           b == Len(doc.conns)
           B(j) == {remapped(doc, doc.conns[i]) : i \in 1 .. j}
           Bad == {j \in 0 .. b : ~Sound(g.nodes, g.conns \cup B(j))}
<1>1. b \in Nat /\ DOMAIN doc.conns = 1 .. b
  BY ArrayIs DEF IsGroupDocument
<1>2. B(b) = {remapped(doc, c) : c \in Range(doc.conns)}
  BY <1>1 DEF Range
<1>3. SUFFICES ASSUME Bad # {} PROVE FALSE
  <2>1. CASE Bad = {}
    <3>1. b \notin Bad
      <4> HIDE DEF Bad
      <4> QED BY <2>1
    <3>2. b \in 0 .. b
      <4> HIDE DEF b
      <4> QED BY <1>1
    <3>3. Sound(g.nodes, g.conns \cup B(b))
      BY <3>1, <3>2
    <3> QED BY <1>2, <3>3
  <2> QED BY <2>1
<1>4. Bad \in SUBSET Nat
  BY <1>1
<1>5. PICK k \in Bad : \A i \in Bad : k <= i
  BY <1>3, <1>4, Counting!LeastNat
<1>6. k \in 0 .. b /\ ~Sound(g.nodes, g.conns \cup B(k))
  BY <1>5
<1>7. k # 0
  <2>1. g.conns \cup B(0) = g.conns
    OBVIOUS
  <2> HIDE DEF g, B
  <2> QED BY <1>6, <2>1 DEF g
<1>8. k - 1 \in 0 .. b /\ k \in 1 .. b /\ k \in Nat
  BY <1>1, <1>6, <1>7
<1>9. Sound(g.nodes, g.conns \cup B(k - 1))
  <2>1. k - 1 \notin Bad
    BY <1>5, <1>8
  <2> QED BY <1>8, <2>1
<1> DEFINE c == remapped(doc, doc.conns[k])
           h == [g EXCEPT !.conns = @ \cup B(k - 1)]
<1>10. B(k) = B(k - 1) \cup {c}
  <2>1. 1 .. k = (1 .. (k - 1)) \cup {k}
    BY <1>8
  <2> HIDE DEF c
  <2> QED BY <2>1 DEF c
<1>11. c \in B(k - 1) \/ possible(h, c)
  BY <1>1, <1>8 DEF carriable
<1>12. h.nodes = g.nodes /\ h.conns = g.conns \cup B(k - 1)
  <2>1. g = [nodes |-> g.nodes, conns |-> g.conns, groups |-> g.groups]
    BY PartsOf DEF withNodes
  <2> HIDE DEF g, B
  <2> QED BY <2>1
<1> HIDE DEF g, h, B, c
<1>13. Sound(g.nodes, g.conns \cup B(k))
  <2>1. CASE c \in B(k - 1)
    <3>1. B(k) = B(k - 1)
      BY <1>10, <2>1
    <3> QED BY <1>9, <3>1
  <2>2. CASE possible(h, c)
    <3>1. \A d \in h.conns : Joins(h.nodes, d)
      BY <1>9, <1>12 DEF Sound
    <3>2. Admits(h.nodes, h.conns, c)
      BY <2>2, <3>1, PossibleIs
    <3>3. Sound(g.nodes, (g.conns \cup B(k - 1)) \cup {c})
      BY <1>9, <1>12, <3>2, AddedSound
    <3>4. (g.conns \cup B(k - 1)) \cup {c} = g.conns \cup B(k)
      BY <1>10
    <3> QED BY <3>3, <3>4
  <2> QED BY <1>11, <2>1, <2>2
<1> QED BY <1>6, <1>13

\* A group file that is loaded, or taken back, leaves the scene legal.
LEMMA GroupFileLegal ==
  ASSUME IsWhole(live), IdsInv, LegalInv, NEW doc, IsGroupDocument(doc), restoreGroup(doc)
  PROVE  Legal(live') /\ nextGroup' \in 0 .. InvalidGroupId
<1> DEFINE made == withNodes(doc)
           cs   == {remapped(doc, c) : c \in Range(doc.conns)}
           all  == [made EXCEPT !.conns = @ \cup cs]
           new  == {newId(i) : i \in DOMAIN doc.nodes}
           gid  == freeGroupId(live)
           ok   == creatableNodes(doc) /\ carriable(doc) /\ (gid # InvalidGroupId \/ new = {})
<1>1. /\ live' = IF ~ok THEN live ELSE IF new = {} THEN all ELSE WithGroup(all, gid, new, TRUE)
      /\ nextGroup' = IF new # {} /\ creatableNodes(doc) /\ carriable(doc)
                      THEN Min({gid + 1, InvalidGroupId}) ELSE nextGroup
  BY DEF restoreGroup
<1>2. InvalidGroupId \in Nat /\ nextGroup \in 0 .. InvalidGroupId /\ Legal(live)
  BY SceneConstants DEF LegalInv
<1>3. \/ gid = InvalidGroupId
      \/ gid \in GroupIds /\ gid \notin DOMAIN live.groups /\ gid + 1 \in 0 .. InvalidGroupId
  BY FreeGroupIs
<1>4. Min({gid + 1, InvalidGroupId}) \in 0 .. InvalidGroupId
  <2> HIDE DEF gid
  <2> DEFINE S == {gid + 1, InvalidGroupId}
  <2>1. S \in SUBSET Nat /\ S # {}
    BY <1>2, <1>3
  <2>2. Min(S) \in S /\ \A y \in S : Min(S) <= y
    BY <2>1, MinIs
  <2>3. Min(S) \in Nat /\ Min(S) <= InvalidGroupId
    BY <2>1, <2>2
  <2> HIDE DEF S
  <2>4. Min(S) \in 0 .. InvalidGroupId
    BY <1>2, <2>3
  <2> QED BY <2>4 DEF S
<1>5. nextGroup' \in 0 .. InvalidGroupId
  BY <1>1, <1>2, <1>4
<1>18. CASE ~ok
  <2>1. live' = live
    BY <1>1, <1>18
  <2> QED BY <1>2, <1>5, <2>1
<1>6. SUFFICES ASSUME ok PROVE Legal(live')
  <2> HIDE DEF ok
  <2> QED BY <1>5, <1>18
<1>7. creatableNodes(doc) /\ carriable(doc) /\ (gid # InvalidGroupId \/ new = {})
  BY <1>6
<1> DEFINE ns == Over(madeNodes(doc), live.nodes)
<1>8. made = [nodes |-> ns, conns |-> live.conns, groups |-> live.groups]
  BY PartsOf DEF withNodes, madeNodes
<1>9. Legal([nodes |-> ns, conns |-> live.conns, groups |-> live.groups])
  BY <1>2, <1>7, MadeNodes, MoreNodesLegal
<1>10. DOMAIN madeNodes(doc) = new
  BY DEF madeNodes
<1>11. DOMAIN ns = new \cup DOMAIN live.nodes /\ new \cap DOMAIN live.nodes = {}
  BY <1>7, <1>10, MadeNodes DEF Over
<1> HIDE DEF ns
<1>12. Sound(ns, live.conns \cup cs)
  <2>1. made.nodes = ns /\ made.conns = live.conns
    BY <1>8
  <2>2. Sound(ns, live.conns)
    BY <1>9 DEF Legal
  <2>3. Sound(withNodes(doc).nodes, withNodes(doc).conns)
    BY <2>1, <2>2
  <2>4. Sound(withNodes(doc).nodes, withNodes(doc).conns \cup cs)
    BY <1>7, <2>3, CarriedSound
  <2> QED BY <2>1, <2>4
<1>13. all = [nodes |-> ns, conns |-> live.conns \cup cs, groups |-> live.groups]
  <2> HIDE DEF made, cs
  <2> QED BY <1>8
<1> HIDE DEF made, cs
<1>14. Legal([nodes |-> ns, conns |-> live.conns \cup cs, groups |-> live.groups])
  BY <1>9, <1>12 DEF Legal
<1> HIDE DEF all, gid, new
<1>15. Legal(all)
  BY <1>13, <1>14
<1>16. CASE new = {}
  <2>1. live' = all
    BY <1>1, <1>6, <1>16
  <2> QED BY <1>15, <2>1
<1>17. CASE new # {}
  <2>1. live' = WithGroup(all, gid, new, TRUE)
    BY <1>1, <1>6, <1>17
  <2>2. gid \in GroupIds /\ gid \notin DOMAIN all.groups
    BY <1>3, <1>7, <1>13, <1>17
  <2>3. \A k \in DOMAIN all.groups : all.groups[k].nodes \cap new = {}
    BY <1>2, <1>11, <1>13 DEF Legal
  <2>4. new \in SUBSET DOMAIN all.nodes
    BY <1>11, <1>13
  <2>5. all = [nodes |-> all.nodes, conns |-> all.conns, groups |-> all.groups]
    BY <1>13
  <2> QED BY <1>15, <2>1, <2>2, <2>3, <2>4, <2>5, GroupedLegal
<1> QED BY <1>16, <1>17

\* Every edit keeps the scene legal.
LEMMA EditKeepsLegal ==
  ASSUME IsWhole(live), IdsInv, LegalInv, editScene
  PROVE  LegalInv'
<1>1. opening = Nothing /\ opening' = Nothing /\ built' = built
  BY DEF editScene
<1>2. ASSUME Legal(live'), nextGroup' \in 0 .. InvalidGroupId PROVE LegalInv'
  BY <1>1, <1>2 DEF LegalInv
<1>3. ASSUME Legal(live'), nextGroup' = nextGroup PROVE LegalInv'
  BY <1>2, <1>3 DEF LegalInv
<1>4. Legal(live)
  BY DEF LegalInv
<1>5. ASSUME NEW m \in SceneModel, addSceneNode(m) PROVE LegalInv'
  BY <1>3, <1>4, <1>5, NewNodeLegal
<1>6. ASSUME NEW n \in DOMAIN live.nodes, deleteSceneNode(n) PROVE LegalInv'
  BY <1>3, <1>4, <1>6, DeletionLegal
<1>7. ASSUME NEW c, addSceneConnection(c) PROVE LegalInv'
  BY <1>3, <1>4, <1>7, ConnectionLegal
<1>8. ASSUME NEW ns \in (SUBSET DOMAIN live.nodes) \ {{}}, createGroup(ns) PROVE LegalInv'
  BY <1>2, <1>8, GroupLegal
<1>9. ASSUME NEW k \in DOMAIN live.groups, toggleLock(k) PROVE LegalInv'
  BY <1>3, <1>4, <1>9, LockLegal
<1>10. ASSUME NEW doc \in GroupFiles \cup {serialized(live, k) : k \in DOMAIN live.groups},
              restoreGroup(doc)
       PROVE  LegalInv'
  BY <1>2, <1>10, GroupFileLegal, ListedGroupFile
<1> QED BY <1>5, <1>6, <1>7, <1>8, <1>9, <1>10 DEF editScene
-----------------------------------------------------------------------------
(* SceneFile: the stages of opening a file keep the scene legal.           *)

\* PastGroups() stays in the range of the group ids.
LEMMA PastGroupsIs ==
  ASSUME NEW g, Legal(g), NEW next \in 0 .. InvalidGroupId
  PROVE  PastGroups(g, next) \in 0 .. InvalidGroupId
<1> DEFINE S == {next} \cup {k + 1 : k \in DOMAIN g.groups}
<1>0. InvalidGroupId \in Nat
  BY SceneConstants
<1>1. DOMAIN g.groups \subseteq GroupIds
  BY DEF Legal
<1>2. S \in SUBSET (0 .. InvalidGroupId) /\ S # {}
  BY <1>0, <1>1 DEF GroupIds
<1>3. PastGroups(g, next) = IF next = InvalidGroupId THEN next ELSE Max(S)
  BY DEF PastGroups
<1> HIDE DEF S
<1>4. Max(S) \in S
  BY <1>0, <1>2, MaxIs
<1> QED BY <1>2, <1>3, <1>4

\* What is staged has been found readable, and the copy is the scene.
LEMMA StageKeepsLegal ==
  ASSUME NothingStandsApart, LegalInv, NEW doc, stageFile(doc)
  PROVE  LegalInv'
<1>1. /\ opening' = Opening("clear", doc, live, nextNode) /\ Readable(doc)
      /\ live' = live /\ nextGroup' = nextGroup /\ built' = built
  BY DEF stageFile, Opening
<1>2. opening'.doc = doc /\ opening'.before = live
  BY <1>1 DEF Opening
<1> QED BY <1>1, <1>2 DEF LegalInv

\* The scene of every stage is legal: nothing, the first entries of a readable
\* document, or the copy.
LEMMA StagesKeepLegal ==
  ASSUME StagesInv, LegalInv,
         clearScene \/ buildEntry \/ buildFails \/ restoreScene \/ restoreFails \/ finishLoad
  PROVE  LegalInv'
<1>0. opening # Nothing
  BY DEF clearScene, buildEntry, buildFails, restoreScene, restoreFails, finishLoad, Staged
<1>1. /\ Legal(opening.before) /\ Readable(opening.doc) /\ IsDocument(opening.doc)
      /\ opening = Opening(opening.stage, opening.doc, opening.before, opening.firstId)
      /\ nextGroup \in 0 .. InvalidGroupId /\ built \in Nat
  BY <1>0 DEF LegalInv, StagesInv, OpeningInv
<1>2. ASSUME live' = Empty, built' = 0, nextGroup' = nextGroup,
             opening'.doc = opening.doc, opening'.before = opening.before
      PROVE  LegalInv'
  BY <1>1, <1>2, EmptyIsLegal DEF LegalInv
<1>3. CASE clearScene
  <2>1. live' = Empty /\ built' = 0 /\ nextGroup' = nextGroup
        /\ opening' = [opening EXCEPT !.stage = "build"]
    BY <1>3 DEF clearScene
  <2>2. opening' = Opening("build", opening.doc, opening.before, opening.firstId)
    BY <1>1, <2>1 DEF Opening
  <2>3. opening'.doc = opening.doc /\ opening'.before = opening.before
    BY <2>2 DEF Opening
  <2> QED BY <1>2, <2>1, <2>3
<1>4. CASE buildEntry
  <2>1. live' = After(opening.doc, built + 1) /\ built' = built + 1 /\ opening' = opening
        /\ nextGroup' = PastGroups(live', nextGroup)
    BY <1>4 DEF buildEntry
  <2>2. built + 1 \in Nat
    BY <1>1
  <2>3. Legal(live')
    BY <1>1, <2>1, <2>2, ReadIsLegal
  <2>4. nextGroup' \in 0 .. InvalidGroupId
    BY <1>1, <2>1, <2>3, PastGroupsIs
  <2> QED BY <1>1, <2>1, <2>2, <2>3, <2>4 DEF LegalInv
<1>5. CASE buildFails
  <2>1. live' = Empty /\ built' = 0 /\ nextGroup' = nextGroup
        /\ opening' = [opening EXCEPT !.stage = "restore"]
    BY <1>5 DEF buildFails
  <2>2. opening' = Opening("restore", opening.doc, opening.before, opening.firstId)
    BY <1>1, <2>1 DEF Opening
  <2>3. opening'.doc = opening.doc /\ opening'.before = opening.before
    BY <2>2 DEF Opening
  <2> QED BY <1>2, <2>1, <2>3
<1>6. CASE restoreScene
  <2>1. live' = opening.before /\ opening' = Nothing /\ built' = built
        /\ nextGroup' = PastGroups(live', nextGroup)
    BY <1>0, <1>6, RestoredIsBefore DEF restoreScene
  <2>2. nextGroup' \in 0 .. InvalidGroupId
    BY <1>1, <2>1, PastGroupsIs
  <2> QED BY <1>1, <2>1, <2>2 DEF LegalInv
<1>7. CASE restoreFails
  BY <1>7 DEF restoreFails, LegalInv
<1>8. CASE finishLoad
  BY <1>8 DEF finishLoad, LegalInv
<1> QED BY <1>3, <1>4, <1>5, <1>6, <1>7, <1>8

\* Every step keeps the scene legal.
LEMMA LegalStep ==
  ASSUME NothingStandsApart, StagesInv, IdsInv, LegalInv, [FilesNext]_fileVars
  PROVE  LegalInv'
<1>1. CASE editScene
  BY <1>1, EditKeepsLegal DEF StagesInv
<1>2. CASE rejectFile \/ UNCHANGED fileVars
  BY <1>2 DEF rejectFile, fileVars, LegalInv
<1>3. ASSUME NEW doc \in SceneFiles \cup {scene_json_with_groups(live)}, stageFile(doc)
      PROVE  LegalInv'
  BY <1>3, StageKeepsLegal
<1> QED BY <1>1, <1>2, <1>3, StagesKeepLegal DEF FilesNext, openFile

\* Whatever was edited, opened and put back before, the scene has no node in
\* two groups, and its file passes the validation, is taken by the staging model
\* entry by entry and gives the scene again (saveToFile, loadFromFile).
THEOREM SavedScenesLoad ==
  ASSUME NothingStandsApart
  PROVE  FilesSpec => []SavedSceneLoads
<1> DEFINE Inv == StagesInv /\ IdsInv /\ LegalInv
<1>1. FilesInit => Inv
  <2>1. FilesInit => StagesInv /\ IdsInv
    BY EmptyIsWhole, EmptyBelow, SceneConstants DEF FilesInit, StagesInv, OpeningInv, IdsInv
  <2>2. FilesInit => LegalInv
    BY EmptyIsLegal, SceneConstants DEF FilesInit, LegalInv
  <2> QED BY <2>1, <2>2
<1>2. Inv /\ [FilesNext]_fileVars => Inv'
  BY FileStep, IdsStep, LegalStep
<1>3. Inv => SavedSceneLoads
  <2> SUFFICES ASSUME StagesInv, IdsInv, LegalInv PROVE SavedSceneLoads
    OBVIOUS
  <2>1. IsWhole(live) /\ Legal(live) /\ nextGroup \in 0 .. InvalidGroupId
    BY DEF StagesInv, LegalInv
  <2>2. Range(live.nodes) \subseteq SceneModel /\ members(live) \subseteq DOMAIN live.nodes
    BY <2>1 DEF Legal, Range, members
  <2>3. FilesTypeOK
    BY <2>1, <2>2 DEF FilesTypeOK, Legal, IdsInv
  <2> QED BY <2>1, <2>3, SavedIsReadable, SceneComesBack DEF SavedSceneLoads
<1> QED BY <1>1, <1>2, <1>3, PTL DEF FilesSpec
-----------------------------------------------------------------------------
(* DynamicPortsModel: the sum of the ports is the number of their places,  *)
(* which is what makes budgets additive.                                   *)

AreCounts(f) == f \in [DOMAIN f -> [PortSides -> Nat]] /\ IsFiniteSet(DOMAIN f)
width(f, n) == f[n].In + f[n].Out
Places(f, s) == {p \in s \X Nat : p[2] \in 1 .. width(f, p[1])}

\* The counts of one node are numbers.
LEMMA CountsOf ==
  ASSUME NEW f, AreCounts(f), NEW n \in DOMAIN f
  PROVE  /\ f[n] \in [PortSides -> Nat]
         /\ f[n].In \in Nat /\ f[n].Out \in Nat /\ width(f, n) \in Nat
<1>1. f[n] \in [PortSides -> Nat]
  BY DEF AreCounts
<1>2. f[n].In \in Nat /\ f[n].Out \in Nat
  BY <1>1 DEF PortSides
<1>3. width(f, n) \in Nat
  BY <1>2 DEF width
<1> QED BY <1>1, <1>2, <1>3

\* What a place is: a node and one of its ports.
LEMMA InPlaces ==
  ASSUME NEW f, NEW s, NEW p
  PROVE  p \in Places(f, s) <=> \E n \in s, j \in Nat : p = <<n, j>> /\ j \in 1 .. width(f, n)
BY DEF Places

\* One node has as many places as ports.
LEMMA PlacesOfOne ==
  ASSUME NEW f, NEW x, width(f, x) \in Nat
  PROVE  IsFiniteSet(Places(f, {x})) /\ Cardinality(Places(f, {x})) = width(f, x)
<1> DEFINE k == width(f, x)
           P == Places(f, {x})
           h == [j \in 1 .. k |-> <<x, j>>]
<1>1. k \in Nat
  OBVIOUS
<1>2. \A p : p \in P <=> \E j \in 1 .. k : p = <<x, j>>
  BY DEF Places
<1> HIDE DEF k, P
<1>3. h \in [1 .. k -> P] /\ \A i, j \in 1 .. k : h[i] = h[j] => i = j
  BY <1>1, <1>2
<1>4. \A p \in P : \E j \in 1 .. k : h[j] = p
  BY <1>1, <1>2
<1>5. h \in Bijection(1 .. k, P)
  BY <1>3, <1>4 DEF Bijection, Injection, Surjection, IsInjective
<1>6. ExistsBijection(1 .. k, P)
  BY <1>5 DEF ExistsBijection
<1>7. IsFiniteSet(P) /\ Cardinality(P) = k
  BY <1>1, <1>6, FS_NatBijection, FS_CountingElements
<1> QED BY <1>7 DEF k, P

\* PortTotal() is the number of places.
LEMMA TotalIs ==
  ASSUME NEW f, AreCounts(f)
  PROVE  /\ IsFiniteSet(Places(f, DOMAIN f))
         /\ PortTotal(f) = Cardinality(Places(f, DOMAIN f))
         /\ PortTotal(f) \in Nat
<1> DEFINE D == DOMAIN f
           R == {r \in (SUBSET D) \X Nat :
                   IsFiniteSet(Places(f, r[1])) /\ r[2] = Cardinality(Places(f, r[1]))}
<1>0. \A s \in SUBSET D : \A t : <<s, t>> \in R <=>
        t \in Nat /\ IsFiniteSet(Places(f, s)) /\ t = Cardinality(Places(f, s))
  OBVIOUS
<1>1. <<{}, 0>> \in R
  <2>1. Places(f, {}) = {}
    BY DEF Places
  <2> HIDE DEF R
  <2> QED BY <1>0, <2>1, FS_EmptySet
<1>2. ASSUME NEW s \in SUBSET D, NEW x \in D, NEW t, x \notin s, <<s, t>> \in R
      PROVE  <<s \cup {x}, countPorts(f, x, t)>> \in R
  <2>1. t \in Nat /\ IsFiniteSet(Places(f, s)) /\ t = Cardinality(Places(f, s))
    BY <1>0, <1>2
  <2>2. width(f, x) \in Nat
    BY CountsOf
  <2>3. Places(f, s \cup {x}) = Places(f, s) \cup Places(f, {x})
    BY DEF Places
  <2>4. Places(f, s) \cap Places(f, {x}) = {}
    BY <1>2 DEF Places
  <2>5. IsFiniteSet(Places(f, {x})) /\ Cardinality(Places(f, {x})) = width(f, x)
    BY <2>2, PlacesOfOne
  <2>6. IsFiniteSet(Places(f, s) \cup Places(f, {x}))
        /\ Cardinality(Places(f, s) \cup Places(f, {x}))
           = Cardinality(Places(f, s)) + Cardinality(Places(f, {x}))
    BY <2>1, <2>4, <2>5, DisjointSum
  <2>7. countPorts(f, x, t) = t + width(f, x) /\ countPorts(f, x, t) \in Nat
    <3>1. f[x].In \in Nat /\ f[x].Out \in Nat
      BY CountsOf
    <3> QED BY <2>1, <3>1 DEF countPorts, width
  <2>8. s \cup {x} \in SUBSET D
    OBVIOUS
  <2> HIDE DEF R
  <2> QED BY <1>0, <2>1, <2>3, <2>5, <2>6, <2>7, <2>8
<1>3. IsFiniteSet(D)
  BY DEF AreCounts
<1> HIDE DEF R
<1>4. <<D, Counting!Fold(f, 0, D)>> \in R
  <2> HIDE DEF D
  <2> QED BY <1>1, <1>2, <1>3, Counting!FoldRelates DEF Counting!IsFiniteSet, IsFiniteSet
<1>5. PortTotal(f) = Counting!Fold(f, 0, D)
  BY DEF PortTotal, countPorts, Counting!Fold, Counting!FoldSet, Counting!MapThenFoldSet,
         FoldSet, MapThenFoldSet
<1> QED BY <1>0, <1>4, <1>5

\* Fewer ports at each node are fewer ports.
LEMMA SmallerTotal ==
  ASSUME NEW f, AreCounts(f), NEW g, AreCounts(g), DOMAIN g \subseteq DOMAIN f,
         \A n \in DOMAIN g : width(g, n) <= width(f, n)
  PROVE  PortTotal(g) <= PortTotal(f)
<1>1. Places(g, DOMAIN g) \in SUBSET Places(f, DOMAIN f)
  <2> SUFFICES ASSUME NEW p \in Places(g, DOMAIN g) PROVE p \in Places(f, DOMAIN f)
    OBVIOUS
  <2>1. PICK n \in DOMAIN g, j \in Nat : p = <<n, j>> /\ j \in 1 .. width(g, n)
    BY InPlaces
  <2>2. width(g, n) \in Nat /\ width(f, n) \in Nat /\ width(g, n) <= width(f, n) /\ n \in DOMAIN f
    BY CountsOf
  <2>3. j \in 1 .. width(f, n)
    BY <2>1, <2>2
  <2> QED BY <2>1, <2>2, <2>3, InPlaces
<1> QED BY <1>1, TotalIs, FS_Subset

\* Joined counts are those of the first graph where it has them.
LEMMA JoinedFirst ==
  ASSUME NEW f, NEW g, NEW n \in DOMAIN f
  PROVE  Joined(f, g)[n] = f[n]
BY DEF Joined

\* Joined counts are those of the second graph elsewhere.
LEMMA JoinedSecond ==
  ASSUME NEW f, NEW g, NEW n \in DOMAIN g, n \notin DOMAIN f
  PROVE  Joined(f, g)[n] = g[n]
BY DEF Joined

\* Joined counts are counts.
LEMMA JoinedCounts ==
  ASSUME NEW f, AreCounts(f), NEW g, AreCounts(g)
  PROVE  /\ AreCounts(Joined(f, g))
         /\ DOMAIN Joined(f, g) = DOMAIN f \cup DOMAIN g
<1>1. IsFiniteSet(DOMAIN f \cup DOMAIN g)
  BY FS_Union DEF AreCounts
<1>2. \A n \in DOMAIN f : Joined(f, g)[n] = f[n]
  BY JoinedFirst
<1>3. \A n \in DOMAIN g \ DOMAIN f : Joined(f, g)[n] = g[n]
  BY JoinedSecond
<1>4. DOMAIN Joined(f, g) = DOMAIN f \cup DOMAIN g
      /\ Joined(f, g) = [n \in DOMAIN f \cup DOMAIN g |-> Joined(f, g)[n]]
  BY DEF Joined
<1>5. \A n \in DOMAIN f \cup DOMAIN g : Joined(f, g)[n] \in [PortSides -> Nat]
  BY <1>2, <1>3, CountsOf
<1> QED BY <1>1, <1>2, <1>3, <1>4, <1>5 DEF AreCounts

\* Graphs on other nodes have the sum of their ports.
LEMMA JoinedTotal ==
  ASSUME NEW f, AreCounts(f), NEW g, AreCounts(g), DOMAIN f \cap DOMAIN g = {}
  PROVE  PortTotal(Joined(f, g)) = PortTotal(f) + PortTotal(g)
<1> DEFINE j == Joined(f, g)
           A == Places(f, DOMAIN f)
           B == Places(g, DOMAIN g)
<1>1. \A n \in DOMAIN f : width(j, n) = width(f, n)
  <2> SUFFICES ASSUME NEW n \in DOMAIN f PROVE width(j, n) = width(f, n)
    OBVIOUS
  <2>1. j[n] = f[n]
    BY JoinedFirst
  <2> QED BY <2>1 DEF width
<1>2. \A n \in DOMAIN g : width(j, n) = width(g, n)
  <2> SUFFICES ASSUME NEW n \in DOMAIN g PROVE width(j, n) = width(g, n)
    OBVIOUS
  <2>1. j[n] = g[n]
    BY JoinedSecond
  <2> QED BY <2>1 DEF width
<1>3. AreCounts(j) /\ DOMAIN j = DOMAIN f \cup DOMAIN g
  BY JoinedCounts
<1> HIDE DEF j
<1>4. Places(j, DOMAIN j) = A \cup B
  BY <1>1, <1>2, <1>3 DEF Places
<1>5. A \cap B = {}
  BY DEF Places
<1>6. IsFiniteSet(A) /\ IsFiniteSet(B) /\ PortTotal(f) = Cardinality(A) /\ PortTotal(g) = Cardinality(B)
  BY TotalIs
<1> HIDE DEF A, B
<1>7. Cardinality(A \cup B) = Cardinality(A) + Cardinality(B)
  BY <1>5, <1>6, DisjointSum
<1>8. PortTotal(j) = Cardinality(A \cup B)
  BY <1>3, <1>4, TotalIs
<1> QED BY <1>6, <1>7, <1>8 DEF j
-----------------------------------------------------------------------------
(* DynamicPortsModel: counts in their ranges, and connections of which no  *)
(* two share a plug.                                                       *)

\* Counts in their ranges, on ids below next.
Fits(f, next) ==
  /\ AreCounts(f)
  /\ \A n \in DOMAIN f : n \in PortNodeId /\ n < next
  /\ \A n \in DOMAIN f, side \in PortSides : f[n][side] <= MaxPortsPerNode

\* No two connections share a plug, and all plugs exist.
Unshared(cs) ==
  \A c, d \in cs, side \in PortSides :
    WireNode(side, c) = WireNode(side, d) /\ WirePort(side, c) = WirePort(side, d) => c = d

Plugged(f, cs) ==
  cs \subseteq Wires(f) /\ IsFiniteSet(cs) /\ Cardinality(cs) <= MaxConnections /\ Unshared(cs)

\* What can be plugged in as soon as the ports are there.
Bundle(cs) == IsFiniteSet(cs) /\ Cardinality(cs) <= MaxConnections /\ Unshared(cs)

Budgeted(f) == Cardinality(DOMAIN f) <= MaxNodes /\ PortTotal(f) <= MaxPorts

\* What is below an id is below a greater one.
LEMMA FitsMore ==
  ASSUME NEW f, NEW j \in Int, NEW k \in Int, j <= k, Fits(f, j)
  PROVE  Fits(f, k)
<1>1. \A n \in DOMAIN f : n \in PortNodeId /\ n < j /\ n \in Int
  BY DEF Fits, PortNodeId
<1>2. \A n \in DOMAIN f : n \in PortNodeId /\ n < k
  BY <1>1
<1> QED BY <1>2 DEF Fits

\* A connection of a graph ends at ports of its nodes.
LEMMA InWires ==
  ASSUME NEW f, NEW c, c \in Wires(f)
  PROVE  /\ c = [outNodeId |-> c.outNodeId, outPortIndex |-> c.outPortIndex,
                 inNodeId |-> c.inNodeId, inPortIndex |-> c.inPortIndex]
         /\ \A side \in PortSides :
              /\ WireNode(side, c) \in DOMAIN f
              /\ WirePort(side, c) \in 0 .. MaxPortsPerNode - 1
              /\ WirePort(side, c) < f[WireNode(side, c)][side]
BY DEF Wires, WireNode, WirePort, PortSides

\* A connection that ends at ports of a graph is one of it.
LEMMA WireIn ==
  ASSUME NEW f, NEW c,
         c = [outNodeId |-> c.outNodeId, outPortIndex |-> c.outPortIndex,
              inNodeId |-> c.inNodeId, inPortIndex |-> c.inPortIndex],
         \A side \in PortSides :
              /\ WireNode(side, c) \in DOMAIN f
              /\ WirePort(side, c) \in 0 .. MaxPortsPerNode - 1
              /\ WirePort(side, c) < f[WireNode(side, c)][side]
  PROVE  c \in Wires(f)
<1>1. /\ c.outNodeId \in DOMAIN f /\ c.outPortIndex \in 0 .. MaxPortsPerNode - 1
      /\ c.outPortIndex < f[c.outNodeId]["Out"]
  BY DEF WireNode, WirePort, PortSides
<1>2. /\ c.inNodeId \in DOMAIN f /\ c.inPortIndex \in 0 .. MaxPortsPerNode - 1
      /\ c.inPortIndex < f[c.inNodeId]["In"]
  BY DEF WireNode, WirePort, PortSides
<1> QED BY <1>1, <1>2 DEF Wires

\* What connectable() has checked.
LEMMA ConnectableIs ==
  ASSUME NEW f, NEW cs, NEW c, NEW old, connectable(f, cs, c, old)
  PROVE  /\ c \in Wires(f) /\ Cardinality((cs \ old) \cup {c}) <= MaxConnections
         /\ \A d \in cs \ old, side \in PortSides :
              ~(WireNode(side, d) = WireNode(side, c) /\ WirePort(side, d) = WirePort(side, c))
BY DEF connectable, WiresAt

\* Some of the connections are plugged in as all of them were.
LEMMA FewerPlugged ==
  ASSUME NEW f, NEW cs, Plugged(f, cs), NEW ds \in SUBSET cs, NEW g, ds \subseteq Wires(g)
  PROVE  Plugged(g, ds)
<1>1. /\ IsFiniteSet(ds) /\ Cardinality(ds) <= Cardinality(cs)
      /\ Cardinality(ds) \in Nat /\ Cardinality(cs) \in Nat
  BY FS_Subset, FS_CardinalityType DEF Plugged
<1>2. Cardinality(ds) <= MaxConnections
  BY <1>1, PortConstants DEF Plugged
<1>3. Unshared(ds)
  BY DEF Plugged, Unshared
<1> QED BY <1>1, <1>2, <1>3 DEF Plugged

\* A connection that may be made is plugged in with the others.
LEMMA OneMorePlugged ==
  ASSUME NEW f, NEW cs, Plugged(f, cs), NEW c, NEW old, connectable(f, cs, c, old)
  PROVE  Plugged(f, (cs \ old) \cup {c})
<1>1. IsFiniteSet((cs \ old) \cup {c})
  <2>1. IsFiniteSet(cs \ old)
    BY FS_Difference DEF Plugged
  <2> QED BY <2>1, FS_AddElement
<1>2. Unshared((cs \ old) \cup {c})
  <2>1. \A d \in cs \ old, side \in PortSides :
              ~(WireNode(side, d) = WireNode(side, c) /\ WirePort(side, d) = WirePort(side, c))
    BY ConnectableIs
  <2>2. Unshared(cs)
    BY DEF Plugged
  <2> QED BY <2>1, <2>2 DEF Unshared
<1>3. (cs \ old) \cup {c} \subseteq Wires(f) /\ Cardinality((cs \ old) \cup {c}) <= MaxConnections
  BY ConnectableIs DEF Plugged
<1> QED BY <1>1, <1>2, <1>3 DEF Plugged

\* Connections that are added back are plugged in as the others are.
LEMMA ReaddedPlugged ==
  ASSUME NEW f, NEW cs, Plugged(f, cs), NEW moved, IsFiniteSet(moved)
  PROVE  Plugged(f, Readded(f, cs, moved))
<1> DEFINE back(c) == connectable(f, cs \cup (moved \ {c}), c, {})
           A == {c \in moved : back(c)}
           all == cs \cup A
<1>1. Readded(f, cs, moved) = all
  BY DEF Readded
<1>2. IsFiniteSet(A) /\ IsFiniteSet(all)
  <2>1. A \in SUBSET moved
    OBVIOUS
  <2> HIDE DEF A
  <2>2. IsFiniteSet(A)
    BY <2>1, FS_Subset
  <2> QED BY <2>2, FS_Union DEF Plugged
<1>3. \A c \in A : /\ c \in Wires(f)
                   /\ Cardinality(((cs \cup (moved \ {c})) \ {}) \cup {c}) <= MaxConnections
                   /\ \A d \in (cs \cup (moved \ {c})) \ {}, side \in PortSides :
                        ~(WireNode(side, d) = WireNode(side, c) /\ WirePort(side, d) = WirePort(side, c))
  BY ConnectableIs
<1>4. \A c \in A : c \in moved
  OBVIOUS
<1> HIDE DEF A
<1>5. all \subseteq Wires(f)
  BY <1>3 DEF Plugged
<1>6. Unshared(all)
  <2> SUFFICES ASSUME NEW c \in all, NEW d \in all, NEW side \in PortSides,
                      WireNode(side, c) = WireNode(side, d),
                      WirePort(side, c) = WirePort(side, d), c # d
               PROVE  FALSE
    BY DEF Unshared
  <2>1. CASE c \in A
    <3>1. d \in (cs \cup (moved \ {c})) \ {}
      BY <1>4
    <3> QED BY <1>3, <2>1, <3>1
  <2>2. CASE d \in A
    <3>1. c \in (cs \cup (moved \ {d})) \ {}
      BY <1>4
    <3> QED BY <1>3, <2>2, <3>1
  <2>3. CASE c \in cs /\ d \in cs
    BY <2>3 DEF Plugged, Unshared
  <2> QED BY <2>1, <2>2, <2>3
<1>7. Cardinality(all) <= MaxConnections
  <2>1. CASE A = {}
    BY <2>1 DEF Plugged
  <2>2. CASE A # {}
    <3>1. PICK c \in A : TRUE
      BY <2>2
    <3> DEFINE whole == ((cs \cup (moved \ {c})) \ {}) \cup {c}
    <3>2. Cardinality(whole) <= MaxConnections
      BY <1>3
    <3>3. all \in SUBSET whole
      BY <1>4
    <3>4. whole = cs \cup moved
      BY <1>4
    <3> HIDE DEF whole, all
    <3>5. IsFiniteSet(whole)
      BY <3>4, FS_Union DEF Plugged
    <3>6. /\ Cardinality(all) <= Cardinality(whole)
          /\ Cardinality(all) \in Nat /\ Cardinality(whole) \in Nat
      BY <1>2, <3>3, <3>5, FS_Subset, FS_CardinalityType
    <3> QED BY <3>2, <3>6, PortConstants
  <2> QED BY <2>1, <2>2
<1> QED BY <1>1, <1>2, <1>5, <1>6, <1>7 DEF Plugged

\* Finitely many connections are added back to finitely many.
LEMMA ReaddedFinite ==
  ASSUME NEW f, NEW cs, IsFiniteSet(cs), NEW moved, IsFiniteSet(moved)
  PROVE  IsFiniteSet(Readded(f, cs, moved))
<1>1. Readded(f, cs, moved) \in SUBSET (cs \cup moved)
  BY DEF Readded
<1>2. IsFiniteSet(cs \cup moved)
  BY FS_Union
<1> QED BY <1>1, <1>2, FS_Subset

\* What is plugged in stays plugged in when no count shrinks.
LEMMA GrownWires ==
  ASSUME NEW f, AreCounts(f), NEW g, AreCounts(g), DOMAIN f \subseteq DOMAIN g,
         \A n \in DOMAIN f, side \in PortSides : f[n][side] <= g[n][side]
  PROVE  Wires(f) \subseteq Wires(g)
<1> SUFFICES ASSUME NEW c \in Wires(f) PROVE c \in Wires(g)
  OBVIOUS
<1>1. ASSUME NEW side \in PortSides
      PROVE  /\ WireNode(side, c) \in DOMAIN g
             /\ WirePort(side, c) \in 0 .. MaxPortsPerNode - 1
             /\ WirePort(side, c) < g[WireNode(side, c)][side]
  <2> DEFINE n == WireNode(side, c)
             i == WirePort(side, c)
  <2>1. n \in DOMAIN f /\ i \in 0 .. MaxPortsPerNode - 1 /\ i < f[n][side]
    BY InWires
  <2> HIDE DEF n, i
  <2>2. f[n][side] \in Nat /\ g[n][side] \in Nat /\ f[n][side] <= g[n][side] /\ n \in DOMAIN g
    BY <2>1 DEF AreCounts
  <2>3. i \in Int
    BY <2>1
  <2>4. i < g[n][side]
    BY <2>1, <2>2, <2>3
  <2> QED BY <2>1, <2>2, <2>4 DEF n, i
<1> QED BY <1>1, InWires, WireIn
-----------------------------------------------------------------------------
(* DynamicPortsModel: the inductive invariant, and what the widget and the *)
(* menu do to it.                                                          *)

IsCommandRecord(c) ==
  /\ c.done \in BOOLEAN
  /\ c = [kind |-> c.kind, done |-> c.done, nodes |-> c.nodes, conns |-> c.conns,
          replaced |-> c.replaced, spare |-> c.spare, left |-> c.left]

\* The two indexes of an exchange differ by what it announces.
ExchangeFits(c) ==
  c.kind = "replace" =>
    /\ c.done => /\ c.spare = (c.left \ c.conns) \cup c.replaced
                 /\ c.left = (c.spare \ c.replaced) \cup c.conns
    /\ ~c.done => /\ c.spare = (c.left \ c.replaced) \cup c.conns
                  /\ c.left = (c.spare \ c.conns) \cup c.replaced

CommandFits(c, f, next) ==
  /\ IsCommandRecord(c) /\ (c.kind = "replace" => IsFiniteSet(c.spare))
  /\ Fits(c.nodes, next) /\ IsFiniteSet(c.conns)
  /\ c.kind # "delete" => DOMAIN c.nodes = {}
  /\ c.done => DOMAIN c.nodes \cap DOMAIN f = {}

Blocked ==
  \/ Cardinality(DOMAIN ports \cup DOMAIN command.nodes) > MaxNodes
  \/ PortTotal(ports) + PortTotal(command.nodes) > MaxPorts

\* What goes on only until an exchange names ports that have gone.
PlugsInv ==
  "ports" \notin apart =>
    /\ Plugged(ports, wires)
    /\ command # NoCommand => (command.kind = "replace" => Bundle(command.spare))

PortsInv ==
  /\ nextPortNode \in 0 .. InvalidNodeId
  /\ Fits(ports, nextPortNode) /\ Budgeted(ports) /\ IsFiniteSet(wires) /\ PlugsInv
  /\ rows = ports
  /\ canvas = [nodes |-> DOMAIN ports, conns |-> canvas.conns]
  /\ "scene" \notin apart => canvas.conns = wires
  /\ "scene" \notin apart => (command # NoCommand => ExchangeFits(command))
  /\ command # NoCommand => CommandFits(command, ports, nextPortNode)
  /\ thrown \in BOOLEAN
  /\ thrown /\ command # NoCommand => Blocked

\* One count changes.
LEMMA CountSet ==
  ASSUME NEW f, NEW next, Fits(f, next), NEW n \in DOMAIN f, NEW side \in PortSides,
         NEW k \in 0 .. MaxPortsPerNode
  PROVE  LET g == [f EXCEPT ![n][side] = k]
         IN  /\ Fits(g, next) /\ DOMAIN g = DOMAIN f
             /\ \A m \in DOMAIN f, s \in PortSides :
                  g[m][s] = IF m = n /\ s = side THEN k ELSE f[m][s]
<1> DEFINE g == [f EXCEPT ![n][side] = k]
<1>1. f \in [DOMAIN f -> [PortSides -> Nat]] /\ IsFiniteSet(DOMAIN f)
  BY DEF Fits, AreCounts
<1>2. DOMAIN g = DOMAIN f
  OBVIOUS
<1>3. ASSUME NEW m \in DOMAIN f, NEW s \in PortSides
      PROVE  g[m][s] = IF m = n /\ s = side THEN k ELSE f[m][s]
  BY <1>1
<1>4. k \in Nat /\ k <= MaxPortsPerNode
  BY PortConstants
<1>5. g \in [DOMAIN f -> [PortSides -> Nat]]
  BY <1>1, <1>4
<1> HIDE DEF g
<1>6. AreCounts(g)
  BY <1>1, <1>2, <1>5 DEF AreCounts
<1>7. \A m \in DOMAIN g, s \in PortSides : g[m][s] <= MaxPortsPerNode
  BY <1>2, <1>3, <1>4 DEF Fits
<1>8. Fits(g, next)
  BY <1>2, <1>6, <1>7 DEF Fits
<1> QED BY <1>2, <1>3, <1>8 DEF g

\* A port count is in its range.
LEMMA CountAt ==
  ASSUME NEW next, Fits(ports, next), NEW n \in DOMAIN ports, NEW side \in PortSides
  PROVE  ports[n][side] \in 0 .. MaxPortsPerNode
<1>1. ports[n][side] \in Nat /\ ports[n][side] <= MaxPortsPerNode
  BY DEF Fits, AreCounts
<1> QED BY <1>1, PortConstants

\* A new node has no ports.
LEMMA NothingCounts ==
  ASSUME NEW n
  PROVE  LET f == [m \in {n} |-> NoPorts] IN AreCounts(f) /\ PortTotal(f) = 0 /\ DOMAIN f = {n}
<1> DEFINE f == [m \in {n} |-> NoPorts]
<1>1. NoPorts \in [PortSides -> Nat] /\ NoPorts.In = 0 /\ NoPorts.Out = 0
  BY DEF NoPorts, PortSides
<1>2. AreCounts(f)
  BY <1>1, FS_Singleton DEF AreCounts
<1>3. Places(f, DOMAIN f) = {}
  <2> SUFFICES ASSUME NEW p \in Places(f, DOMAIN f) PROVE FALSE
    OBVIOUS
  <2>1. PICK m \in DOMAIN f, j \in Nat : j \in 1 .. width(f, m)
    BY InPlaces
  <2>2. width(f, m) = 0
    BY <1>1 DEF width
  <2> QED BY <2>1, <2>2
<1> HIDE DEF f
<1>4. PortTotal(f) = 0
  BY <1>2, <1>3, TotalIs, FS_EmptySet
<1> QED BY <1>2, <1>4 DEF f

\* Joining what is on other ids.
LEMMA JoinedFits ==
  ASSUME NEW f, NEW g, NEW next, Fits(f, next), Fits(g, next), DOMAIN f \cap DOMAIN g = {}
  PROVE  LET j == Joined(f, g)
         IN  /\ Fits(j, next) /\ DOMAIN j = DOMAIN f \cup DOMAIN g
             /\ PortTotal(j) = PortTotal(f) + PortTotal(g)
             /\ Wires(f) \subseteq Wires(j) /\ Wires(g) \subseteq Wires(j)
<1> DEFINE j == Joined(f, g)
<1>1. AreCounts(f) /\ AreCounts(g)
  BY DEF Fits
<1>2. AreCounts(j) /\ DOMAIN j = DOMAIN f \cup DOMAIN g
  BY <1>1, JoinedCounts
<1>3. PortTotal(j) = PortTotal(f) + PortTotal(g)
  BY <1>1, JoinedTotal
<1>4. \A n \in DOMAIN f : j[n] = f[n]
  BY JoinedFirst
<1>5. \A n \in DOMAIN g : j[n] = g[n]
  <2> SUFFICES ASSUME NEW n \in DOMAIN g PROVE j[n] = g[n]
    OBVIOUS
  <2>1. n \notin DOMAIN f
    OBVIOUS
  <2> QED BY <2>1, JoinedSecond
<1> HIDE DEF j
<1>6. Fits(j, next)
  BY <1>2, <1>4, <1>5 DEF Fits
<1>7. /\ \A n \in DOMAIN f, s \in PortSides : f[n][s] <= j[n][s]
      /\ \A n \in DOMAIN g, s \in PortSides : g[n][s] <= j[n][s]
  BY <1>1, <1>4, <1>5 DEF AreCounts
<1>8. Wires(f) \subseteq Wires(j)
  BY <1>1, <1>2, <1>7, GrownWires
<1>9. Wires(g) \subseteq Wires(j)
  BY <1>1, <1>2, <1>7, GrownWires
<1> QED BY <1>2, <1>3, <1>6, <1>8, <1>9 DEF j

\* Fewer nodes.
LEMMA RestrictedFits ==
  ASSUME NEW f, NEW next, Fits(f, next), NEW S \in SUBSET DOMAIN f
  PROVE  LET g == Restrict(f, S)
         IN  /\ Fits(g, next) /\ DOMAIN g = S /\ PortTotal(g) <= PortTotal(f)
             /\ Cardinality(S) <= Cardinality(DOMAIN f)
             /\ Cardinality(S) \in Nat /\ Cardinality(DOMAIN f) \in Nat
             /\ \A n \in S : g[n] = f[n]
<1> DEFINE g == Restrict(f, S)
<1>1. DOMAIN g = S /\ \A n \in S : g[n] = f[n]
  BY DEF Restrict
<1>2. g = [n \in S |-> g[n]]
  BY DEF Restrict
<1>3. IsFiniteSet(S) /\ Cardinality(S) <= Cardinality(DOMAIN f)
      /\ Cardinality(S) \in Nat /\ Cardinality(DOMAIN f) \in Nat
  BY FS_Subset, FS_CardinalityType DEF Fits, AreCounts
<1>4. AreCounts(f)
  BY DEF Fits
<1> HIDE DEF g
<1>5. AreCounts(g)
  BY <1>1, <1>2, <1>3, <1>4, CountsOf DEF AreCounts
<1>6. Fits(g, next)
  BY <1>1, <1>5 DEF Fits
<1>7. \A n \in DOMAIN g : width(g, n) <= width(f, n)
  <2> SUFFICES ASSUME NEW n \in DOMAIN g PROVE width(g, n) <= width(f, n)
    OBVIOUS
  <2>1. width(g, n) = width(f, n) /\ width(f, n) \in Nat
    BY <1>1, <1>4, CountsOf DEF width
  <2> QED BY <2>1
<1>8. PortTotal(g) <= PortTotal(f)
  BY <1>1, <1>4, <1>5, <1>7, SmallerTotal
<1> QED BY <1>1, <1>3, <1>6, <1>8 DEF g

\* The command is not disturbed while no node comes or goes.
LEMMA CommandStays ==
  ASSUME PortsInv, command' = command, nextPortNode' = nextPortNode, DOMAIN ports' = DOMAIN ports
  PROVE  command' # NoCommand => CommandFits(command', ports', nextPortNode')
BY DEF PortsInv, CommandFits

\* Nor are the plugs, while the connections fit and the command stays.
LEMMA PlugsStay ==
  ASSUME PortsInv, command' = command, apart' = apart, "ports" \notin apart => Plugged(ports', wires')
  PROVE  PlugsInv'
BY DEF PortsInv, PlugsInv

\* What the scene shows.
LEMMA ShownIs ==
  ASSUME PortsInv
  PROVE  /\ canvas.nodes = DOMAIN ports
         /\ "scene" \notin apart => canvas.conns = wires
BY DEF PortsInv

\* A new node keeps the invariant.
LEMMA NewNodeStep ==
  ASSUME PortsInv, ~thrown, addPortNode
  PROVE  PortsInv'
<1> DEFINE n == nextPortNode
           one == [m \in {n} |-> NoPorts]
<1>1. /\ Cardinality(DOMAIN ports) < MaxNodes /\ n # InvalidNodeId
      /\ ports' = Joined(ports, one) /\ rows' = Joined(rows, one)
      /\ nextPortNode' = n + 1
      /\ canvas' = [nodes |-> (canvas.nodes \ {}) \cup {n}, conns |-> (canvas.conns \ {}) \cup {}]
      /\ wires' = wires /\ command' = command /\ apart' = apart /\ thrown' = thrown
  BY DEF addPortNode, Redrawn, node_id_after
<1>2. n \in Nat /\ InvalidNodeId \in Nat /\ n < InvalidNodeId /\ n + 1 \in 0 .. InvalidNodeId
  BY <1>1, PortConstants DEF PortsInv
<1>3. DOMAIN ports \cap {n} = {}
  BY <1>2 DEF PortsInv, Fits
<1>4. AreCounts(one) /\ PortTotal(one) = 0 /\ DOMAIN one = {n} /\ one[n] = NoPorts
  BY NothingCounts
<1> HIDE DEF one
<1>5. Fits(one, n + 1)
  <2>1. n \in PortNodeId /\ n < n + 1
    BY <1>2 DEF PortNodeId
  <2>2. \A side \in PortSides : one[n][side] <= MaxPortsPerNode
    BY <1>4, PortConstants DEF NoPorts, PortSides
  <2> QED BY <1>4, <2>1, <2>2 DEF Fits
<1>6. Fits(ports, n + 1)
  <2>1. n \in Int /\ n + 1 \in Int /\ n <= n + 1
    BY <1>2
  <2> QED BY <2>1, FitsMore DEF PortsInv
<1>7. /\ Fits(ports', n + 1) /\ DOMAIN ports' = DOMAIN ports \cup {n}
      /\ PortTotal(ports') = PortTotal(ports) + PortTotal(one)
      /\ Wires(ports) \subseteq Wires(ports')
  BY <1>1, <1>3, <1>4, <1>5, <1>6, JoinedFits
<1>8. Budgeted(ports')
  <2>1. PortTotal(ports) \in Nat /\ PortTotal(ports) <= MaxPorts /\ IsFiniteSet(DOMAIN ports)
    BY TotalIs DEF PortsInv, Fits, Budgeted, AreCounts
  <2>2. /\ Cardinality(DOMAIN ports \cup {n}) = Cardinality(DOMAIN ports) + 1
        /\ Cardinality(DOMAIN ports) \in Nat
    BY <1>3, <2>1, FS_AddElement, FS_CardinalityType
  <2> QED BY <1>1, <1>4, <1>7, <2>1, <2>2, PortConstants DEF Budgeted
<1>9. PlugsInv'
  <2>1. "ports" \notin apart => Plugged(ports', wires')
    BY <1>1, <1>7, FewerPlugged DEF PortsInv, PlugsInv, Plugged
  <2> QED BY <1>1, <2>1, PlugsStay
<1>10. command' # NoCommand => CommandFits(command', ports', nextPortNode')
  <2> SUFFICES ASSUME command # NoCommand PROVE CommandFits(command, ports', n + 1)
    BY <1>1
  <2>1. CommandFits(command, ports, n)
    BY DEF PortsInv
  <2>2. Fits(command.nodes, n + 1)
    <3>1. n \in Int /\ n + 1 \in Int /\ n <= n + 1
      BY <1>2
    <3> QED BY <2>1, <3>1, FitsMore DEF CommandFits
  <2>3. n \notin DOMAIN command.nodes
    BY <1>2, <2>1 DEF CommandFits, Fits
  <2> QED BY <1>7, <2>1, <2>2, <2>3 DEF CommandFits
<1>11. /\ rows' = ports' /\ canvas' = [nodes |-> DOMAIN ports', conns |-> canvas.conns]
       /\ IsFiniteSet(wires')
  <2>1. (canvas.nodes \ {}) \cup {n} = DOMAIN ports' /\ (canvas.conns \ {}) \cup {} = canvas.conns
    BY <1>7, ShownIs
  <2>2. canvas' = [nodes |-> DOMAIN ports', conns |-> canvas.conns]
    BY <1>1, <2>1
  <2> QED BY <1>1, <2>2 DEF PortsInv
<1> QED BY <1>1, <1>2, <1>7, <1>8, <1>9, <1>10, <1>11 DEF PortsInv
\* What is plugged into other ports than the last ones survives their loss.
LEMMA WiresStay ==
  ASSUME NEW f, AreCounts(f), NEW g, AreCounts(g), DOMAIN g = DOMAIN f,
         NEW n \in DOMAIN f, NEW side \in PortSides,
         \A m \in DOMAIN f, s \in PortSides : (m = n /\ s = side) \/ f[m][s] <= g[m][s],
         NEW cs \in SUBSET Wires(f),
         \A c \in cs : WireNode(side, c) = n => WirePort(side, c) < g[n][side]
  PROVE  cs \subseteq Wires(g)
<1> SUFFICES ASSUME NEW c \in cs PROVE c \in Wires(g)
  OBVIOUS
<1>1. ASSUME NEW s \in PortSides
      PROVE  /\ WireNode(s, c) \in DOMAIN g
             /\ WirePort(s, c) \in 0 .. MaxPortsPerNode - 1
             /\ WirePort(s, c) < g[WireNode(s, c)][s]
  <2> DEFINE m == WireNode(s, c)
             i == WirePort(s, c)
  <2>1. m \in DOMAIN f /\ i \in 0 .. MaxPortsPerNode - 1 /\ i < f[m][s]
    BY InWires
  <2>2. m = n /\ s = side => i < g[n][side]
    OBVIOUS
  <2> HIDE DEF m, i
  <2>3. f[m][s] \in Nat /\ g[m][s] \in Nat /\ i \in Int
    BY <2>1 DEF AreCounts
  <2>4. i < g[m][s]
    BY <2>1, <2>2, <2>3
  <2> QED BY <2>1, <2>4 DEF m, i
<1>2. c \in Wires(f)
  OBVIOUS
<1> QED BY <1>1, <1>2, InWires, WireIn

\* The parts of the invariant most steps need.
LEMMA InvIs ==
  ASSUME PortsInv
  PROVE  /\ nextPortNode \in Int /\ Fits(ports, nextPortNode) /\ AreCounts(ports)
         /\ IsFiniteSet(DOMAIN ports) /\ IsFiniteSet(wires)
         /\ "ports" \notin apart => Plugged(ports, wires) /\ wires \subseteq Wires(ports)
BY DEF PortsInv, PlugsInv, Fits, AreCounts, Plugged

\* A step that keeps the nodes keeps what the ids and the command need.
LEMMA SameNodesStep ==
  ASSUME PortsInv, ~thrown, DOMAIN ports' = DOMAIN ports,
         UNCHANGED <<nextPortNode, command, apart, thrown>>,
         Fits(ports', nextPortNode), PortTotal(ports') <= MaxPorts, IsFiniteSet(wires'),
         "ports" \notin apart => Plugged(ports', wires'),
         rows' = ports', canvas' = [nodes |-> DOMAIN ports, conns |-> canvas'.conns],
         "scene" \notin apart => canvas'.conns = wires'
  PROVE  PortsInv'
<1>1. command' # NoCommand => CommandFits(command', ports', nextPortNode')
  BY CommandStays
<1>2. Budgeted(ports')
  BY DEF PortsInv, Budgeted
<1>3. PlugsInv'
  BY PlugsStay
<1> QED BY <1>1, <1>2, <1>3 DEF PortsInv

\* A count set through setNodeData() keeps the invariant.
LEMMA SetCountStep ==
  ASSUME PortsInv, ~thrown, NEW n \in DOMAIN ports, NEW side \in PortSides,
         NEW k \in 0 .. MaxPortsPerNode, setPortCount(n, side, k)
  PROVE  PortsInv'
<1> DEFINE g == [ports EXCEPT ![n][side] = k]
<1>1. /\ PortTotal(g) <= MaxPorts
      /\ \A i \in k .. ports[n][side] - 1 : WiresAt(wires, n, side, i) = {}
      /\ ports' = g /\ rows' = [rows EXCEPT ![n][side] = k]
      /\ UNCHANGED <<wires, nextPortNode, canvas, command, apart, thrown>>
  BY DEF setPortCount, port_count_allowed, populateButtons
<1>2. rows' = g
  BY <1>1 DEF PortsInv
<1>3. /\ Fits(g, nextPortNode) /\ DOMAIN g = DOMAIN ports
      /\ \A m \in DOMAIN ports, s \in PortSides :
           g[m][s] = IF m = n /\ s = side THEN k ELSE ports[m][s]
  BY InvIs, CountSet
<1> HIDE DEF g
<1>4. AreCounts(g)
  BY <1>3 DEF Fits
<1>5. ASSUME "ports" \notin apart, NEW c \in wires, WireNode(side, c) = n
      PROVE  WirePort(side, c) < g[n][side]
  <2> DEFINE i == WirePort(side, c)
  <2>1. i \in 0 .. MaxPortsPerNode - 1 /\ i < ports[n][side]
    BY <1>5, InvIs, InWires
  <2>2. ports[n][side] \in Nat /\ k \in Nat /\ g[n][side] = k
    BY <1>3, PortConstants, InvIs DEF AreCounts
  <2>3. c \in WiresAt(wires, n, side, i)
    BY <1>5 DEF WiresAt
  <2> HIDE DEF i
  <2>4. ~(i \in k .. ports[n][side] - 1)
    BY <1>1, <2>3
  <2>5. i \in Int
    BY <2>1
  <2>6. i < k
    BY <2>1, <2>2, <2>4, <2>5
  <2> QED BY <2>2, <2>6 DEF i
<1>6. \A m \in DOMAIN ports, s \in PortSides : (m = n /\ s = side) \/ ports[m][s] <= g[m][s]
  BY <1>3, InvIs DEF AreCounts
<1>7. ASSUME "ports" \notin apart PROVE Plugged(g, wires)
  <2>1. /\ wires \in SUBSET Wires(ports) /\ Plugged(ports, wires)
        /\ \A c \in wires : WireNode(side, c) = n => WirePort(side, c) < g[n][side]
    BY <1>5, <1>7, InvIs
  <2>2. wires \subseteq Wires(g)
    BY <1>3, <1>4, <1>6, <2>1, InvIs, WiresStay
  <2> QED BY <2>1, <2>2, FewerPlugged
<1>8. /\ canvas' = [nodes |-> DOMAIN ports, conns |-> canvas'.conns] /\ IsFiniteSet(wires')
      /\ "scene" \notin apart => canvas'.conns = wires'
  BY <1>1 DEF PortsInv
<1> QED BY <1>1, <1>2, <1>3, <1>7, <1>8, SameNodesStep

\* What is behind a port is some of the connections, and so is what is moved.
LEMMA ShiftedFinite ==
  ASSUME NEW cs, IsFiniteSet(cs), NEW n, NEW side, NEW by
  PROVE  IsFiniteSet({Shifted(c, n, side, by) : c \in cs})
<1> DEFINE T == {Shifted(c, n, side, by) : c \in cs}
           f == [c \in cs |-> Shifted(c, n, side, by)]
<1>1. f \in [cs -> T] /\ \A t \in T : \E s \in cs : f[s] = t
  OBVIOUS
<1> HIDE DEF f, T
<1>2. IsFiniteSet(T)
  BY <1>1, FiniteImage
<1> QED BY <1>2 DEF T

\* What is behind a port is some of the connections.
LEMMA BehindIs ==
  ASSUME PortsInv, NEW n, NEW side, NEW i
  PROVE  Behind(n, side, i) \subseteq wires /\ IsFiniteSet(Behind(n, side, i))
<1>1. Behind(n, side, i) \in SUBSET wires
  BY DEF Behind
<1> QED BY <1>1, InvIs, FS_Subset

\* A "+" button keeps the invariant, granted or refused.
LEMMA AddPortStep ==
  ASSUME PortsInv, ~thrown, NEW n \in DOMAIN ports, NEW side \in PortSides, NEW i \in Nat,
         onPlusClicked(n, side, i)
  PROVE  PortsInv'
<1> DEFINE k == ports[n][side] + 1
           g == [ports EXCEPT ![n][side] = k]
           moved == Behind(n, side, i + 1)
           stay == wires \ moved
           shifted == {Shifted(c, n, side, 1) : c \in moved}
           back == Readded(g, stay, shifted)
<1>1. CASE i < ports[n][side] /\ port_count_allowed(ports, n, side, k)
  <2>1. /\ k <= MaxPortsPerNode /\ PortTotal(g) <= MaxPorts
        /\ ports' = g /\ wires' = back
        /\ canvas' = [nodes |-> (canvas.nodes \ {}) \cup {},
                      conns |-> (canvas.conns \ moved) \cup (back \ stay)]
        /\ rows' = [rows EXCEPT ![n][side] = @ + 1]
        /\ UNCHANGED <<nextPortNode, command, apart, thrown>>
    BY <1>1 DEF onPlusClicked, addPort, port_count_allowed, Redrawn, addButtonGroupToLayout
  <2>2. rows' = g
    BY <2>1 DEF PortsInv
  <2>3. ports[n][side] \in Nat
    BY InvIs DEF AreCounts
  <2>4. k \in 0 .. MaxPortsPerNode
    BY <2>1, <2>3, PortConstants
  <2> HIDE DEF k
  <2>5. /\ Fits(g, nextPortNode) /\ DOMAIN g = DOMAIN ports
        /\ \A m \in DOMAIN ports, s \in PortSides :
             g[m][s] = IF m = n /\ s = side THEN k ELSE ports[m][s]
    BY <2>4, InvIs, CountSet
  <2> HIDE DEF g
  <2>6. AreCounts(g)
    BY <2>5 DEF Fits
  <2>7. \A m \in DOMAIN ports, s \in PortSides : ports[m][s] <= g[m][s]
    <3>1. ports[n][side] <= k
      BY <2>3 DEF k
    <3> QED BY <2>5, <3>1, InvIs DEF AreCounts
  <2>8. Wires(ports) \subseteq Wires(g)
    BY <2>5, <2>6, <2>7, InvIs, GrownWires
  <2>9. IsFiniteSet(shifted)
    BY BehindIs, ShiftedFinite
  <2>10. moved \subseteq wires
    BY BehindIs
  <2> HIDE DEF moved, shifted
  <2>11. "ports" \notin apart => Plugged(g, stay)
    BY <2>8, InvIs, FewerPlugged
  <2>12. ("ports" \notin apart => Plugged(g, back)) /\ IsFiniteSet(back)
    <3>1. IsFiniteSet(stay)
      BY InvIs, FS_Difference
    <3> HIDE DEF stay
    <3> QED BY <2>9, <2>11, <3>1, ReaddedPlugged, ReaddedFinite
  <2>13. stay \subseteq back
    BY DEF Readded
  <2>14. /\ canvas' = [nodes |-> DOMAIN ports, conns |-> canvas'.conns]
         /\ "scene" \notin apart => canvas'.conns = wires'
    <3> HIDE DEF back
    <3> QED BY <2>1, <2>10, <2>13 DEF PortsInv
  <2> QED BY <2>1, <2>2, <2>5, <2>12, <2>14, SameNodesStep
<1>2. CASE ~(i < ports[n][side] /\ port_count_allowed(ports, n, side, k))
  <2>1. UNCHANGED portVars
    BY <1>2 DEF onPlusClicked, PortRefused, portVars
  <2> QED BY <2>1 DEF PortsInv, PlugsInv, portVars, Blocked
<1> QED BY <1>1, <1>2

\* A "-" button keeps the invariant.
LEMMA RemovePortStep ==
  ASSUME PortsInv, ~thrown, NEW n \in DOMAIN ports, NEW side \in PortSides, NEW i \in Nat,
         i < ports[n][side], onMinusClicked(n, side, i)
  PROVE  PortsInv'
<1> DEFINE k == ports[n][side] - 1
           g == [ports EXCEPT ![n][side] = k]
           moved == Behind(n, side, i + 1)
           gone == Behind(n, side, i)
           stay == wires \ gone
           shifted == {Shifted(c, n, side, -1) : c \in moved}
           back == Readded(g, stay, shifted)
<1>1. /\ ports' = g /\ wires' = back
      /\ canvas' = [nodes |-> (canvas.nodes \ {}) \cup {},
                    conns |-> (canvas.conns \ gone) \cup (back \ stay)]
      /\ rows' = [rows EXCEPT ![n][side] = Max({0, @ - 1})]
      /\ UNCHANGED <<nextPortNode, command, apart, thrown>>
  BY DEF onMinusClicked, removePort, Redrawn, removeButtonGroupFromLayout
<1>2. ports[n][side] \in 0 .. MaxPortsPerNode
  BY InvIs, CountAt
<1>3. k \in 0 .. MaxPortsPerNode /\ k < ports[n][side] /\ k \in Nat /\ i <= k
  BY <1>2, PortConstants
<1>4. Max({0, k}) = k
  <2> DEFINE two == {0, k}
  <2>1. two \in SUBSET (0 .. k) /\ two # {}
    BY <1>3
  <2>2. k \in two /\ \A y \in two : y = 0 \/ y = k
    OBVIOUS
  <2> HIDE DEF two, k
  <2>3. Max(two) \in two /\ \A y \in two : Max(two) >= y
    BY <1>3, <2>1, MaxIs
  <2> DEFINE m == Max(two)
  <2>4. (m = 0 \/ m = k) /\ m >= k /\ k \in Nat
    BY <1>3, <2>2, <2>3
  <2> HIDE DEF m
  <2>5. m = k
    BY <2>4
  <2> QED BY <2>5 DEF two, m
<1>5. rows' = g
  BY <1>1, <1>4 DEF PortsInv
<1>6. /\ Fits(g, nextPortNode) /\ DOMAIN g = DOMAIN ports
      /\ \A m \in DOMAIN ports, s \in PortSides :
           g[m][s] = IF m = n /\ s = side THEN k ELSE ports[m][s]
  <2> HIDE DEF k
  <2> QED BY <1>3, InvIs, CountSet
<1> HIDE DEF g
<1>7. AreCounts(g)
  BY <1>6 DEF Fits
<1>8. \A m \in DOMAIN ports, s \in PortSides : (m = n /\ s = side) \/ ports[m][s] <= g[m][s]
  BY <1>6, InvIs DEF AreCounts
<1>9. ASSUME "ports" \notin apart, NEW c \in stay, WireNode(side, c) = n
      PROVE  WirePort(side, c) < g[n][side]
  <2> DEFINE p == WirePort(side, c)
  <2>1. p \in 0 .. MaxPortsPerNode - 1 /\ p < ports[n][side]
    BY <1>9, InvIs, InWires
  <2>2. ~(p \in i .. ports[n][side] - 1)
    BY <1>9 DEF Behind
  <2>3. g[n][side] = k
    BY <1>6
  <2> DEFINE w == ports[n][side]
  <2>4. p \in Int /\ w \in Nat /\ p < w /\ k = w - 1 /\ ~(p \in i .. w - 1)
    BY <1>2, <2>1, <2>2
  <2> HIDE DEF p, k, w
  <2>5. p < k
    BY <1>3, <2>4
  <2> QED BY <2>3, <2>5 DEF p
<1>10. stay \in SUBSET wires /\ IsFiniteSet(stay)
  <2>1. stay \in SUBSET wires
    OBVIOUS
  <2> HIDE DEF stay
  <2> QED BY <2>1, InvIs, FS_Subset
<1>11. ASSUME "ports" \notin apart PROVE Plugged(g, stay)
  <2>1. stay \in SUBSET Wires(ports) /\ \A c \in stay : WireNode(side, c) = n => WirePort(side, c) < g[n][side]
    BY <1>9, <1>11, InvIs
  <2> HIDE DEF stay
  <2>2. stay \subseteq Wires(g)
    BY <1>6, <1>7, <1>8, <2>1, InvIs, WiresStay
  <2> QED BY <1>10, <1>11, <2>2, InvIs, FewerPlugged
<1>12. ("ports" \notin apart => Plugged(g, back)) /\ IsFiniteSet(back)
  <2>1. IsFiniteSet(shifted)
    BY BehindIs, ShiftedFinite
  <2> HIDE DEF shifted, stay
  <2> QED BY <1>10, <1>11, <2>1, ReaddedPlugged, ReaddedFinite
<1>13. stay \subseteq back
  BY DEF Readded
<1>14. /\ canvas' = [nodes |-> DOMAIN ports, conns |-> canvas'.conns]
       /\ "scene" \notin apart => canvas'.conns = wires'
  <2>1. gone \subseteq wires
    BY BehindIs
  <2> DEFINE now == (canvas.conns \ gone) \cup (back \ stay)
  <2>2. (canvas.nodes \ {}) \cup {} = DOMAIN ports
    BY ShownIs
  <2>3. canvas' = [nodes |-> DOMAIN ports, conns |-> now]
    BY <1>1, <2>2
  <2>4. "scene" \notin apart => now = back
    <3> HIDE DEF back, gone
    <3> QED BY <1>13, <2>1, ShownIs
  <2>5. wires' = back
    BY <1>1
  <2> HIDE DEF now, back
  <2> QED BY <2>3, <2>4, <2>5
<1>15. PortTotal(g) <= MaxPorts
  <2>1. ASSUME NEW m \in DOMAIN g PROVE width(g, m) <= width(ports, m)
    <3>1. g[m].In \in Nat /\ g[m].Out \in Nat /\ ports[m].In \in Nat /\ ports[m].Out \in Nat
      BY <1>6, <1>7, InvIs, CountsOf
    <3>2. \A s \in PortSides : g[m][s] <= ports[m][s]
      <4> SUFFICES ASSUME NEW s \in PortSides PROVE g[m][s] <= ports[m][s]
        OBVIOUS
      <4>1. ports[m][s] \in Nat
        BY <1>6, InvIs DEF AreCounts
      <4> HIDE DEF k
      <4> QED BY <1>3, <1>6, <4>1
    <3>3. g[m].In <= ports[m].In /\ g[m].Out <= ports[m].Out
      BY <3>2 DEF PortSides
    <3> QED BY <3>1, <3>3 DEF width
  <2>2. PortTotal(g) <= PortTotal(ports)
    BY <1>6, <1>7, <2>1, InvIs, SmallerTotal
  <2>3. PortTotal(g) \in Nat /\ PortTotal(ports) \in Nat /\ PortTotal(ports) <= MaxPorts
    BY <1>7, InvIs, TotalIs DEF PortsInv, Budgeted
  <2> QED BY <2>2, <2>3, PortConstants
<1> QED BY <1>1, <1>5, <1>6, <1>12, <1>14, <1>15, SameNodesStep
-----------------------------------------------------------------------------
(* DynamicPortsModel: deletions, connections, undo and redo.               *)

\* A command that was just pushed fits the graph it has changed.
LEMMA NewCommandFits ==
  ASSUME NEW f, NEW next, NEW kind, kind # "replace", NEW nodes, NEW conns,
         Fits(nodes, next), IsFiniteSet(conns),
         kind = "delete" \/ DOMAIN nodes = {}, DOMAIN nodes \cap DOMAIN f = {}
  PROVE  /\ CommandFits(newCommand(kind, nodes, conns), f, next)
         /\ newCommand(kind, nodes, conns).kind = kind
BY DEF CommandFits, IsCommandRecord, newCommand

\* A command that is undone or redone still fits.
LEMMA CommandTurned ==
  ASSUME NEW c, NEW f, NEW next, CommandFits(c, f, next), c.kind # "replace", NEW g,
         NEW b \in BOOLEAN, b => DOMAIN c.nodes \cap DOMAIN g = {}
  PROVE  /\ CommandFits([c EXCEPT !.done = b], g, next)
         /\ [c EXCEPT !.done = b].nodes = c.nodes /\ [c EXCEPT !.done = b].kind = c.kind
<1>1. c = [kind |-> c.kind, done |-> c.done, nodes |-> c.nodes, conns |-> c.conns,
           replaced |-> c.replaced, spare |-> c.spare, left |-> c.left]
  BY DEF CommandFits, IsCommandRecord
<1> DEFINE d == [kind |-> c.kind, done |-> b, nodes |-> c.nodes, conns |-> c.conns,
                 replaced |-> c.replaced, spare |-> c.spare, left |-> c.left]
<1>2. [c EXCEPT !.done = b] = d
  BY <1>1
<1>3. d.kind = c.kind /\ d.done = b /\ d.nodes = c.nodes /\ d.conns = c.conns /\ IsCommandRecord(d)
  BY DEF IsCommandRecord
<1> HIDE DEF d
<1>4. CommandFits(d, g, next)
  BY <1>3 DEF CommandFits
<1> QED BY <1>2, <1>3, <1>4

\* Taking nodes and connections away keeps the invariant.
LEMMA RemovedStep ==
  ASSUME PortsInv, ~thrown, NEW ns \in SUBSET DOMAIN ports, NEW cs, Removed(ns, cs),
         CommandFits(command', Restrict(ports, DOMAIN ports \ ns), nextPortNode),
         command'.kind # "replace"
  PROVE  PortsInv'
<1> DEFINE left == DOMAIN ports \ ns
           g == Restrict(ports, left)
           gone == WiresOf(wires, ns) \cup (cs \cap wires)
<1>1. /\ ports' = g /\ rows' = Restrict(rows, DOMAIN rows \ ns) /\ wires' = wires \ gone
      /\ canvas' = [nodes |-> (canvas.nodes \ ns) \cup {}, conns |-> (canvas.conns \ gone) \cup {}]
      /\ UNCHANGED <<nextPortNode, apart, thrown>>
  BY DEF Removed, Redrawn
<1>2. rows' = g
  BY <1>1 DEF PortsInv
<1>3. /\ Fits(g, nextPortNode) /\ DOMAIN g = left /\ PortTotal(g) <= PortTotal(ports)
      /\ Cardinality(left) <= Cardinality(DOMAIN ports)
      /\ Cardinality(left) \in Nat /\ Cardinality(DOMAIN ports) \in Nat
      /\ \A n \in left : g[n] = ports[n]
  <2>1. left \in SUBSET DOMAIN ports
    OBVIOUS
  <2> HIDE DEF left
  <2> QED BY <2>1, InvIs, RestrictedFits
<1>4. CommandFits(command', g, nextPortNode)
  OBVIOUS
<1> HIDE DEF g
<1>5. AreCounts(g)
  BY <1>3 DEF Fits
<1>6. Budgeted(g)
  <2>1. PortTotal(g) \in Nat /\ PortTotal(ports) \in Nat
    BY <1>5, InvIs, TotalIs
  <2> QED BY <1>3, <2>1, PortConstants DEF PortsInv, Budgeted
<1>7. ASSUME "ports" \notin apart PROVE wires \ gone \subseteq Wires(g)
  <2> SUFFICES ASSUME NEW c \in wires \ gone PROVE c \in Wires(g)
    OBVIOUS
  <2>1. c \in Wires(ports)
    BY <1>7, InvIs
  <2>2. c.inNodeId \notin ns /\ c.outNodeId \notin ns
    BY DEF WiresOf
  <2>3. ASSUME NEW s \in PortSides
        PROVE  /\ WireNode(s, c) \in DOMAIN g
               /\ WirePort(s, c) \in 0 .. MaxPortsPerNode - 1
               /\ WirePort(s, c) < g[WireNode(s, c)][s]
    <3>1. /\ WireNode(s, c) \in DOMAIN ports
          /\ WirePort(s, c) \in 0 .. MaxPortsPerNode - 1
          /\ WirePort(s, c) < ports[WireNode(s, c)][s]
      BY <2>1, InWires
    <3>2. WireNode(s, c) \in left
      BY <2>2, <3>1 DEF WireNode
    <3> QED BY <1>3, <3>1, <3>2
  <2> QED BY <2>1, <2>3, InWires, WireIn
<1>8. IsFiniteSet(wires \ gone) /\ ("ports" \notin apart => Plugged(g, wires \ gone))
  <2> DEFINE stay == wires \ gone
  <2>1. stay \in SUBSET wires
    OBVIOUS
  <2> HIDE DEF stay, gone
  <2>2. "ports" \notin apart => stay \subseteq Wires(g)
    BY <1>7 DEF stay
  <2>3. IsFiniteSet(stay) /\ ("ports" \notin apart => Plugged(g, stay))
    BY <2>1, <2>2, InvIs, FewerPlugged, FS_Subset
  <2> QED BY <2>3 DEF stay
<1>9. /\ canvas' = [nodes |-> left, conns |-> canvas'.conns]
      /\ "scene" \notin apart => canvas'.conns = wires \ gone
  <2> HIDE DEF gone
  <2> QED BY <1>1 DEF PortsInv
<1>10. PlugsInv'
  BY <1>1, <1>8 DEF PlugsInv
<1> HIDE DEF gone, left
<1> QED BY <1>1, <1>2, <1>3, <1>4, <1>6, <1>8, <1>9, <1>10 DEF PortsInv, ExchangeFits

\* Nothing that comes back pushes the next id up.
LEMMA NextIdStays ==
  ASSUME NEW kept, NEW next \in 0 .. InvalidNodeId, Fits(kept, next)
  PROVE  Max({next} \cup {node_id_after(n) : n \in DOMAIN kept}) = next
<1> DEFINE S == {next} \cup {node_id_after(n) : n \in DOMAIN kept}
           m == Max(S)
<1>1. next \in Nat
  BY PortConstants
<1>2. \A n \in DOMAIN kept : n + 1 \in 0 .. next
  <2> SUFFICES ASSUME NEW n \in DOMAIN kept PROVE n + 1 \in 0 .. next
    OBVIOUS
  <2>1. n \in 0 .. InvalidNodeId - 1 /\ n < next
    BY DEF Fits, PortNodeId
  <2> QED BY <1>1, <2>1
<1>3. S \in SUBSET (0 .. next) /\ S # {} /\ next \in S
  BY <1>1, <1>2 DEF node_id_after
<1> HIDE DEF S
<1>4. m \in S /\ \A y \in S : m >= y
  BY <1>1, <1>3, MaxIs
<1>5. m \in 0 .. next /\ m >= next
  BY <1>3, <1>4
<1> HIDE DEF m
<1>6. m = next
  BY <1>1, <1>5
<1> QED BY <1>6 DEF m, S

\* Putting nodes and connections back keeps the invariant; it throws only for
\* want of room.
LEMMA InsertedStep ==
  ASSUME PortsInv, ~thrown, NEW kept, NEW cs, Inserted(kept, cs),
         Fits(kept, nextPortNode), IsFiniteSet(cs), DOMAIN kept \cap DOMAIN ports = {},
         command'.nodes = kept, command'.kind # "replace",
         CommandFits(command', ports, nextPortNode),
         CommandFits(command', Joined(kept, ports), nextPortNode)
  PROVE  PortsInv'
<1> DEFINE g == Joined(kept, ports)
           new == cs \ wires
           back == Readded(g, wires, new)
<1>0. AreCounts(kept) /\ PortTotal(kept) \in Nat /\ PortTotal(ports) \in Nat
  <2>1. AreCounts(kept)
    BY DEF Fits
  <2> QED BY <2>1, InvIs, TotalIs
<1>1. CASE loadableNodes(kept)
  <2>1. /\ Cardinality(DOMAIN ports \cup DOMAIN kept) <= MaxNodes
        /\ PortTotal(ports) + PortTotal(kept) <= MaxPorts
    BY <1>1 DEF loadableNodes
  <2>2. /\ ports' = g /\ rows' = Joined(kept, rows) /\ wires' = back
        /\ nextPortNode' = Max({nextPortNode} \cup {node_id_after(n) : n \in DOMAIN kept})
        /\ canvas' = [nodes |-> (canvas.nodes \ {}) \cup DOMAIN kept,
                      conns |-> (canvas.conns \ {}) \cup (back \ wires)]
        /\ thrown' = thrown /\ apart' = apart
    BY <1>1 DEF Inserted, Redrawn
  <2>3. rows' = g
    BY <2>2 DEF PortsInv
  <2>4. nextPortNode' = nextPortNode
    <3>1. nextPortNode \in 0 .. InvalidNodeId
      BY DEF PortsInv
    <3> QED BY <2>2, <3>1, NextIdStays
  <2>5. /\ Fits(g, nextPortNode) /\ DOMAIN g = DOMAIN kept \cup DOMAIN ports
        /\ PortTotal(g) = PortTotal(kept) + PortTotal(ports)
        /\ Wires(ports) \subseteq Wires(g)
    BY InvIs, JoinedFits
  <2>6. CommandFits(command', g, nextPortNode)
    OBVIOUS
  <2> HIDE DEF g
  <2>7. IsFiniteSet(new)
    BY FS_Difference
  <2>8. "ports" \notin apart => Plugged(g, wires)
    BY <2>5, InvIs, FewerPlugged
  <2> HIDE DEF new
  <2>9. ("ports" \notin apart => Plugged(g, back)) /\ IsFiniteSet(back)
    BY <2>7, <2>8, InvIs, ReaddedPlugged, ReaddedFinite
  <2>10. wires \subseteq back
    BY DEF Readded
  <2> HIDE DEF back
  <2>11. /\ canvas' = [nodes |-> DOMAIN g, conns |-> canvas'.conns]
         /\ "scene" \notin apart => canvas'.conns = back
    <3> DEFINE now == (canvas.conns \ {}) \cup (back \ wires)
    <3>1. (canvas.nodes \ {}) \cup DOMAIN kept = DOMAIN g
      BY <2>5, ShownIs
    <3>2. canvas' = [nodes |-> DOMAIN g, conns |-> now]
      BY <2>2, <3>1
    <3>3. "scene" \notin apart => now = back
      BY <2>10, ShownIs
    <3> HIDE DEF now
    <3> QED BY <3>2, <3>3
  <2>13. PlugsInv'
    BY <2>2, <2>9 DEF PlugsInv
  <2>12. Budgeted(g)
    <3>1. DOMAIN g = DOMAIN ports \cup DOMAIN kept
      BY <2>5
    <3>2. PortTotal(g) <= MaxPorts
      BY <1>0, <2>1, <2>5
    <3> QED BY <2>1, <3>1, <3>2 DEF Budgeted
  <2> QED BY <2>2, <2>3, <2>4, <2>5, <2>6, <2>9, <2>11, <2>12, <2>13 DEF PortsInv, ExchangeFits
<1>2. CASE ~loadableNodes(kept)
  <2>1. thrown' = TRUE /\ UNCHANGED <<ports, wires, nextPortNode, rows, canvas, apart>>
    BY <1>2 DEF Inserted
  <2>2. ~(Cardinality(DOMAIN ports \cup DOMAIN kept) <= MaxNodes
          /\ PortTotal(ports) + PortTotal(kept) <= MaxPorts)
    BY <1>2 DEF loadableNodes
  <2>3. Cardinality(DOMAIN ports \cup DOMAIN kept) \in Nat
    <3>1. IsFiniteSet(DOMAIN ports \cup DOMAIN kept)
      BY <1>0, InvIs, FS_Union DEF AreCounts
    <3> QED BY <3>1, FS_CardinalityType
  <2>4. \/ Cardinality(DOMAIN ports \cup DOMAIN kept) > MaxNodes
        \/ PortTotal(ports) + PortTotal(kept) > MaxPorts
    <3> DEFINE a == Cardinality(DOMAIN ports \cup DOMAIN kept)
               b == PortTotal(ports)
               d == PortTotal(kept)
    <3>1. a \in Nat /\ b \in Nat /\ d \in Nat /\ MaxNodes \in Nat /\ MaxPorts \in Nat
      BY <1>0, <2>3, PortConstants
    <3>2. ~(a <= MaxNodes /\ b + d <= MaxPorts)
      BY <2>2
    <3> HIDE DEF a, b, d
    <3>3. a > MaxNodes \/ b + d > MaxPorts
      BY <3>1, <3>2
    <3> QED BY <3>3 DEF a, b, d
  <2>5. Blocked'
    BY <2>1, <2>4 DEF Blocked
  <2>6. PlugsInv'
    BY <2>1 DEF PortsInv, PlugsInv
  <2> QED BY <2>1, <2>5, <2>6 DEF PortsInv, ExchangeFits
<1> QED BY <1>1, <1>2

\* The nodes of a command about connections: none.
LEMMA NoNodes ==
  ASSUME PortsInv
  PROVE  Fits(Restrict(ports, {}), nextPortNode) /\ DOMAIN Restrict(ports, {}) = {}
<1>1. {} \in SUBSET DOMAIN ports
  OBVIOUS
<1> QED BY <1>1, InvIs, RestrictedFits

\* A deletion keeps the invariant.
LEMMA DeletionStep ==
  ASSUME PortsInv, ~thrown, NEW ns \in SUBSET DOMAIN ports, NEW cs, IsFiniteSet(cs),
         deleteSelection(ns, cs)
  PROVE  PortsInv'
<1> DEFINE nodes == Restrict(ports, ns)
           conns == WiresOf(wires, ns) \cup cs
           left == Restrict(ports, DOMAIN ports \ ns)
<1>1. command' = newCommand("delete", nodes, conns) /\ Removed(ns, cs)
  BY DEF deleteSelection
<1>2. Fits(nodes, nextPortNode) /\ DOMAIN nodes = ns
  BY InvIs, RestrictedFits
<1>3. DOMAIN left = DOMAIN ports \ ns
  BY DEF Restrict
<1>4. IsFiniteSet(conns)
  <2>1. WiresOf(wires, ns) \in SUBSET wires
    BY DEF WiresOf
  <2>2. IsFiniteSet(WiresOf(wires, ns))
    BY <2>1, InvIs, FS_Subset
  <2> QED BY <2>2, FS_Union
<1> HIDE DEF nodes, conns
<1>5. /\ CommandFits(newCommand("delete", nodes, conns), left, nextPortNode)
      /\ newCommand("delete", nodes, conns).kind = "delete"
  <2>1. DOMAIN nodes \cap DOMAIN left = {}
    BY <1>2, <1>3
  <2> HIDE DEF left
  <2> QED BY <1>2, <1>4, <2>1, NewCommandFits
<1>6. /\ CommandFits(command', Restrict(ports, DOMAIN ports \ ns), nextPortNode)
      /\ command'.kind # "replace"
  BY <1>1, <1>5
<1> QED BY <1>1, <1>6, RemovedStep

\* One connection comes, and those it replaces go.
LEMMA PluggedStep ==
  ASSUME PortsInv, ~thrown, NEW c, NEW old, connectable(ports, wires, c, old),
         CommandFits(command', ports, nextPortNode),
         "ports" \notin apart => (command'.kind = "replace" => Bundle(command'.spare)),
         ExchangeFits(command'),
         wires' = (wires \ old) \cup {c},
         canvas' = [nodes |-> canvas.nodes, conns |-> (canvas.conns \ old) \cup {c}],
         UNCHANGED <<ports, nextPortNode, rows, apart, thrown>>
  PROVE  PortsInv'
<1>1. IsFiniteSet(wires')
  <2>1. IsFiniteSet(wires \ old)
    BY InvIs, FS_Difference
  <2> QED BY <2>1, FS_AddElement
<1>2. "ports" \notin apart => Plugged(ports, (wires \ old) \cup {c})
  BY InvIs, OneMorePlugged
<1>3. PlugsInv'
  BY <1>2 DEF PlugsInv
<1> QED BY <1>1, <1>3 DEF PortsInv

\* A drawn connection keeps the invariant.
LEMMA ConnectStep ==
  ASSUME PortsInv, ~thrown, NEW c, connectPorts(c)
  PROVE  PortsInv'
<1> DEFINE none == Restrict(ports, {})
<1>1. /\ connectable(ports, wires, c, {})
      /\ command' = newCommand("connect", none, {c})
      /\ wires' = (wires \ {}) \cup {c}
      /\ canvas' = [nodes |-> canvas.nodes, conns |-> (canvas.conns \ {}) \cup {c}]
      /\ UNCHANGED <<ports, nextPortNode, rows, apart, thrown>>
  BY DEF connectPorts, Redrawn
<1>2. Fits(none, nextPortNode) /\ DOMAIN none = {} /\ DOMAIN none \cap DOMAIN ports = {}
  BY NoNodes
<1>3. IsFiniteSet({c})
  BY FS_Singleton
<1> HIDE DEF none
<1>4. CommandFits(command', ports, nextPortNode) /\ command'.kind # "replace"
  BY <1>1, <1>2, <1>3, NewCommandFits
<1>5. ExchangeFits(command')
  BY <1>4 DEF ExchangeFits
<1> QED BY <1>1, <1>4, <1>5, PluggedStep

\* What an exchange has to be: it keeps no nodes.
LEMMA ExchangeIs ==
  ASSUME NEW f, NEW next, NEW b \in BOOLEAN, NEW nodes, Fits(nodes, next), DOMAIN nodes = {},
         NEW conns, IsFiniteSet(conns), NEW replaced, NEW spare, IsFiniteSet(spare), NEW left
  PROVE  CommandFits([kind |-> "replace", done |-> b, nodes |-> nodes, conns |-> conns,
                      replaced |-> replaced, spare |-> spare, left |-> left], f, next)
BY DEF CommandFits, IsCommandRecord

\* An exchanged connection keeps the invariant.
LEMMA ExchangeStep ==
  ASSUME PortsInv, ~thrown, NEW c, NEW old \in SUBSET wires, connectable(ports, wires, c, old),
         prepareConnectionReplacement(c, old)
  PROVE  PortsInv'
<1> DEFINE none == Restrict(ports, {})
           prepared == (wires \ old) \cup {c}
           cmd == [kind |-> "replace", done |-> TRUE, nodes |-> none, conns |-> {c},
                   replaced |-> old, spare |-> wires, left |-> prepared]
<1>1. /\ command' = [newCommand("replace", none, {c}) EXCEPT
                       !.replaced = old, !.spare = wires, !.left = prepared]
      /\ wires' = prepared
      /\ canvas' = [nodes |-> canvas.nodes, conns |-> (canvas.conns \ old) \cup {c}]
      /\ UNCHANGED <<ports, nextPortNode, rows, apart, thrown>>
  BY DEF prepareConnectionReplacement, Redrawn
<1>2. Fits(none, nextPortNode) /\ DOMAIN none = {}
  BY NoNodes
<1>3. IsFiniteSet({c}) /\ IsFiniteSet(wires)
  BY InvIs, FS_Singleton
<1>4. c \notin wires \ old
  BY DEF connectable
<1>5. wires = (prepared \ {c}) \cup old
  BY <1>4
<1>6. command' = cmd /\ cmd.spare = wires
  <2> HIDE DEF none, prepared
  <2> QED BY <1>1 DEF newCommand
<1> HIDE DEF prepared, none
<1>7. CommandFits(cmd, ports, nextPortNode)
  BY <1>2, <1>3, ExchangeIs
<1>10. ExchangeFits(cmd)
  BY <1>5 DEF ExchangeFits, prepared
<1> HIDE DEF cmd
<1>8. "ports" \notin apart => Bundle(wires)
  BY InvIs DEF Plugged, Bundle
<1>9. wires' = (wires \ old) \cup {c}
  BY <1>1 DEF prepared
<1> QED BY <1>1, <1>6, <1>7, <1>8, <1>9, <1>10, PluggedStep

\* Forgetting the command keeps the invariant.
LEMMA ForgottenStep ==
  ASSUME PortsInv, ~thrown, command' \in {command, NoCommand},
         UNCHANGED <<ports, wires, nextPortNode, rows, canvas, apart, thrown>>
  PROVE  PortsInv'
<1>1. command' # NoCommand => command' = command
  OBVIOUS
<1>2. PlugsInv'
  BY <1>1 DEF PortsInv, PlugsInv
<1>3. command' # NoCommand => CommandFits(command', ports', nextPortNode') /\ ("scene" \notin apart => ExchangeFits(command'))
  BY <1>1 DEF PortsInv
<1> QED BY <1>2, <1>3 DEF PortsInv

LEMMA ReplaceStep ==
  ASSUME PortsInv, ~thrown, NEW c, replaceWire(c)
  PROVE  PortsInv'
<1> DEFINE old == WiresAt(wires, c.outNodeId, "Out", c.outPortIndex)
<1>1. /\ connectable(ports, wires, c, old)
      /\ obsoleteExchange \/ prepareConnectionReplacement(c, old)
  BY DEF replaceWire
<1>2. old \in SUBSET wires
  BY DEF WiresAt
<1> HIDE DEF old
<1>3. CASE obsoleteExchange
  BY <1>3, ForgottenStep DEF obsoleteExchange
<1> QED BY <1>1, <1>2, <1>3, ExchangeStep

\* Going back and forth between the two indexes keeps the invariant; what goes
\* apart is remembered.
LEMMA SwappedStep ==
  ASSUME PortsInv, ~thrown, command # NoCommand, command.kind = "replace",
         NEW gone, NEW come, Swapped(gone, come),
         command.done => gone = command.conns /\ come = command.replaced,
         ~command.done => gone = command.replaced /\ come = command.conns
  PROVE  PortsInv'
<1> DEFINE b == ~command.done
           cmd == [kind |-> "replace", done |-> b, nodes |-> command.nodes, conns |-> command.conns,
                   replaced |-> command.replaced, spare |-> wires, left |-> command.spare]
<1>1. /\ wires' = command.spare
      /\ command' = [command EXCEPT !.done = b, !.spare = wires, !.left = command.spare]
      /\ canvas' = [nodes |-> (canvas.nodes \ {}) \cup {}, conns |-> (canvas.conns \ gone) \cup come]
      /\ apart' = apart \cup {flag \in {"ports", "scene"} :
                               IF flag = "ports" THEN ~(command.spare \subseteq Wires(ports))
                               ELSE wires # command.left}
      /\ UNCHANGED <<ports, nextPortNode, rows, thrown>>
  BY DEF Swapped, Redrawn
<1>2. CommandFits(command, ports, nextPortNode)
  BY DEF PortsInv
<1>3. /\ IsCommandRecord(command) /\ Fits(command.nodes, nextPortNode) /\ DOMAIN command.nodes = {}
      /\ IsFiniteSet(command.conns) /\ IsFiniteSet(command.spare) /\ command.done \in BOOLEAN
  BY <1>2 DEF CommandFits, IsCommandRecord
<1>4. command' = cmd /\ cmd.spare = wires
  BY <1>1, <1>3 DEF IsCommandRecord
<1>5. "scene" \notin apart' => "scene" \notin apart /\ wires = command.left
  BY <1>1
<1>6. ASSUME "scene" \notin apart' PROVE canvas'.conns = wires' /\ ExchangeFits(cmd)
  <2>1. canvas.conns = wires /\ wires = command.left /\ ExchangeFits(command)
    BY <1>5, <1>6 DEF PortsInv
  <2>2. command.spare = (wires \ gone) \cup come /\ wires = (command.spare \ come) \cup gone
    BY <1>3, <2>1 DEF ExchangeFits
  <2>3. canvas'.conns = (canvas.conns \ gone) \cup come
    BY <1>1
  <2>4. canvas'.conns = wires'
    BY <1>1, <2>1, <2>2, <2>3
  <2>5. /\ cmd.kind = "replace" /\ cmd.done = b /\ cmd.conns = command.conns
        /\ cmd.replaced = command.replaced /\ cmd.spare = wires /\ cmd.left = command.spare
    OBVIOUS
  <2> HIDE DEF cmd
  <2>6. ExchangeFits(cmd)
    BY <2>2, <2>5 DEF ExchangeFits
  <2> QED BY <2>4, <2>6
<1>7. "ports" \notin apart' => Plugged(ports, command.spare) /\ Bundle(wires)
  <2> SUFFICES ASSUME "ports" \notin apart' PROVE Plugged(ports, command.spare) /\ Bundle(wires)
    OBVIOUS
  <2>1. "ports" \notin apart /\ command.spare \subseteq Wires(ports)
    BY <1>1
  <2>2. Plugged(ports, wires) /\ Bundle(command.spare)
    BY <2>1 DEF PortsInv, PlugsInv
  <2> QED BY <2>1, <2>2 DEF Plugged, Bundle
<1>8. CommandFits(cmd, ports, nextPortNode)
  BY <1>3, InvIs, ExchangeIs
<1> HIDE DEF cmd
<1>9. PlugsInv'
  BY <1>1, <1>4, <1>7 DEF PlugsInv
<1>10. canvas' = [nodes |-> DOMAIN ports', conns |-> canvas'.conns] /\ IsFiniteSet(wires') /\ rows' = ports'
  <2>1. (canvas.nodes \ {}) \cup {} = DOMAIN ports'
    BY <1>1, ShownIs
  <2> DEFINE now == (canvas.conns \ gone) \cup come
  <2>2. canvas' = [nodes |-> DOMAIN ports', conns |-> now]
    BY <1>1, <2>1
  <2> HIDE DEF now
  <2>3. canvas' = [nodes |-> DOMAIN ports', conns |-> canvas'.conns]
    BY <2>2
  <2> QED BY <1>1, <1>3, <2>3 DEF PortsInv
<1> QED BY <1>1, <1>4, <1>6, <1>8, <1>9, <1>10 DEF PortsInv

\* An undo keeps the invariant.
LEMMA UndoStep ==
  ASSUME PortsInv, ~thrown, undoPorts
  PROVE  PortsInv'
<1>1. /\ command # NoCommand /\ command.done = TRUE
      /\ CommandFits(command, ports, nextPortNode)
  BY DEF undoPorts, PortsInv, CommandFits, IsCommandRecord
<1>2. Turned => command' = [command EXCEPT !.done = FALSE]
  BY <1>1 DEF Turned
<1>3. CASE command.kind = "delete"
  <2>1. Turned /\ Inserted(command.nodes, command.conns)
    BY <1>3 DEF undoPorts
  <2>2. /\ CommandFits(command', ports, nextPortNode)
        /\ CommandFits(command', Joined(command.nodes, ports), nextPortNode)
        /\ command'.nodes = command.nodes /\ command'.kind = command.kind
    BY <1>1, <1>2, <1>3, <2>1, CommandTurned
  <2>3. /\ Fits(command.nodes, nextPortNode) /\ IsFiniteSet(command.conns)
        /\ DOMAIN command.nodes \cap DOMAIN ports = {}
    BY <1>1 DEF CommandFits
  <2> QED BY <1>3, <2>1, <2>2, <2>3, InsertedStep
<1>4. CASE command.kind = "connect"
  <2>1. Turned /\ Removed({}, command.conns)
    BY <1>4 DEF undoPorts
  <2>2. CommandFits(command', Restrict(ports, DOMAIN ports \ {}), nextPortNode)
    BY <1>1, <1>2, <1>4, <2>1, CommandTurned
  <2>3. {} \in SUBSET DOMAIN ports /\ command'.kind # "replace"
    BY <1>1, <1>2, <1>4, <2>1, CommandTurned
  <2> QED BY <2>1, <2>2, <2>3, RemovedStep
<1>5. CASE command.kind = "replace"
  BY <1>1, <1>5, SwappedStep DEF undoPorts
<1> QED BY <1>3, <1>4, <1>5 DEF undoPorts

\* A redo keeps the invariant.
LEMMA RedoStep ==
  ASSUME PortsInv, ~thrown, redoPorts
  PROVE  PortsInv'
<1>1. /\ command # NoCommand /\ command.done = FALSE
      /\ CommandFits(command, ports, nextPortNode)
  BY DEF redoPorts, PortsInv, CommandFits, IsCommandRecord
<1>2. Turned => command' = [command EXCEPT !.done = TRUE]
  BY <1>1 DEF Turned
<1>3. CASE command.kind = "delete"
  <2> DEFINE ns == DOMAIN command.nodes \cap DOMAIN ports
             left == Restrict(ports, DOMAIN ports \ ns)
  <2>1. Turned /\ Removed(ns, command.conns)
    BY <1>3 DEF redoPorts
  <2>2. DOMAIN command.nodes \cap DOMAIN left = {} /\ TRUE \in BOOLEAN
    BY DEF Restrict
  <2>3. CommandFits(command', Restrict(ports, DOMAIN ports \ ns), nextPortNode) /\ command'.kind # "replace"
    <3> HIDE DEF left
    <3>0. command' = [command EXCEPT !.done = TRUE] /\ command.kind # "replace"
      BY <1>2, <1>3, <2>1
    <3>1. CommandFits(command', left, nextPortNode) /\ command'.kind = command.kind
      BY <1>1, <2>2, <3>0, CommandTurned
    <3> QED BY <1>3, <3>1 DEF left
  <2>4. ns \in SUBSET DOMAIN ports
    OBVIOUS
  <2> HIDE DEF ns
  <2> QED BY <2>1, <2>3, <2>4, RemovedStep
<1>4. CASE command.kind = "connect"
  <2>1. Turned /\ Inserted(command.nodes, command.conns)
    BY <1>4 DEF redoPorts
  <2>2. /\ Fits(command.nodes, nextPortNode) /\ IsFiniteSet(command.conns)
        /\ DOMAIN command.nodes = {}
    BY <1>1, <1>4 DEF CommandFits
  <2>3. /\ CommandFits(command', ports, nextPortNode)
        /\ CommandFits(command', Joined(command.nodes, ports), nextPortNode)
        /\ command'.nodes = command.nodes /\ command'.kind = command.kind
    <3> DEFINE more == Joined(command.nodes, ports)
    <3>1. command' = [command EXCEPT !.done = TRUE] /\ command.kind # "replace" /\ TRUE \in BOOLEAN
      BY <1>2, <1>4, <2>1
    <3>2. DOMAIN command.nodes \cap DOMAIN ports = {} /\ DOMAIN command.nodes \cap DOMAIN more = {}
      BY <2>2
    <3> HIDE DEF more
    <3>3. CommandFits(command', ports, nextPortNode) /\ CommandFits(command', more, nextPortNode)
      BY <1>1, <3>1, <3>2, CommandTurned
    <3>4. command'.nodes = command.nodes /\ command'.kind = command.kind
      BY <1>1, <3>1, <3>2, CommandTurned
    <3> QED BY <3>3, <3>4 DEF more
  <2>4. DOMAIN command.nodes \cap DOMAIN ports = {}
    BY <2>2
  <2> QED BY <1>4, <2>1, <2>2, <2>3, <2>4, InsertedStep
<1>5. CASE command.kind = "replace"
  BY <1>1, <1>5, SwappedStep DEF redoPorts
<1> QED BY <1>3, <1>4, <1>5 DEF redoPorts
-----------------------------------------------------------------------------
(* DynamicPortsModel: files.                                               *)

\* The lists of a file.
LEMMA PortFileIs ==
  ASSUME NEW doc \in PortFiles
  PROVE  /\ doc.nodes \in Seq([id : Int, In : Nat, Out : Nat])
         /\ doc.conns \in Seq([outNodeId : Int, outPortIndex : Int, inNodeId : Int, inPortIndex : Int])
BY PortConstants

Gives(node, n, count) == node.id = n /\ count = [In |-> node.In, Out |-> node.Out]

\* What is parsed: the ids of the nodes, each with the counts of its entry.
LEMMA ParsedIs ==
  ASSUME NEW doc
  PROVE  /\ DOMAIN ParsedPorts(doc) = {node.id : node \in Range(doc.nodes)}
         /\ ParsedPorts(doc) = [n \in DOMAIN ParsedPorts(doc) |-> ParsedPorts(doc)[n]]
         /\ \A n \in DOMAIN ParsedPorts(doc) :
              \E node \in Range(doc.nodes) : Gives(node, n, ParsedPorts(doc)[n])
<1>1. /\ DOMAIN ParsedPorts(doc) = {node.id : node \in Range(doc.nodes)}
      /\ ParsedPorts(doc) = [n \in DOMAIN ParsedPorts(doc) |-> ParsedPorts(doc)[n]]
  BY DEF ParsedPorts
<1>2. ASSUME NEW n \in DOMAIN ParsedPorts(doc)
      PROVE  \E node \in Range(doc.nodes) : Gives(node, n, ParsedPorts(doc)[n])
  <2> DEFINE chosen == CHOOSE node \in Range(doc.nodes) : node.id = n
  <2>1. \E node \in Range(doc.nodes) : node.id = n
    BY <1>1
  <2>2. chosen \in Range(doc.nodes) /\ chosen.id = n
    BY <2>1
  <2>3. ParsedPorts(doc)[n] = [In |-> chosen.In, Out |-> chosen.Out]
    BY <1>1 DEF ParsedPorts
  <2> HIDE DEF chosen
  <2> QED BY <2>2, <2>3 DEF Gives
<1> QED BY <1>1, <1>2

\* Two numbers are the counts of a node.
LEMMA PairIsCount ==
  ASSUME NEW a \in Nat, NEW b \in Nat
  PROVE  [In |-> a, Out |-> b] \in [PortSides -> Nat]
BY DEF PortSides

\* What parse_graph() lets through is a graph in its budgets.
LEMMA ParsedFits ==
  ASSUME NEW doc \in PortFiles, parse_graph(doc), NEW next \in Int,
         \A node \in Range(doc.nodes) : node.id < next
  PROVE  Fits(ParsedPorts(doc), next) /\ Budgeted(ParsedPorts(doc))
<1> DEFINE f == ParsedPorts(doc)
<1>1. \A i \in DOMAIN doc.nodes :
        /\ doc.nodes[i] \in [id : Int, In : Nat, Out : Nat]
        /\ doc.nodes[i].id \in PortNodeId
        /\ doc.nodes[i].In <= MaxPortsPerNode /\ doc.nodes[i].Out <= MaxPortsPerNode
  <2>1. doc.nodes \in Seq([id : Int, In : Nat, Out : Nat])
    BY PortFileIs
  <2>2. \A i \in DOMAIN doc.nodes : doc.nodes[i] \in [id : Int, In : Nat, Out : Nat]
    BY <2>1, ListEntries
  <2>3. \A i \in DOMAIN doc.nodes :
          /\ doc.nodes[i].id \in PortNodeId
          /\ doc.nodes[i].In <= MaxPortsPerNode /\ doc.nodes[i].Out <= MaxPortsPerNode
    BY DEF parse_graph
  <2> QED BY <2>2, <2>3
<1>2. \A node \in Range(doc.nodes) :
        /\ node.id \in PortNodeId /\ node.In \in Nat /\ node.Out \in Nat
        /\ node.In <= MaxPortsPerNode /\ node.Out <= MaxPortsPerNode
  BY <1>1 DEF Range
<1>3. IsFiniteSet(DOMAIN f)
  <2> DEFINE R == Range(doc.nodes)
             h == [node \in R |-> node.id]
             named == {node.id : node \in R}
  <2>1. h \in [R -> named] /\ \A t \in named : \E s \in R : h[s] = t
    OBVIOUS
  <2>2. IsFiniteSet(R)
    BY PortFileIs, ListFinite
  <2>3. DOMAIN f = named
    BY ParsedIs
  <2> HIDE DEF h, named, R, f
  <2>4. IsFiniteSet(named)
    BY <2>1, <2>2, FiniteImage
  <2> QED BY <2>3, <2>4
<1>4. ASSUME NEW n \in DOMAIN f
      PROVE  /\ f[n] \in [PortSides -> Nat] /\ n \in PortNodeId /\ n < next
             /\ f[n].In <= MaxPortsPerNode /\ f[n].Out <= MaxPortsPerNode
  <2>0. PICK node \in Range(doc.nodes) : Gives(node, n, f[n])
    BY ParsedIs
  <2>1. node.id = n /\ f[n] = [In |-> node.In, Out |-> node.Out]
    BY <2>0 DEF Gives
  <2>2. f[n].In = node.In /\ f[n].Out = node.Out
    BY <2>1
  <2> QED BY <1>2, <2>1, <2>2, PairIsCount
<1>5. AreCounts(f)
  <2>1. f = [n \in DOMAIN f |-> f[n]]
    BY ParsedIs
  <2> HIDE DEF f
  <2>2. f \in [DOMAIN f -> [PortSides -> Nat]]
    BY <1>4, <2>1
  <2> QED BY <1>3, <2>2 DEF AreCounts
<1>6. Fits(f, next)
  <2>1. \A n \in DOMAIN f, side \in PortSides : f[n][side] <= MaxPortsPerNode
    BY <1>4 DEF PortSides
  <2> HIDE DEF f
  <2> QED BY <1>4, <1>5, <2>1 DEF Fits
<1>7. Budgeted(f)
  BY DEF parse_graph, Budgeted
<1> QED BY <1>6, <1>7

\* Connections accepted one by one share no plug.
LEMMA ParsedPlugged ==
  ASSUME NEW doc \in PortFiles, parse_graph(doc)
  PROVE  Plugged(ParsedPorts(doc), Range(doc.conns))
<1> DEFINE f == ParsedPorts(doc)
           R == Range(doc.conns)
           list == doc.conns
           before(i) == {list[j] : j \in 1 .. i - 1}
<1>1. /\ Len(list) \in Nat /\ DOMAIN list = 1 .. Len(list) /\ IsFiniteSet(R)
      /\ Cardinality(R) <= Len(list) /\ Cardinality(R) \in Nat
  BY PortFileIs, ListFinite
<1>2. /\ Len(list) <= MaxConnections
      /\ \A i \in DOMAIN list : connectable(f, before(i), list[i], {})
  BY DEF parse_graph
<1>3. \A i \in DOMAIN list :
        /\ list[i] \in Wires(f)
        /\ \A d \in before(i) \ {}, side \in PortSides :
             ~(WireNode(side, d) = WireNode(side, list[i]) /\ WirePort(side, d) = WirePort(side, list[i]))
  <2> SUFFICES ASSUME NEW i \in DOMAIN list
               PROVE  /\ list[i] \in Wires(f)
                      /\ \A d \in before(i) \ {}, side \in PortSides :
                           ~(WireNode(side, d) = WireNode(side, list[i])
                             /\ WirePort(side, d) = WirePort(side, list[i]))
    OBVIOUS
  <2> DEFINE c == list[i]
             b == before(i)
  <2>1. connectable(f, b, c, {})
    BY <1>2
  <2> HIDE DEF f, list, b, c
  <2>2. /\ c \in Wires(f)
        /\ \A d \in b \ {}, side \in PortSides :
             ~(WireNode(side, d) = WireNode(side, c) /\ WirePort(side, d) = WirePort(side, c))
    BY <2>1, ConnectableIs
  <2> QED BY <2>2 DEF b, c
<1>4. ASSUME NEW i \in DOMAIN list, NEW j \in DOMAIN list, j < i
      PROVE  list[j] \in before(i)
  <2>1. j \in 1 .. i - 1
    BY <1>1, <1>4
  <2> QED BY <2>1
<1>5. Unshared(R)
  <2> SUFFICES ASSUME NEW c \in R, NEW d \in R, NEW side \in PortSides,
                      WireNode(side, c) = WireNode(side, d), WirePort(side, c) = WirePort(side, d)
               PROVE  c = d
    BY DEF Unshared
  <2>1. PICK i \in DOMAIN list : c = list[i]
    BY DEF Range
  <2>2. PICK j \in DOMAIN list : d = list[j]
    BY DEF Range
  <2>3. i \in Nat /\ j \in Nat
    BY <1>1
  <2>4. ~(i < j)
    BY <1>3, <1>4, <2>1, <2>2
  <2>5. ~(j < i)
    BY <1>3, <1>4, <2>1, <2>2
  <2>6. i = j
    BY <2>3, <2>4, <2>5
  <2> QED BY <2>1, <2>2, <2>6
<1>6. R \subseteq Wires(f)
  BY <1>3 DEF Range
<1>7. Cardinality(R) <= MaxConnections
  <2> DEFINE a == Cardinality(R)
             b == Len(list)
  <2>1. a \in Nat /\ b \in Nat /\ a <= b /\ b <= MaxConnections /\ MaxConnections \in Nat
    BY <1>1, <1>2, PortConstants
  <2> HIDE DEF a, b
  <2>2. a <= MaxConnections
    BY <2>1
  <2> QED BY <2>2 DEF a
<1> HIDE DEF f, R
<1>8. Plugged(f, R)
  BY <1>1, <1>5, <1>6, <1>7 DEF Plugged
<1> QED BY <1>8 DEF f, R

\* A file that is loaded keeps the invariant.
LEMMA LoadStep ==
  ASSUME PortsInv, ~thrown, NEW doc \in PortFiles, loadPortFile(doc)
  PROVE  PortsInv'
<1> DEFINE f == ParsedPorts(doc)
           R == Range(doc.conns)
           S == {0} \cup {node_id_after(node.id) : node \in Range(doc.nodes)}
           next == Max(S)
<1>1. /\ parse_graph(doc) /\ ports' = f /\ rows' = f /\ wires' = R
      /\ canvas' = [nodes |-> (canvas.nodes \ DOMAIN ports) \cup DOMAIN f,
                    conns |-> (canvas.conns \ wires) \cup R]
      /\ nextPortNode' = next /\ command' = NoCommand /\ thrown' = thrown
      /\ apart' = apart \ {"ports"}
  BY DEF loadPortFile, graphBecomes, Redrawn
<1>2. \A node \in Range(doc.nodes) : node.id \in 0 .. InvalidNodeId - 1
  BY <1>1, PortFileIs DEF parse_graph, PortNodeId, Range
<1>3. InvalidNodeId \in Nat
  BY PortConstants
<1>4. S \in SUBSET (0 .. InvalidNodeId) /\ S # {}
  <2>1. \A node \in Range(doc.nodes) : node.id + 1 \in 0 .. InvalidNodeId
    BY <1>2, <1>3
  <2> QED BY <1>3, <2>1 DEF node_id_after
<1>5. \A node \in Range(doc.nodes) : node.id + 1 \in S
  BY DEF node_id_after
<1> HIDE DEF S
<1>6. next \in S /\ \A y \in S : next >= y
  BY <1>3, <1>4, MaxIs
<1> HIDE DEF next
<1>7. next \in 0 .. InvalidNodeId /\ next \in Int
  BY <1>4, <1>6
<1>8. \A node \in Range(doc.nodes) : node.id < next
  <2> SUFFICES ASSUME NEW node \in Range(doc.nodes) PROVE node.id < next
    OBVIOUS
  <2>1. node.id \in Int /\ next >= node.id + 1
    BY <1>2, <1>5, <1>6
  <2> QED BY <1>7, <2>1
<1>9. Fits(f, next) /\ Budgeted(f) /\ Plugged(f, R)
  BY <1>1, <1>7, <1>8, ParsedFits, ParsedPlugged
<1>10. /\ canvas' = [nodes |-> DOMAIN f, conns |-> canvas'.conns]
       /\ "scene" \notin apart' => canvas'.conns = R
  <2> HIDE DEF f, R
  <2>1. "scene" \notin apart' => "scene" \notin apart
    BY <1>1
  <2> QED BY <1>1, <2>1 DEF PortsInv
<1> HIDE DEF f, R
<1>11. PlugsInv' /\ IsFiniteSet(wires')
  BY <1>1, <1>9 DEF PlugsInv, Plugged
<1> QED BY <1>1, <1>7, <1>9, <1>10, <1>11 DEF PortsInv
\* Two nodes are two.
LEMMA TwoNumbers == IsFiniteSet({0, 1}) /\ Cardinality({0, 1}) = 2
<1>1. IsFiniteSet({0}) /\ Cardinality({0}) = 1
  BY FS_Singleton
<1>2. {0} \cup {1} = {0, 1} /\ 1 \notin {0}
  OBVIOUS
<1>3. IsFiniteSet({0} \cup {1}) /\ Cardinality({0} \cup {1}) = Cardinality({0}) + 1
  BY <1>1, <1>2, FS_AddElement
<1> QED BY <1>1, <1>2, <1>3

\* The graph of initializeModel() fits.
LEMMA FirstGraphFits ==
  ASSUME NEW f, f = [n \in {0, 1} |-> [In |-> 1, Out |-> 1]]
  PROVE  Fits(f, 2) /\ Budgeted(f)
<1>1. DOMAIN f = {0, 1} /\ \A n \in {0, 1} : f[n] = [In |-> 1, Out |-> 1] /\ f[n].In = 1 /\ f[n].Out = 1
  OBVIOUS
<1>2. \A n \in {0, 1} : f[n] \in [PortSides -> Nat]
  BY <1>1, PairIsCount
<1>3. AreCounts(f)
  <2>1. f \in [DOMAIN f -> [PortSides -> Nat]]
    BY <1>1, <1>2
  <2> QED BY <1>1, <2>1, TwoNumbers DEF AreCounts
<1>4. Fits(f, 2)
  <2>1. \A n \in DOMAIN f : n \in PortNodeId /\ n < 2
    BY <1>1, PortConstants DEF PortNodeId
  <2>2. \A n \in DOMAIN f, side \in PortSides : f[n][side] <= MaxPortsPerNode
    BY <1>1, PortConstants DEF PortSides
  <2> QED BY <1>3, <2>1, <2>2 DEF Fits
<1>5. PortTotal(f) = 4
  <2>1. \A n \in {0, 1} : width(f, n) = 2
    BY <1>1 DEF width
  <2>2. /\ IsFiniteSet(Places(f, {0})) /\ Cardinality(Places(f, {0})) = 2
        /\ IsFiniteSet(Places(f, {1})) /\ Cardinality(Places(f, {1})) = 2
    <3>1. width(f, 0) \in Nat /\ width(f, 1) \in Nat /\ width(f, 0) = 2 /\ width(f, 1) = 2
      BY <2>1
    <3> QED BY <3>1, PlacesOfOne
  <2>3. Places(f, {0}) \cap Places(f, {1}) = {}
    BY DEF Places
  <2>4. Places(f, DOMAIN f) = Places(f, {0}) \cup Places(f, {1})
    BY <1>1 DEF Places
  <2>5. Cardinality(Places(f, {0}) \cup Places(f, {1}))
        = Cardinality(Places(f, {0})) + Cardinality(Places(f, {1}))
    BY <2>2, <2>3, DisjointSum
  <2>6. Cardinality(Places(f, DOMAIN f)) = 4
    BY <2>2, <2>4, <2>5
  <2> QED BY <1>3, <2>6, TotalIs
<1>6. Budgeted(f)
  BY <1>1, <1>5, TwoNumbers, PortConstants DEF Budgeted
<1> QED BY <1>4, <1>6

\* initializeModel() satisfies the invariant.
LEMMA FirstStep == ASSUME PortsInit PROVE PortsInv
<1> DEFINE c == [outNodeId |-> 0, outPortIndex |-> 0, inNodeId |-> 1, inPortIndex |-> 0]
<1>1. /\ ports = [n \in {0, 1} |-> [In |-> 1, Out |-> 1]] /\ rows = ports
      /\ wires = {c} /\ nextPortNode = 2
      /\ canvas = [nodes |-> {0, 1}, conns |-> {c}]
      /\ command = NoCommand /\ apart = {} /\ thrown = FALSE
  BY DEF PortsInit
<1>2. Fits(ports, nextPortNode) /\ Budgeted(ports) /\ DOMAIN ports = {0, 1}
  BY <1>1, FirstGraphFits
<1>3. c \in Wires(ports)
  <2>1. \A n \in {0, 1} : ports[n].In = 1 /\ ports[n].Out = 1
    BY <1>1
  <2>2. /\ c.outNodeId = 0 /\ c.outPortIndex = 0 /\ c.inNodeId = 1 /\ c.inPortIndex = 0
        /\ c = [outNodeId |-> c.outNodeId, outPortIndex |-> c.outPortIndex,
                inNodeId |-> c.inNodeId, inPortIndex |-> c.inPortIndex]
    OBVIOUS
  <2>3. 0 \in 0 .. MaxPortsPerNode - 1
    BY PortConstants
  <2> HIDE DEF c
  <2>4. \A side \in PortSides :
              /\ WireNode(side, c) \in DOMAIN ports
              /\ WirePort(side, c) \in 0 .. MaxPortsPerNode - 1
              /\ WirePort(side, c) < ports[WireNode(side, c)][side]
    BY <1>2, <2>1, <2>2, <2>3 DEF PortSides, WireNode, WirePort
  <2> QED BY <2>2, <2>4, WireIn
<1> HIDE DEF c
<1>4. Plugged(ports, wires)
  <2>1. IsFiniteSet({c}) /\ Cardinality({c}) = 1
    BY FS_Singleton
  <2>2. Unshared({c})
    BY DEF Unshared
  <2> QED BY <1>1, <1>3, <2>1, <2>2, PortConstants DEF Plugged
<1>5. nextPortNode \in 0 .. InvalidNodeId
  BY <1>1, PortConstants
<1> QED BY <1>1, <1>2, <1>4, <1>5 DEF PortsInv, PlugsInv, Plugged

\* A clicked button keeps the invariant.
LEMMA ClickStep ==
  ASSUME PortsInv, ~thrown, clickButton
  PROVE  PortsInv'
<1>1. PICK n \in DOMAIN rows, side \in PortSides :
        \E i \in 0 .. rows[n][side] - 1 : onPlusClicked(n, side, i) \/ onMinusClicked(n, side, i)
  BY DEF clickButton
<1>2. PICK i \in 0 .. rows[n][side] - 1 : onPlusClicked(n, side, i) \/ onMinusClicked(n, side, i)
  BY <1>1
<1>3. rows = ports /\ n \in DOMAIN ports
  BY DEF PortsInv
<1>4. ports[n][side] \in Nat
  BY <1>3, InvIs DEF AreCounts
<1>5. i \in Nat /\ i < ports[n][side]
  BY <1>2, <1>3, <1>4
<1> QED BY <1>2, <1>3, <1>5, AddPortStep, RemovePortStep

\* Every step keeps the invariant.
LEMMA PortsStep ==
  ASSUME PortsInv, [PortsNext]_portVars
  PROVE  PortsInv'
<1>1. CASE UNCHANGED portVars
  BY <1>1 DEF PortsInv, PlugsInv, portVars, Blocked
<1>2. CASE PortsNext
  <2>1. ~thrown
    BY <1>2 DEF PortsNext
  <2>2. CASE addPortNode
    BY <2>1, <2>2, NewNodeStep
  <2>3. CASE \E n \in DOMAIN ports, side \in PortSides, count \in 0 .. MaxPortsPerNode :
               setPortCount(n, side, count)
    BY <2>1, <2>3, SetCountStep
  <2>4. CASE clickButton
    BY <2>1, <2>4, ClickStep
  <2>5. CASE dragWire
    BY <2>1, <2>5, ConnectStep, ReplaceStep DEF dragWire
  <2>6. CASE deleteSelected
    <3>1. CASE \E ns \in SUBSET DOMAIN ports : deleteSelection(ns, {})
      BY <2>1, <3>1, DeletionStep, FS_EmptySet
    <3>2. CASE \E c \in canvas.conns : deleteSelection({}, {c})
      <4>1. {} \in SUBSET DOMAIN ports /\ \A c \in canvas.conns : IsFiniteSet({c})
        BY FS_Singleton
      <4> QED BY <2>1, <3>2, <4>1, DeletionStep
    <3> QED BY <2>6, <3>1, <3>2 DEF deleteSelected
  <2>7. CASE undoPorts
    BY <2>1, <2>7, UndoStep
  <2>8. CASE redoPorts
    BY <2>1, <2>8, RedoStep
  <2>9. CASE \E doc \in PortFiles : loadPortFile(doc)
    BY <2>1, <2>9, LoadStep
  <2> QED BY <1>2, <2>2, <2>3, <2>4, <2>5, <2>6, <2>7, <2>8, <2>9 DEF PortsNext
<1> QED BY <1>1, <1>2

\* The invariant holds.
LEMMA PortsHold == PortsSpec => []PortsInv
BY FirstStep, PortsStep, PTL DEF PortsSpec

\* Each node has one button row per port, and the scene shows the nodes of the
\* model and no others; it shows the connections of the model and no others
\* unless an exchange was taken back, or made again, on other connections than
\* it had left (PortAddRemoveWidget, the signals of the model, publishUndo).
THEOREM RowsAndSceneFollow == PortsSpec => []WidgetsAndSceneFollow
<1>1. PortsInv => WidgetsAndSceneFollow
  BY DEF PortsInv, WidgetsAndSceneFollow
<1> QED BY <1>1, PortsHold, PTL

\* An undone deletion throws only when the graph is full: no id it brings back
\* was ever given to another node (newNodeId, loadNode, load_graph_from_file).
THEOREM UndoNeedsOnlyRoom == PortsSpec => []UndoFailsOnlyWhenFull
<1>1. PortsInv => UndoFailsOnlyWhenFull
  BY DEF PortsInv, UndoFailsOnlyWhenFull, Blocked, CommandFits, Fits
<1> QED BY <1>1, PortsHold, PTL

\* The invariant types the variables.
LEMMA InvIsTyped == ASSUME PortsInv PROVE PortsTypeOK
<1>1. ASSUME NEW n \in DOMAIN ports PROVE ports[n] \in [PortSides -> 0 .. MaxPortsPerNode]
  <2>1. ports[n] \in [PortSides -> Nat]
    BY InvIs DEF AreCounts
  <2>2. \A side \in PortSides : ports[n][side] \in 0 .. MaxPortsPerNode
    BY InvIs, CountAt
  <2> QED BY <2>1, <2>2
<1> QED BY <1>1 DEF PortsInv, PortsTypeOK, Fits

record(f, n) == [id |-> n, In |-> f[n].In, Out |-> f[n].Out]
records(f) == {record(f, n) : n \in DOMAIN f}

\* The fields of an entry.
LEMMA RecordIs ==
  \A f, n : record(f, n).id = n /\ record(f, n).In = f[n].In /\ record(f, n).Out = f[n].Out
BY DEF record

\* A file has one entry a node.
LEMMA RecordsCount ==
  ASSUME NEW f, IsFiniteSet(DOMAIN f)
  PROVE  IsFiniteSet(records(f)) /\ Cardinality(records(f)) = Cardinality(DOMAIN f)
<1> DEFINE h == [n \in DOMAIN f |-> record(f, n)]
           R == records(f)
<1>1. h \in [DOMAIN f -> R] /\ \A r \in R : \E n \in DOMAIN f : h[n] = r
  BY DEF records
<1>2. \A m, n \in DOMAIN f : h[m] = h[n] => m = n
  BY RecordIs
<1> HIDE DEF h, R
<1>3. h \in Bijection(DOMAIN f, R)
  BY <1>1, <1>2 DEF Bijection, Injection, Surjection, IsInjective
<1>4. ExistsBijection(DOMAIN f, R)
  BY <1>3 DEF ExistsBijection
<1>5. IsFiniteSet(R) /\ Cardinality(R) = Cardinality(DOMAIN f)
  BY <1>4, FS_Bijection
<1> QED BY <1>5 DEF R

\* The lists of the file a graph is saved in.
LEMMA SavedPorts ==
  ASSUME NEW f, NEW cs
  PROVE  saved(f, cs).nodes = SetToSeq(records(f)) /\ saved(f, cs).conns = SetToSeq(cs)
BY DEF saved, records, record

\* Ports written and parsed are the ports.
LEMMA PortsComeBack ==
  ASSUME NEW f, AreCounts(f), NEW doc, Range(doc.nodes) = records(f)
  PROVE  ParsedPorts(doc) = f
<1> DEFINE g == ParsedPorts(doc)
<1>1. DOMAIN g = DOMAIN f
  <2>1. {node.id : node \in records(f)} = DOMAIN f
    <3>1. \A n \in DOMAIN f : record(f, n) \in records(f) /\ record(f, n).id = n
      BY RecordIs DEF records
    <3>2. \A node \in records(f) : node.id \in DOMAIN f
      BY RecordIs DEF records
    <3> QED BY <3>1, <3>2
  <2> QED BY <2>1, ParsedIs
<1>2. g = [n \in DOMAIN g |-> g[n]] /\ f = [n \in DOMAIN f |-> f[n]]
  BY ParsedIs DEF AreCounts
<1>3. ASSUME NEW n \in DOMAIN f PROVE g[n] = f[n]
  <2>1. PICK node \in records(f) : Gives(node, n, g[n])
    BY <1>1, ParsedIs
  <2>2. node = record(f, n)
    BY <2>1, RecordIs DEF Gives, records
  <2>3. g[n] = [In |-> f[n].In, Out |-> f[n].Out]
    BY <2>1, <2>2, RecordIs DEF Gives
  <2>4. f[n] \in [PortSides -> Nat]
    BY CountsOf
  <2>5. f[n] = [In |-> f[n].In, Out |-> f[n].Out]
    BY <2>4 DEF PortSides
  <2> QED BY <2>3, <2>5
<1> HIDE DEF g
<1>4. g = f
  BY <1>1, <1>2, <1>3
<1> QED BY <1>4 DEF g

\* Connections written one after another are each accepted.
LEMMA WiresComeBack ==
  ASSUME NEW f, NEW cs, Plugged(f, cs), NEW i \in DOMAIN SetToSeq(cs)
  PROVE  connectable(f, {SetToSeq(cs)[j] : j \in 1 .. i - 1}, SetToSeq(cs)[i], {})
<1> DEFINE list == SetToSeq(cs)
           before == {list[j] : j \in 1 .. i - 1}
           c == list[i]
           k == Cardinality(cs)
<1>1. /\ k \in Nat /\ list \in [1 .. k -> cs] /\ IsInjective(list) /\ DOMAIN list = 1 .. k
  BY ListOf DEF Plugged
<1>2. c \in cs /\ c \in Wires(f)
  BY <1>1 DEF Plugged
<1>3. \A d \in before : d \in cs /\ d # c
  <2> SUFFICES ASSUME NEW j \in 1 .. i - 1 PROVE list[j] \in cs /\ list[j] # c
    OBVIOUS
  <2> HIDE DEF list
  <2>1. i \in 1 .. k
    BY <1>1 DEF list
  <2> HIDE DEF k
  <2>2. j \in 1 .. k /\ j # i
    BY <1>1, <2>1
  <2> QED BY <1>1, <2>1, <2>2 DEF IsInjective
<1>4. \A side \in PortSides : WiresAt(before, WireNode(side, c), side, WirePort(side, c)) = {}
  <2> SUFFICES ASSUME NEW side \in PortSides, NEW d \in before,
                      WireNode(side, d) = WireNode(side, c), WirePort(side, d) = WirePort(side, c)
               PROVE  FALSE
    BY DEF WiresAt
  <2> HIDE DEF before, c
  <2> QED BY <1>2, <1>3 DEF Plugged, Unshared
<1> HIDE DEF before, c
<1>5. Cardinality((before \ {}) \cup {c}) <= MaxConnections
  <2> DEFINE some == (before \ {}) \cup {c}
  <2>1. some \in SUBSET cs
    BY <1>2, <1>3
  <2> HIDE DEF some, k
  <2>2. Cardinality(some) <= Cardinality(cs) /\ Cardinality(some) \in Nat /\ Cardinality(cs) \in Nat
    BY <2>1, FS_Subset, FS_CardinalityType DEF Plugged
  <2>3. Cardinality(some) <= MaxConnections
    BY <2>2, PortConstants DEF Plugged
  <2> QED BY <2>3 DEF some
<1>6. connectable(f, before, c, {})
  BY <1>2, <1>3, <1>4, <1>5 DEF connectable
<1> QED BY <1>6 DEF before, c

\* Under the invariant the ports are saved and load, with any connections that
\* are plugged into them.
LEMMA SavedParses ==
  ASSUME PortsInv, NEW cs, Plugged(ports, cs)
  PROVE  LET doc == saved(ports, cs)
         IN  parse_graph(doc) /\ ParsedPorts(doc) = ports /\ Range(doc.conns) = cs
<1> DEFINE doc == saved(ports, cs)
<1>0. IsFiniteSet(cs)
  BY DEF Plugged
<1>1. doc.nodes = SetToSeq(records(ports)) /\ doc.conns = SetToSeq(cs)
  BY SavedPorts
<1>2. IsFiniteSet(records(ports)) /\ Cardinality(records(ports)) = Cardinality(DOMAIN ports)
  BY InvIs, RecordsCount
<1>3. /\ Range(doc.nodes) = records(ports) /\ Len(doc.nodes) = Cardinality(DOMAIN ports)
      /\ DOMAIN doc.nodes = 1 .. Cardinality(records(ports))
      /\ doc.nodes \in Seq(records(ports))
  BY <1>1, <1>2, ListOf
<1>4. Range(doc.conns) = cs /\ Len(doc.conns) = Cardinality(cs)
  BY <1>0, <1>1, ListOf
<1> HIDE DEF doc
<1>5. ParsedPorts(doc) = ports
  BY <1>3, InvIs, PortsComeBack
<1>6. \A i \in DOMAIN doc.nodes :
        /\ doc.nodes[i].id \in PortNodeId
        /\ doc.nodes[i].In <= MaxPortsPerNode /\ doc.nodes[i].Out <= MaxPortsPerNode
  <2> SUFFICES ASSUME NEW i \in DOMAIN doc.nodes
               PROVE  /\ doc.nodes[i].id \in PortNodeId
                      /\ doc.nodes[i].In <= MaxPortsPerNode /\ doc.nodes[i].Out <= MaxPortsPerNode
    OBVIOUS
  <2>1. doc.nodes[i] \in records(ports)
    BY <1>3, ListEntries
  <2>2. PICK n \in DOMAIN ports : doc.nodes[i] = record(ports, n)
    BY <2>1 DEF records
  <2>3. /\ n \in PortNodeId
        /\ \A side \in PortSides : ports[n][side] <= MaxPortsPerNode
    BY InvIs DEF Fits
  <2> QED BY <2>2, <2>3, RecordIs DEF PortSides
<1>7. \A i \in DOMAIN doc.conns :
        connectable(ports, {doc.conns[j] : j \in 1 .. i - 1}, doc.conns[i], {})
  BY <1>1, WiresComeBack
<1>8. parse_graph(doc)
  BY <1>3, <1>4, <1>5, <1>6, <1>7 DEF parse_graph, PortsInv, Budgeted, Plugged
<1> QED BY <1>4, <1>5, <1>8 DEF doc

\* Under the invariant the graph that is saved loads.
LEMMA SavedAgain == ASSUME PortsInv PROVE SavedGraphLoads
<1> DEFINE doc(cs) == saved(ports, cs)
<1>1. Plugged(ports, {})
  BY FS_EmptySet, PortConstants DEF Plugged, Unshared
<1>2. parse_graph(doc({})) /\ ParsedPorts(doc({})) = ports
  BY <1>1, SavedParses
<1>3. "ports" \notin apart => parse_graph(doc(wires)) /\ Range(doc(wires).conns) = wires
  BY InvIs, SavedParses
<1> QED BY <1>2, <1>3, InvIsTyped DEF SavedGraphLoads

\* The graph that save() writes is accepted by load() and comes back as it was,
\* after any edits, undos and loads; its connections do so unless an exchange was
\* taken back or made again since the last load whose index names ports that
\* have gone (save, parse_graph, ReplaceConnectionCommand).
THEOREM GraphLoadsBack == PortsSpec => []SavedGraphLoads
BY SavedAgain, PortsHold, PTL
-----------------------------------------------------------------------------
(* NodeGeometry.  A size that was stored after the last change is that of  *)
(* the content, so what is shown is arithmetic about sizes and positions.  *)

\* m is the greatest number of S.
IsGreatest(S, m) == m \in S /\ \A y \in S : m >= y

\* One more number: the greatest is the old one or the new one.
LEMMA GreatestWith ==
  ASSUME NEW S \in SUBSET Nat, NEW m, IsGreatest(S, m), NEW x \in Nat
  PROVE  \E k : IsGreatest(S \cup {x}, k)
<1>1. m \in Nat
  BY DEF IsGreatest
<1>2. CASE m >= x
  <2>1. IsGreatest(S \cup {x}, m)
    BY <1>1, <1>2 DEF IsGreatest
  <2> QED BY <2>1
<1>3. CASE ~(m >= x)
  <2>1. \A y \in S : x >= y
    BY <1>1, <1>3 DEF IsGreatest
  <2>2. IsGreatest(S \cup {x}, x)
    BY <2>1 DEF IsGreatest
  <2> QED BY <2>2
<1> QED BY <1>2, <1>3

\* A finite set of naturals without a greatest number would have one of least
\* size, and that one less an element has a greatest number.
LEMMA FiniteHasGreatest ==
  ASSUME NEW S \in SUBSET Nat, IsFiniteSet(S), S # {}
  PROVE  \E m : IsGreatest(S, m)
<1> DEFINE Bad(U) == U \in SUBSET Nat /\ IsFiniteSet(U) /\ U # {} /\ ~(\E m : IsGreatest(U, m))
           T == {k \in Nat : \E U \in SUBSET Nat : Bad(U) /\ Cardinality(U) = k}
<1>1. SUFFICES ASSUME ~(\E m : IsGreatest(S, m)) PROVE FALSE
  OBVIOUS
<1>2. Bad(S) /\ Cardinality(S) \in Nat
  BY <1>1, FS_CardinalityType
<1>3. Cardinality(S) \in T
  BY <1>2
<1>4. T \in SUBSET Nat /\ T # {}
  BY <1>3
<1>5. PICK k \in T : \A j \in T : k <= j
  BY <1>4, Counting!LeastNat
<1>6. PICK U \in SUBSET Nat : Bad(U) /\ Cardinality(U) = k
  BY <1>5
<1>7. PICK x : x \in U
  BY <1>6
<1>8. x \in Nat /\ U \ {x} \in SUBSET Nat /\ U = (U \ {x}) \cup {x}
  BY <1>7
<1>9. IsFiniteSet(U \ {x}) /\ Cardinality(U \ {x}) = k - 1
  BY <1>6, <1>7, FS_RemoveElement
<1>10. k \in Nat /\ k - 1 \notin T
  BY <1>5
<1>11. Cardinality(U \ {x}) \in Nat
  BY <1>9, FS_CardinalityType
<1>12. ~Bad(U \ {x})
  BY <1>8, <1>9, <1>10, <1>11
<1>13. CASE U \ {x} = {}
  <2>1. IsGreatest(U, x)
    BY <1>7, <1>8, <1>13 DEF IsGreatest
  <2> QED BY <2>1, <1>6
<1>14. CASE U \ {x} # {}
  <2>1. PICK m : IsGreatest(U \ {x}, m)
    BY <1>8, <1>9, <1>12, <1>14
  <2>2. \E j : IsGreatest((U \ {x}) \cup {x}, j)
    BY <1>8, <2>1, GreatestWith
  <2> QED BY <2>2, <1>8, <1>6
<1> QED BY <1>13, <1>14

\* Most() is at least each number of the set.
LEMMA MostIs ==
  ASSUME NEW S \in SUBSET Nat, IsFiniteSet(S)
  PROVE  Most(S) \in Nat /\ \A x \in S : x <= Most(S)
<1> DEFINE T == S \cup {0}
<1>1. T \in SUBSET Nat /\ IsFiniteSet(T) /\ T # {}
  BY FS_AddElement
<1>2. \E m \in T : \A y \in T : m >= y
  BY <1>1, FiniteHasGreatest DEF IsGreatest
<1>3. Max(T) \in T /\ \A y \in T : Max(T) >= y
  BY <1>2 DEF Max
<1>4. Most(S) = Max(T)
  BY DEF Most
<1> HIDE DEF T
<1>5. Most(S) \in Nat /\ \A y \in T : y <= Most(S)
  BY <1>1, <1>3, <1>4
<1> QED BY <1>5 DEF T

\* Most() of a few numbers, as the sizes take it.
LEMMA MostOfTwo ==
  ASSUME NEW a \in Nat, NEW b \in Nat
  PROVE  Most({a, b}) \in Nat /\ a <= Most({a, b}) /\ b <= Most({a, b})
<1>1. {a, b} \in SUBSET Nat /\ IsFiniteSet({a, b})
  <2>1. IsFiniteSet({a}) /\ {a, b} = {a} \cup {b}
    BY FS_Singleton
  <2> QED BY <2>1, FS_AddElement
<1> QED BY <1>1, MostIs

\* The same of three.
LEMMA MostOfThree ==
  ASSUME NEW a \in Nat, NEW b \in Nat, NEW d \in Nat
  PROVE  /\ Most({a, b, d}) \in Nat
         /\ a <= Most({a, b, d}) /\ b <= Most({a, b, d}) /\ d <= Most({a, b, d})
<1>1. {a, b, d} \in SUBSET Nat /\ IsFiniteSet({a, b, d})
  <2>1. IsFiniteSet({a}) /\ {a, b} = {a} \cup {b} /\ {a, b, d} = {a, b} \cup {d}
    BY FS_Singleton
  <2>2. IsFiniteSet({a, b})
    BY <2>1, FS_AddElement
  <2> QED BY <2>1, <2>2, FS_AddElement
<1> QED BY <1>1, MostIs

\* The same of four.
LEMMA MostOfFour ==
  ASSUME NEW a \in Nat, NEW b \in Nat, NEW d \in Nat, NEW e \in Nat
  PROVE  /\ Most({a, b, d, e}) \in Nat
         /\ a <= Most({a, b, d, e}) /\ b <= Most({a, b, d, e})
         /\ d <= Most({a, b, d, e}) /\ e <= Most({a, b, d, e})
<1>1. {a, b, d, e} \in SUBSET Nat /\ IsFiniteSet({a, b, d, e})
  <2>1. IsFiniteSet({a}) /\ {a, b} = {a} \cup {b} /\ {a, b, d} = {a, b} \cup {d}
        /\ {a, b, d, e} = {a, b, d} \cup {e}
    BY FS_Singleton
  <2>2. IsFiniteSet({a, b})
    BY <2>1, FS_AddElement
  <2>3. IsFiniteSet({a, b, d})
    BY <2>1, <2>2, FS_AddElement
  <2> QED BY <2>1, <2>3, FS_AddElement
<1> QED BY <1>1, MostIs

-----------------------------------------------------------------------------
(* What a node shows.                                                      *)

\* The labels of a side are a list of lengths.
LEMMA LabelsAre ==
  ASSUME NEW c \in Contents, NEW side \in Sides
  PROVE  /\ portCount(c, side) \in 0 .. MaxLabels
         /\ labels(c, side) \in [1 .. portCount(c, side) -> Label]
         /\ \A i \in 1 .. portCount(c, side) :
              labels(c, side)[i] \in Label /\ labels(c, side)[i] \in Nat
<1>1. c.ports[side] \in UNION {[1 .. k -> Label] : k \in 0 .. MaxLabels}
  BY DEF Contents
<1>2. PICK k \in 0 .. MaxLabels : c.ports[side] \in [1 .. k -> Label]
  BY <1>1
<1>3. k \in Nat
  BY GeometryConstants
<1>4. c.ports[side] \in Seq(Label) /\ Len(c.ports[side]) = k
  BY <1>2, <1>3
<1> QED BY <1>2, <1>3, <1>4, GeometryConstants DEF labels, portCount

\* No label is longer than the advance of its side.
LEMMA AdvanceIs ==
  ASSUME NEW c \in Contents, NEW side \in Sides
  PROVE  /\ maxPortsTextAdvance(c, side) \in Nat
         /\ \A i \in 1 .. portCount(c, side) : labels(c, side)[i] <= maxPortsTextAdvance(c, side)
<1> DEFINE S == {labels(c, side)[i] : i \in DOMAIN labels(c, side)}
<1>1. portCount(c, side) \in Nat /\ DOMAIN labels(c, side) = 1 .. portCount(c, side)
  BY LabelsAre, GeometryConstants
<1>2. S \in SUBSET Nat
  BY <1>1, LabelsAre
<1>3. IsFiniteSet(S)
  <2>1. IsFiniteSet(1 .. portCount(c, side))
    BY <1>1, FS_Interval
  <2>2. labels(c, side) \in [1 .. portCount(c, side) -> S]
    BY <1>1, LabelsAre
  <2>3. \A x \in S : \E i \in 1 .. portCount(c, side) : labels(c, side)[i] = x
    BY <1>1
  <2>4. labels(c, side) \in Surjection(1 .. portCount(c, side), S)
    BY <2>2, <2>3 DEF Surjection
  <2> QED BY <2>1, <2>4, FS_Surjection
<1>4. maxPortsTextAdvance(c, side) = Most(S)
  BY DEF maxPortsTextAdvance
<1>5. \A i \in 1 .. portCount(c, side) : labels(c, side)[i] \in S
  BY <1>1
<1> HIDE DEF S
<1> QED BY <1>2, <1>3, <1>4, <1>5, MostIs

\* Captions, widgets and what ports take are lengths.
LEMMA BoxesAre ==
  ASSUME NEW c \in Contents
  PROVE  /\ c.caption.width \in Nat /\ c.caption.height \in Nat
         /\ widgetSize(c).width \in Nat /\ widgetSize(c).height \in Nat
         /\ iconWidth(c) \in Nat /\ maxPortsExtent(c) \in Nat
<1>1. c.caption \in [width : Nat, height : Nat]
  BY GeometryConstants DEF Contents
<1>2. c.widget \in EmbeddedWidget \/ c.widget = NoWidget
  BY DEF Contents
<1>3. widgetSize(c) \in [width : Nat, height : Nat]
  BY <1>2, GeometryConstants DEF widgetSize
<1>4. iconWidth(c) \in Nat
  BY <1>1, GeometryConstants DEF iconWidth
<1>5. maxPortsExtent(c) \in Nat
  <2> DEFINE S == {portCount(c, s) : s \in Sides}
  <2>1. portCount(c, "In") \in Nat /\ portCount(c, "Out") \in Nat
    BY LabelsAre, GeometryConstants DEF Sides
  <2>2. S = {portCount(c, "In"), portCount(c, "Out")}
    BY DEF Sides
  <2>3. Most(S) \in Nat
    BY <2>1, <2>2, MostOfTwo
  <2>4. maxPortsExtent(c) = step * Most(S) /\ step \in Nat
    BY GeometryConstants DEF maxPortsExtent, step
  <2> HIDE DEF S
  <2> QED BY <2>3, <2>4
<1> QED BY <1>1, <1>3, <1>4, <1>5

\* What the horizontal size leaves room for.
LEMMA HorizontalRoom ==
  ASSUME NEW c \in Contents
  PROVE  LET z == horizontalSize(c)
         IN  /\ z.width \in Nat /\ z.height \in Nat
             /\ z.width >= maxPortsTextAdvance(c, "In") + maxPortsTextAdvance(c, "Out")
                             + 4 * PortSpacing + widgetSize(c).width
             /\ z.width >= c.caption.width
             /\ z.height >= c.caption.height + 2 * PortSpacing + maxPortsExtent(c)
             /\ z.height >= c.caption.height + 2 * PortSpacing + widgetSize(c).height
<1> DEFINE a == maxPortsTextAdvance(c, "In") + maxPortsTextAdvance(c, "Out")
                  + 4 * PortSpacing + widgetSize(c).width
           b == c.caption.width + 2 * PortSpacing
           d == iconWidth(c)
           W == Most({a, b, d})
           e == maxPortsExtent(c)
           h == widgetSize(c).height
           H == Most({e, h})
           busy == IF c.busy THEN 20 ELSE 0
<1>0. PortSpacing \in Nat /\ c.caption.width \in Nat /\ c.caption.height \in Nat /\ busy \in Nat
  BY BoxesAre, GeometryConstants
<1>1. a \in Nat /\ b \in Nat /\ d \in Nat /\ e \in Nat /\ h \in Nat
  <2>1. maxPortsTextAdvance(c, "In") \in Nat /\ maxPortsTextAdvance(c, "Out") \in Nat
    BY AdvanceIs DEF Sides
  <2> QED BY <1>0, <2>1, BoxesAre
<1>2. W \in Nat /\ a <= W /\ b <= W
  <2> HIDE DEF a, b, d
  <2> QED BY <1>1, MostOfThree
<1>3. H \in Nat /\ e <= H /\ h <= H
  <2> HIDE DEF e, h
  <2> QED BY <1>1, MostOfTwo
<1>4. /\ horizontalSize(c).width = W
      /\ horizontalSize(c).height = H + c.caption.height + 2 * PortSpacing + busy
  BY DEF horizontalSize
<1>5. b >= c.caption.width
  BY <1>0
<1> HIDE DEF W, H, busy, a, b, h
<1>6. /\ horizontalSize(c).width \in Nat /\ horizontalSize(c).height \in Nat
      /\ horizontalSize(c).width >= a /\ horizontalSize(c).width >= c.caption.width
      /\ horizontalSize(c).height >= c.caption.height + 2 * PortSpacing + e
      /\ horizontalSize(c).height >= c.caption.height + 2 * PortSpacing + h
  BY <1>0, <1>1, <1>2, <1>3, <1>4, <1>5
<1> QED BY <1>6 DEF a, h

\* What the vertical size leaves room for.
LEMMA VerticalRoom ==
  ASSUME NEW c \in Contents
  PROVE  LET z == verticalSize(c)
         IN  /\ z.width \in Nat /\ z.height \in Nat
             /\ \A side \in Sides : totalPortsWidth(c, side) \in Nat
                                    /\ z.width >= totalPortsWidth(c, side) + 2 * PortSpacing
             /\ z.width >= c.caption.width
             /\ z.height >= c.caption.height + 3 * PortSpacing + portCaptionsHeight(c, "In")
             /\ portCaptionsHeight(c, "In") \in Nat
             /\ z.width >= widgetSize(c).width + 2 * PortSpacing
             /\ z.height >= c.caption.height + 2 * PortSpacing + widgetSize(c).height
<1> DEFINE p == totalPortsWidth(c, "In")
           q == totalPortsWidth(c, "Out")
           w == widgetSize(c).width
           t == c.caption.width
           W == Most({p, q, w, t})
           b == W + 2 * PortSpacing
           d == iconWidth(c)
           V == Most({b, d})
           h == widgetSize(c).height
           H == Most({PortSpacing, h})
           i == portCaptionsHeight(c, "In")
           o == portCaptionsHeight(c, "Out")
<1>0. /\ PortSpacing \in Nat /\ t \in Nat /\ c.caption.height \in Nat
      /\ w \in Nat /\ h \in Nat /\ d \in Nat
  BY BoxesAre, GeometryConstants
<1>1. ASSUME NEW side \in Sides
      PROVE  totalPortsWidth(c, side) \in Nat
  <2>1. maxPortsTextAdvance(c, side) \in Nat /\ portCount(c, side) \in Nat
    BY AdvanceIs, LabelsAre, GeometryConstants
  <2>2. CASE portCount(c, side) = 0
    BY <2>2 DEF totalPortsWidth
  <2>3. CASE portCount(c, side) # 0
    <3>1. portCount(c, side) - 1 \in Nat
      BY <2>1, <2>3
    <3> QED BY <1>0, <2>1, <2>3, <3>1 DEF totalPortsWidth
  <2> QED BY <2>2, <2>3
<1>2. p \in Nat /\ q \in Nat
  BY <1>1 DEF Sides
<1>3. i \in Nat /\ o \in Nat
  BY <1>0 DEF portCaptionsHeight
<1>4. W \in Nat /\ p <= W /\ q <= W /\ t <= W /\ w <= W
  <2> HIDE DEF p, q, w, t
  <2> QED BY <1>0, <1>2, MostOfFour
<1>5. H \in Nat /\ PortSpacing <= H /\ h <= H
  <2> HIDE DEF h
  <2> QED BY <1>0, MostOfTwo
<1>6. b \in Nat
  BY <1>0, <1>4
<1>7. V \in Nat /\ b <= V
  <2> HIDE DEF b, d
  <2> QED BY <1>0, <1>6, MostOfTwo
<1>8. /\ verticalSize(c).width = V
      /\ verticalSize(c).height = H + c.caption.height + 2 * PortSpacing + i + o
  BY DEF verticalSize
<1> HIDE DEF V, W, H, p, q, i, o, t, w, h
<1>9. /\ verticalSize(c).width \in Nat /\ verticalSize(c).height \in Nat
      /\ verticalSize(c).width >= p + 2 * PortSpacing /\ verticalSize(c).width >= q + 2 * PortSpacing
      /\ verticalSize(c).width >= t
      /\ verticalSize(c).height >= c.caption.height + 3 * PortSpacing + i
      /\ verticalSize(c).width >= w + 2 * PortSpacing
      /\ verticalSize(c).height >= c.caption.height + 2 * PortSpacing + h
  BY <1>0, <1>2, <1>3, <1>4, <1>5, <1>7, <1>8
<1> QED BY <1>1, <1>3, <1>9 DEF p, q, t, i, w, h, Sides

-----------------------------------------------------------------------------
(* A size stored after the last change is that of the content.             *)

GeometryInv ==
  /\ orientation \in {"Horizontal", "Vertical"} /\ changed \in BOOLEAN
  /\ content \in Contents
  /\ stored.width \in Nat /\ stored.height \in Nat
  /\ ~changed => stored = sizeOf(orientation, content)

\* The invariant of a node that was measured after its last change.
MeasuredInv == GeometryInv /\ ~changed

\* Sizes are lengths.
LEMMA SizeIs ==
  ASSUME NEW o \in {"Horizontal", "Vertical"}, NEW c \in Contents
  PROVE  sizeOf(o, c).width \in Nat /\ sizeOf(o, c).height \in Nat
<1>1. CASE o = "Horizontal"
  BY <1>1, HorizontalRoom DEF sizeOf
<1>2. CASE o = "Vertical"
  BY <1>2, VerticalRoom DEF sizeOf
<1> QED BY <1>1, <1>2

\* A node that shows something else keeps its size for now.
LEMMA UpdatedInv ==
  ASSUME GeometryInv, NEW c \in Contents, contentBecomes(c)
  PROVE  GeometryInv'
BY DEF GeometryInv, contentBecomes

\* A node that is measured has the size of its content.
LEMMA RecomputedInv ==
  ASSUME NEW o \in {"Horizontal", "Vertical"}, NEW c \in Contents, recomputeSize(o, c),
         orientation' = o, content' = c
  PROVE  GeometryInv'
<1>1. stored' = sizeOf(o, c) /\ changed' = FALSE
  BY DEF recomputeSize
<1>2. stored'.width \in Nat /\ stored'.height \in Nat
  BY <1>1, SizeIs
<1>3. stored' = sizeOf(orientation', content')
  BY <1>1
<1> QED BY <1>1, <1>2, <1>3 DEF GeometryInv

\* Replacing the labels of a side.
LEMMA RelabelledIs ==
  ASSUME NEW c \in Contents, NEW side \in Sides, NEW k \in 0 .. MaxLabels,
         NEW list \in [1 .. k -> Label]
  PROVE  [c EXCEPT !.ports[side] = list] \in Contents
<1>1. list \in UNION {[1 .. j -> Label] : j \in 0 .. MaxLabels}
  OBVIOUS
<1>2. [c.ports EXCEPT ![side] = list] \in [Sides -> UNION {[1 .. j -> Label] : j \in 0 .. MaxLabels}]
  BY <1>1 DEF Contents
<1>3. [c EXCEPT !.ports = [c.ports EXCEPT ![side] = list]] \in Contents
  BY <1>2 DEF Contents
<1>4. [c EXCEPT !.ports[side] = list] = [c EXCEPT !.ports = [c.ports EXCEPT ![side] = list]]
  BY DEF Contents
<1> QED BY <1>3, <1>4

\* A list is a function on its places.
LEMMA ListIs ==
  ASSUME NEW S, NEW list \in Seq(S)
  PROVE  list \in [1 .. Len(list) -> S]
OBVIOUS

\* One port more.
LEMMA AddPortInv ==
  ASSUME GeometryInv, NEW side \in Sides, NEW l \in Label, AddPort(side, l)
  PROVE  GeometryInv'
<1> DEFINE c == content
           k == portCount(c, side)
           list == Append(c.ports[side], l)
<1>1. k \in 0 .. MaxLabels /\ k < MaxLabels /\ c.ports[side] \in [1 .. k -> Label] /\ c \in Contents
  BY LabelsAre DEF GeometryInv, AddPort, labels
<1>2. k \in Nat /\ k + 1 \in 0 .. MaxLabels
  BY <1>1, GeometryConstants
<1>3. c.ports[side] \in Seq(Label) /\ Len(c.ports[side]) = k
  BY <1>1, <1>2 DEF portCount, labels
<1>4. list \in [1 .. k + 1 -> Label]
  <2>1. list \in Seq(Label) /\ Len(list) = k + 1
    BY <1>2, <1>3
  <2> HIDE DEF list, k
  <2> QED BY <2>1, ListIs
<1>5. contentBecomes([c EXCEPT !.ports[side] = list])
  BY DEF AddPort
<1>6. [c EXCEPT !.ports[side] = list] \in Contents
  <2> HIDE DEF list, k, c
  <2> QED BY <1>1, <1>2, <1>4, RelabelledIs
<1> QED BY <1>5, <1>6, UpdatedInv

\* One port less.
LEMMA RemovePortInv ==
  ASSUME GeometryInv, NEW side \in Sides, RemovePort(side)
  PROVE  GeometryInv'
<1> DEFINE c == content
           k == portCount(c, side)
           list == SubSeq(c.ports[side], 1, Len(c.ports[side]) - 1)
<1>1. k \in 0 .. MaxLabels /\ k > 0 /\ c.ports[side] \in [1 .. k -> Label] /\ c \in Contents
  BY LabelsAre DEF GeometryInv, RemovePort, labels
<1>2. k \in Nat /\ k - 1 \in 0 .. MaxLabels
  BY <1>1, GeometryConstants
<1>3. c.ports[side] \in Seq(Label) /\ Len(c.ports[side]) = k
  BY <1>1, <1>2 DEF portCount, labels
<1>4. list \in [1 .. k - 1 -> Label]
  <2>1. list \in Seq(Label) /\ Len(list) = k - 1
    BY <1>1, <1>2, <1>3
  <2> HIDE DEF list, k
  <2> QED BY <2>1, ListIs
<1>5. contentBecomes([c EXCEPT !.ports[side] = list])
  BY DEF RemovePort
<1>6. [c EXCEPT !.ports[side] = list] \in Contents
  <2> HIDE DEF list, k, c
  <2> QED BY <1>1, <1>2, <1>4, RelabelledIs
<1> QED BY <1>5, <1>6, UpdatedInv

\* No step disturbs a size that was stored after the last change.
LEMMA GeometryStep == GeometryInv /\ [GeometryNext]_geometryVars => GeometryInv'
<1> SUFFICES ASSUME GeometryInv, [GeometryNext]_geometryVars PROVE GeometryInv'
  OBVIOUS
<1>1. ASSUME NEW side \in Sides, NEW l \in Label, AddPort(side, l) PROVE GeometryInv'
  BY <1>1, AddPortInv
<1>2. ASSUME NEW side \in Sides, RemovePort(side) PROVE GeometryInv'
  BY <1>2, RemovePortInv
<1>3. ASSUME Decorate PROVE GeometryInv'
  <2>1. PICK c \in Caption, w \in EmbeddedWidget \cup {NoWidget},
             expands \in BOOLEAN, icon \in BOOLEAN, busy \in BOOLEAN, labelled \in BOOLEAN :
          contentBecomes([content EXCEPT !.caption = c, !.widget = w, !.expands = expands,
                                         !.icon = icon, !.busy = busy, !.labelled = labelled])
    BY <1>3 DEF Decorate
  <2>2. [content EXCEPT !.caption = c, !.widget = w, !.expands = expands,
                        !.icon = icon, !.busy = busy, !.labelled = labelled] \in Contents
    BY DEF GeometryInv, Contents
  <2> QED BY <2>1, <2>2, UpdatedInv
<1>4. ASSUME NEW o \in {"Horizontal", "Vertical"}, setOrientation(o) PROVE GeometryInv'
  BY <1>4, RecomputedInv DEF GeometryInv, setOrientation
<1>5. CASE UNCHANGED geometryVars
  BY <1>5 DEF GeometryInv, geometryVars
<1>6. ASSUME onNodeUpdated PROVE GeometryInv'
  BY <1>6, RecomputedInv DEF GeometryInv, onNodeUpdated
<1>7. ASSUME NEW w \in EmbeddedWidget, resizeWidget(w) PROVE GeometryInv'
  <2> DEFINE c == [content EXCEPT !.widget = w]
  <2>1. content' = c /\ recomputeSize(orientation, c) /\ orientation' = orientation
    BY <1>7 DEF resizeWidget, recomputeSize
  <2>2. c \in Contents /\ orientation \in {"Horizontal", "Vertical"}
    BY DEF GeometryInv, Contents
  <2> HIDE DEF c
  <2> QED BY <2>1, <2>2, RecomputedInv
<1> QED BY <1>1, <1>2, <1>3, <1>4, <1>5, <1>6, <1>7 DEF GeometryNext

\* The node without ports has its size.
LEMMA GeometryStarts == GeometryInit => GeometryInv
<1>1. << >> \in [1 .. 0 -> Label] /\ 0 \in 0 .. MaxLabels
  BY GeometryConstants
<1>2. [s \in Sides |-> << >>] \in [Sides -> UNION {[1 .. k -> Label] : k \in 0 .. MaxLabels}]
  BY <1>1
<1>3. bareNode \in Contents
  BY <1>2, GeometryConstants DEF bareNode, Contents
<1>4. sizeOf("Horizontal", bareNode).width \in Nat /\ sizeOf("Horizontal", bareNode).height \in Nat
  BY <1>3, SizeIs
<1> QED BY <1>3, <1>4 DEF GeometryInit, GeometryInv

\* Sizes are lengths, and current unless the content has changed.
LEMMA SizesHold == GeometrySpec => []GeometryInv
BY GeometryStarts, GeometryStep, PTL DEF GeometrySpec

-----------------------------------------------------------------------------
(* Where things are.                                                       *)

\* Ports are counted from 0.
LEMMA PortOf ==
  ASSUME GeometryInv, NEW side \in Sides, NEW i \in portIndices(side)
  PROVE  /\ i \in Nat /\ portCount(content, side) \in Nat
         /\ i + 1 <= portCount(content, side)
         /\ labels(content, side)[i + 1] \in Nat /\ maxPortsTextAdvance(content, side) \in Nat
         /\ labels(content, side)[i + 1] <= maxPortsTextAdvance(content, side)
<1>0. content \in Contents
  BY DEF GeometryInv
<1>1. portCount(content, side) \in Nat
  BY <1>0, LabelsAre, GeometryConstants
<1>2. i \in Nat /\ i + 1 \in 1 .. portCount(content, side)
  BY <1>1 DEF portIndices
<1> QED BY <1>0, <1>1, <1>2, LabelsAre, AdvanceIs

\* The ports of a side come one below the other, all above the lower end.
LEMMA ExtentIs ==
  ASSUME GeometryInv, NEW side \in Sides, NEW i \in portIndices(side)
  PROVE  step \in Nat /\ step * (i + 1) \in Nat /\ step * (i + 1) <= maxPortsExtent(content)
<1>0. content \in Contents
  BY DEF GeometryInv
<1>1. step \in Nat
  BY GeometryConstants DEF step
<1> DEFINE S == {portCount(content, s) : s \in Sides}
           m == Most(S)
           j == i + 1
<1>2. portCount(content, "In") \in Nat /\ portCount(content, "Out") \in Nat
  BY <1>0, LabelsAre, GeometryConstants DEF Sides
<1>3. S = {portCount(content, "In"), portCount(content, "Out")}
  BY DEF Sides
<1>4. m \in Nat /\ portCount(content, side) <= m
  BY <1>2, <1>3, MostOfTwo DEF Sides
<1>5. j \in Nat /\ j <= m
  BY <1>4, PortOf
<1>6. maxPortsExtent(content) = step * m
  BY DEF maxPortsExtent
<1> HIDE DEF m, j, step
<1>7. step * j \in Nat /\ step * j <= step * m
  BY <1>1, <1>4, <1>5
<1> QED BY <1>1, <1>6, <1>7 DEF j

\* In the horizontal layout ports lie on the left and the right border.
LEMMA HorizontalPorts ==
  ASSUME MeasuredInv, orientation = "Horizontal", NEW side \in Sides, NEW i \in portIndices(side)
  PROVE  /\ portPosition(side, i).x \in 0 .. 2 * stored.width
         /\ portPosition(side, i).y \in 0 .. 2 * stored.height
         /\ portPosition(side, i).x \in {0, 2 * stored.width}
<1> DEFINE z == horizontalSize(content)
           h == content.caption.height
           si == step * i
           e == maxPortsExtent(content)
<1> USE DEF MeasuredInv
<1>0. content \in Contents /\ stored = z
  BY DEF MeasuredInv, GeometryInv, sizeOf
<1>1. z.width \in Nat /\ z.height \in Nat /\ z.height >= h + 2 * PortSpacing + e
  BY <1>0, HorizontalRoom
<1>2. h \in Nat /\ PortSpacing \in Nat /\ e \in Nat
  BY <1>0, BoxesAre, GeometryConstants
<1>3. i \in Nat /\ step \in Nat /\ step * (i + 1) <= e
  BY PortOf, ExtentIs
<1>4. si \in Nat /\ step * (i + 1) = si + step
  <2> HIDE DEF step
  <2> QED BY <1>3
<1>5. /\ portPosition(side, i).x = IF side = "In" THEN 0 ELSE 2 * z.width
      /\ portPosition(side, i).y = 2 * (h + PortSpacing + si) + step
  BY <1>0 DEF portPosition, horizontalPort
<1> HIDE DEF z, h, si, e, step
<1>6. portPosition(side, i).y \in 0 .. 2 * z.height
  BY <1>1, <1>2, <1>3, <1>4, <1>5
<1>7. portPosition(side, i).x \in {0, 2 * z.width} /\ {0, 2 * z.width} \subseteq 0 .. 2 * z.width
  BY <1>1, <1>5
<1> QED BY <1>0, <1>6, <1>7

\* In the vertical layout the labels of a side take room next to each other: n
\* of them, a spacing between two, and what is left is shared by both ends.
LEMMA VerticalRow ==
  ASSUME MeasuredInv, orientation = "Vertical", NEW side \in Sides, NEW i \in portIndices(side)
  PROVE  LET a == maxPortsTextAdvance(content, side)
             n == portCount(content, side)
             w == a + PortSpacing
         IN  /\ w \in Nat /\ (n - 1) * w \in Nat /\ i * w \in Nat /\ i * w <= (n - 1) * w
             /\ stored.width \in Nat
             /\ stored.width >= (n - 1) * w + a + 2 * PortSpacing
<1> DEFINE a == maxPortsTextAdvance(content, side)
           n == portCount(content, side)
           w == a + PortSpacing
           total == totalPortsWidth(content, side)
<1> USE DEF MeasuredInv
<1>0. content \in Contents /\ stored = verticalSize(content)
  BY DEF MeasuredInv, GeometryInv, sizeOf
<1>1. a \in Nat /\ n \in Nat /\ i \in Nat /\ i + 1 <= n /\ PortSpacing \in Nat
  BY PortOf, GeometryConstants
<1>2. stored.width \in Nat /\ total \in Nat /\ stored.width >= total + 2 * PortSpacing
  BY <1>0, VerticalRoom
<1>3. n # 0
  BY <1>1
<1>4. total = a * n + PortSpacing * (n - 1)
  BY <1>3 DEF totalPortsWidth
<1> HIDE DEF a, n, total
<1>5. (n - 1) * (a + PortSpacing) = (n - 1) * a + (n - 1) * PortSpacing
  BY <1>1
<1>6. a * n = (n - 1) * a + a
  BY <1>1
<1>7. /\ (n - 1) * a \in Nat /\ (n - 1) * PortSpacing \in Nat
      /\ PortSpacing * (n - 1) = (n - 1) * PortSpacing
  <2>1. n - 1 \in Nat
    BY <1>1
  <2> QED BY <1>1, <2>1
<1>8. (n - 1) * w \in Nat /\ stored.width >= (n - 1) * w + a + 2 * PortSpacing
  BY <1>1, <1>2, <1>4, <1>5, <1>6, <1>7
<1>9. w \in Nat /\ i <= n - 1 /\ n - 1 \in Nat
  BY <1>1
<1> HIDE DEF w
<1>10. i * w \in Nat /\ i * w <= (n - 1) * w
  BY <1>1, <1>9
<1> QED BY <1>2, <1>8, <1>9, <1>10 DEF a, n, w

\* The remainder that unsigned arithmetic leaves.
LEMMA Wrapped ==
  ASSUME NEW x \in Nat
  PROVE  /\ x % UnsignedSize \in Nat /\ x % UnsignedSize <= x
         /\ x < UnsignedSize => x % UnsignedSize = x
BY GeometryConstants

\* In the vertical layout ports lie on the upper and the lower border: the
\* unsigned difference is never taken below zero.
LEMMA VerticalPorts ==
  ASSUME MeasuredInv, orientation = "Vertical", NEW side \in Sides, NEW i \in portIndices(side)
  PROVE  /\ portPosition(side, i).x \in 0 .. 2 * stored.width
         /\ portPosition(side, i).y \in 0 .. 2 * stored.height
         /\ portPosition(side, i).y \in {0, 2 * stored.height}
<1> DEFINE a == maxPortsTextAdvance(content, side)
           n == portCount(content, side)
           w == a + PortSpacing
           nw == (n - 1) * w
           iw == i * w
           left == stored.width - nw
<1> USE DEF MeasuredInv
<1>0. content \in Contents /\ stored = verticalSize(content)
  BY DEF MeasuredInv, GeometryInv, sizeOf
<1>1. stored.width \in Nat /\ stored.height \in Nat
  BY <1>0, VerticalRoom
<1>2. w \in Nat /\ nw \in Nat /\ iw \in Nat /\ iw <= nw
      /\ stored.width >= nw + a + 2 * PortSpacing
  BY VerticalRow
<1>3. a \in Nat /\ PortSpacing \in Nat /\ i \in Nat
  BY PortOf, GeometryConstants
<1>4. /\ portPosition(side, i).x = (left % UnsignedSize) + 2 * i * w
      /\ portPosition(side, i).y = IF side = "In" THEN 0 ELSE 2 * stored.height
  BY DEF portPosition, verticalPort
<1>5. 2 * i * w = 2 * iw
  <2> HIDE DEF w
  <2> QED BY <1>2, <1>3
<1> HIDE DEF a, nw, w, iw
<1>6. left \in Nat
  BY <1>1, <1>2, <1>3
<1>7. left % UnsignedSize \in Nat /\ left % UnsignedSize <= left
  BY <1>6, Wrapped
<1>8. portPosition(side, i).x \in 0 .. 2 * stored.width
  BY <1>1, <1>2, <1>3, <1>4, <1>5, <1>7
<1>9. /\ portPosition(side, i).y \in {0, 2 * stored.height}
      /\ {0, 2 * stored.height} \subseteq 0 .. 2 * stored.height
  BY <1>1, <1>4
<1> QED BY <1>8, <1>9

\* The caption is on the node.
LEMMA CaptionInside ==
  ASSUME MeasuredInv
  PROVE  captionPosition.x >= 0 /\ captionPosition.y <= 2 * stored.height
<1>0. content \in Contents /\ stored = sizeOf(orientation, content)
      /\ orientation \in {"Horizontal", "Vertical"}
  BY DEF MeasuredInv, GeometryInv
<1>1. content.caption.width \in Nat /\ content.caption.height \in Nat /\ PortSpacing \in Nat
      /\ maxPortsExtent(content) \in Nat
  BY <1>0, BoxesAre, GeometryConstants
<1>2. CASE orientation = "Horizontal"
  <2>1. stored = horizontalSize(content)
    BY <1>0, <1>2 DEF sizeOf
  <2>2. /\ stored.width \in Nat /\ stored.height \in Nat /\ stored.width >= content.caption.width
        /\ stored.height >= content.caption.height + 2 * PortSpacing + maxPortsExtent(content)
    BY <1>0, <2>1, HorizontalRoom
  <2>3. /\ captionPosition.x = stored.width - content.caption.width
        /\ captionPosition.y = PortSpacing + 2 * content.caption.height
    BY <1>2 DEF captionPosition, horizontalCaption
  <2> QED BY <1>1, <2>2, <2>3
<1>3. CASE orientation = "Vertical"
  <2>1. stored = verticalSize(content)
    BY <1>0, <1>3 DEF sizeOf
  <2>2. /\ stored.width \in Nat /\ stored.height \in Nat /\ stored.width >= content.caption.width
        /\ stored.height >= content.caption.height + 3 * PortSpacing + portCaptionsHeight(content, "In")
        /\ portCaptionsHeight(content, "In") \in Nat
    BY <1>0, <2>1, VerticalRoom
  <2>3. /\ captionPosition.x = stored.width - content.caption.width
        /\ captionPosition.y =
             2 * (portCaptionsHeight(content, "In") + PortSpacing + content.caption.height)
    BY <1>3 DEF captionPosition, verticalCaption
  <2> QED BY <1>1, <2>2, <2>3
<1> QED BY <1>0, <1>2, <1>3

\* TextsInside, of one label.
LabelInside(side, i) ==
  LET p == portTextPosition(side, i)
      right == p.x + 2 * labels(content, side)[i + 1]
  IN  /\ p.x >= 0 /\ right <= 2 * stored.width
      /\ orientation = "Horizontal" =>
           IF side = "In" THEN right < widgetPosition.x
           ELSE p.x > widgetPosition.x + 2 * widgetSize(content).width

\* A label ends before the widget, or begins after it.
LEMMA HorizontalLabels ==
  ASSUME MeasuredInv, orientation = "Horizontal", NEW side \in Sides, NEW i \in portIndices(side)
  PROVE  LabelInside(side, i)
<1> DEFINE z == horizontalSize(content)
           l == labels(content, side)[i + 1]
           a == maxPortsTextAdvance(content, "In")
           b == maxPortsTextAdvance(content, "Out")
           v == widgetSize(content).width
           p == portTextPosition(side, i)
           x == p.x
           u == widgetPosition.x
<1> USE DEF MeasuredInv
<1>0. content \in Contents /\ stored = z
  BY DEF MeasuredInv, GeometryInv, sizeOf
<1>1. z.width \in Nat /\ z.width >= a + b + 4 * PortSpacing + v
  BY <1>0, HorizontalRoom
<1>2. a \in Nat /\ b \in Nat /\ v \in Nat /\ PortSpacing \in Nat /\ PortSpacing > 0
  BY <1>0, AdvanceIs, BoxesAre, GeometryConstants DEF Sides
<1>3. l \in Nat /\ (side = "In" => l <= a) /\ (side = "Out" => l <= b) /\ side \in {"In", "Out"}
  BY PortOf DEF Sides
<1>4. x = 2 * (IF side = "In" THEN PortSpacing ELSE z.width - PortSpacing - l)
  BY <1>0 DEF portTextPosition, horizontalText
<1>5. u = 2 * (2 * PortSpacing + a)
  BY DEF widgetPosition, horizontalWidget
<1>6. LabelInside(side, i) <=>
        /\ x >= 0 /\ x + 2 * l <= 2 * z.width
        /\ IF side = "In" THEN x + 2 * l < u ELSE x > u + 2 * v
  BY <1>0 DEF LabelInside
<1> HIDE DEF z, l, a, b, v, x, u
<1>7. CASE side = "In"
  <2>1. x = 2 * PortSpacing /\ l <= a
    BY <1>3, <1>4, <1>7
  <2>2. x >= 0 /\ x + 2 * l <= 2 * z.width /\ x + 2 * l < u
    BY <1>1, <1>2, <1>3, <1>5, <2>1
  <2> QED BY <1>6, <1>7, <2>2
<1>8. CASE side = "Out"
  <2>1. x = 2 * (z.width - PortSpacing - l) /\ l <= b
    BY <1>3, <1>4, <1>8
  <2>2. x >= 0 /\ x + 2 * l <= 2 * z.width /\ x > u + 2 * v
    BY <1>1, <1>2, <1>3, <1>5, <2>1
  <2> QED BY <1>6, <1>8, <2>2
<1> QED BY <1>3, <1>7, <1>8

\* Widths that an unsigned number holds.
WidthsFit == \A c \in Contents : verticalSize(c).width < UnsignedSize

\* A label is centred on its port and no longer than the advance of its side.
LEMMA VerticalLabels ==
  ASSUME MeasuredInv, WidthsFit, orientation = "Vertical", NEW side \in Sides,
         NEW i \in portIndices(side)
  PROVE  LabelInside(side, i)
<1> DEFINE l == labels(content, side)[i + 1]
           a == maxPortsTextAdvance(content, side)
           n == portCount(content, side)
           w == a + PortSpacing
           nw == (n - 1) * w
           iw == i * w
           left == stored.width - nw
           p == portTextPosition(side, i)
           x == p.x
<1> USE DEF MeasuredInv
<1>0. content \in Contents /\ stored = verticalSize(content)
  BY DEF MeasuredInv, GeometryInv, sizeOf
<1>1. stored.width \in Nat /\ stored.width < UnsignedSize /\ UnsignedSize \in Nat
  BY <1>0, VerticalRoom, GeometryConstants DEF WidthsFit
<1>2. w \in Nat /\ nw \in Nat /\ iw \in Nat /\ iw <= nw
      /\ stored.width >= nw + a + 2 * PortSpacing
  BY VerticalRow
<1>3. a \in Nat /\ l \in Nat /\ l <= a /\ PortSpacing \in Nat /\ i \in Nat
  BY PortOf, GeometryConstants
<1>4. x = ((left % UnsignedSize) + 2 * i * w) - l
  <2>1. verticalPort(content, stored, side, i).x = (left % UnsignedSize) + 2 * i * w
    BY DEF verticalPort
  <2>2. x = verticalPort(content, stored, side, i).x - l
    BY DEF portTextPosition, verticalText
  <2> QED BY <2>1, <2>2
<1>5. 2 * i * w = 2 * iw
  <2> HIDE DEF w
  <2> QED BY <1>2, <1>3
<1>6. LabelInside(side, i) <=> x >= 0 /\ x + 2 * l <= 2 * stored.width
  BY DEF LabelInside
<1> HIDE DEF l, a, nw, w, iw, x
<1>7. left \in Nat /\ left < UnsignedSize
  BY <1>1, <1>2, <1>3
<1>8. left % UnsignedSize = left
  BY <1>7, Wrapped
<1>9. x >= 0 /\ x + 2 * l <= 2 * stored.width
  BY <1>1, <1>2, <1>3, <1>4, <1>5, <1>8
<1> QED BY <1>6, <1>9

\* The widget is on the node, but for what the vertical layout lets hang over.
LEMMA WidgetFits ==
  ASSUME MeasuredInv
  PROVE  WidgetInside
<1> SUFFICES ASSUME content.widget # NoWidget
             PROVE  /\ widgetPosition.x >= 0
                    /\ widgetPosition.x + 2 * widgetSize(content).width <= 2 * (stored.width + overhang)
                    /\ widgetPosition.y >= 0
                    /\ widgetPosition.y + 2 * widgetSize(content).height <= 2 * stored.height
  BY DEF WidgetInside
<1> DEFINE a == maxPortsTextAdvance(content, "In")
           b == maxPortsTextAdvance(content, "Out")
           v == widgetSize(content).width
           h == widgetSize(content).height
           t == content.caption.height
           x == widgetPosition.x
           y == widgetPosition.y
<1>0. content \in Contents /\ stored = sizeOf(orientation, content)
      /\ orientation \in {"Horizontal", "Vertical"}
  BY DEF MeasuredInv, GeometryInv
<1>1. a \in Nat /\ b \in Nat /\ v \in Nat /\ h \in Nat /\ t \in Nat /\ PortSpacing \in Nat
  BY <1>0, AdvanceIs, BoxesAre, GeometryConstants DEF Sides
<1>2. CASE orientation = "Horizontal"
  <2>1. stored = horizontalSize(content)
    BY <1>0, <1>2 DEF sizeOf
  <2>2. /\ stored.width \in Nat /\ stored.height \in Nat
        /\ stored.width >= a + b + 4 * PortSpacing + v
        /\ stored.height >= t + 2 * PortSpacing + h
    BY <1>0, <2>1, HorizontalRoom
  <2>3. /\ x = 2 * (2 * PortSpacing + a) /\ overhang = 0
        /\ y = IF content.expands THEN 2 * (PortSpacing + t) ELSE t + stored.height - h
    BY <1>2 DEF widgetPosition, horizontalWidget, overhang
  <2> HIDE DEF a, b, v, h, t, x, y
  <2>4. x >= 0 /\ x + 2 * v <= 2 * (stored.width + overhang)
    BY <1>1, <2>2, <2>3
  <2>5. y >= 0 /\ y + 2 * h <= 2 * stored.height
    BY <1>1, <2>2, <2>3
  <2> QED BY <2>4, <2>5 DEF v, h, x, y
<1>3. CASE orientation = "Vertical"
  <2>1. stored = verticalSize(content)
    BY <1>0, <1>3 DEF sizeOf
  <2>2. /\ stored.width \in Nat /\ stored.height \in Nat
        /\ stored.width >= v + 2 * PortSpacing
        /\ stored.height >= t + 2 * PortSpacing + h
    BY <1>0, <2>1, VerticalRoom
  <2>3. /\ x = 2 * (PortSpacing + a) /\ overhang = a - PortSpacing
        /\ y = IF content.expands THEN 2 * t ELSE t + stored.height - h
    BY <1>3 DEF widgetPosition, verticalWidget, overhang
  <2> HIDE DEF a, b, v, h, t, x, y
  <2>4. x >= 0 /\ x + 2 * v <= 2 * (stored.width + overhang)
    BY <1>1, <2>2, <2>3
  <2>5. y >= 0 /\ y + 2 * h <= 2 * stored.height
    BY <1>1, <2>2, <2>3
  <2> QED BY <2>4, <2>5 DEF v, h, x, y
<1> QED BY <1>0, <1>2, <1>3

\* For all fonts, captions and widgets whose widths fit into an unsigned int,
\* a node that was measured after its last change has its ports on its borders, its
\* labels between the left and the right one, and its caption and widget inside, in
\* both layouts; only the widget of the vertical layout may reach beyond the right
\* border, by the length that In labels have over a spacing (recomputeSize,
\* widgetPosition).
THEOREM LayoutStaysInside ==
  ASSUME WidthsFit
  PROVE  GeometrySpec => []LayoutInside
<1>1. GeometryInv => LayoutInside
  <2> SUFFICES ASSUME GeometryInv PROVE LayoutInside
    OBVIOUS
  <2>1. GeometryTypeOK
    BY DEF GeometryInv, GeometryTypeOK
  <2>2. ASSUME ~changed PROVE PortsOnBorder /\ TextsInside /\ WidgetInside
    <3>0. MeasuredInv /\ (orientation = "Horizontal" \/ orientation = "Vertical")
      BY <2>2 DEF GeometryInv, MeasuredInv
    <3>1. PortsOnBorder
      BY <3>0, HorizontalPorts, VerticalPorts DEF PortsOnBorder
    <3>2. \A side \in Sides : \A i \in portIndices(side) : LabelInside(side, i)
      BY <3>0, HorizontalLabels, VerticalLabels
    <3>3. TextsInside
      BY <3>0, <3>2, CaptionInside DEF TextsInside, LabelInside
    <3> QED BY <3>0, <3>1, <3>3, WidgetFits
  <2> QED BY <2>1, <2>2 DEF LayoutInside
<1> QED BY <1>1, SizesHold, PTL

\* Two ports of a side are their distance apart for each port between them.
LEMMA PortsApart ==
  ASSUME GeometryInv, NEW side \in Sides, NEW i \in portIndices(side), NEW j \in portIndices(side)
  PROVE  LET p == portPosition(side, i)
             q == portPosition(side, j)
             d == portDistance(side)
         IN  /\ d \in Nat
             /\ \/ p.x - q.x = 0 /\ p.y - q.y = 2 * ((i - j) * d)
                \/ p.y - q.y = 0 /\ p.x - q.x = 2 * ((i - j) * d)
<1> DEFINE p == portPosition(side, i)
           q == portPosition(side, j)
<1>0. i \in Nat /\ j \in Nat /\ (orientation = "Horizontal" \/ orientation = "Vertical")
  BY PortOf DEF GeometryInv
<1>1. CASE orientation = "Horizontal"
  <2> DEFINE h == content.caption.height
             d == step
             e == h + PortSpacing
  <2>1. d \in Nat /\ h \in Nat /\ PortSpacing \in Nat /\ stored.width \in Nat
    BY ExtentIs, BoxesAre, GeometryConstants DEF GeometryInv
  <2>2. p.x = q.x /\ p.x \in Int
    BY <1>1, <2>1 DEF portPosition, horizontalPort
  <2>3. p.y = 2 * (e + d * i) + d /\ q.y = 2 * (e + d * j) + d
    BY <1>1 DEF portPosition, horizontalPort
  <2>4. portDistance(side) = d
    BY <1>1 DEF portDistance
  <2>5. e \in Nat
    BY <2>1
  <2> HIDE DEF d, e, p, q
  <2>6. d * i \in Nat /\ d * j \in Nat /\ (i - j) * d = d * i - d * j
    BY <1>0, <2>1
  <2>7. p.y - q.y = 2 * ((i - j) * d)
    BY <2>1, <2>3, <2>5, <2>6
  <2>8. p.x - q.x = 0
    BY <2>2
  <2> QED BY <2>1, <2>4, <2>7, <2>8 DEF p, q
<1>2. CASE orientation = "Vertical"
  <2> DEFINE d == maxPortsTextAdvance(content, side) + PortSpacing
             n == portCount(content, side)
             left == (stored.width - (n - 1) * d) % UnsignedSize
  <2>1. d \in Nat /\ n \in Nat /\ stored.width \in Nat /\ (n - 1) * d \in Nat
    <3>1. d \in Nat /\ n \in Nat /\ i + 1 <= n /\ stored.width \in Nat
      BY PortOf, GeometryConstants DEF GeometryInv
    <3> HIDE DEF d, n
    <3>2. n - 1 \in Nat
      BY <1>0, <3>1
    <3> QED BY <3>1, <3>2
  <2>2. left \in Int
    <3>1. stored.width - (n - 1) * d \in Int
      BY <2>1
    <3> HIDE DEF d, n
    <3> QED BY <3>1, GeometryConstants
  <2>3. p.x = left + 2 * i * d /\ q.x = left + 2 * j * d
    BY <1>2 DEF portPosition, verticalPort
  <2>4. p.y = q.y /\ p.y \in Int
    <3>1. stored.height \in Nat
      BY DEF GeometryInv
    <3> QED BY <1>2, <3>1 DEF portPosition, verticalPort
  <2>5. portDistance(side) = d
    BY <1>2 DEF portDistance
  <2> HIDE DEF d, n, left, p, q
  <2>6. i * d \in Nat /\ j * d \in Nat /\ (i - j) * d = i * d - j * d
        /\ 2 * i * d = 2 * (i * d) /\ 2 * j * d = 2 * (j * d)
    BY <1>0, <2>1
  <2>7. p.x - q.x = 2 * ((i - j) * d)
    BY <2>2, <2>3, <2>6
  <2>8. p.y - q.y = 0
    BY <2>4
  <2> QED BY <2>1, <2>5, <2>7, <2>8 DEF p, q
<1> QED BY <1>0, <1>1, <1>2

\* Squares of numbers that are apart.
LEMMA FarSquare ==
  ASSUME NEW k \in Int, NEW d \in Nat, NEW r \in Nat, r > 0, 2 * r <= d
  PROVE  LET x == 2 * (k * d) IN (x * x < (4 * r) * (4 * r)) <=> k = 0
<1> DEFINE x == 2 * (k * d)
           y == 4 * r
<1>1. CASE k = 0
  <2>1. x = 0 /\ y > 0 /\ y \in Nat
    BY <1>1
  <2>2. y * y > 0
    <3> HIDE DEF x, y
    <3> QED BY <2>1
  <2> QED BY <1>1, <2>1, <2>2
<1>2. CASE k > 0
  <2>1. k * d >= d
    BY <1>2
  <2>2. x >= y /\ x \in Int /\ y \in Nat
    <3> DEFINE kd == k * d
    <3>1. kd \in Int /\ kd >= d
      BY <2>1
    <3> HIDE DEF kd
    <3> QED BY <3>1 DEF kd
  <2>3. x * x >= y * y
    <3> HIDE DEF x, y
    <3> QED BY <2>2
  <2> HIDE DEF x, y
  <2>4. ~(x * x < y * y)
    BY <2>2, <2>3
  <2> QED BY <1>2, <2>4 DEF x, y
<1>3. CASE k < 0
  <2>1. (0 - k) * d >= d /\ k * d = 0 - ((0 - k) * d)
    BY <1>3
  <2>2. 0 - x >= y /\ x \in Int /\ y \in Nat
    <3> DEFINE kd == k * d
               md == (0 - k) * d
    <3>1. kd \in Int /\ md \in Int /\ md >= d /\ kd = 0 - md
      BY <2>1
    <3> HIDE DEF kd, md
    <3> QED BY <3>1 DEF kd
  <2>3. x * x >= y * y
    <3> HIDE DEF x, y
    <3>1. (0 - x) * (0 - x) >= y * y /\ (0 - x) * (0 - x) = x * x
      BY <2>2
    <3> QED BY <3>1
  <2> HIDE DEF x, y
  <2>4. ~(x * x < y * y)
    BY <2>2, <2>3
  <2> QED BY <1>3, <2>4 DEF x, y
<1> QED BY <1>1, <1>2, <1>3

\* A click on a port reaches that port alone.
LEMMA OnlyThatPort ==
  ASSUME GeometryInv, NEW side \in Sides, NEW r \in Diameter, r > 0, 2 * r <= portDistance(side),
         NEW i \in portIndices(side)
  PROVE  {j \in portIndices(side) : Near(portPosition(side, j), portPosition(side, i), 4 * r)} = {i}
<1> SUFFICES ASSUME NEW j \in portIndices(side)
             PROVE  Near(portPosition(side, j), portPosition(side, i), 4 * r) <=> j = i
  OBVIOUS
<1> DEFINE p == portPosition(side, j)
           q == portPosition(side, i)
           d == portDistance(side)
           k == j - i
           x == 2 * (k * d)
<1>1. r \in Nat /\ i \in Int /\ j \in Int
  BY PortOf, GeometryConstants
<1>2. d \in Nat /\ ((p.x - q.x = 0 /\ p.y - q.y = x) \/ (p.y - q.y = 0 /\ p.x - q.x = x))
  BY PortsApart
<1>3. k \in Int /\ (k = 0 <=> j = i)
  BY <1>1
<1> HIDE DEF p, q, d, k
<1>4. x \in Int /\ x * x \in Int
  BY <1>2, <1>3
<1>5. (x * x < (4 * r) * (4 * r)) <=> k = 0
  BY <1>1, <1>2, <1>3, FarSquare DEF d
<1>6. (p.x - q.x) * (p.x - q.x) + (p.y - q.y) * (p.y - q.y) = x * x
  <2> HIDE DEF x
  <2> QED BY <1>2, <1>4
<1>7. Near(p, q, 4 * r) <=> x * x < (4 * r) * (4 * r)
  BY <1>6 DEF Near
<1> QED BY <1>3, <1>5, <1>7 DEF p, q

\* A click on the centre of a port finds that port, for all fonts and sizes, stored
\* before or after the last change, and for every style whose reach is at most the
\* distance of the ports (checkPortHit).
THEOREM ClicksFindPorts == GeometrySpec => []ClickFindsPort
<1>1. GeometryInv => ClickFindsPort
  <2> SUFFICES ASSUME GeometryInv, NEW side \in Sides, NEW d \in Diameter,
                      NEW i \in portIndices(side), d > 0, 2 * d <= portDistance(side)
               PROVE  checkPortHit(side, portPosition(side, i), d) = i
    BY DEF ClickFindsPort
  <2>1. i \in Nat
    BY PortOf
  <2>2. Min({i}) = i
    BY <2>1 DEF Min
  <2>3. {j \in portIndices(side) : Near(portPosition(side, j), portPosition(side, i), 4 * d)} = {i}
    BY OnlyThatPort
  <2> QED BY <2>2, <2>3 DEF checkPortHit
<1> QED BY <1>1, SizesHold, PTL
-----------------------------------------------------------------------------
(* StatusIcon.  The dirty flag is right about everything but the default,  *)
(* so what is shown here needs the assumption that there is only one.      *)

\* An image that is kept, and not marked, is the one of the style the node has,
\* for the status and the resolution it was made for.
IconInv ==
  /\ defaultStyle \in Defaults
  /\ ~iconDirty /\ cachedIcon # NullImage =>
       cachedIcon.image = [icon |-> nodeStyle.icon[cachedIcon.status],
                           size |-> cachedIcon.resolution, dpr |-> cachedIcon.dpr]

\* Making an image makes one of that kind.
LEMMA RenderedIsCurrent ==
  ASSUME NEW dpr
  PROVE  LET r == rendered(dpr)
         IN  r.image = [icon |-> nodeStyle.icon[r.status], size |-> r.resolution, dpr |-> r.dpr]
BY DEF rendered

\* Every step keeps the image current or marked.
LEMMA IconStep ==
  ASSUME \A d, e \in Defaults : d = e, IconInv, [IconNext]_iconVars
  PROVE  IconInv'
<1>1. ASSUME NEW dpr \in Dpr, drawProcessingIndicator(dpr)
      PROVE  IconInv'
  <2>1. /\ nodeStyle' = nodeStyle /\ defaultStyle' = defaultStyle
        /\ cachedIcon' = processingStatusImage(dpr)
    BY <1>1 DEF drawProcessingIndicator, nodeStyle
  <2>2. CASE cacheHit(dpr)
    BY <2>1, <2>2 DEF processingStatusImage, cacheHit, IconInv
  <2>3. CASE ~cacheHit(dpr)
    BY <2>1, <2>3, RenderedIsCurrent DEF processingStatusImage, IconInv
  <2> QED BY <2>2, <2>3
<1>2. ASSUME iconDirty' = TRUE, defaultStyle' = defaultStyle
      PROVE  IconInv'
  BY <1>2 DEF IconInv
<1>3. ASSUME nodeStyle' = nodeStyle, defaultStyle' = defaultStyle,
             UNCHANGED <<iconDirty, cachedIcon>>
      PROVE  IconInv'
  BY <1>3 DEF IconInv
<1>4. ASSUME NEW style \in Defaults, installDefault(style)
      PROVE  IconInv'
  BY <1>3, <1>4 DEF installDefault, nodeStyle, IconInv
<1>5. ASSUME setBackgroundColor
      PROVE  IconInv'
  BY <1>3, <1>5 DEF setBackgroundColor, nodeStyle
<1>6. ASSUME UNCHANGED iconVars
      PROVE  IconInv'
  BY <1>3, <1>6 DEF iconVars, nodeStyle
<1> QED BY <1>1, <1>2, <1>4, <1>5, <1>6
        DEF IconNext, setNodeProcessingStatus, overrideStyle, setStatusIcon, setStatusIconStyle

\* As long as one default style is all there ever is, the next paint shows the
\* icon of the node's style and status, whatever setters ran before it
\* (processingStatusImage).
THEOREM IconStaysCurrent ==
  ASSUME \A d, e \in Defaults : d = e
  PROVE  IconSpec => []IconIsCurrent
<1>1. IconInit => IconInv
  BY DEF IconInit, IconInv
<1>2. IconInv /\ [IconNext]_iconVars => IconInv'
  BY IconStep
<1>3. IconInv => IconIsCurrent
  <2> SUFFICES ASSUME IconInv, NEW dpr \in Dpr
               PROVE  processingStatusImage(dpr).image = rendered(dpr).image
    BY DEF IconIsCurrent
  <2>1. CASE cacheHit(dpr)
    BY <2>1 DEF processingStatusImage, cacheHit, rendered, IconInv
  <2>2. CASE ~cacheHit(dpr)
    BY <2>2 DEF processingStatusImage
  <2> QED BY <2>1, <2>2
<1> QED BY <1>1, <1>2, <1>3, PTL DEF IconSpec

-----------------------------------------------------------------------------
(* RandomNumber.                                                           *)

Pair == [{0, 1} -> Operand \cup {Missing}]

Answered(pair) ==
  IF pair[0] > pair[1] THEN progress = "Failed"
  ELSE progress = "Updated" /\ drawn \in pair[0] .. pair[1]

\* A computation that runs is about the operands there are, if both are there.
RandomInv ==
  /\ operand \in Pair /\ taken \in Pair /\ seconds \in 0 .. Duration
  /\ complete(operand) => IF seconds > 0 THEN taken = operand ELSE Answered(operand)

\* Every step keeps what is asked and answered.
LEMMA RandomStep ==
  ASSUME RandomInv, [RandomNext]_randomVars
  PROVE  RandomInv'
<1>1. ASSUME NEW p \in {0, 1}, NEW v \in Operand \cup {Missing}, newOperand(p, v)
      PROVE  RandomInv'
  <2>1. operand' \in Pair /\ taken' = operand' /\ seconds' = Duration
    BY <1>1 DEF newOperand, compute, RandomInv, Pair
  <2>2. seconds' \in 0 .. Duration /\ seconds' > 0
    BY <2>1, RandomConstants
  <2> QED BY <2>1, <2>2 DEF RandomInv
<1>2. ASSUME NEW p \in {0, 1}, sourceLetsGo(p)
      PROVE  RandomInv'
  BY <1>2 DEF sourceLetsGo, RandomInv, complete, Answered
<1>3. ASSUME UNCHANGED <<operand, taken, seconds, drawn, progress>>
      PROVE  RandomInv'
  BY <1>3 DEF RandomInv, complete, Answered
<1>4. ASSUME secondPasses
      PROVE  RandomInv'
  <2>1. operand' = operand /\ taken' = taken
    BY <1>4 DEF secondPasses
  <2>2. seconds > 0 /\ seconds' > 0 /\ seconds' \in 0 .. Duration
    BY <1>4, RandomConstants DEF secondPasses, RandomInv
  <2> QED BY <2>1, <2>2 DEF RandomInv, complete
<1>5. ASSUME timeout
      PROVE  RandomInv'
  <2>1. operand' = operand /\ taken' = taken
    BY <1>5 DEF timeout
  <2>2. seconds > 0 /\ seconds' = 0 /\ 0 \in 0 .. Duration
    BY <1>5, RandomConstants DEF timeout
  <2>3. ASSUME complete(operand)
        PROVE  Answered(operand)'
    <3>1. taken = operand
      BY <2>2, <2>3 DEF RandomInv
    <3>2. CASE taken[0] > taken[1]
      <4>1. progress' = "Failed"
        <5>1. taken[0] \in Int /\ taken[1] \in Int
          BY <2>3, <3>1, RandomConstants DEF RandomInv, Pair, complete
        <5>2. ~(taken[0] <= taken[1])
          BY <3>2, <5>1
        <5> QED BY <1>5, <2>3, <3>1, <5>2 DEF timeout
      <4> QED BY <2>1, <3>1, <3>2, <4>1 DEF Answered
    <3>3. CASE ~(taken[0] > taken[1])
      <4>1. progress' = "Updated" /\ drawn' \in taken[0] .. taken[1]
        BY <1>5, <2>3, <3>1, <3>3 DEF timeout
      <4> QED BY <2>1, <3>1, <3>3, <4>1 DEF Answered
    <3> QED BY <3>2, <3>3
  <2>4. complete(operand)' => complete(operand)
    BY <2>1 DEF complete
  <2>5. ~(seconds' > 0)
    BY <2>2
  <2> QED BY <2>1, <2>2, <2>3, <2>4, <2>5 DEF RandomInv
<1>6. ASSUME NEW on \in BOOLEAN, freeze(on)
      PROVE  RandomInv'
  BY <1>3, <1>6 DEF freeze
<1>7. ASSUME UNCHANGED randomVars
      PROVE  RandomInv'
  BY <1>3, <1>7 DEF randomVars
<1> QED BY <1>1, <1>2, <1>4, <1>5, <1>6, <1>7 DEF RandomNext

\* The answer is that of the latest operands, for all operands and however long
\* a computation takes (RandomNumberModel::compute).
THEOREM AnswersAreLatest == RandomSpec => []AnswersLatestOperands
<1>1. RandomInit => RandomInv
  <2> SUFFICES ASSUME RandomInit PROVE RandomInv
    OBVIOUS
  <2>1. operand \in Pair /\ taken \in Pair /\ ~complete(operand)
    BY DEF RandomInit, Pair, complete
  <2>2. seconds \in 0 .. Duration
    BY RandomConstants DEF RandomInit
  <2> QED BY <2>1, <2>2 DEF RandomInv
<1>2. RandomInv /\ [RandomNext]_randomVars => RandomInv'
  BY RandomStep
<1>3. RandomInv => AnswersLatestOperands
  <2> SUFFICES ASSUME RandomInv, seconds = 0, complete(operand) PROVE Answered(operand)
    BY DEF AnswersLatestOperands, Answered
  <2>1. ~(seconds > 0)
    OBVIOUS
  <2> QED BY <2>1 DEF RandomInv
<1> QED BY <1>1, <1>2, <1>3, PTL DEF RandomSpec
=============================================================================
