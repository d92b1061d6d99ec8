-------------------------- MODULE IndexAndView_proofs --------------------------
(***************************************************************************)
(* Proofs about the connection index and about the views of a scene.       *)
(*                                                                         *)
(* The incremental maintenance of the four maps is right for every set of  *)
(* connections, and the index implements ConnectionSet.  A view stays sound*)
(* (Sound) through each operator that changes its state, for every set of  *)
(* views and nodes and every bound; what is left for the actions is which  *)
(* views and nodes they reach.                                             *)
(***************************************************************************)
EXTENDS ConnectionIdIndex, GraphicsView, TLAPS, FiniteSetTheorems

-----------------------------------------------------------------------------
(* Maps.                                                                   *)

Keys(m) == DOMAIN m
IsMap(m) == m = [x \in DOMAIN m |-> m[x]]

(* Two maps with the same keys and the same buckets are the same map.      *)
LEMMA MapEquality ==
  ASSUME NEW m, NEW w, IsMap(m), IsMap(w), Keys(m) = Keys(w),
         \A x : Bucket(m, x) = Bucket(w, x)
  PROVE  m = w
<1>1. \A x \in DOMAIN m : m[x] = w[x]
  BY DEF Bucket, Keys
<1> QED
  BY <1>1 DEF IsMap, Keys

\* What insertion does to the keys and the buckets of a map.
LEMMA InsertAtMap ==
  ASSUME NEW m, NEW k, NEW c
  PROVE  /\ Keys(InsertAt(m, k, c)) = Keys(m) \cup {k}
         /\ \A x : Bucket(InsertAt(m, k, c), x)
                     = IF x = k THEN Bucket(m, k) \cup {c} ELSE Bucket(m, x)
         /\ IsMap(InsertAt(m, k, c))
<1>1. Keys(InsertAt(m, k, c)) = Keys(m) \cup {k}
  BY DEF InsertAt, Assign, Keys
<1>2. \A x : Bucket(InsertAt(m, k, c), x)
                     = IF x = k THEN Bucket(m, k) \cup {c} ELSE Bucket(m, x)
  BY DEF InsertAt, Assign, Bucket
<1>3. IsMap(InsertAt(m, k, c))
  BY DEF InsertAt, Assign, IsMap
<1> QED BY <1>1, <1>2, <1>3

\* What erasure does to them: an emptied bucket takes its key along.
LEMMA EraseAtMap ==
  ASSUME NEW m, NEW k, NEW c, IsMap(m)
  PROVE  /\ Keys(EraseAt(m, k, c))
              = IF Bucket(m, k) \ {c} = {} THEN Keys(m) \ {k} ELSE Keys(m)
         /\ \A x : Bucket(EraseAt(m, k, c), x)
                     = IF x = k THEN Bucket(m, k) \ {c} ELSE Bucket(m, x)
         /\ IsMap(EraseAt(m, k, c))
<1>1. Keys(EraseAt(m, k, c))
              = IF Bucket(m, k) \ {c} = {} THEN Keys(m) \ {k} ELSE Keys(m)
  BY DEF EraseAt, Assign, Drop, Keys, Bucket
<1>2. \A x : Bucket(EraseAt(m, k, c), x)
                     = IF x = k THEN Bucket(m, k) \ {c} ELSE Bucket(m, x)
  BY DEF EraseAt, Assign, Drop, Bucket
<1>3. IsMap(EraseAt(m, k, c))
  BY DEF EraseAt, Assign, Drop, IsMap
<1> QED BY <1>1, <1>2, <1>3

\* Keys and buckets of the map of nodes of a set of connections.
LEMMA NodeMapBuckets ==
  ASSUME NEW S
  PROVE  /\ Keys(NodeMap(S)) = {c.inNodeId : c \in S} \cup {c.outNodeId : c \in S}
         /\ \A n : Bucket(NodeMap(S), n) = {c \in S : c.inNodeId = n \/ c.outNodeId = n}
         /\ IsMap(NodeMap(S))
<1>1. Keys(NodeMap(S)) = {c.inNodeId : c \in S} \cup {c.outNodeId : c \in S}
  BY DEF NodeMap, Keys
<1>2. \A n : Bucket(NodeMap(S), n) = {c \in S : c.inNodeId = n \/ c.outNodeId = n}
  BY DEF NodeMap, Bucket
<1>3. IsMap(NodeMap(S))
  BY DEF NodeMap, IsMap
<1> QED BY <1>1, <1>2, <1>3

(* Inserting a connection in the node map, at both its ends, gives the     *)
(* node map of the larger set.                                             *)
LEMMA NodeMapInsert ==
  ASSUME NEW S, NEW c
  PROVE  InsertAt(InsertAt(NodeMap(S), c.inNodeId, c), c.outNodeId, c) = NodeMap(S \cup {c})
<1> DEFINE T == S \cup {c}
           K == InsertAt(NodeMap(S), c.inNodeId, c)
           L == InsertAt(K, c.outNodeId, c)
<1>1. Keys(L) = Keys(NodeMap(T))
  <2>1. Keys(L) = Keys(NodeMap(S)) \cup {c.inNodeId, c.outNodeId}
    BY InsertAtMap
  <2>2. Keys(NodeMap(T)) = Keys(NodeMap(S)) \cup {c.inNodeId, c.outNodeId}
    BY NodeMapBuckets
  <2> QED BY <2>1, <2>2
<1>2. \A n : Bucket(L, n) = Bucket(NodeMap(T), n)
  <2> TAKE n
  <2>1. Bucket(L, n) = Bucket(NodeMap(S), n)
                           \cup (IF n = c.inNodeId \/ n = c.outNodeId THEN {c} ELSE {})
    BY InsertAtMap
  <2>2. Bucket(NodeMap(T), n) = Bucket(NodeMap(S), n)
                           \cup (IF n = c.inNodeId \/ n = c.outNodeId THEN {c} ELSE {})
    BY NodeMapBuckets
  <2> QED
    BY <2>1, <2>2
<1>3. IsMap(L) /\ IsMap(NodeMap(T))
  BY InsertAtMap, NodeMapBuckets
<1> HIDE DEF L, T
<1>4. L = NodeMap(T)
  BY <1>1, <1>2, <1>3, MapEquality
<1> QED BY <1>4 DEF L, T, K

\* Erasing c at both its nodes gives the map of nodes without c.
LEMMA NodeMapErase ==
  ASSUME NEW S, NEW c \in S
  PROVE  EraseAt(EraseAt(NodeMap(S), c.inNodeId, c), c.outNodeId, c) = NodeMap(S \ {c})
<1> DEFINE T == S \ {c}
           K == EraseAt(NodeMap(S), c.inNodeId, c)
           L == EraseAt(K, c.outNodeId, c)
<1>1. \A n : Bucket(L, n) = Bucket(NodeMap(T), n)
  <2> TAKE n
  <2>1. Bucket(L, n) = Bucket(NodeMap(S), n)
                           \ (IF n = c.inNodeId \/ n = c.outNodeId THEN {c} ELSE {})
    BY EraseAtMap, NodeMapBuckets
  <2>2. Bucket(NodeMap(T), n) = Bucket(NodeMap(S), n)
                           \ (IF n = c.inNodeId \/ n = c.outNodeId THEN {c} ELSE {})
    BY NodeMapBuckets
  <2> QED
    BY <2>1, <2>2
<1>2. IsMap(L) /\ IsMap(NodeMap(T))
  BY EraseAtMap, NodeMapBuckets
<1>3. Keys(L) = Keys(NodeMap(T))
  <2>1. \A n : n \in Keys(NodeMap(S)) <=> Bucket(NodeMap(S), n) # {}
    BY NodeMapBuckets
  <2>2. \A n : n \in Keys(NodeMap(T)) <=> Bucket(NodeMap(T), n) # {}
    BY NodeMapBuckets
  <2>3. IsMap(NodeMap(S)) /\ IsMap(K)
    BY EraseAtMap, NodeMapBuckets
  <2>4. \A n : n \in Keys(K) <=> Bucket(K, n) # {}
    BY <2>1, <2>3, EraseAtMap
  <2>5. \A n : n \in Keys(L) <=> Bucket(L, n) # {}
    BY <2>3, <2>4, EraseAtMap
  <2> HIDE DEF L, T
  <2> QED BY <2>2, <2>5, <1>1
<1> HIDE DEF L, T
<1>4. L = NodeMap(T)
  BY <1>1, <1>2, <1>3, MapEquality
<1> QED BY <1>4 DEF L, T, K

-----------------------------------------------------------------------------
(* The maps of one side: node, then port.                                  *)

\* Keys and buckets of the map of ports of one node.
LEMMA PortsOfBuckets ==
  ASSUME NEW S, NEW side
  PROVE  /\ Keys(PortsOf(S, side)) = {EndPort(side, c) : c \in S}
         /\ \A p : Bucket(PortsOf(S, side), p) = {c \in S : EndPort(side, c) = p}
         /\ IsMap(PortsOf(S, side))
<1>1. Keys(PortsOf(S, side)) = {EndPort(side, c) : c \in S}
  BY DEF PortsOf, Keys
<1>2. \A p : Bucket(PortsOf(S, side), p) = {c \in S : EndPort(side, c) = p}
  BY DEF PortsOf, Bucket
<1>3. IsMap(PortsOf(S, side))
  BY DEF PortsOf, IsMap
<1> QED BY <1>1, <1>2, <1>3

\* Inserting c gives the ports of the set with c.
LEMMA PortsOfInsert ==
  ASSUME NEW S, NEW side, NEW c
  PROVE  InsertAt(PortsOf(S, side), EndPort(side, c), c) = PortsOf(S \cup {c}, side)
<1> DEFINE T == S \cup {c}
           L == InsertAt(PortsOf(S, side), EndPort(side, c), c)
<1>1. Keys(L) = Keys(PortsOf(T, side))
  <2>1. Keys(L) = Keys(PortsOf(S, side)) \cup {EndPort(side, c)}
    BY InsertAtMap
  <2>2. Keys(PortsOf(T, side)) = Keys(PortsOf(S, side)) \cup {EndPort(side, c)}
    BY PortsOfBuckets
  <2> QED BY <2>1, <2>2
<1>2. \A p : Bucket(L, p) = Bucket(PortsOf(T, side), p)
  <2> DEFINE new(p) == IF p = EndPort(side, c) THEN {c} ELSE {}
  <2> TAKE p
  <2>1. Bucket(L, p) = Bucket(PortsOf(S, side), p) \cup new(p)
    BY InsertAtMap
  <2>2. Bucket(PortsOf(T, side), p) = Bucket(PortsOf(S, side), p) \cup new(p)
    BY PortsOfBuckets
  <2> QED BY <2>1, <2>2
<1>3. IsMap(L) /\ IsMap(PortsOf(T, side))
  BY InsertAtMap, PortsOfBuckets
<1> HIDE DEF L, T
<1>4. L = PortsOf(T, side)
  BY <1>1, <1>2, <1>3, MapEquality
<1> QED BY <1>4 DEF L, T

\* Erasing c gives the ports of the set without c.
LEMMA PortsOfErase ==
  ASSUME NEW S, NEW side, NEW c \in S
  PROVE  EraseAt(PortsOf(S, side), EndPort(side, c), c) = PortsOf(S \ {c}, side)
<1> DEFINE T == S \ {c}
           L == EraseAt(PortsOf(S, side), EndPort(side, c), c)
<1>1. \A p : Bucket(L, p) = Bucket(PortsOf(T, side), p)
  <2> DEFINE old(p) == IF p = EndPort(side, c) THEN {c} ELSE {}
  <2> TAKE p
  <2>1. Bucket(L, p) = Bucket(PortsOf(S, side), p) \ old(p)
    BY EraseAtMap, PortsOfBuckets
  <2>2. Bucket(PortsOf(T, side), p) = Bucket(PortsOf(S, side), p) \ old(p)
    BY PortsOfBuckets
  <2> QED BY <2>1, <2>2
<1>2. IsMap(L) /\ IsMap(PortsOf(T, side))
  BY EraseAtMap, PortsOfBuckets
<1>3. Keys(L) = Keys(PortsOf(T, side))
  <2>1. \A p : p \in Keys(PortsOf(S, side)) <=> Bucket(PortsOf(S, side), p) # {}
    BY PortsOfBuckets
  <2>2. \A p : p \in Keys(PortsOf(T, side)) <=> Bucket(PortsOf(T, side), p) # {}
    BY PortsOfBuckets
  <2>3. \A p : p \in Keys(L) <=> Bucket(L, p) # {}
    BY <2>1, EraseAtMap, PortsOfBuckets
  <2> HIDE DEF L, T
  <2> QED BY <2>2, <2>3, <1>1
<1> HIDE DEF L, T
<1>4. L = PortsOf(T, side)
  BY <1>1, <1>2, <1>3, MapEquality
<1> QED BY <1>4 DEF L, T

\* Two maps of maps with the same keys and entries are the same.
LEMMA PortMapEquality ==
  ASSUME NEW m, NEW w, IsMap(m), IsMap(w), Keys(m) = Keys(w),
         \A x : Ports(m, x) = Ports(w, x)
  PROVE  m = w
<1>1. \A x \in DOMAIN m : m[x] = w[x]
  BY DEF Ports, Keys
<1> QED
  BY <1>1 DEF IsMap, Keys

\* What Assign does to the keys and entries of a map of maps.
LEMMA AssignMap ==
  ASSUME NEW m, NEW k, NEW v
  PROVE  /\ Keys(Assign(m, k, v)) = Keys(m) \cup {k}
         /\ \A x : Ports(Assign(m, k, v), x) = IF x = k THEN v ELSE Ports(m, x)
         /\ IsMap(Assign(m, k, v))
<1>1. Keys(Assign(m, k, v)) = Keys(m) \cup {k}
  BY DEF Assign, Keys
<1>2. \A x : Ports(Assign(m, k, v), x) = IF x = k THEN v ELSE Ports(m, x)
  BY DEF Assign, Ports
<1>3. IsMap(Assign(m, k, v))
  BY DEF Assign, IsMap
<1> QED BY <1>1, <1>2, <1>3

\* What Drop does to them.
LEMMA DropMap ==
  ASSUME NEW m, NEW k
  PROVE  /\ Keys(Drop(m, k)) = Keys(m) \ {k}
         /\ \A x : Ports(Drop(m, k), x) = IF x = k THEN EmptyMap ELSE Ports(m, x)
         /\ IsMap(Drop(m, k))
<1>1. Keys(Drop(m, k)) = Keys(m) \ {k}
  BY DEF Drop, Keys
<1>2. \A x : Ports(Drop(m, k), x) = IF x = k THEN EmptyMap ELSE Ports(m, x)
  BY DEF Drop, Ports
<1>3. IsMap(Drop(m, k))
  BY DEF Drop, IsMap
<1> QED BY <1>1, <1>2, <1>3

\* Keys and entries of the map of ports of all nodes.
LEMMA PortMapPorts ==
  ASSUME NEW S, NEW side
  PROVE  /\ Keys(PortMap(S, side)) = {EndNode(side, c) : c \in S}
         /\ \A n : Ports(PortMap(S, side), n)
                     = PortsOf({c \in S : EndNode(side, c) = n}, side)
         /\ IsMap(PortMap(S, side))
<1>1. Keys(PortMap(S, side)) = {EndNode(side, c) : c \in S}
  BY DEF PortMap, Keys
<1>2. \A n : Ports(PortMap(S, side), n) = PortsOf({c \in S : EndNode(side, c) = n}, side)
  <2> TAKE n
  <2>1. CASE n \in DOMAIN PortMap(S, side)
    BY <2>1 DEF PortMap, Ports
  <2>2. CASE n \notin DOMAIN PortMap(S, side)
    <3>1. {c \in S : EndNode(side, c) = n} = {}
      BY <2>2 DEF PortMap
    <3>2. PortsOf({}, side) = EmptyMap
      BY DEF PortsOf, EmptyMap
    <3> QED BY <2>2, <3>1, <3>2 DEF Ports
  <2> QED BY <2>1, <2>2
<1>3. IsMap(PortMap(S, side))
  BY DEF PortMap, IsMap
<1> QED BY <1>1, <1>2, <1>3

\* Inserting c gives the map of ports of the set with c.
LEMMA PortMapInsert ==
  ASSUME NEW S, NEW side, NEW c
  PROVE  InsertAtPort(PortMap(S, side), EndNode(side, c), EndPort(side, c), c)
           = PortMap(S \cup {c}, side)
<1> DEFINE T == S \cup {c}
           k == EndNode(side, c)
           here(U, n) == {d \in U : EndNode(side, d) = n}
           L == Assign(PortMap(S, side), k, PortsOf(here(T, k), side))
<1>1. InsertAt(Ports(PortMap(S, side), k), EndPort(side, c), c) = PortsOf(here(T, k), side)
  <2>1. Ports(PortMap(S, side), k) = PortsOf(here(S, k), side)
    BY PortMapPorts
  <2>2. here(S, k) \cup {c} = here(T, k)
    OBVIOUS
  <2> HIDE DEF here, k, T
  <2>3. InsertAt(PortsOf(here(S, k), side), EndPort(side, c), c)
          = PortsOf(here(S, k) \cup {c}, side)
    BY PortsOfInsert
  <2> QED BY <2>1, <2>2, <2>3
<1>2. InsertAtPort(PortMap(S, side), k, EndPort(side, c), c) = L
  BY <1>1 DEF InsertAtPort
<1>3. Keys(L) = Keys(PortMap(T, side))
  <2>1. Keys(L) = Keys(PortMap(S, side)) \cup {k}
    BY AssignMap
  <2>2. Keys(PortMap(T, side)) = Keys(PortMap(S, side)) \cup {k}
    BY PortMapPorts
  <2> QED BY <2>1, <2>2
<1>4. \A n : Ports(L, n) = Ports(PortMap(T, side), n)
  <2> TAKE n
  <2>1. Ports(PortMap(T, side), n) = PortsOf(here(T, n), side)
    BY PortMapPorts
  <2>2. Ports(PortMap(S, side), n) = PortsOf(here(S, n), side)
    BY PortMapPorts
  <2>3. n # k => here(T, n) = here(S, n)
    OBVIOUS
  <2>4. Ports(L, n) = IF n = k THEN PortsOf(here(T, k), side) ELSE Ports(PortMap(S, side), n)
    BY AssignMap
  <2> HIDE DEF here, k, T, L
  <2> QED BY <2>1, <2>2, <2>3, <2>4
<1>5. IsMap(L) /\ IsMap(PortMap(T, side))
  BY AssignMap, PortMapPorts
<1> HIDE DEF L, T
<1>6. L = PortMap(T, side)
  BY <1>3, <1>4, <1>5, PortMapEquality
<1> QED BY <1>2, <1>6 DEF T

\* Erasing c gives the map of ports of the set without c.
LEMMA PortMapErase ==
  ASSUME NEW S, NEW side, NEW c \in S
  PROVE  EraseAtPort(PortMap(S, side), EndNode(side, c), EndPort(side, c), c)
           = PortMap(S \ {c}, side)
<1> DEFINE T == S \ {c}
           k == EndNode(side, c)
           here(U, n) == {d \in U : EndNode(side, d) = n}
           M == PortMap(S, side)
           L == IF here(T, k) = {} THEN Drop(M, k)
                ELSE Assign(M, k, PortsOf(here(T, k), side))
<1>1. EraseAt(Ports(M, k), EndPort(side, c), c) = PortsOf(here(T, k), side)
  <2>1. Ports(M, k) = PortsOf(here(S, k), side)
    BY PortMapPorts
  <2>2. here(S, k) \ {c} = here(T, k) /\ c \in here(S, k)
    OBVIOUS
  <2> HIDE DEF here, k, T, M
  <2>3. EraseAt(PortsOf(here(S, k), side), EndPort(side, c), c)
          = PortsOf(here(S, k) \ {c}, side)
    BY <2>2, PortsOfErase
  <2> QED BY <2>1, <2>2, <2>3
<1>2. k \in DOMAIN M /\ M[k] = Ports(M, k)
  BY DEF PortMap, Ports
<1>3. EndPort(side, c) \in DOMAIN Ports(M, k)
  <2>1. Ports(M, k) = PortsOf(here(S, k), side)
    BY PortMapPorts
  <2> QED BY <2>1 DEF PortsOf
<1>4. DOMAIN PortsOf(here(T, k), side) = {} <=> here(T, k) = {}
  BY DEF PortsOf
<1>5. EraseAtPort(M, k, EndPort(side, c), c) = L
  <2> HIDE DEF here, k, T, M
  <2> QED BY <1>1, <1>2, <1>3, <1>4 DEF EraseAtPort
<1>6. Keys(L) = Keys(PortMap(T, side))
  <2>1. Keys(M) = {EndNode(side, d) : d \in S}
    BY PortMapPorts
  <2>2. Keys(PortMap(T, side)) = {EndNode(side, d) : d \in T}
    BY PortMapPorts
  <2>3. Keys(L) = IF here(T, k) = {} THEN Keys(M) \ {k} ELSE Keys(M) \cup {k}
    BY AssignMap, DropMap
  <2> HIDE DEF L, M
  <2> QED BY <2>1, <2>2, <2>3
<1>7. \A n : Ports(L, n) = Ports(PortMap(T, side), n)
  <2> TAKE n
  <2>1. Ports(PortMap(T, side), n) = PortsOf(here(T, n), side)
    BY PortMapPorts
  <2>2. Ports(M, n) = PortsOf(here(S, n), side)
    BY PortMapPorts
  <2>3. n # k => here(T, n) = here(S, n)
    OBVIOUS
  <2>4. PortsOf({}, side) = EmptyMap
    BY DEF PortsOf, EmptyMap
  <2>5. Ports(L, n) = IF n = k THEN PortsOf(here(T, k), side) ELSE Ports(M, n)
    BY <2>4, AssignMap, DropMap
  <2> HIDE DEF here, k, T, L, M
  <2> QED BY <2>1, <2>2, <2>3, <2>5
<1>8. IsMap(L) /\ IsMap(PortMap(T, side))
  BY AssignMap, DropMap, PortMapPorts
<1> HIDE DEF L, T
<1>9. L = PortMap(T, side)
  BY <1>6, <1>7, <1>8, PortMapEquality
<1> QED BY <1>5, <1>9 DEF T, M

-----------------------------------------------------------------------------
(* The class.                                                              *)

(* add() of the index of S is the index of S with the connection.          *)
LEMMA AddedIndex ==
  ASSUME NEW S, NEW c
  PROVE  Added(IndexOf(S), c) = IndexOf(S \cup {c})
<1>1. CASE c \in S
  <2>1. S \cup {c} = S
    BY <1>1
  <2> QED BY <1>1, <2>1 DEF Added, contains, IndexOf
<1>2. CASE c \notin S
  <2>1. InsertAt(InsertAt(NodeMap(S), c.inNodeId, c), c.outNodeId, c) = NodeMap(S \cup {c})
    BY NodeMapInsert
  <2>2. InsertAtPort(PortMap(S, "In"), c.inNodeId, c.inPortIndex, c) = PortMap(S \cup {c}, "In")
    BY PortMapInsert DEF EndNode, EndPort
  <2>3. InsertAtPort(PortMap(S, "Out"), c.outNodeId, c.outPortIndex, c)
          = PortMap(S \cup {c}, "Out")
    BY PortMapInsert DEF EndNode, EndPort
  <2> QED
    BY <1>2, <2>1, <2>2, <2>3 DEF Added, contains, IndexOf, indexConnection
<1> QED BY <1>1, <1>2

\* remove() gives the index of the set without c.
LEMMA RemovedIndex ==
  ASSUME NEW S, NEW c
  PROVE  Removed(IndexOf(S), c) = IndexOf(S \ {c})
<1>1. CASE c \notin S
  <2>1. S \ {c} = S
    BY <1>1
  <2> QED BY <1>1, <2>1 DEF Removed, contains, IndexOf
<1>2. CASE c \in S
  <2>1. EraseAt(EraseAt(NodeMap(S), c.inNodeId, c), c.outNodeId, c) = NodeMap(S \ {c})
    BY <1>2, NodeMapErase
  <2>2. EraseAtPort(PortMap(S, "In"), c.inNodeId, c.inPortIndex, c) = PortMap(S \ {c}, "In")
    BY <1>2, PortMapErase DEF EndNode, EndPort
  <2>3. EraseAtPort(PortMap(S, "Out"), c.outNodeId, c.outPortIndex, c)
          = PortMap(S \ {c}, "Out")
    BY <1>2, PortMapErase DEF EndNode, EndPort
  <2> QED
    BY <1>2, <2>1, <2>2, <2>3 DEF Removed, contains, IndexOf, unindexConnection
<1> QED BY <1>1, <1>2

\* allConnectionIds() filters the set by node.
LEMMA QueryNode ==
  ASSUME NEW S, NEW n
  PROVE  allConnectionIds(IndexOf(S), n) = {c \in S : c.inNodeId = n \/ c.outNodeId = n}
BY NodeMapBuckets DEF allConnectionIds, IndexOf

\* connections() filters the set by port.
LEMMA QueryPort ==
  ASSUME NEW S, NEW side \in Sides, NEW n, NEW p
  PROVE  connections(IndexOf(S), side, n, p)
           = {c \in S : EndNode(side, c) = n /\ EndPort(side, c) = p}
<1>1. connections(IndexOf(S), side, n, p) = Bucket(Ports(PortMap(S, side), n), p)
  BY DEF connections, IndexOf, Sides
<1>2. Ports(PortMap(S, side), n) = PortsOf({c \in S : EndNode(side, c) = n}, side)
  BY PortMapPorts
<1>3. Bucket(PortsOf({c \in S : EndNode(side, c) = n}, side), p)
        = {c \in {d \in S : EndNode(side, d) = n} : EndPort(side, c) = p}
  BY PortsOfBuckets
<1> QED BY <1>1, <1>2, <1>3

-----------------------------------------------------------------------------
(* The specification.                                                      *)

\* add() keeps an index an index, and adds c to its set.
LEMMA IsIndexAdded ==
  ASSUME NEW idx, IsIndex(idx), NEW c \in ConnectionId
  PROVE  /\ IsIndex(Added(idx, c))
         /\ Added(idx, c).connectivity = idx.connectivity \cup {c}
<1> PICK S \in SUBSET ConnectionId : idx = IndexOf(S)
  BY DEF IsIndex
<1>1. Added(idx, c) = IndexOf(S \cup {c})
  BY AddedIndex
<1>2. S \cup {c} \in SUBSET ConnectionId
  OBVIOUS
<1> QED BY <1>1, <1>2 DEF IsIndex, IndexOf

\* remove() keeps an index an index, and takes c from its set.
LEMMA IsIndexRemoved ==
  ASSUME NEW idx, IsIndex(idx), NEW c
  PROVE  /\ IsIndex(Removed(idx, c))
         /\ Removed(idx, c).connectivity = idx.connectivity \ {c}
<1> PICK S \in SUBSET ConnectionId : idx = IndexOf(S)
  BY DEF IsIndex
<1>1. Removed(idx, c) = IndexOf(S \ {c})
  BY RemovedIndex
<1>2. S \ {c} \in SUBSET ConnectionId
  OBVIOUS
<1> QED BY <1>1, <1>2 DEF IsIndex, IndexOf

DraftOK ==
  draft # None =>
    /\ draft = [index |-> draft.index, removed |-> draft.removed, added |-> draft.added,
                toRemove |-> draft.toRemove, toAdd |-> draft.toAdd]
    /\ draft.removed \in Replacements /\ draft.added \in Replacements
    /\ IsInjective(draft.removed) /\ IsInjective(draft.added)
    /\ Range(draft.removed) \subseteq index.connectivity

Inv == IndexConsistent /\ DraftOnCourse /\ DraftOK

\* The empty index satisfies the invariant.
LEMMA InitInv == Init => Inv
<1>1. EmptyIndex = IndexOf({})
  BY DEF EmptyIndex, IndexOf, NodeMap, PortMap, EmptyMap
<1>2. Init => IsIndex(index)
  BY <1>1 DEF Init, IsIndex
<1> QED BY <1>2 DEF Init, Inv, IndexConsistent, DraftOnCourse, DraftOK

\* Every step keeps the invariant.
LEMMA NextInv == Inv /\ [Next]_vars => Inv'
<1> SUFFICES ASSUME Inv, [Next]_vars PROVE Inv'
  OBVIOUS
<1> USE DEF Inv
<1>1. ASSUME NEW c \in ConnectionId, Add(c) PROVE Inv'
  BY <1>1, IsIndexAdded DEF Add, Idle, IndexConsistent, DraftOnCourse, DraftOK
<1>2. ASSUME NEW c \in ConnectionId, Remove(c) PROVE Inv'
  BY <1>2, IsIndexRemoved DEF Remove, Idle, IndexConsistent, DraftOnCourse, DraftOK
<1>3. ASSUME NEW r \in Replacements, NEW a \in Replacements, PrepareBegin(r, a) PROVE Inv'
  <2>1. IndexConsistent'
    BY <1>3 DEF PrepareBegin, IndexConsistent
  <2>2. DraftOK'
    BY <1>3 DEF PrepareBegin, DraftOK
  <2>3. DraftOnCourse'
    BY <1>3 DEF PrepareBegin, DraftOnCourse
  <2> QED BY <2>1, <2>2, <2>3
<1>4. ASSUME PrepareRemove PROVE Inv'
  <2> PICK c \in draft.toRemove :
        draft' = [draft EXCEPT !.index = Removed(@, c), !.toRemove = @ \ {c}]
    BY <1>4 DEF PrepareRemove
  <2>0. draft # None /\ UNCHANGED <<index, prepared>>
    BY <1>4 DEF PrepareRemove
  <2>1. draft' = [index |-> Removed(draft.index, c), removed |-> draft.removed,
                  added |-> draft.added, toRemove |-> draft.toRemove \ {c},
                  toAdd |-> draft.toAdd]
    BY <2>0 DEF DraftOK
  <2>2. /\ IsIndex(Removed(draft.index, c))
        /\ Removed(draft.index, c).connectivity = draft.index.connectivity \ {c}
    BY <2>0, IsIndexRemoved DEF IndexConsistent
  <2>3. IndexConsistent'
    BY <2>0, <2>1, <2>2 DEF IndexConsistent
  <2>4. DraftOK'
    BY <2>0, <2>1 DEF DraftOK
  <2>5. DraftOnCourse'
    <3> DEFINE Kept == index.connectivity \ Range(draft.removed)
    <3>1. Kept \subseteq draft.index.connectivity \ {c}
      BY <2>0 DEF DraftOnCourse
    <3>2. ((draft.index.connectivity \ {c}) \ (draft.toRemove \ {c})) \cup draft.toAdd
            = Kept \cup Range(draft.added)
      BY <2>0 DEF DraftOnCourse
    <3> QED BY <2>0, <2>1, <2>2, <3>1, <3>2 DEF DraftOnCourse
  <2> QED BY <2>3, <2>4, <2>5
<1>5. ASSUME PrepareAdd PROVE Inv'
  <2> PICK c \in draft.toAdd :
        /\ ~contains(draft.index, c)
        /\ draft' = [draft EXCEPT !.index = Added(@, c), !.toAdd = @ \ {c}]
    BY <1>5 DEF PrepareAdd
  <2>0. draft # None /\ draft.toRemove = {} /\ UNCHANGED <<index, prepared>>
    BY <1>5 DEF PrepareAdd
  <2>1. draft' = [index |-> Added(draft.index, c), removed |-> draft.removed,
                  added |-> draft.added, toRemove |-> draft.toRemove,
                  toAdd |-> draft.toAdd \ {c}]
    BY <2>0 DEF DraftOK
  <2>2. c \in ConnectionId
    BY <2>0, ReplacementsAssumption DEF DraftOnCourse, DraftOK
  <2>3. /\ IsIndex(Added(draft.index, c))
        /\ Added(draft.index, c).connectivity = draft.index.connectivity \cup {c}
    BY <2>0, <2>2, IsIndexAdded DEF IndexConsistent
  <2>4. IndexConsistent'
    BY <2>0, <2>1, <2>3 DEF IndexConsistent
  <2>5. DraftOK'
    BY <2>0, <2>1 DEF DraftOK
  <2>6. DraftOnCourse'
    <3> DEFINE Kept == index.connectivity \ Range(draft.removed)
    <3>1. c \notin Kept
      BY <2>0 DEF DraftOnCourse, contains
    <3>2. (Range(draft.added) \ (draft.toAdd \ {c})) \cap Kept = {}
      BY <2>0, <3>1 DEF DraftOnCourse
    <3>3. ((draft.index.connectivity \cup {c}) \ draft.toRemove) \cup (draft.toAdd \ {c})
            = Kept \cup Range(draft.added)
      BY <2>0 DEF DraftOnCourse
    <3> QED BY <2>0, <2>1, <2>3, <3>2, <3>3 DEF DraftOnCourse
  <2> QED BY <2>4, <2>5, <2>6
<1>6. CASE PrepareEnd
  BY <1>6 DEF PrepareEnd, IndexConsistent, DraftOnCourse, DraftOK
<1>7. CASE PrepareFail
  BY <1>7 DEF PrepareFail, IndexConsistent, DraftOnCourse, DraftOK
<1>8. CASE Swap
  BY <1>8 DEF Swap, Idle, IndexConsistent, DraftOnCourse, DraftOK
<1>9. CASE Discard
  BY <1>9 DEF Discard, Idle, IndexConsistent, DraftOnCourse, DraftOK
<1>10. ASSUME NEW n, AskNode(n) PROVE Inv'
  BY <1>10 DEF AskNode, Idle, IndexConsistent, DraftOnCourse, DraftOK
<1>11. ASSUME NEW side, NEW n, NEW p, AskPort(side, n, p) PROVE Inv'
  BY <1>11 DEF AskPort, Idle, IndexConsistent, DraftOnCourse, DraftOK
<1>12. CASE UNCHANGED vars
  BY <1>12 DEF vars, IndexConsistent, DraftOnCourse, DraftOK
<1> QED
  BY <1>1, <1>2, <1>3, <1>4, <1>5, <1>6, <1>7, <1>8, <1>9, <1>10, <1>11, <1>12 DEF Next

(* At every moment, for the active index, for the copy inside a            *)
(* preparedReplacement and for the one a transaction keeps, the four maps  *)
(* are exactly those a rebuild from the set of connections would produce.  *)
THEOREM IndexIsConsistent == Spec => []IndexConsistent
<1>1. Spec => []Inv
  BY InitInv, NextInv, PTL DEF Spec
<1>2. Inv => IndexConsistent
  BY DEF Inv
<1> QED BY <1>1, <1>2, PTL

(* The loops of preparedReplacement stay on course for the state the       *)
(* caller asked for, whatever the order in which they visit the ids.       *)
THEOREM ReplacementOnCourse == Spec => []DraftOnCourse
<1>1. Spec => []Inv
  BY InitInv, NextInv, PTL DEF Spec
<1>2. Inv => DraftOnCourse
  BY DEF Inv
<1> QED BY <1>1, <1>2, PTL

\* A prepared index is never taken for none.
LEMMA SpareNotNone ==
  ASSUME NEW idx, IsIndex(idx)
  PROVE  idx # None /\ idx.connectivity # None
<1> PICK S \in SUBSET ConnectionId : idx = IndexOf(S)
  BY DEF IsIndex
<1>1. idx.connectivity = S
  BY DEF IndexOf
<1> QED BY <1>1, NoneAssumption

\* Every step of the index is a step of the set, or none.
LEMMA StepRefines ==
  ASSUME Inv, [Next]_vars
  PROVE  [Abstract!Next]_(Abstract!vars)
<1> DEFINE spare == IF prepared = None THEN None ELSE prepared.connectivity
<1> USE DEF Inv
<1>1. ASSUME NEW c \in ConnectionId, Add(c) PROVE Abstract!Next
  <2>1. Abstract!Add(c)
    BY <1>1, IsIndexAdded DEF Add, Abstract!Add, IndexConsistent
  <2> QED BY <2>1 DEF Abstract!Next
<1>2. ASSUME NEW c \in ConnectionId, Remove(c) PROVE Abstract!Next
  <2>1. Abstract!Remove(c)
    BY <1>2, IsIndexRemoved DEF Remove, Abstract!Remove, IndexConsistent
  <2> QED BY <2>1 DEF Abstract!Next
<1>3. ASSUME NEW r \in Replacements, NEW a \in Replacements, PrepareBegin(r, a)
      PROVE  Abstract!Next
  BY <1>3 DEF PrepareBegin, Abstract!GiveUp, Abstract!Next
<1>4. CASE PrepareRemove
  BY <1>4 DEF PrepareRemove, Abstract!GiveUp, Abstract!Next
<1>5. CASE PrepareAdd
  BY <1>5 DEF PrepareAdd, Abstract!GiveUp, Abstract!Next
<1>6. CASE PrepareEnd
  <2> DEFINE r == draft.removed
             a == draft.added
  <2>1. /\ r \in Replacements /\ a \in Replacements
        /\ IsInjective(r) /\ IsInjective(a)
        /\ Range(r) \subseteq index.connectivity
    BY <1>6 DEF PrepareEnd, DraftOK
  <2>2. Abstract!Acceptable(r, a)
    <3>1. Range(a) \cap (index.connectivity \ Range(r)) = {}
      BY <1>6 DEF PrepareEnd, DraftOnCourse
    <3> HIDE DEF r, a
    <3> QED BY <2>1, <3>1 DEF Abstract!Acceptable, Abstract!Range, Range,
                               Abstract!IsInjective, IsInjective
  <2>3. draft.index.connectivity
          = (index.connectivity \ Range(r)) \cup Range(a)
    BY <1>6 DEF PrepareEnd, DraftOnCourse
  <2>4. draft.index # None
    BY <1>6, SpareNotNone DEF PrepareEnd, IndexConsistent
  <2>5. Abstract!Prepare(r, a)
    <3>1. spare' = (index.connectivity \ Range(r)) \cup Range(a)
      BY <1>6, <2>3, <2>4 DEF PrepareEnd
    <3>2. answer' = None /\ index' = index
      BY <1>6 DEF PrepareEnd
    <3> HIDE DEF r, a
    <3> QED BY <2>2, <3>1, <3>2 DEF Abstract!Prepare, Abstract!Range, Range
  <2> QED BY <2>1, <2>5 DEF Abstract!Next
<1>7. CASE PrepareFail
  BY <1>7 DEF PrepareFail, Abstract!GiveUp, Abstract!Next
<1>8. CASE Swap
  <2>1. index # None /\ prepared.connectivity # None
    BY <1>8, SpareNotNone DEF Swap, IndexConsistent
  <2>2. spare = prepared.connectivity /\ spare' = index.connectivity
    BY <1>8, <2>1 DEF Swap
  <2>3. answer' = None /\ index'.connectivity = prepared.connectivity
    BY <1>8 DEF Swap
  <2> QED BY <2>1, <2>2, <2>3 DEF Abstract!Next, Abstract!Swap
<1>9. CASE Discard
  BY <1>9 DEF Discard, Abstract!Discard, Abstract!Next
<1>10. ASSUME NEW n \in NodeIds, AskNode(n) PROVE Abstract!Next
  <2> PICK S \in SUBSET ConnectionId : index = IndexOf(S)
    BY DEF IndexConsistent, IsIndex
  <2>1. index.connectivity = S
    BY DEF IndexOf
  <2>2. answer' = [of |-> <<n>>, ids |-> {c \in S : c.inNodeId = n \/ c.outNodeId = n}]
    BY <1>10, QueryNode DEF AskNode
  <2>3. Abstract!AskNode(n)
    BY <1>10, <2>1, <2>2 DEF AskNode, Abstract!AskNode, Abstract!AtNode
  <2> QED BY <2>3 DEF Abstract!Next, Abstract!NodeIds, NodeIds
<1>11. ASSUME NEW side \in Sides, NEW n \in NodeIds, NEW p \in PortIndices,
              AskPort(side, n, p)
       PROVE  Abstract!Next
  <2> PICK S \in SUBSET ConnectionId : index = IndexOf(S)
    BY DEF IndexConsistent, IsIndex
  <2>1. index.connectivity = S
    BY DEF IndexOf
  <2>2. answer' = [of |-> <<side, n, p>>,
                   ids |-> {c \in S : EndNode(side, c) = n /\ EndPort(side, c) = p}]
    BY <1>11, QueryPort DEF AskPort
  <2>3. Abstract!AskPort(side, n, p)
    BY <1>11, <2>1, <2>2
    DEF AskPort, Abstract!AskPort, Abstract!AtPort, EndNode, EndPort,
        Abstract!EndNode, Abstract!EndPort
  <2> QED
    BY <2>3 DEF Abstract!Next, Abstract!NodeIds, NodeIds, Abstract!PortIndices,
                PortIndices, Abstract!Sides, Sides
<1>12. CASE UNCHANGED vars
  BY <1>12 DEF vars, Abstract!vars
<1> QED
  BY <1>1, <1>2, <1>3, <1>4, <1>5, <1>6, <1>7, <1>8, <1>9, <1>10, <1>11, <1>12 DEF Next

(* Every query answer, and every state a replacement prepares, is the one  *)
(* a plain set of connections would give.                                  *)
THEOREM IndexImplementsSet == Spec => ImplementsSet
<1>1. Spec => []Inv
  BY InitInv, NextInv, PTL DEF Spec
<1>2. Init => Abstract!Init
  BY DEF Init, EmptyIndex, Abstract!Init
<1>3. Inv /\ [Next]_vars => [Abstract!Next]_(Abstract!vars)
  BY StepRefines
<1> QED
  BY <1>1, <1>2, <1>3, PTL DEF Spec, ImplementsSet, Abstract!Spec

-----------------------------------------------------------------------------
(***************************************************************************)
(* The views.                                                              *)
(***************************************************************************)

\* A view's own state, and what is true of it between two events: the range is
\* ordered, and a crisp view at rest stands on whole pixels.
ViewState ==
  [policy : Policy, minimum : 0 .. MaxScale, maximum : 0 .. MaxScale, scale : ScaleLevel,
   velocity : Velocity, zooming : BOOLEAN, last : Int, offset : BOOLEAN]

Quiet(w) == w.policy = "Crisp" /\ ~w.zooming => ~w.offset

Sound(w) == w \in ViewState /\ w.minimum <= w.maximum /\ Quiet(w)

\* What zooming leaves alone, and that it stays in a range it was in.
Follows(u, w) ==
  /\ u.policy = w.policy /\ u.minimum = w.minimum /\ u.maximum = w.maximum
  /\ inRange(w) => inRange(u)

-----------------------------------------------------------------------------
(* The operators on one view.                                              *)

\* A scale is cut off to a level there is, and a level is not changed by it.
LEMMA ClampedScale ==
  ASSUME NEW s \in Int
  PROVE  /\ Clamped(s, 1, MaxScale) \in ScaleLevel
         /\ s \in ScaleLevel => Clamped(s, 1, MaxScale) = s
         /\ \A b \in 0 .. MaxScale :
              /\ s >= b => Clamped(s, 1, MaxScale) >= b
              /\ b > 0 /\ s <= b => Clamped(s, 1, MaxScale) <= b
  BY ViewConstants, SMT DEF Clamped, Least, Largest, ScaleLevel

\* Friction only takes off.
LEMMA FrictionKeepsVelocity ==
  ASSUME NEW x \in Velocity, NEW steps \in Nat
  PROVE  zoomAnimationVelocityAfter(x, steps) \in Velocity
<1>1. CASE x > 0
  BY <1>1, ViewConstants, SMT
  DEF zoomAnimationVelocityAfter, Sign, Size, Largest, Velocity
<1>2. CASE x < 0
  BY <1>2, ViewConstants, SMT
  DEF zoomAnimationVelocityAfter, Sign, Size, Largest, Velocity
<1>3. CASE x = 0
  BY <1>3, ViewConstants, SMT
  DEF zoomAnimationVelocityAfter, Sign, Size, Largest, Velocity
<1> QED BY <1>1, <1>2, <1>3, ViewConstants, SMT DEF Velocity

\* The distance an animation travels in a number of steps is a number.
LEMMA TravelIsInt ==
  ASSUME NEW x \in Velocity, NEW steps \in Nat
  PROVE  zoomAnimationScaleFactor(x, steps) \in Int
<1> DEFINE n == Least(steps, Size(x))
           travel == n * Size(x) - (n * (n - 1)) \div 2
<1>1. n \in Int /\ Size(x) \in Int /\ Sign(x) \in Int
  BY ViewConstants, SMT DEF Least, Size, Sign, Velocity
<1>2. n * Size(x) \in Int /\ (n * (n - 1)) \in Int
  <2> HIDE DEF n
  <2> QED BY <1>1, SMT
<1>3. travel \in Int
  <2> DEFINE a == n * Size(x)
             b == n * (n - 1)
  <2>1. a \in Int /\ b \in Int
    BY <1>2
  <2> HIDE DEF a, b, n
  <2>2. a - (b \div 2) \in Int
    BY <2>1, SMT
  <2> QED BY <2>2 DEF a, b
<1>4. Sign(x) * travel \in Int
  <2> HIDE DEF travel
  <2> QED BY <1>1, <1>3, SMT
<1> QED BY <1>4 DEF zoomAnimationScaleFactor

\* A field may take any value of its set.
LEMMA FieldUpdates ==
  ASSUME NEW z \in ViewState
  PROVE  /\ \A b \in BOOLEAN : [z EXCEPT !.offset = b] \in ViewState
         /\ \A b \in BOOLEAN : [z EXCEPT !.zooming = b] \in ViewState
         /\ \A x \in Velocity : [z EXCEPT !.velocity = x] \in ViewState
         /\ \A l \in Int : [z EXCEPT !.last = l] \in ViewState
         /\ \A m \in 0 .. MaxScale : [z EXCEPT !.minimum = m] \in ViewState
         /\ \A m \in 0 .. MaxScale : [z EXCEPT !.maximum = m] \in ViewState
<1>1. \A b \in BOOLEAN : [z EXCEPT !.offset = b] \in ViewState
  BY SMT DEF ViewState
<1>2. \A b \in BOOLEAN : [z EXCEPT !.zooming = b] \in ViewState
  BY SMT DEF ViewState
<1>3. \A x \in Velocity : [z EXCEPT !.velocity = x] \in ViewState
  BY SMT DEF ViewState
<1>4. \A l \in Int : [z EXCEPT !.last = l] \in ViewState
  BY SMT DEF ViewState
<1>5. /\ \A m \in 0 .. MaxScale : [z EXCEPT !.minimum = m] \in ViewState
      /\ \A m \in 0 .. MaxScale : [z EXCEPT !.maximum = m] \in ViewState
  BY SMT DEF ViewState
<1> QED BY <1>1, <1>2, <1>3, <1>4, <1>5

\* Stopping settles the view on whole pixels when it is crisp.
LEMMA StopIsSound ==
  ASSUME NEW w \in ViewState, w.minimum <= w.maximum
  PROVE  /\ Sound(stopZoomTimer(w)) /\ Follows(stopZoomTimer(w), w)
         /\ stopZoomTimer(w).scale = w.scale /\ ~stopZoomTimer(w).zooming
<1> DEFINE o == w.offset /\ w.policy # "Crisp"
           u == [w EXCEPT !.zooming = FALSE, !.velocity = 0, !.last = 0, !.offset = o]
<1>1. o \in BOOLEAN /\ (w.policy = "Crisp" => ~o)
  OBVIOUS
<1>2. stopZoomTimer(w) = u
  BY DEF stopZoomTimer
<1> HIDE DEF o
<1>3. 0 \in Velocity
  BY ViewConstants, SMT DEF Velocity
<1>4. u \in ViewState
  <2>1. ASSUME NEW b \in BOOLEAN, NEW off \in BOOLEAN, NEW x \in Velocity, NEW l \in Int
        PROVE  [w EXCEPT !.zooming = off, !.velocity = x, !.last = l, !.offset = b] \in ViewState
    BY FieldUpdates, Zenon
  <2>2. o \in BOOLEAN /\ 0 \in Int
    BY <1>1
  <2> QED BY <1>3, <2>1, <2>2, Zenon DEF u
<1>5. /\ u.zooming = FALSE /\ u.offset = o /\ u.policy = w.policy
      /\ u.minimum = w.minimum /\ u.maximum = w.maximum /\ u.scale = w.scale
  BY SMT DEF ViewState
<1> HIDE DEF u
<1> QED BY <1>1, <1>2, <1>4, <1>5, Zenon DEF Sound, Quiet, Follows, inRange

\* Any scale keeps the state sound.
LEMMA ScaleIsSound ==
  ASSUME NEW w, Sound(w), NEW s \in Int
  PROVE  /\ Sound(withScale(w, s))
         /\ withScale(w, s).scale = Clamped(s, 1, MaxScale)
         /\ withScale(w, s).policy = w.policy
         /\ withScale(w, s).minimum = w.minimum /\ withScale(w, s).maximum = w.maximum
         /\ withScale(w, s).zooming = w.zooming
<1> DEFINE c == Clamped(s, 1, MaxScale)
<1>1. c \in ScaleLevel
  BY ClampedScale
<1> HIDE DEF c
<1>2. withScale(w, s) = [w EXCEPT !.scale = c]
  BY DEF withScale, c
<1>3. /\ [w EXCEPT !.scale = c] \in ViewState
      /\ [w EXCEPT !.scale = c].scale = c
      /\ \A f \in {"policy", "minimum", "maximum", "zooming", "offset"} :
           [w EXCEPT !.scale = c][f] = w[f]
  BY <1>1, SMT DEF Sound, ViewState
<1> QED BY <1>2, <1>3 DEF Sound, Quiet, c

\* Zooming by a factor keeps the state sound, and in range if the new scale is.
LEMMA FactorIsSound ==
  ASSUME NEW w, Sound(w), NEW s \in Int, NEW u \in applyZoomFactor(w, s), w.zooming
  PROVE  /\ Sound(u) /\ u.zooming
         /\ u.policy = w.policy /\ u.minimum = w.minimum /\ u.maximum = w.maximum
         /\ u.scale = Clamped(s, 1, MaxScale)
<1> DEFINE z == withScale(w, s)
<1>1. /\ Sound(z) /\ z.scale = Clamped(s, 1, MaxScale) /\ z.policy = w.policy
      /\ z.minimum = w.minimum /\ z.maximum = w.maximum /\ z.zooming = w.zooming
  BY ScaleIsSound
<1> HIDE DEF z
<1>2. PICK o \in BOOLEAN : u = [z EXCEPT !.offset = o]
  <2>1. w.offset \in BOOLEAN
    BY DEF Sound, ViewState
  <2> QED BY <2>1 DEF applyZoomFactor, z
<1>3. z \in ViewState
  BY <1>1 DEF Sound
<1>4. /\ u \in ViewState /\ u.zooming = z.zooming /\ u.policy = z.policy
      /\ u.minimum = z.minimum /\ u.maximum = z.maximum /\ u.scale = z.scale
  BY <1>2, <1>3, SMT DEF ViewState
<1> QED BY <1>1, <1>4 DEF Sound, Quiet

\* One advance of the animation: stopped at a bound, or in range as it was.
LEMMA AdvanceIsSound ==
  ASSUME NEW w, Sound(w), w.zooming, NEW steps \in Nat,
         NEW u \in advanceZoomAnimation(w, steps)
  PROVE  Sound(u) /\ Follows(u, w)
<1> DEFINE s == w.scale + zoomAnimationScaleFactor(w.velocity, steps)
<1>1. /\ w \in ViewState /\ w.minimum <= w.maximum /\ w.velocity \in Velocity
      /\ w.scale \in Int /\ w.minimum \in 0 .. MaxScale /\ w.maximum \in 0 .. MaxScale
  BY SMT DEF Sound, ViewState, ScaleLevel
<1>2. s \in Int
  BY <1>1, TravelIsInt, SMT
<1> HIDE DEF s
<1>3. CASE \E b \in {w.minimum, w.maximum} :
             b > 0 /\ \E z \in applyZoomFactor(w, b) : u = stopZoomTimer(z)
  <2>1. PICK b \in {w.minimum, w.maximum} :
               b > 0 /\ \E z \in applyZoomFactor(w, b) : u = stopZoomTimer(z)
    BY <1>3
  <2>2. PICK z \in applyZoomFactor(w, b) : u = stopZoomTimer(z)
    BY <2>1
  <2>3. b \in Int /\ b \in ScaleLevel
    BY <1>1, <2>1, ViewConstants, SMT DEF ScaleLevel
  <2>4. /\ Sound(z) /\ z.policy = w.policy /\ z.minimum = w.minimum
        /\ z.maximum = w.maximum /\ z.scale = b
    BY <2>3, FactorIsSound, ClampedScale
  <2>5. Sound(u) /\ Follows(u, z)
    BY <2>2, <2>4, StopIsSound DEF Sound
  <2>6. inRange(z)
    BY <1>1, <2>1, <2>4, SMT DEF inRange
  <2> QED BY <2>4, <2>5, <2>6 DEF Follows
<1>4. CASE /\ w.maximum > 0 => ~(s > w.maximum)
           /\ w.minimum > 0 => ~(s < w.minimum)
           /\ \E z \in applyZoomFactor(w, s) :
                u = [z EXCEPT !.velocity = zoomAnimationVelocityAfter(w.velocity, steps)]
  <2> DEFINE x == zoomAnimationVelocityAfter(w.velocity, steps)
  <2>1. PICK z \in applyZoomFactor(w, s) : u = [z EXCEPT !.velocity = x]
    BY <1>4
  <2>2. /\ Sound(z) /\ z.zooming /\ z.policy = w.policy /\ z.minimum = w.minimum
        /\ z.maximum = w.maximum /\ z.scale = Clamped(s, 1, MaxScale)
    BY <1>2, FactorIsSound
  <2>3. x \in Velocity
    BY <1>1, FrictionKeepsVelocity
  <2> HIDE DEF x
  <2>4. z \in ViewState
    BY <2>2 DEF Sound
  <2>5. /\ u \in ViewState /\ u.zooming = z.zooming /\ u.policy = z.policy
        /\ u.minimum = z.minimum /\ u.maximum = z.maximum /\ u.scale = z.scale
    BY <2>1, <2>3, <2>4, SMT DEF ViewState
  <2>6. inRange(u)
    BY <1>1, <1>2, <1>4, <2>2, <2>5, ClampedScale, SMT DEF inRange
  <2> QED BY <2>2, <2>5, <2>6 DEF Sound, Quiet, Follows
<1> QED BY <1>1, <1>2, <1>3, <1>4, SMT DEF advanceZoomAnimation, s

\* Settling the animation up to a time, past or future.
LEMMA SettleIsSound ==
  ASSUME NEW w, Sound(w), NEW t \in Int, NEW u \in advanceZoomToTime(w, t)
  PROVE  Sound(u) /\ Follows(u, w)
<1>1. w \in ViewState /\ w.last \in Int
  BY DEF Sound, ViewState
<1>2. ASSUME NEW l \in Int
      PROVE  LET z == [w EXCEPT !.last = l]
             IN  Sound(z) /\ Follows(z, w) /\ z.zooming = w.zooming
  <2> DEFINE z == [w EXCEPT !.last = l]
  <2>1. /\ z \in ViewState /\ z.zooming = w.zooming /\ z.policy = w.policy /\ z.offset = w.offset
        /\ z.minimum = w.minimum /\ z.maximum = w.maximum /\ z.scale = w.scale
    BY <1>1, SMT DEF ViewState
  <2> HIDE DEF z
  <2>2. Sound(z) /\ Follows(z, w) /\ z.zooming = w.zooming
    BY <2>1 DEF Sound, Quiet, Follows, inRange
  <2> QED BY <2>2 DEF z
<1>3. CASE ~w.zooming
  BY <1>2, <1>3 DEF advanceZoomToTime
<1>4. CASE w.zooming /\ t <= w.last
  BY <1>4 DEF advanceZoomToTime, Follows
<1>5. CASE w.zooming /\ ~(t <= w.last)
  <2> DEFINE z == [w EXCEPT !.last = t]
  <2>1. Sound(z) /\ Follows(z, w) /\ z.zooming
    BY <1>2, <1>5
  <2>2. t - w.last \in Nat
    BY <1>1, <1>5, SMT
  <2>3. u \in advanceZoomAnimation(z, t - w.last)
    BY <1>5 DEF advanceZoomToTime
  <2> HIDE DEF z
  <2>4. Sound(u) /\ Follows(u, z)
    BY <2>1, <2>2, <2>3, AdvanceIsSound
  <2> QED BY <2>1, <2>4 DEF Follows
<1> QED BY <1>3, <1>4, <1>5

\* A scale that is set brings the view into its range and to rest.
LEMMA SetupIsSound ==
  ASSUME NEW w \in ViewState, w.minimum <= w.maximum, NEW s \in Int
  PROVE  LET u == setupScale(w, s)
         IN  /\ Sound(u) /\ inRange(u) /\ u.policy = w.policy
             /\ u.minimum = w.minimum /\ u.maximum = w.maximum
<1> DEFINE u == stopZoomTimer(w)
           low == IF w.minimum > 0 THEN Largest(w.minimum, s) ELSE s
           new == IF w.maximum > 0 THEN Least(w.maximum, low) ELSE low
           z == withScale(u, new)
           r == setupScale(w, s)
<1>1. w.scale \in ScaleLevel /\ w.minimum \in 0 .. MaxScale /\ w.maximum \in 0 .. MaxScale
  BY DEF ViewState
<1>2. new \in Int /\ (w.minimum > 0 => new >= w.minimum) /\ (w.maximum > 0 => new <= w.maximum)
  BY <1>1, ViewConstants, SMT DEF Least, Largest
<1>3. /\ Sound(u) /\ u.scale = w.scale /\ u.policy = w.policy /\ ~u.zooming
      /\ u.minimum = w.minimum /\ u.maximum = w.maximum
  BY StopIsSound DEF Follows
<1>4. r = IF new = w.scale THEN u ELSE [z EXCEPT !.offset = FALSE]
  BY DEF setupScale
<1> HIDE DEF new, u, low, r
<1>5. /\ Sound(z) /\ z.scale = Clamped(new, 1, MaxScale) /\ z.policy = w.policy
      /\ z.minimum = w.minimum /\ z.maximum = w.maximum
  BY <1>2, <1>3, ScaleIsSound
<1>6. CASE new = w.scale
  <2>1. inRange(u)
    BY <1>1, <1>2, <1>3, <1>6, SMT DEF inRange
  <2> QED BY <1>3, <1>4, <1>6, <2>1 DEF r
<1>7. CASE new # w.scale
  <2> HIDE DEF z
  <2>1. z \in ViewState
    BY <1>5 DEF Sound
  <2>2. /\ r \in ViewState /\ r.offset = FALSE /\ r.scale = z.scale /\ r.policy = z.policy
        /\ r.minimum = z.minimum /\ r.maximum = z.maximum
    <3>1. r = [z EXCEPT !.offset = FALSE]
      BY <1>4, <1>7
    <3>2. r \in ViewState
      BY <2>1, <3>1, FieldUpdates, Zenon
    <3>3. /\ r.offset = FALSE /\ r.scale = z.scale /\ r.policy = z.policy
          /\ r.minimum = z.minimum /\ r.maximum = z.maximum
      BY <2>1, <3>1, SMT DEF ViewState
    <3> QED BY <3>2, <3>3
  <2>3. inRange(r)
    BY <1>1, <1>2, <1>5, <2>2, ClampedScale, SMT DEF inRange
  <2> QED BY <1>5, <2>2, <2>3 DEF Sound, Quiet, r
<1> QED BY <1>6, <1>7

\* The impulse of a wheel, on an animation that runs or that it starts.
LEMMA ImpulseIsSound ==
  ASSUME NEW w, Sound(w), NEW x \in Velocity, NEW t \in Int
  PROVE  LET pushed == [w EXCEPT !.velocity = x]
             started == IF pushed.zooming THEN pushed
                        ELSE [pushed EXCEPT !.zooming = TRUE, !.last = t - 1]
         IN  Sound(started) /\ Follows(started, w)
<1> DEFINE pushed == [w EXCEPT !.velocity = x]
           started == IF pushed.zooming THEN pushed
                      ELSE [pushed EXCEPT !.zooming = TRUE, !.last = t - 1]
<1>1. /\ pushed \in ViewState /\ pushed.zooming = w.zooming /\ pushed.offset = w.offset
      /\ pushed.policy = w.policy /\ pushed.scale = w.scale
      /\ pushed.minimum = w.minimum /\ pushed.maximum = w.maximum
  BY SMT DEF Sound, ViewState
<1>2. t - 1 \in Int
  BY SMT
<1>3. CASE pushed.zooming
  BY <1>1, <1>3 DEF Sound, Quiet, Follows, inRange
<1>4. CASE ~pushed.zooming
  <2>1. ASSUME NEW p \in ViewState, NEW l \in Int
        PROVE  LET z == [p EXCEPT !.zooming = TRUE, !.last = l]
               IN  /\ z \in ViewState /\ z.zooming = TRUE /\ z.policy = p.policy
                   /\ z.scale = p.scale /\ z.minimum = p.minimum /\ z.maximum = p.maximum
    <3> DEFINE z == [p EXCEPT !.zooming = TRUE, !.last = l]
    <3>1. z \in ViewState
      BY FieldUpdates, Zenon
    <3>2. /\ z.zooming = TRUE /\ z.policy = p.policy
          /\ z.scale = p.scale /\ z.minimum = p.minimum /\ z.maximum = p.maximum
      BY SMT DEF ViewState
    <3> QED BY <3>1, <3>2
  <2>2. started = [pushed EXCEPT !.zooming = TRUE, !.last = t - 1]
    BY <1>4
  <2> HIDE DEF pushed, started
  <2>3. /\ started \in ViewState /\ started.zooming = TRUE /\ started.policy = pushed.policy
        /\ started.scale = pushed.scale
        /\ started.minimum = pushed.minimum /\ started.maximum = pushed.maximum
    BY <1>1, <1>2, <2>1, <2>2
  <2>4. Sound(started) /\ Follows(started, w)
    BY <1>1, <2>3 DEF Sound, Quiet, Follows, inRange
  <2> QED BY <2>4 DEF started, pushed
<1> QED BY <1>3, <1>4

-----------------------------------------------------------------------------
(* The steps of a view.                                                    *)

ViewInv ==
  /\ attached \subseteq Views /\ IsFiniteSet(attached)
  /\ view \in [Views -> ViewState]
  /\ cacheMode \in [SceneNode -> {"absent", "NoCache", "DeviceCache"}]
  /\ \A v \in Views : Sound(view[v])
  /\ CachedForOneCrispView

\* What ScaleStaysInRange asks of a view that becomes w.
KeepsRange(v, w) ==
  inRange(view[v]) \/ w.minimum # view[v].minimum \/ w.maximum # view[v].maximum
    => inRange(w) \/ Fit(v)

Becomes(v, w) == \E turned \in BOOLEAN : becomeWith(v, w, turned)

\* Whatever a view's own handler does, the view becomes a sound one of the same
\* policy and range.
LEMMA HandlersAreSound ==
  ASSUME ViewInv, NEW v \in Views,
         Wheel(v) \/ Timer(v) \/ stopZoomAnimation(v) \/ Rescale(v) \/ Fit(v)
  PROVE  \E w : Sound(w) /\ w.policy = view[v].policy /\ KeepsRange(v, w) /\ Becomes(v, w)
<1>0. \A w : become(v, w) => Becomes(v, w)
  BY DEF become, Becomes
<1> DEFINE now == view[v]
<1>1. /\ Sound(now) /\ now \in ViewState /\ now.minimum <= now.maximum
      /\ now.scale \in ScaleLevel /\ now.last \in Int
      /\ now.minimum \in 0 .. MaxScale /\ now.maximum \in 0 .. MaxScale
  BY DEF ViewInv, Sound, ViewState
<1>2. ASSUME NEW w, Sound(w), Follows(w, now), Becomes(v, w)
      PROVE  \E x : Sound(x) /\ x.policy = now.policy /\ KeepsRange(v, x) /\ Becomes(v, x)
  BY <1>2 DEF Follows, KeepsRange
<1>3. ASSUME NEW w, Sound(w), w.policy = now.policy, inRange(w) \/ Fit(v), Becomes(v, w)
      PROVE  \E x : Sound(x) /\ x.policy = now.policy /\ KeepsRange(v, x) /\ Becomes(v, x)
  BY <1>3 DEF KeepsRange
<1>4. /\ Sound(stopZoomTimer(now)) /\ Follows(stopZoomTimer(now), now)
      /\ stopZoomTimer(now).scale = now.scale
  BY <1>1, StopIsSound
<1>5. ASSUME Wheel(v)
      PROVE  \E w : Sound(w) /\ Follows(w, now) /\ Becomes(v, w)
  <2>1. PICK direction \in {-1, 1}, t \in -MaxDelay .. MaxDelay : wheelEvent(v, direction, t)
    BY <1>5 DEF Wheel
  <2>2. t \in Int
    BY ViewConstants, SMT
  <2>3. PICK settled \in IF now.zooming THEN advanceZoomToTime(now, t) ELSE {now} :
          \E velocity \in {x \in Velocity : direction * x >= direction * settled.velocity} :
            /\ settled.velocity = 0 => velocity # 0
            /\ LET pushed == [settled EXCEPT !.velocity = velocity]
                   started == IF pushed.zooming THEN pushed
                              ELSE [pushed EXCEPT !.zooming = TRUE, !.last = t - 1]
               IN  \E w \in advanceZoomToTime(started, t) :
                becomeWith(v, w, ~settled.zooming \/ ~w.zooming)
    BY <2>1 DEF wheelEvent
  <2>4. Sound(settled) /\ Follows(settled, now)
    BY <1>1, <2>2, <2>3, SettleIsSound DEF Follows
  <2>5. PICK velocity \in Velocity :
          LET pushed == [settled EXCEPT !.velocity = velocity]
              started == IF pushed.zooming THEN pushed
                         ELSE [pushed EXCEPT !.zooming = TRUE, !.last = t - 1]
          IN  \E w \in advanceZoomToTime(started, t) :
                becomeWith(v, w, ~settled.zooming \/ ~w.zooming)
    BY <2>3
  <2> DEFINE pushed == [settled EXCEPT !.velocity = velocity]
             started == IF pushed.zooming THEN pushed
                        ELSE [pushed EXCEPT !.zooming = TRUE, !.last = t - 1]
  <2>6. Sound(started) /\ Follows(started, settled)
    BY <2>2, <2>4, ImpulseIsSound
  <2>7. PICK w \in advanceZoomToTime(started, t) : Becomes(v, w)
    BY <2>5 DEF Becomes
  <2> HIDE DEF started
  <2>8. Sound(w) /\ Follows(w, started)
    BY <2>2, <2>6, <2>7, SettleIsSound
  <2> QED BY <2>4, <2>6, <2>7, <2>8 DEF Follows
<1>6. ASSUME Timer(v)
      PROVE  \E w : Sound(w) /\ Follows(w, now) /\ Becomes(v, w)
  <2>1. PICK steps \in 1 .. 2 : applyZoomStep(v, steps)
    BY <1>6 DEF Timer
  <2>2. CASE now.velocity = 0
    BY <1>0, <1>4, <2>1, <2>2 DEF applyZoomStep
  <2>3. CASE now.velocity # 0
    <3> DEFINE late == [now EXCEPT !.last = @ - steps]
    <3>1. PICK w \in advanceZoomToTime(late, 0) : Becomes(v, w)
      BY <1>0, <2>1, <2>3 DEF applyZoomStep
    <3>2. ASSUME NEW l \in Int, NEW z, z = [now EXCEPT !.last = l]
          PROVE  /\ z \in ViewState /\ z.zooming = now.zooming /\ z.policy = now.policy
                 /\ z.scale = now.scale /\ z.offset = now.offset
                 /\ z.minimum = now.minimum /\ z.maximum = now.maximum
      <4> HIDE DEF now
      <4> QED BY <1>1, <3>2, SMT DEF ViewState
    <3>3. now.last - steps \in Int
      BY <1>1, SMT
    <3>4. Sound(late) /\ Follows(late, now)
      BY <1>1, <3>2, <3>3 DEF Sound, Quiet, Follows, inRange
    <3> HIDE DEF late
    <3>5. Sound(w) /\ Follows(w, late)
      BY <3>1, <3>4, SettleIsSound
    <3> QED BY <3>1, <3>4, <3>5 DEF Follows
  <2> QED BY <2>2, <2>3
<1>7. ASSUME Rescale(v)
      PROVE  \E w : Sound(w) /\ w.policy = now.policy /\ (inRange(w) \/ Follows(w, now)) /\ Becomes(v, w)
  <2>1. CASE \E lo, hi \in RangeBound : setScaleRange(v, lo, hi)
    <3>1. PICK lo \in RangeBound, hi \in RangeBound : setScaleRange(v, lo, hi)
      BY <2>1
    <3> DEFINE a == Least(lo, hi)
               b == Largest(lo, hi)
               z == [now EXCEPT !.minimum = a, !.maximum = b]
    <3>2. a \in 0 .. MaxScale /\ b \in 0 .. MaxScale /\ a <= b
      BY ViewConstants, SMT DEF Least, Largest
    <3>3. become(v, setupScale(z, z.scale))
      BY <3>1 DEF setScaleRange
    <3> HIDE DEF a, b
    <3>4. /\ z \in ViewState /\ z.minimum <= z.maximum /\ z.scale \in Int /\ z.policy = now.policy
      <4> HIDE DEF now
      <4>1. /\ z \in ViewState /\ z.minimum = a /\ z.maximum = b
            /\ z.scale = now.scale /\ z.policy = now.policy
        <5>1. z \in ViewState
          BY <1>1, <3>2, FieldUpdates, Zenon
        <5>2. /\ z.minimum = a /\ z.maximum = b /\ z.scale = now.scale /\ z.policy = now.policy
          BY <1>1, SMT DEF ViewState
        <5> QED BY <5>1, <5>2
      <4> HIDE DEF z
      <4> QED BY <1>1, <3>2, <4>1, SMT DEF ScaleLevel
    <3> HIDE DEF z
    <3> QED BY <1>0, <3>3, <3>4, SetupIsSound
  <2>2. CASE \E s \in ScaleLevel : become(v, setupScale(view[v], s))
    <3>1. PICK s \in ScaleLevel : become(v, setupScale(view[v], s))
      BY <2>2
    <3>2. s \in Int
      BY SMT DEF ScaleLevel
    <3> QED BY <1>0, <1>1, <3>1, <3>2, SetupIsSound
  <2> DEFINE u == stopZoomTimer(now)
  <2>3. /\ u \in ViewState /\ u.minimum <= u.maximum /\ u.scale \in ScaleLevel
        /\ u.minimum \in 0 .. MaxScale /\ u.maximum \in 0 .. MaxScale
        /\ u.policy = now.policy /\ u.minimum = now.minimum /\ u.maximum = now.maximum
        /\ u.scale = now.scale /\ Sound(u)
    BY <1>1, <1>4 DEF Sound, Follows
  <2>4. ASSUME NEW s \in Int, become(v, setupScale(u, s))
        PROVE  \E w : Sound(w) /\ w.policy = now.policy /\ inRange(w) /\ Becomes(v, w)
    BY <1>0, <2>3, <2>4, SetupIsSound
  <2>5. CASE scaleUp(v)
    <3>1. u.scale + 1 \in Int
      BY <2>3, SMT DEF ScaleLevel
    <3>2. CASE u.maximum > 0 /\ u.scale + 1 >= u.maximum
      BY <2>4, <2>5, <3>1, <3>2 DEF scaleUp
    <3>3. CASE ~(u.maximum > 0 /\ u.scale + 1 >= u.maximum)
      <4> DEFINE w == withScale(u, u.scale + 1)
      <4>1. Becomes(v, w)
        BY <1>0, <2>5, <3>3 DEF scaleUp
      <4>2. /\ Sound(w) /\ w.scale = Clamped(u.scale + 1, 1, MaxScale) /\ w.policy = u.policy
            /\ w.minimum = u.minimum /\ w.maximum = u.maximum
        BY <2>3, <3>1, ScaleIsSound
      <4> HIDE DEF w, u
      <4>3. inRange(u) => inRange(w)
        BY <2>3, <3>1, <3>3, <4>2, ClampedScale, SMT DEF inRange, ScaleLevel
      <4>4. Follows(w, now)
        BY <1>4, <2>3, <4>2, <4>3 DEF Follows, u
      <4> QED BY <2>3, <4>1, <4>2, <4>4
    <3> QED BY <3>2, <3>3
  <2>6. CASE scaleDown(v)
    <3>1. u.scale - 1 \in Int
      BY <2>3, SMT DEF ScaleLevel
    <3>2. CASE u.minimum > 0 /\ u.scale - 1 <= u.minimum
      BY <2>4, <2>6, <3>1, <3>2 DEF scaleDown
    <3>3. CASE ~(u.minimum > 0 /\ u.scale - 1 <= u.minimum)
      <4> DEFINE w == withScale(u, u.scale - 1)
      <4>1. Becomes(v, w)
        BY <1>0, <2>6, <3>3 DEF scaleDown
      <4>2. /\ Sound(w) /\ w.scale = Clamped(u.scale - 1, 1, MaxScale) /\ w.policy = u.policy
            /\ w.minimum = u.minimum /\ w.maximum = u.maximum
        BY <2>3, <3>1, ScaleIsSound
      <4> HIDE DEF w, u
      <4>3. inRange(u) => inRange(w)
        BY <2>3, <3>1, <3>3, <4>2, ClampedScale, SMT DEF inRange, ScaleLevel
      <4>4. Follows(w, now)
        BY <1>4, <2>3, <4>2, <4>3 DEF Follows, u
      <4> QED BY <2>3, <4>1, <4>2, <4>4
    <3> QED BY <3>2, <3>3
  <2> QED BY <1>7, <2>1, <2>2, <2>5, <2>6 DEF Rescale
<1>8. ASSUME Fit(v)
      PROVE  \E w : Sound(w) /\ w.policy = now.policy /\ Becomes(v, w)
  <2>1. PICK s \in ScaleLevel : zoomFit(v, s) \/ centerScene(v, s)
    BY <1>8 DEF Fit
  <2>2. s \in Int
    BY SMT DEF ScaleLevel
  <2>3. CASE zoomFit(v, s)
    BY <1>0, <1>4, <2>2, <2>3, ScaleIsSound DEF zoomFit, Follows
  <2>4. CASE centerScene(v, s)
    BY <1>0, <1>1, <2>2, <2>4, ScaleIsSound DEF centerScene
  <2> QED BY <2>1, <2>3, <2>4
<1>9. ASSUME stopZoomAnimation(v)
      PROVE  \E w : Sound(w) /\ Follows(w, now) /\ Becomes(v, w)
  BY <1>0, <1>4, <1>9 DEF stopZoomAnimation
<1> HIDE DEF now
<1> QED BY <1>2, <1>3, <1>5, <1>6, <1>7, <1>8, <1>9 DEF now

-----------------------------------------------------------------------------
(* The views together.                                                     *)

\* A refresh caches only for at most one view, and a crisp one.
LEMMA RefreshIsSafe ==
  ASSUME NEW scene, scene \subseteq Views, IsFiniteSet(scene),
         NEW vs \in [Views -> ViewState],
         NEW cm, cm = [n \in SceneNode |-> IF cacheMode[n] = "absent" THEN "absent"
                                           ELSE effective_node_cache_mode(scene, vs)]
  PROVE  /\ cm \in [SceneNode -> {"absent", "NoCache", "DeviceCache"}]
         /\ (\E n \in SceneNode : cm[n] = "DeviceCache") =>
              Cardinality(scene) <= 1 /\ \A v \in scene : vs[v].policy = "Crisp"
<1>1. effective_node_cache_mode(scene, vs) \in {"NoCache", "DeviceCache"}
  BY DEF effective_node_cache_mode
<1>2. cm \in [SceneNode -> {"absent", "NoCache", "DeviceCache"}]
  BY <1>1
<1>3. ASSUME NEW n \in SceneNode, cm[n] = "DeviceCache"
      PROVE  Cardinality(scene) <= 1 /\ \A v \in scene : vs[v].policy = "Crisp"
  <2>1. effective_node_cache_mode(scene, vs) = "DeviceCache"
    BY <1>3
  <2>2. /\ ~(Cardinality(scene) > 1)
        /\ \A v \in scene : vs[v].policy # "Consistent"
    BY <2>1 DEF effective_node_cache_mode
  <2>3. \A v \in scene : vs[v].policy \in Policy
    BY DEF ViewState
  <2>4. Cardinality(scene) \in Nat
    BY FS_CardinalityType
  <2>5. Cardinality(scene) <= 1
    BY <2>2, <2>4, SMT
  <2> QED BY <2>2, <2>3, <2>5 DEF Policy
<1> QED BY <1>2, <1>3

\* Fewer views, of the policies they had, need no refresh.
LEMMA FewerViewsAreSafe ==
  ASSUME ViewInv, NEW scene \in SUBSET attached, NEW vs \in [Views -> ViewState],
         \A v \in scene : vs[v].policy = view[v].policy,
         \E n \in SceneNode : cacheMode[n] = "DeviceCache"
  PROVE  Cardinality(scene) <= 1 /\ \A v \in scene : vs[v].policy = "Crisp"
<1>1. IsFiniteSet(attached) /\ Cardinality(attached) <= 1
      /\ \A v \in attached : view[v].policy = "Crisp"
  BY DEF ViewInv, CachedForOneCrispView
<1>2. Cardinality(scene) <= Cardinality(attached) /\ IsFiniteSet(scene)
  BY <1>1, FS_Subset
<1>3. Cardinality(scene) \in Nat /\ Cardinality(attached) \in Nat
  BY <1>1, <1>2, FS_CardinalityType
<1>4. Cardinality(scene) <= 1
  BY <1>1, <1>2, <1>3, SMT
<1> QED BY <1>1, <1>4

\* A view that becomes a sound one of the same policy keeps the invariant.
LEMMA BecomeKeepsInv ==
  ASSUME ViewInv, NEW v \in Views, NEW w, Sound(w), w.policy = view[v].policy, Becomes(v, w)
  PROVE  ViewInv'
<1> DEFINE vs == [view EXCEPT ![v] = w]
<1>1. /\ attached \subseteq Views /\ IsFiniteSet(attached) /\ view \in [Views -> ViewState]
      /\ cacheMode \in [SceneNode -> {"absent", "NoCache", "DeviceCache"}]
      /\ \A u \in Views : Sound(view[u])
  BY DEF ViewInv
<1>2. w \in ViewState
  BY DEF Sound
<1>3. vs \in [Views -> ViewState] /\ \A u \in Views : Sound(vs[u]) /\ vs[u].policy = view[u].policy
  BY <1>1, <1>2, Zenon
<1>4. view' = vs /\ attached' = attached
  BY DEF Becomes, becomeWith
<1>5. CASE UNCHANGED cacheMode
  <2>1. (\E n \in SceneNode : cacheMode'[n] = "DeviceCache") =>
          Cardinality(attached) <= 1 /\ \A u \in attached : vs[u].policy = "Crisp"
    <3> HIDE DEF vs
    <3> QED BY <1>1, <1>3, <1>5, FewerViewsAreSafe
  <2> HIDE DEF vs
  <2> QED BY <1>1, <1>3, <1>4, <1>5, <2>1 DEF ViewInv, CachedForOneCrispView
<1>6. CASE refresh_node_cache_mode(attached, vs)
  <2> HIDE DEF vs
  <2>1. /\ cacheMode' \in [SceneNode -> {"absent", "NoCache", "DeviceCache"}]
        /\ (\E n \in SceneNode : cacheMode'[n] = "DeviceCache") =>
             Cardinality(attached) <= 1 /\ \A u \in attached : vs[u].policy = "Crisp"
    BY <1>1, <1>3, <1>6, RefreshIsSafe DEF refresh_node_cache_mode
  <2> QED BY <1>1, <1>3, <1>4, <2>1 DEF ViewInv, CachedForOneCrispView
<1> QED BY <1>5, <1>6 DEF Becomes, becomeWith, refreshFor

\* So does applying a policy, whether or not the view has just joined.
LEMMA PolicyKeepsInv ==
  ASSUME ViewInv, NEW v \in Views, NEW policy \in Policy, NEW scene \in SUBSET Views,
         IsFiniteSet(scene), attached' = scene, scene \subseteq attached \cup {v},
         applyRasterizationPolicy(v, [view[v] EXCEPT !.policy = policy], scene)
  PROVE  /\ ViewInv'
         /\ \A u \in Views : /\ view'[u].minimum = view[u].minimum
                             /\ view'[u].maximum = view[u].maximum
                             /\ view'[u].scale = view[u].scale
<1> DEFINE w == [view[v] EXCEPT !.policy = policy]
           o == w.offset /\ w.policy # "Crisp"
           z == [w EXCEPT !.offset = o]
           vs == [view EXCEPT ![v] = z]
<1>1. /\ attached \subseteq Views /\ IsFiniteSet(attached) /\ view \in [Views -> ViewState]
      /\ cacheMode \in [SceneNode -> {"absent", "NoCache", "DeviceCache"}]
      /\ \A u \in Views : Sound(view[u])
  BY DEF ViewInv
<1>2. /\ w \in ViewState /\ w.policy = policy /\ w.scale = view[v].scale
      /\ w.minimum = view[v].minimum /\ w.maximum = view[v].maximum
  <2>1. view[v] \in ViewState
    BY <1>1
  <2> QED BY <2>1, SMT DEF ViewState
<1>3. view' = vs
  BY DEF applyRasterizationPolicy
<1>4. v \in scene => refresh_node_cache_mode(scene, vs)
  BY DEF applyRasterizationPolicy
<1>5. v \notin scene => UNCHANGED cacheMode
  BY DEF applyRasterizationPolicy
<1>6. o \in BOOLEAN /\ (w.policy = "Crisp" => ~o)
  OBVIOUS
<1> HIDE DEF o, w
<1>7. z \in ViewState
  BY <1>2, <1>6, FieldUpdates, Zenon
<1>8. /\ z.offset = o /\ z.policy = w.policy /\ z.zooming = w.zooming
      /\ z.minimum = w.minimum /\ z.maximum = w.maximum /\ z.scale = w.scale
  BY <1>2, SMT DEF ViewState
<1> HIDE DEF z
<1>9. view[v].minimum <= view[v].maximum
  BY <1>1 DEF Sound
<1>10. Sound(z)
  BY <1>2, <1>6, <1>7, <1>8, <1>9, Zenon DEF Sound, Quiet
<1>11. /\ vs \in [Views -> ViewState] /\ vs[v] = z
       /\ \A u \in Views \ {v} : vs[u] = view[u]
  BY <1>1, <1>7, Zenon
<1>12. \A u \in Views : Sound(vs[u])
  BY <1>1, <1>10, <1>11
<1> HIDE DEF vs
<1>13. /\ cacheMode' \in [SceneNode -> {"absent", "NoCache", "DeviceCache"}]
       /\ (\E n \in SceneNode : cacheMode'[n] = "DeviceCache") =>
            Cardinality(scene) <= 1 /\ \A u \in scene : vs[u].policy = "Crisp"
  <2>1. CASE v \in scene
    BY <1>4, <1>11, <2>1, RefreshIsSafe DEF refresh_node_cache_mode
  <2>2. CASE v \notin scene
    BY <1>1, <1>5, <1>11, <2>2, FewerViewsAreSafe
  <2> QED BY <2>1, <2>2
<1>14. ViewInv'
  BY <1>3, <1>11, <1>12, <1>13 DEF ViewInv, CachedForOneCrispView
<1> QED BY <1>2, <1>3, <1>8, <1>11, <1>14

\* A new view is sound and in its range.
LEMMA NewViewIsSound == Sound(newView) /\ inRange(newView)
<1>1. /\ newView.scale = 2 /\ newView.minimum = 1 /\ newView.maximum = 3
      /\ newView.policy = "Consistent"
  BY DEF newView
<1>2. newView \in ViewState
  <2>1. 1 \in 0 .. MaxScale /\ 3 \in 0 .. MaxScale /\ 2 \in ScaleLevel /\ 0 \in Velocity /\ 0 \in Int
    BY ViewConstants, SMT DEF ScaleLevel, Velocity
  <2>2. "Consistent" \in Policy
    BY DEF Policy
  <2> QED BY <2>1, <2>2, Zenon DEF newView, ViewState
<1>3. newView.minimum <= newView.maximum /\ inRange(newView)
  BY <1>1, SMT DEF inRange
<1> QED BY <1>1, <1>2, <1>3 DEF Sound, Quiet

\* The part of ScaleStaysInRange that is about one step.
ScaleStep ==
  \A v \in Views :
    inRange(view[v]) \/ view[v].minimum # view'[v].minimum \/ view[v].maximum # view'[v].maximum
      => inRange(view'[v]) \/ Fit(v)

\* Views whose scale and range are what they were are where they were.
LEMMA SameScaleSameRange ==
  ASSUME \A v \in Views : /\ view'[v].minimum = view[v].minimum
                          /\ view'[v].maximum = view[v].maximum
                          /\ view'[v].scale = view[v].scale
  PROVE  ScaleStep
  BY DEF ScaleStep, inRange

LEMMA InitIsSound == ViewInit => ViewInv
<1> SUFFICES ASSUME ViewInit PROVE ViewInv
  OBVIOUS
<1>1. newView \in ViewState
  BY NewViewIsSound DEF Sound
<1>2. IsFiniteSet({})
  BY FS_EmptySet
<1> QED BY <1>1, <1>2, NewViewIsSound DEF ViewInit, ViewInv, CachedForOneCrispView

\* One step per action, for the invariant and the range together.
LEMMA StepIsSound == ViewInv /\ [ViewNext]_viewVars => ViewInv' /\ ScaleStep
<1> SUFFICES ASSUME ViewInv, [ViewNext]_viewVars PROVE ViewInv' /\ ScaleStep
  OBVIOUS
<1>1. /\ attached \subseteq Views /\ IsFiniteSet(attached) /\ view \in [Views -> ViewState]
      /\ cacheMode \in [SceneNode -> {"absent", "NoCache", "DeviceCache"}]
      /\ \A v \in Views : Sound(view[v])
  BY DEF ViewInv
<1>2. ASSUME NEW v \in Views,
             Wheel(v) \/ Timer(v) \/ stopZoomAnimation(v) \/ Rescale(v) \/ Fit(v)
      PROVE  ViewInv' /\ ScaleStep
  <2>1. PICK w : Sound(w) /\ w.policy = view[v].policy /\ KeepsRange(v, w) /\ Becomes(v, w)
    BY <1>2, HandlersAreSound
  <2>2. ViewInv'
    BY <2>1, BecomeKeepsInv
  <2>3. /\ view'[v] = w
        /\ \A u \in Views \ {v} : view'[u] = view[u]
    BY <1>1, <2>1 DEF Becomes, becomeWith
  <2>4. ScaleStep
    BY <2>1, <2>3 DEF KeepsRange, ScaleStep
  <2> QED BY <2>2, <2>4
<1>3. ASSUME NEW v \in Views, NEW policy \in Policy, setRasterizationPolicy(v, policy)
      PROVE  ViewInv' /\ ScaleStep
  <2>1. /\ attached' = attached
        /\ applyRasterizationPolicy(v, [view[v] EXCEPT !.policy = policy], attached)
    BY <1>3 DEF setRasterizationPolicy
  <2> QED BY <1>1, <2>1, PolicyKeepsInv, SameScaleSameRange
<1>4. ASSUME NEW v \in Views, joinScene(v)
      PROVE  ViewInv' /\ ScaleStep
  <2> DEFINE scene == attached \cup {v}
             same == [view[v] EXCEPT !.policy = view[v].policy]
  <2>1. view[v] \in ViewState
    BY <1>1
  <2>2. view[v].policy \in Policy /\ same = view[v]
    BY <2>1, SMT DEF ViewState
  <2>3. scene \subseteq Views /\ IsFiniteSet(scene)
    BY <1>1, FS_AddElement
  <2>4. attached' = scene /\ applyRasterizationPolicy(v, same, scene)
    BY <1>4, <2>2 DEF joinScene
  <2> QED BY <2>2, <2>3, <2>4, PolicyKeepsInv, SameScaleSameRange
<1>5. ASSUME NEW v \in Views, leaveScene(v)
      PROVE  ViewInv' /\ ScaleStep
  <2> DEFINE scene == attached \ {v}
  <2>1. scene \subseteq Views /\ IsFiniteSet(scene)
    BY <1>1, FS_RemoveElement
  <2>2. attached' = scene /\ refresh_node_cache_mode(scene, view) /\ view' = view
    BY <1>5 DEF leaveScene
  <2> HIDE DEF scene
  <2>3. /\ cacheMode' \in [SceneNode -> {"absent", "NoCache", "DeviceCache"}]
        /\ (\E n \in SceneNode : cacheMode'[n] = "DeviceCache") =>
             Cardinality(scene) <= 1 /\ \A u \in scene : view[u].policy = "Crisp"
    BY <1>1, <2>1, <2>2, RefreshIsSafe DEF refresh_node_cache_mode
  <2> QED BY <1>1, <2>1, <2>2, <2>3, SameScaleSameRange DEF ViewInv, CachedForOneCrispView
<1>6. ASSUME NEW v \in Views, destroyView(v)
      PROVE  ViewInv' /\ ScaleStep
  <2> DEFINE scene == attached \ {v}
             vs == [view EXCEPT ![v] = newView]
  <2>1. scene \subseteq attached /\ scene \subseteq Views /\ IsFiniteSet(scene)
    BY <1>1, FS_RemoveElement
  <2>2. attached' = scene /\ view' = vs /\ cacheMode' = cacheMode
    BY <1>6 DEF destroyView
  <2>3. newView \in ViewState
    BY NewViewIsSound DEF Sound
  <2>4. /\ vs \in [Views -> ViewState] /\ vs[v] = newView
        /\ \A u \in Views \ {v} : vs[u] = view[u]
    BY <1>1, <2>3, Zenon
  <2>5. \A u \in scene : vs[u].policy = view[u].policy
    BY <2>1, <2>4
  <2> HIDE DEF vs, scene
  <2>6. (\E n \in SceneNode : cacheMode[n] = "DeviceCache") =>
          Cardinality(scene) <= 1 /\ \A u \in scene : vs[u].policy = "Crisp"
    BY <2>1, <2>4, <2>5, FewerViewsAreSafe
  <2>7. ViewInv'
    BY <1>1, <2>1, <2>2, <2>4, <2>6, NewViewIsSound DEF ViewInv, CachedForOneCrispView
  <2>8. ScaleStep
    BY <2>2, <2>4, NewViewIsSound DEF ScaleStep
  <2> QED BY <2>7, <2>8
<1>7. ASSUME NEW v \in Views, setTextRenderingPolicy(v)
      PROVE  ViewInv' /\ ScaleStep
  <2>1. attached' = attached /\ view' = view
    BY <1>7 DEF setTextRenderingPolicy
  <2>2. CASE UNCHANGED cacheMode
    BY <2>1, <2>2, SameScaleSameRange DEF ViewInv, CachedForOneCrispView
  <2>3. CASE refresh_node_cache_mode(attached, view)
    <3>1. /\ cacheMode' \in [SceneNode -> {"absent", "NoCache", "DeviceCache"}]
          /\ (\E n \in SceneNode : cacheMode'[n] = "DeviceCache") =>
               Cardinality(attached) <= 1 /\ \A u \in attached : view[u].policy = "Crisp"
      BY <1>1, <2>3, RefreshIsSafe DEF refresh_node_cache_mode
    <3> QED BY <1>1, <2>1, <3>1, SameScaleSameRange DEF ViewInv, CachedForOneCrispView
  <2> QED BY <1>7, <2>2, <2>3 DEF setTextRenderingPolicy, refreshFor
<1>8. ASSUME NEW n \in SceneNode, createNodeObject(n)
      PROVE  ViewInv' /\ ScaleStep
  <2>1. /\ attached' = attached /\ view' = view
        /\ cacheMode' = [cacheMode EXCEPT ![n] = initial_cache_mode]
    BY <1>8 DEF createNodeObject
  <2>2. initial_cache_mode \in {"NoCache", "DeviceCache"}
    BY DEF initial_cache_mode
  <2>3. Cardinality(attached) \in Nat
    BY <1>1, FS_CardinalityType
  <2>4. ASSUME initial_cache_mode = "DeviceCache"
        PROVE  Cardinality(attached) <= 1 /\ \A u \in attached : view[u].policy = "Crisp"
    <3>1. ~(Cardinality(attached) > 1) /\ \A u \in attached : view[u].policy # "Consistent"
      BY <2>4 DEF initial_cache_mode
    <3>2. Cardinality(attached) <= 1
      BY <2>3, <3>1, SMT
    <3>3. \A u \in attached : view[u].policy \in Policy
      BY <1>1 DEF ViewState
    <3> QED BY <3>1, <3>2, <3>3 DEF Policy
  <2>5. CachedForOneCrispView'
    BY <1>1, <2>1, <2>4 DEF ViewInv, CachedForOneCrispView
  <2>6. cacheMode' \in [SceneNode -> {"absent", "NoCache", "DeviceCache"}]
    BY <1>1, <2>1, <2>2
  <2> QED BY <1>1, <2>1, <2>5, <2>6, SameScaleSameRange DEF ViewInv
<1>9. ASSUME NEW n \in SceneNode, deleteNodeObject(n)
      PROVE  ViewInv' /\ ScaleStep
  <2>1. /\ attached' = attached /\ view' = view
        /\ cacheMode' = [cacheMode EXCEPT ![n] = "absent"]
    BY <1>9 DEF deleteNodeObject
  <2>2. CachedForOneCrispView'
    BY <1>1, <2>1 DEF ViewInv, CachedForOneCrispView
  <2>3. cacheMode' \in [SceneNode -> {"absent", "NoCache", "DeviceCache"}]
    BY <1>1, <2>1
  <2> QED BY <1>1, <2>1, <2>2, <2>3, SameScaleSameRange DEF ViewInv
<1>10. ASSUME UNCHANGED viewVars
       PROVE  ViewInv' /\ ScaleStep
  BY <1>10, SameScaleSameRange DEF viewVars, ViewInv, CachedForOneCrispView
<1> QED BY <1>2, <1>3, <1>4, <1>5, <1>6, <1>7, <1>8, <1>9, <1>10 DEF ViewNext, Attach

-----------------------------------------------------------------------------
(* The theorems.                                                           *)

\* The invariant holds of every behaviour.
THEOREM ViewsAreSound == ViewSpec => []ViewInv
BY InitIsSound, StepIsSound, PTL DEF ViewSpec

\* Views, nodes and their states keep their types.
THEOREM ViewTypesHold == ViewSpec => []ViewTypeOK
<1>1. ViewInv => ViewTypeOK
  BY DEF ViewInv, ViewTypeOK, ViewState
<1> QED BY <1>1, ViewsAreSound, PTL

\* Nodes are served from a pixel cache only to a single crisp view, and a crisp
\* view at rest stands on whole pixels, however many views there are
\* (effective_node_cache_mode, stopZoomTimer, applyRasterizationPolicy).
THEOREM ViewsAreCrisp == ViewSpec => []CrispView
<1>1. ViewInv => CrispView
  BY DEF ViewInv, CrispView, CrispAtRest, Sound, Quiet
<1> QED BY <1>1, ViewsAreSound, PTL

\* No wheel, timer, late event or setter takes the scale out of the range, for
\* every range, velocity and lateness (advanceZoomAnimation, setupScale).
THEOREM ScaleIsBounded == ViewSpec => ScaleStaysInRange
<1>1. ViewInv /\ [ViewNext]_viewVars => [ScaleStep]_viewVars
  BY StepIsSound
<1>2. ViewSpec => [][ScaleStep]_viewVars
  BY <1>1, ViewsAreSound, PTL DEF ViewSpec
<1> QED BY <1>2 DEF ScaleStep, ScaleStaysInRange
================================================================================
