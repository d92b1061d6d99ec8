-------------------------- MODULE ConnectionIdIndex --------------------------
(***************************************************************************)
(* ConnectionIdIndex.hpp: the set of connections of a graph model, kept in *)
(* four redundant hash maps so that a node's and a port's connections are  *)
(* found without a scan, and the replacement transaction that prepares a   *)
(* complete second index and exchanges it with the active one.             *)
(*                                                                         *)
(* A map is a function whose DOMAIN is the set of keys present, so that a  *)
(* bucket left empty is visible in the state.                              *)
(***************************************************************************)
EXTENDS Sequences, Functions

CONSTANTS
  ConnectionId,   \* the connections that may be added
  Replacements,   \* the id lists a caller may hand to preparedReplacement
  None            \* std::nullopt

VARIABLES
  index,          \* the active ConnectionIdIndex
  draft,          \* a preparedReplacement call under way, or None
  prepared,       \* _preparedIndex of the live transaction, or None
  answer          \* the last call's question and answer, None unless it was a query

vars == <<index, draft, prepared, answer>>

Sides == {"In", "Out"}
EndNode(side, c) == IF side = "In" THEN c.inNodeId ELSE c.outNodeId
EndPort(side, c) == IF side = "In" THEN c.inPortIndex ELSE c.outPortIndex
NodeIds == {c.inNodeId : c \in ConnectionId} \cup {c.outNodeId : c \in ConnectionId}
PortIndices == {c.inPortIndex : c \in ConnectionId}
                 \cup {c.outPortIndex : c \in ConnectionId}

-----------------------------------------------------------------------------
(* unordered_map operations.                                               *)

EmptyMap == [k \in {} |-> {}]
Bucket(m, k) == IF k \in DOMAIN m THEN m[k] ELSE {}           \* emptyConnections()
Ports(m, n) == IF n \in DOMAIN m THEN m[n] ELSE EmptyMap
Assign(m, k, v) == [x \in DOMAIN m \cup {k} |-> IF x = k THEN v ELSE m[x]]
Drop(m, k) == [x \in DOMAIN m \ {k} |-> m[x]]

InsertAt(m, k, c) == Assign(m, k, Bucket(m, k) \cup {c})

\* Mutant: the emptied bucket stays.
EraseAtKeepingBucket(m, k, c) == IF k \in DOMAIN m THEN Assign(m, k, m[k] \ {c}) ELSE m

\* Erase c from bucket k; a bucket that becomes empty goes too.
EraseAt(m, k, c) ==
  IF k \notin DOMAIN m THEN m
  ELSE IF m[k] \ {c} = {} THEN Drop(m, k)
  ELSE Assign(m, k, m[k] \ {c})

InsertAtPort(m, n, p, c) == Assign(m, n, InsertAt(Ports(m, n), p, c))

\* eraseFromPortMap: the port's bucket, then the node's map of ports.
EraseAtPort(m, n, p, c) ==
  IF n \notin DOMAIN m \/ p \notin DOMAIN Ports(m, n) THEN m
  ELSE LET ports == EraseAt(m[n], p, c)
       IN  IF DOMAIN ports = {} THEN Drop(m, n) ELSE Assign(m, n, ports)

-----------------------------------------------------------------------------
(* The four structures, and the member functions of the class.             *)

EmptyIndex ==
  [connectivity |-> {}, nodes |-> EmptyMap, inByPort |-> EmptyMap, outByPort |-> EmptyMap]

indexConnection(idx, c) ==
  [idx EXCEPT
     !.nodes     = InsertAt(InsertAt(@, c.inNodeId, c), c.outNodeId, c),
     !.inByPort  = InsertAtPort(@, c.inNodeId, c.inPortIndex, c),
     !.outByPort = InsertAtPort(@, c.outNodeId, c.outPortIndex, c)]

unindexConnection(idx, c) ==
  [idx EXCEPT
     !.nodes     = EraseAt(EraseAt(@, c.inNodeId, c), c.outNodeId, c),
     !.inByPort  = EraseAtPort(@, c.inNodeId, c.inPortIndex, c),
     !.outByPort = EraseAtPort(@, c.outNodeId, c.outPortIndex, c)]

contains(idx, c) == c \in idx.connectivity

Added(idx, c) ==
  IF contains(idx, c) THEN idx
  ELSE indexConnection([idx EXCEPT !.connectivity = @ \cup {c}], c)

Removed(idx, c) ==
  IF contains(idx, c) THEN unindexConnection([idx EXCEPT !.connectivity = @ \ {c}], c)
  ELSE idx

allConnectionIds(idx, n) == Bucket(idx.nodes, n)

\* Mutant: the two port maps mixed up.
connectionsOfOtherSide(idx, side, n, p) ==
  Bucket(Ports(IF side = "In" THEN idx.outByPort ELSE idx.inByPort, n), p)

connections(idx, side, n, p) ==
  Bucket(Ports(IF side = "In" THEN idx.inByPort ELSE idx.outByPort, n), p)

-----------------------------------------------------------------------------
Init ==
  /\ index = EmptyIndex
  /\ draft = None
  /\ prepared = None
  /\ answer = None

\* preparedReplacement is a const member that runs to its end: no other
\* operation of the index comes between its loops.
Idle == draft = None

Add(c) ==
  /\ Idle
  /\ index' = Added(index, c)
  /\ answer' = None
  /\ UNCHANGED <<draft, prepared>>

Remove(c) ==
  /\ Idle
  /\ index' = Removed(index, c)
  /\ answer' = None
  /\ UNCHANGED <<draft, prepared>>

(* The checks before the copy: a repeated id, or a removed id the index    *)
(* does not hold, returns nullopt and leaves the index as it is.           *)
PrepareBegin(removed, added) ==
  /\ Idle
  /\ prepared = None
  /\ IsInjective(removed)
  /\ Range(removed) \subseteq index.connectivity
  /\ IsInjective(added)
  /\ draft' = [index |-> index, removed |-> removed, added |-> added,
               toRemove |-> Range(removed), toAdd |-> Range(added)]
  /\ answer' = None
  /\ UNCHANGED <<index, prepared>>

PrepareRemove ==
  /\ draft # None
  /\ \E c \in draft.toRemove :
       draft' = [draft EXCEPT !.index = Removed(@, c), !.toRemove = @ \ {c}]
  /\ answer' = None
  /\ UNCHANGED <<index, prepared>>

\* Mutant: an id that was never removed is taken as added.
PrepareAddUnchecked ==
  /\ draft # None
  /\ draft.toRemove = {}
  /\ \E c \in draft.toAdd :
       draft' = [draft EXCEPT !.index = Added(@, c), !.toAdd = @ \ {c}]
  /\ answer' = None
  /\ UNCHANGED <<index, prepared>>

PrepareAdd ==
  /\ draft # None
  /\ draft.toRemove = {}
  /\ \E c \in draft.toAdd :
       /\ ~contains(draft.index, c)
       /\ draft' = [draft EXCEPT !.index = Added(@, c), !.toAdd = @ \ {c}]
  /\ answer' = None
  /\ UNCHANGED <<index, prepared>>

PrepareEnd ==
  /\ draft # None
  /\ draft.toRemove = {} /\ draft.toAdd = {}
  /\ prepared' = draft.index
  /\ draft' = None
  /\ answer' = None
  /\ UNCHANGED index

(* The loops give up when an added id is still there after the removals,   *)
(* and anywhere when an allocation throws: the copy is dropped.            *)
PrepareFail ==
  /\ draft # None
  /\ draft' = None
  /\ answer' = None
  /\ UNCHANGED <<index, prepared>>

(* undo() and redo() of the transaction both are swap().                   *)
Swap ==
  /\ Idle
  /\ prepared # None
  /\ index' = prepared
  /\ prepared' = index
  /\ answer' = None
  /\ UNCHANGED draft

\* The command that owns the transaction is destroyed.
Discard ==
  /\ Idle
  /\ prepared # None
  /\ prepared' = None
  /\ answer' = None
  /\ UNCHANGED <<index, draft>>

AskNode(n) ==
  /\ Idle
  /\ answer' = [of |-> <<n>>, ids |-> allConnectionIds(index, n)]
  /\ UNCHANGED <<index, draft, prepared>>

AskPort(side, n, p) ==
  /\ Idle
  /\ answer' = [of |-> <<side, n, p>>, ids |-> connections(index, side, n, p)]
  /\ UNCHANGED <<index, draft, prepared>>

Next ==
  \/ \E c \in ConnectionId : Add(c)
  \/ \E c \in ConnectionId : Remove(c)
  \/ \E removed, added \in Replacements : PrepareBegin(removed, added)
  \/ PrepareRemove \/ PrepareAdd \/ PrepareEnd \/ PrepareFail
  \/ Swap \/ Discard
  \/ \E n \in NodeIds : AskNode(n)
  \/ \E side \in Sides, n \in NodeIds, p \in PortIndices : AskPort(side, n, p)

Spec == Init /\ [][Next]_vars

-----------------------------------------------------------------------------
(* The index one would build from scratch for a set S of connections.      *)

NodeMap(S) ==
  [n \in {c.inNodeId : c \in S} \cup {c.outNodeId : c \in S} |->
     {c \in S : c.inNodeId = n \/ c.outNodeId = n}]

PortsOf(S, side) ==
  [p \in {EndPort(side, c) : c \in S} |-> {c \in S : EndPort(side, c) = p}]

PortMap(S, side) ==
  [n \in {EndNode(side, c) : c \in S} |-> PortsOf({c \in S : EndNode(side, c) = n}, side)]

IndexOf(S) ==
  [connectivity |-> S, nodes |-> NodeMap(S),
   inByPort |-> PortMap(S, "In"), outByPort |-> PortMap(S, "Out")]

ASSUME ReplacementsAssumption == \A r \in Replacements : Range(r) \subseteq ConnectionId
ASSUME NoneAssumption == \A S \in SUBSET ConnectionId : None # S /\ None # IndexOf(S)

IsIndex(idx) == \E S \in SUBSET ConnectionId : idx = IndexOf(S)

(* The incrementally maintained maps are, bucket for bucket and key for    *)
(* key, the ones a rebuild from _connectivity would give: self loops that  *)
(* touch a node twice, shared ports and emptied buckets included, for the  *)
(* active index, for a copy half way through preparedReplacement and for   *)
(* the copy a transaction holds.                                           *)
IndexConsistent ==
  /\ IsIndex(index)
  /\ draft # None => IsIndex(draft.index)
  /\ prepared # None => IsIndex(prepared)

(* Half way through, what is left to do turns the copy into exactly the    *)
(* state the caller asked for: (connections \ removed) with the added ones.*)
DraftOnCourse ==
  LET Kept == index.connectivity \ Range(draft.removed) IN
  draft # None =>
    /\ draft.toRemove \subseteq Range(draft.removed)
    /\ draft.toAdd \subseteq Range(draft.added)
    /\ draft.toRemove \subseteq draft.index.connectivity
    /\ (draft.index.connectivity \ draft.toRemove) \cup draft.toAdd
         = Kept \cup Range(draft.added)
    /\ Kept \subseteq draft.index.connectivity
    /\ (Range(draft.added) \ draft.toAdd) \cap Kept = {}
    /\ draft.toRemove # {} => draft.toAdd = Range(draft.added)

(* Query answers and replacements are those of a plain set.                *)
Abstract == INSTANCE ConnectionSet WITH
  conns <- index.connectivity,
  spare <- IF prepared = None THEN None ELSE prepared.connectivity

ImplementsSet == Abstract!Spec
=============================================================================
