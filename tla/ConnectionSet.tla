---------------------------- MODULE ConnectionSet ----------------------------
(***************************************************************************)
(* What a connection index promises the graph models that own one: it is a *)
(* plain set of connections.  Asking for the connections of a node or of a *)
(* port filters that set, and a prepared replacement is a second set that  *)
(* can change places with the first.  ConnectionIdIndex implements this    *)
(* with four hash maps that are updated incrementally.                     *)
(***************************************************************************)
EXTENDS Sequences, Functions

CONSTANTS
  ConnectionId,   \* the connections that may be asked for
  Replacements,   \* the id lists a caller may hand to a replacement
  None            \* "no prepared replacement", "no answer yet"

VARIABLES
  conns,          \* the active set of connections
  spare,          \* the inactive set a transaction holds, or None
  answer          \* the last call's question and answer, None unless it was a query

vars == <<conns, spare, answer>>

Sides == {"In", "Out"}

\* The node and the port a connection touches on one side.
EndNode(side, c) == IF side = "In" THEN c.inNodeId ELSE c.outNodeId
EndPort(side, c) == IF side = "In" THEN c.inPortIndex ELSE c.outPortIndex

AtNode(S, n) == {c \in S : c.inNodeId = n \/ c.outNodeId = n}
AtPort(S, side, n, p) == {c \in S : EndNode(side, c) = n /\ EndPort(side, c) = p}

NodeIds == {c.inNodeId : c \in ConnectionId} \cup {c.outNodeId : c \in ConnectionId}
PortIndices == {c.inPortIndex : c \in ConnectionId}
                 \cup {c.outPortIndex : c \in ConnectionId}

-----------------------------------------------------------------------------
Init == conns = {} /\ spare = None /\ answer = None

Add(c)    == conns' = conns \cup {c} /\ answer' = None /\ UNCHANGED spare
Remove(c) == conns' = conns \ {c} /\ answer' = None /\ UNCHANGED spare

(* A replacement is accepted when every removed id is present, every added *)
(* one is absent once they are gone, and neither list repeats an id.       *)
Acceptable(removed, added) ==
  /\ IsInjective(removed) /\ IsInjective(added)
  /\ Range(removed) \subseteq conns
  /\ Range(added) \cap (conns \ Range(removed)) = {}

Prepare(removed, added) ==
  /\ Acceptable(removed, added)
  /\ spare' = (conns \ Range(removed)) \cup Range(added)
  /\ answer' = None /\ UNCHANGED conns

Swap    == spare # None /\ conns' = spare /\ spare' = conns /\ answer' = None
Discard == spare' = None /\ answer' = None /\ UNCHANGED conns
GiveUp  == answer' = None /\ UNCHANGED <<conns, spare>>

AskNode(n) ==
  answer' = [of |-> <<n>>, ids |-> AtNode(conns, n)] /\ UNCHANGED <<conns, spare>>
AskPort(side, n, p) ==
  /\ answer' = [of |-> <<side, n, p>>, ids |-> AtPort(conns, side, n, p)]
  /\ UNCHANGED <<conns, spare>>

Next ==
  \/ \E c \in ConnectionId : Add(c) \/ Remove(c)
  \/ \E removed, added \in Replacements : Prepare(removed, added)
  \/ Swap \/ Discard \/ GiveUp
  \/ \E n \in NodeIds : AskNode(n)
  \/ \E side \in Sides, n \in NodeIds, p \in PortIndices : AskPort(side, n, p)

Spec == Init /\ [][Next]_vars
=============================================================================
