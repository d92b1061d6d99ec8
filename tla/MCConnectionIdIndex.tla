------------------------- MODULE MCConnectionIdIndex -------------------------
(* Two nodes; the connections share out ports, in ports and nodes, form a  *)
(* cycle, and one of them joins a node to itself.                          *)
EXTENDS ConnectionIdIndex

Link(o, op, i, ip) ==
  [outNodeId |-> o, outPortIndex |-> op, inNodeId |-> i, inPortIndex |-> ip]

MCConnectionId ==
  {Link(1, 0, 1, 0), Link(1, 0, 2, 0), Link(1, 0, 2, 1), Link(1, 1, 2, 0), Link(2, 0, 1, 0)}

\* Lists of at most two ids, with a repeated one, in either order.
MCReplacements ==
  {<<>>} \cup {<<c>> : c \in MCConnectionId}
         \cup {<<c, d>> : c \in {Link(1, 0, 1, 0), Link(1, 0, 2, 1)}, d \in MCConnectionId}
=============================================================================
