---------------------------- MODULE MCUndoHistory -----------------------------
(* Nodes with one out port and one in port each; the first two are connected.*)
EXTENDS UndoHistory

MCPort == [type |-> "a", policy |-> "One"]
MCModel == {"relay"}
MCLayout == [relay |-> [In |-> <<MCPort>>, Out |-> <<MCPort>>]]

Link(o, i) == [outNodeId |-> o, outPortIndex |-> 0, inNodeId |-> i, inPortIndex |-> 0]
MCStart == [nodes |-> [n \in 0 .. 1 |-> "relay"], conns |-> {Link(0, 1)}]
\* Group files: one node, and two connected ones.
OneNode == [nodes |-> [n \in {0} |-> "relay"], conns |-> {}]
TwoNodes == [nodes |-> [n \in 0 .. 1 |-> "relay"], conns |-> {Link(0, 1)}]
=============================================================================
