----------------------------- MODULE MCLoopSearch -----------------------------
(* Three nodes that may carry several connections a pair: two out ports, and *)
(* an in port that takes any number.                                         *)
EXTENDS LoopSearch

MCPort == [type |-> "a", policy |-> "Many"]
MCModel == {"fork"}
MCLayout == [fork |-> [In |-> <<MCPort>>, Out |-> <<MCPort, MCPort>>]]
=============================================================================
