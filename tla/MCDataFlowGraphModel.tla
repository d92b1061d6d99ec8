------------------------ MODULE MCDataFlowGraphModel -------------------------
(* Two parts of the state space.  "graph": three nodes of three models whose *)
(* ports may go; a source's output takes any number of connections, and so   *)
(* does the input of a mix; loops run over mixes.  "ports": two nodes whose  *)
(* ports come and go, with two types of data, and no loop to remember.       *)
EXTENDS DataFlowGraphModel

VARIABLE part

One(t) == [type |-> t, policy |-> "One"]
Many(t) == [type |-> t, policy |-> "Many"]

MCLayout ==
  [source |-> [In |-> <<>>, Out |-> <<Many("a")>>],
   mix |-> [In |-> <<Many("a")>>, Out |-> <<One("a")>>],
   sink |-> [In |-> <<One("a")>>, Out |-> <<>>],
   feed |-> [In |-> <<>>, Out |-> <<Many("b")>>],
   drain |-> [In |-> <<One("a"), Many("b")>>, Out |-> <<>>]]
MCModel == {"source", "mix", "sink", "feed", "drain"}
MCNewPort == {One("a")}

Kinds == [graph |-> {"source", "mix", "sink"}, ports |-> {"feed", "drain"}]

PartsInit == part \in DOMAIN Kinds /\ Init

PartsNext ==
  /\ Next /\ UNCHANGED part
  /\ \A n \in nodes' \ nodes : \E kind \in Kinds[part] : ports'[n] = MCLayout[kind]
  /\ part = "ports" => nextNodeId' < InvalidNodeId /\ cache' = NoCache
  /\ part = "graph" /\ edit' # None /\ edit = None =>
       Len(edit'.layout) < portCount(edit'.node, edit'.side)

PartsSpec == PartsInit /\ [][PartsNext]_<<part, vars>>
=============================================================================
