--------------------------------- MODULE MCGroups ---------------------------------
(* What the groups of a scene hold and where they are drawn, side by side:  *)
(* each behaviour is one of `part', the other module stays as it starts.    *)
EXTENDS MCGroupHistory, SceneCanvas, TLC

CONSTANTS n1, n2
VARIABLE part

GroupsInit ==
  /\ Init /\ CanvasInit
  /\ part \in {"history", "canvas"}
  /\ part = "canvas" => session = Editing

GroupsNext ==
  /\ UNCHANGED part
  /\ \/ part = "history" /\ Next /\ UNCHANGED canvasVars
     \/ part = "canvas" /\ CanvasNext /\ UNCHANGED vars

GroupsSpec == GroupsInit /\ [][GroupsNext]_<<part, vars, canvasVars>>

(* Canvas: one connection, one node that changes its size, a grid of two.   *)
MCCanvasWire == {<<n1, n2>>}
MCExtent == n1 :> {1, 2} @@ n2 :> {1}
MCMouseWay == {-1, 0, 2}
MCSnap == [p \in 0 .. MaxSpot |-> p - (p % 2)]
===================================================================================
