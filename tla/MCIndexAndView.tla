------------------------------ MODULE MCIndexAndView ------------------------------
(* The connection index, and the views of a scene, side by side: each        *)
(* behaviour is one of `part', the other module stays as it starts.          *)
EXTENDS MCConnectionIdIndex, GraphicsView

VARIABLE part

BothInit == part \in {"index", "view"} /\ Init /\ ViewInit

BothNext ==
  /\ UNCHANGED part
  /\ \/ part = "index" /\ Next /\ UNCHANGED viewVars
     \/ part = "view" /\ ViewNext /\ UNCHANGED vars

BothSpec == BothInit /\ [][BothNext]_<<part, vars, viewVars>> /\ ViewFairness
====================================================================================
