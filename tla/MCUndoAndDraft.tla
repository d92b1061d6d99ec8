------------------------------- MODULE MCUndoAndDraft -------------------------------
(* Two programs with an undo stack, side by side: the data flow scene, and  *)
(* the simple graph model while the mouse drags a connection.  Each         *)
(* behaviour is one of `part', the other module stays as it starts.         *)
EXTENDS MCUndoHistory, DraftConnection

VARIABLE part

BothInit == part \in {"history", "draft"} /\ Init /\ BoardInit

BothNext ==
  /\ UNCHANGED part
  /\ \/ part = "history" /\ Next /\ UNCHANGED draftVars
     \/ part = "draft" /\ BoardNext /\ UNCHANGED vars

BothSpec == BothInit /\ [][BothNext]_<<part, vars, draftVars>>

MCBoardPorts == [in |-> 1, out |-> 1]
=====================================================================================
