------------------------------- MODULE UndoStack -------------------------------
(***************************************************************************)
(* QUndoStack as the scene uses it: a list of commands and the number of   *)
(* them that are done.  push() runs redo() first (the caller's business),  *)
(* then drops the commands that were undone, and only then looks whether   *)
(* the new command has called itself obsolete.                             *)
(***************************************************************************)
EXTENDS Integers, Sequences

EmptyStack == [cmds |-> <<>>, index |-> 0]

Done(h) == SubSeq(h.cmds, 1, h.index)
CanUndo(h) == h.index > 0
CanRedo(h) == h.index < Len(h.cmds)
LastDone(h) == h.cmds[h.index]
NextUndone(h) == h.cmds[h.index + 1]

Pushed(h, cmd) == [cmds |-> Append(Done(h), cmd), index |-> h.index + 1]
PushedObsolete(h) == [cmds |-> Done(h), index |-> h.index]

\* undo() and redo() leave the command in place, with what it has become.
Undone(h, cmd) == [cmds |-> [h.cmds EXCEPT ![h.index] = cmd], index |-> h.index - 1]
Redone(h, cmd) == [cmds |-> [h.cmds EXCEPT ![h.index + 1] = cmd], index |-> h.index + 1]
=============================================================================
