---------------------------- MODULE UndoStack_proofs ---------------------------
(***************************************************************************)
(* What the proofs about the commands need of the stack they are on, for   *)
(* any set C of commands.                                                  *)
(***************************************************************************)
EXTENDS UndoStack, TLAPS

StackOf(h, C) ==
  /\ h = [cmds |-> h.cmds, index |-> h.index]
  /\ h.cmds \in Seq(C) /\ h.index \in 0 .. Len(h.cmds)

\* h with what was undone dropped, and with c in its place.
PushedLike(q, h, c) ==
  /\ q.index = h.index + 1 /\ Len(q.cmds) = h.index + 1
  /\ \A i \in 1 .. h.index : q.cmds[i] = h.cmds[i]
  /\ q.cmds[h.index + 1] = c

\* Dropping the undone commands keeps the others where they are.
LEMMA DoneIs ==
  ASSUME NEW C, NEW h, StackOf(h, C)
  PROVE  /\ Done(h) \in Seq(C) /\ Len(Done(h)) = h.index
         /\ \A i \in 1 .. h.index : Done(h)[i] = h.cmds[i]
BY DEF StackOf, Done

\* A pushed command is the last one, and done.
LEMMA PushedIs ==
  ASSUME NEW C, NEW h, StackOf(h, C), NEW c \in C
  PROVE  StackOf(Pushed(h, c), C) /\ PushedLike(Pushed(h, c), h, c)
<1>1. h.index \in Nat
  BY DEF StackOf
<1>2. /\ Done(h) \in Seq(C) /\ Len(Done(h)) = h.index
      /\ \A i \in 1 .. h.index : Done(h)[i] = h.cmds[i]
  BY DoneIs
<1> DEFINE q == Append(Done(h), c)
<1>3. q \in Seq(C) /\ Len(q) = h.index + 1 /\ q[h.index + 1] = c /\ \A i \in 1 .. h.index : q[i] = h.cmds[i]
  BY <1>1, <1>2
<1>4. Pushed(h, c) = [cmds |-> q, index |-> h.index + 1]
  BY DEF Pushed
<1> HIDE DEF q
<1> QED BY <1>1, <1>3, <1>4 DEF StackOf, PushedLike

\* An obsolete command only drops the undone ones.
LEMMA PushedObsoleteIs ==
  ASSUME NEW C, NEW h, StackOf(h, C)
  PROVE  /\ StackOf(PushedObsolete(h), C)
         /\ PushedObsolete(h).index = h.index /\ Len(PushedObsolete(h).cmds) = h.index
         /\ \A i \in 1 .. h.index : PushedObsolete(h).cmds[i] = h.cmds[i]
<1>1. /\ Done(h) \in Seq(C) /\ Len(Done(h)) = h.index
      /\ \A i \in 1 .. h.index : Done(h)[i] = h.cmds[i]
  BY DoneIs
<1>2. PushedObsolete(h) = [cmds |-> Done(h), index |-> h.index]
  BY DEF PushedObsolete
<1>3. h.index \in Nat
  BY DEF StackOf
<1> QED BY <1>1, <1>2, <1>3 DEF StackOf

\* Undoing only moves the index.
LEMMA UndoneIs ==
  ASSUME NEW C, NEW h, StackOf(h, C), CanUndo(h)
  PROVE  /\ StackOf(Undone(h, LastDone(h)), C)
         /\ Undone(h, LastDone(h)).cmds = h.cmds /\ Undone(h, LastDone(h)).index = h.index - 1
         /\ LastDone(h) \in C
<1>1. h.cmds \in Seq(C) /\ h.index \in 1 .. Len(h.cmds)
  BY DEF StackOf, CanUndo
<1>2. [h.cmds EXCEPT ![h.index] = h.cmds[h.index]] = h.cmds
  BY <1>1
<1>3. Undone(h, LastDone(h)) = [cmds |-> h.cmds, index |-> h.index - 1]
  BY <1>2 DEF Undone, LastDone
<1> QED BY <1>1, <1>3 DEF StackOf, LastDone

\* So does redoing.
LEMMA RedoneIs ==
  ASSUME NEW C, NEW h, StackOf(h, C), CanRedo(h)
  PROVE  /\ StackOf(Redone(h, NextUndone(h)), C)
         /\ Redone(h, NextUndone(h)).cmds = h.cmds /\ Redone(h, NextUndone(h)).index = h.index + 1
         /\ NextUndone(h) \in C
<1>1. h.cmds \in Seq(C) /\ h.index + 1 \in 1 .. Len(h.cmds) /\ h.index \in Nat
  BY DEF StackOf, CanRedo
<1>2. [h.cmds EXCEPT ![h.index + 1] = h.cmds[h.index + 1]] = h.cmds
  BY <1>1
<1>3. Redone(h, NextUndone(h)) = [cmds |-> h.cmds, index |-> h.index + 1]
  BY <1>2 DEF Redone, NextUndone
<1> QED BY <1>1, <1>3 DEF StackOf, NextUndone

\* h with the command at j turned into d.
TurnedInto(q, h, j, d) ==
  /\ Len(q.cmds) = Len(h.cmds) /\ q.cmds[j] = d
  /\ \A i \in 1 .. Len(h.cmds) : i # j => q.cmds[i] = h.cmds[i]

\* A command may come out of undo() as another.
LEMMA UndoneAs ==
  ASSUME NEW C, NEW h, StackOf(h, C), CanUndo(h), NEW d \in C
  PROVE  /\ StackOf(Undone(h, d), C) /\ Undone(h, d).index = h.index - 1
         /\ TurnedInto(Undone(h, d), h, h.index, d)
         /\ LastDone(h) \in C /\ LastDone(h) = h.cmds[h.index] /\ h.index \in 1 .. Len(h.cmds)
<1>1. h.cmds \in Seq(C) /\ h.index \in 1 .. Len(h.cmds)
  BY DEF StackOf, CanUndo
<1> DEFINE q == [h.cmds EXCEPT ![h.index] = d]
<1>2. /\ q \in Seq(C) /\ Len(q) = Len(h.cmds) /\ q[h.index] = d
      /\ \A i \in 1 .. Len(h.cmds) : i # h.index => q[i] = h.cmds[i]
  BY <1>1
<1>3. Undone(h, d) = [cmds |-> q, index |-> h.index - 1]
  BY DEF Undone
<1> HIDE DEF q
<1> QED BY <1>1, <1>2, <1>3 DEF StackOf, LastDone, TurnedInto

\* And out of redo().
LEMMA RedoneAs ==
  ASSUME NEW C, NEW h, StackOf(h, C), CanRedo(h), NEW d \in C
  PROVE  /\ StackOf(Redone(h, d), C) /\ Redone(h, d).index = h.index + 1
         /\ TurnedInto(Redone(h, d), h, h.index + 1, d)
         /\ NextUndone(h) \in C /\ NextUndone(h) = h.cmds[h.index + 1]
         /\ h.index + 1 \in 1 .. Len(h.cmds)
<1>1. h.cmds \in Seq(C) /\ h.index + 1 \in 1 .. Len(h.cmds) /\ h.index \in Nat
  BY DEF StackOf, CanRedo
<1> DEFINE q == [h.cmds EXCEPT ![h.index + 1] = d]
<1>2. /\ q \in Seq(C) /\ Len(q) = Len(h.cmds) /\ q[h.index + 1] = d
      /\ \A i \in 1 .. Len(h.cmds) : i # h.index + 1 => q[i] = h.cmds[i]
  BY <1>1
<1>3. Redone(h, d) = [cmds |-> q, index |-> h.index + 1]
  BY DEF Redone
<1> HIDE DEF q
<1> QED BY <1>1, <1>2, <1>3 DEF StackOf, NextUndone, TurnedInto
=============================================================================
