---------------------------- MODULE DraftConnection ----------------------------
(***************************************************************************)
(* Connecting with the mouse on the graph model of examples/simple_graph_- *)
(* model and custom_painter: the model, the scene that mirrors it, the     *)
(* draft connection that follows the mouse, and the undo stack.            *)
(*                                                                         *)
(* A port takes one connection, but the model does not see to that:        *)
(* addConnection() adds whatever it is given, so the gestures and the      *)
(* commands have to ask first.  The keyboard works while the mouse holds a *)
(* draft: undo, redo and delete come between press and release.            *)
(***************************************************************************)
EXTENDS UndoStack, FiniteSets, FiniteSetsExt, Functions

CONSTANTS
  BoardIds,          \* bound: node ids are 0 .. BoardIds - 1
  MaxSteps,          \* bound: the number of commands
  MaxPicked,         \* bound: the number of items clicked on
  BoardPorts,        \* [in, out]: what nodeData() answers as port counts
  NoDraft

ASSUME BoardConstants == BoardIds \in Nat /\ MaxSteps \in Nat /\ MaxPicked \in Nat
                         /\ BoardPorts \in [in : Nat, out : Nat]

BoardId == 0 .. BoardIds - 1
PortNumber(side) == 0 .. BoardPorts[side] - 1
\* A connection joins two ends, an end is [node, port].
End(side) == [node : BoardId, port : PortNumber(side)]
BoardWire == [out : End("out"), in : End("in")]
Opposite == [in |-> "out", out |-> "in"]

VARIABLES
  board,     \* [nodes, conns, nextId]: the model
  shown,     \* [nodes, wires]: the graphics objects of the scene
  picked,    \* [nodes, wires]: the selected items
  draft,     \* [needs, at]: _draftConnection, which lacks its end `needs`
  steps      \* the undo stack

draftVars == <<board, shown, picked, draft, steps>>

NothingPicked == [nodes |-> {}, wires |-> {}]
wiresOn(b, side, e) == {c \in b.conns : c[side] = e}
complete(d, e) == IF d.needs = "in" THEN [out |-> d.at, in |-> e] ELSE [out |-> e, in |-> d.at]

-----------------------------------------------------------------------------
(* The model.                                                              *)

\* Mutant: only the end the mouse brings is asked to be free.
wirePossibleAtOut(b, c, replaced) ==
  /\ c \notin b.conns \ replaced
  /\ wiresOn(b, "out", c.out) \subseteq replaced

\* connectionPossible(): the nodes are not asked for.
wirePossible(b, c, replaced) ==
  /\ c \notin b.conns \ replaced
  /\ wiresOn(b, "out", c.out) \subseteq replaced
  /\ wiresOn(b, "in", c.in) \subseteq replaced

\* prepareConnectionReplacement() gives a transaction, or none.
replaceable(b, c, replaced) == replaced \subseteq b.conns /\ wirePossible(b, c, replaced)

\* A state of model and scene together; every signal reaches the scene at once.
Now == [board |-> board, shown |-> shown, picked |-> picked]

withWire(s, c) ==
  [s EXCEPT !.board.conns = @ \cup {c}, !.shown.wires = @ \cup {c}]

withoutWire(s, c) ==
  IF c \notin s.board.conns THEN s
  ELSE [s EXCEPT !.board.conns = @ \ {c}, !.shown.wires = @ \ {c}, !.picked.wires = @ \ {c}]

withoutNode(s, n) ==
  LET attached == {c \in s.board.conns : n \in {c.out.node, c.in.node}}
      freed == FoldSet(LAMBDA c, t : withoutWire(t, c), s, attached)
  IN  [freed EXCEPT !.board.nodes = @ \ {n}, !.shown.nodes = @ \ {n}, !.picked.nodes = @ \ {n}]

restoredNode(s, n) ==
  [s EXCEPT !.board.nodes = @ \cup {n}, !.board.nextId = Max({@, n + 1}),
            !.shown.nodes = @ \cup {n}, !.picked.nodes = @ \cup {n}]

\* The connections are exchanged as a whole, and then announced.
exchanged(s, conns, gone, come) ==
  [s EXCEPT !.board.conns = conns, !.shown.wires = (@ \ gone) \cup come, !.picked.wires = @ \ gone]

-----------------------------------------------------------------------------
(* Commands: what undo() and redo() make of a state, and of themselves.    *)

insert(s, cmd) ==
  LET nodes == FoldSet(LAMBDA n, t : restoredNode(t, n), s, cmd.nodes)
      wires == FoldSet(LAMBDA c, t : withWire(t, c), nodes, cmd.conns)
  IN  [wires EXCEPT !.picked.wires = @ \cup cmd.conns]
remove(s, cmd) ==
  LET wires == FoldSet(LAMBDA c, t : withoutWire(t, c), s, cmd.conns)
  IN  FoldSet(LAMBDA n, t : withoutNode(t, n), wires, cmd.nodes)

stepUndone(s, cmd) ==
  CASE cmd.kind = "connect"    -> remove(s, cmd)
    [] cmd.kind = "disconnect" -> FoldSet(LAMBDA c, t : withWire(t, c), s, cmd.conns)
    [] cmd.kind = "delete"     -> insert(s, cmd)
    [] cmd.kind = "replace"    -> exchanged(s, cmd.spare, cmd.conns, cmd.replaced)

stepRedone(s, cmd) ==
  CASE cmd.kind = "connect"    -> FoldSet(LAMBDA c, t : withWire(t, c), s, cmd.conns)
    [] cmd.kind = "replace"    -> exchanged(s, cmd.spare, cmd.replaced, cmd.conns)
    [] OTHER                   -> remove(s, cmd)

\* A transaction keeps the connections it has taken out.
withSpare(cmd) == [cmd EXCEPT !.spare = IF cmd.kind = "replace" THEN board.conns ELSE {}]
newStep(kind, nodes, conns) ==
  [kind |-> kind, nodes |-> nodes, conns |-> conns, replaced |-> {}, spare |-> {}]

boardBecomes(s) == board' = s.board /\ shown' = s.shown /\ picked' = s.picked

Do(cmd) ==
  /\ steps.index < MaxSteps
  /\ boardBecomes(stepRedone(Now, cmd))
  /\ steps' = Pushed(steps, withSpare(cmd))

-----------------------------------------------------------------------------
BoardInit ==
  /\ \E c \in BoardWire :
       /\ c.out.node = 0 /\ c.in.node = 1
       /\ board = [nodes |-> {0, 1}, conns |-> {c}, nextId |-> 2]
       /\ shown = [nodes |-> {0, 1}, wires |-> {c}]
  /\ picked = NothingPicked /\ draft = NoDraft /\ steps = EmptyStack

\* The context menu's "Create Node", which no command records.
CreateNode ==
  /\ board.nextId < BoardIds
  /\ board' = [board EXCEPT !.nodes = @ \cup {board.nextId}, !.nextId = @ + 1]
  /\ shown' = [shown EXCEPT !.nodes = @ \cup {board.nextId}]
  /\ UNCHANGED <<picked, draft, steps>>

Pick(nodes, wires) ==
  /\ draft = NoDraft /\ Cardinality(nodes) + Cardinality(wires) <= MaxPicked
  /\ nodes \subseteq shown.nodes /\ picked' = [nodes |-> nodes, wires |-> wires]
  /\ UNCHANGED <<board, shown, draft, steps>>

makeDraftConnection(needs, at) == draft' = [needs |-> needs, at |-> at]
resetDraftConnection == draft' = NoDraft

\* A connection comes off its In port, by a command, and its other end is what
\* the draft keeps.
disconnect(c, only) ==
  LET cmd == newStep("disconnect", {}, {c})
      s == stepRedone(Now, cmd)
  IN  /\ steps.index < MaxSteps
      /\ steps' = Pushed(steps, cmd)
      /\ board' = s.board /\ shown' = s.shown
      /\ picked' = IF only.nodes \subseteq picked.nodes THEN s.picked ELSE only
      /\ makeDraftConnection("in", c.out)

\* Pressing a connected In port takes its connection off; any other port
\* starts a new one.  The node is selected either way.
PressPort(n, side, p) ==
  LET e == [node |-> n, port |-> p]
      only == [nodes |-> {n}, wires |-> {}]
  IN  /\ draft = NoDraft /\ n \in shown.nodes
      /\ \/ /\ side = "in" /\ wiresOn(board, side, e) # {}
            /\ disconnect(CHOOSE x \in wiresOn(board, side, e) : TRUE, only)
         \/ /\ side = "out" \/ wiresOn(board, side, e) = {}
            /\ makeDraftConnection(Opposite[side], e)
            /\ picked' = IF n \in picked.nodes THEN picked ELSE only
            /\ UNCHANGED <<board, shown, steps>>

\* Only a connection that leaves an Out port takes the place of another.
replacedConnectionIds == IF draft.needs = "in" THEN wiresOn(board, "out", draft.at) ELSE {}

\* Released over a port that fits; otherwise the draft just goes.
ReleaseDraftOn(n, p) ==
  LET c == complete(draft, [node |-> n, port |-> p])
      replaced == replacedConnectionIds
  IN  /\ draft # NoDraft /\ n \in shown.nodes /\ p \in PortNumber(draft.needs)
      /\ wirePossible(board, c, replaced)
      /\ resetDraftConnection
      /\ \/ /\ replaced = {}
            /\ Do(newStep("connect", {}, {c}))
         \/ /\ replaced # {} /\ replaced # {c} /\ replaceable(board, c, replaced)
            /\ steps.index < MaxSteps
            /\ LET cmd == [newStep("replace", {}, {c}) EXCEPT !.replaced = replaced,
                                     !.spare = (board.conns \ replaced) \cup {c}]
               IN  boardBecomes(stepRedone(Now, cmd)) /\ steps' = Pushed(steps, withSpare(cmd))
         \/ /\ replaced # {} /\ (replaced = {c} \/ ~replaceable(board, c, replaced))
            /\ steps' = PushedObsolete(steps)
            /\ UNCHANGED <<board, shown, picked>>

DropDraft ==
  /\ draft # NoDraft /\ resetDraftConnection
  /\ UNCHANGED <<board, shown, picked, steps>>

\* The Delete key.
DeletePicked ==
  LET attached == {c \in board.conns : {c.out.node, c.in.node} \cap picked.nodes # {}}
  IN  /\ picked # NothingPicked
      /\ Do(newStep("delete", picked.nodes, attached \cup picked.wires))
      /\ UNCHANGED draft

UndoStep ==
  /\ CanUndo(steps)
  /\ boardBecomes(stepUndone(Now, LastDone(steps)))
  /\ steps' = Undone(steps, withSpare(LastDone(steps)))
  /\ UNCHANGED draft

RedoStep ==
  /\ CanRedo(steps)
  /\ boardBecomes(stepRedone(Now, NextUndone(steps)))
  /\ steps' = Redone(steps, withSpare(NextUndone(steps)))
  /\ UNCHANGED draft

BoardNext ==
  \/ CreateNode \/ DropDraft \/ DeletePicked \/ UndoStep \/ RedoStep
  \/ \E nodes \in SUBSET BoardId, wires \in SUBSET shown.wires : Pick(nodes, wires)
  \/ \E n \in BoardId, side \in {"in", "out"} : \E p \in PortNumber(side) : PressPort(n, side, p)
  \/ \E n \in BoardId, p \in PortNumber("in") \cup PortNumber("out") : ReleaseDraftOn(n, p)

BoardSpec == BoardInit /\ [][BoardNext]_draftVars

-----------------------------------------------------------------------------
\* Types: ids below the next one, connections between a numbered Out port and a
\* numbered In port.  Whether their nodes are there is not part of it.
BoardTypeOK ==
  /\ board.nodes \subseteq 0 .. board.nextId - 1 /\ board.nextId \in 0 .. BoardIds
  /\ board.conns \subseteq BoardWire
  /\ picked.nodes \subseteq shown.nodes /\ picked.wires \subseteq shown.wires
  /\ draft = NoDraft \/ draft.needs \in {"in", "out"}

\* A connection may loop, and may outlive its node: neither the model nor the
\* gesture asks for the nodes, so a draft whose node the Delete key has removed
\* still connects.  But it never falls to another node: ids are not given
\* twice, and every connection, also one that undo brings back, is of nodes
\* that have been.
NoWireAwaitsANode ==
  \A c \in board.conns : c.out.node < board.nextId /\ c.in.node < board.nextId

\* A port has one connection at most, though the model adds any: gestures ask
\* when the mouse is released, and undo and redo in the middle of a gesture
\* change what there is to ask about.
OneWirePerPort ==
  \A side \in {"in", "out"} : \A e \in End(side) : Cardinality(wiresOn(board, side, e)) <= 1

\* The scene shows the nodes and connections of the model: signals keep them
\* equal through commands, transactions that exchange everything, and deletes
\* in the middle of a drag.
SceneFollowsBoard == shown = [nodes |-> board.nodes, wires |-> board.conns]

\* All of the above, of every state between press and release.
BoardConsistent == BoardTypeOK /\ NoWireAwaitsANode /\ OneWirePerPort /\ SceneFollowsBoard
=============================================================================
