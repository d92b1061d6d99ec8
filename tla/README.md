# A TLA+ model of nodeeditor

nodeeditor (QtNodes) is a C++/Qt library for editing and running graphs of
nodes. This directory has TLA+ modules of the part of it that decides: what a
graph may look like, how it changes, what undo brings back, how data runs
through it, what a file brings back, and where things are on the screen. TLC
checks the modules on small instances, and TLAPS proves the safety of the graph
model and its index, the loop search, undo, groups, drags, files, views, the
layout of a node and two delegates for every size.

`tlc -config X.cfg M` checks a run, `tlapm M_proofs.tla` checks the proofs;
`PROJECT.json` lists the runs, which source lines every definition stands for,
and for every property a mutated definition under which TLC finds it violated
(the operators marked "Mutant").

## The system

Everything runs on the GUI thread. What makes the code hard is not parallelism
but re-entrance and history: signals call back into handlers that are half way
through a loop, a command of an hour ago is undone on a graph that has changed
since, redundant structures are updated one after another, and answers are
remembered.

| Part | State | Operations | Calls and is called by |
|---|---|---|---|
| `ConnectionIdIndex` | four hash maps of connections | add, remove, query, prepare a replacement, exchange | owned by a graph model |
| `DataFlowGraphModel` | node ids, delegates, the index, `_nextNodeId`, `_loopReachabilityCache` | addNode, loadNode, deleteNode, connectionPossible, add/delete/replace connection | signals to the scene, data to delegates |
| `AbstractGraphModel` (dynamic ports) | `_shiftedByDynamicPortsConnections` | portsAboutToBeDeleted/Inserted, portsDeleted/Inserted | called by delegates that change their ports |
| data propagation | the delegates' inputs and results | onOutPortDataUpdated, setPortData, propagateEmptyDataTo | delegate -> model -> delegate, synchronously |
| undo commands | payload of each command, `QUndoStack` | create, delete, copy, paste, connect, disconnect, replace; undo and redo of each | pushed by gestures, act on model and scene |
| `NodeConnectionInteraction` and the draft connection | the draft the scene owns | press on a port, release on a port or on nothing | decides which command a drag pushes; undo and redo run meanwhile |
| `BasicGraphicsScene` and its graphics objects | an object per node and connection, positions, endpoints, what the mouse grabbed | slots for the model's signals, press, move, release, reset | mirrors the model, writes positions back to it |
| groups | `_groups`, `_nextGroupId`, each node's group and lock, each group's frame | create, add, remove, lock, restore, switch off, drag | menus, mouse, delete/paste/undo |
| `DataFlowGraphicsScene` | none | saveToFile, loadFromFile (staging, clear, load, roll back), group files | model, groups, undo stack |
| `GraphicsView` | zoom animation, scale range, policy; the nodes' cache mode, shared by all views | wheel, timer, keys, attach and detach | asks the scene; pushes commands |
| node geometry | a stored size per node | recompute, positions, hit test | painters, the scene's mouse handling |
| status icon of a delegate | status, cached image, dirty flag, default and own style | setters, paint | painter -> delegate -> style collection |
| `DynamicPortsModel` (example) | port counts, connections, rows of buttons, undo stack | +/- buttons, drag, delete, undo, files | the library's port edits |
| `RandomNumberModel` (example) | operands, countdown, result | operands arrive or expire, timer, freeze | a timer between question and answer |
| painters and styles | pixels | drawing | ask the model |

What makes each part correct: the index is the set of connections, whatever the
sequence of calls; the graph joins only ports that exist, respects policies and
types and stays acyclic; the memo of the loop test is never stale; a port edit
keeps the connections behind it; the undo stack and the graph agree at every
index; groups partition their nodes and survive a deletion that is undone; data
settles, and the calls that carry it return; a file is opened whole or not at
all, and what is saved can be opened; a drag on an older graph connects nothing
that the graph of now refuses; graphics objects are where the model says; ports
lie in their nodes and are found by a click; a zoom ends, in range, on whole
pixels; an icon shows the status of now, and a late answer is for the latest
question.

`PROJECT.json` lists the hazards at their lines, also those no property covers.

## Modules

| Module | Models |
|---|---|
| `ConnectionSet` | abstract: a set of connections with a second one to exchange it with |
| `ConnectionIdIndex` | `ConnectionIdIndex.hpp`; implements `ConnectionSet` |
| `DataFlowGraphModel` | topology half of `DataFlowGraphModel.cpp`, dynamic ports of `AbstractGraphModel.cpp` |
| `LoopSearch` | the depth-first search of `connectionPossible()`, on the graphs of `DataFlowGraphModel` |
| `DataFlow` | the propagation half of `DataFlowGraphModel.cpp` with the delegates of `examples/calculator` |
| `UndoStack` | `QUndoStack`, from how the library uses it (Qt is not part of the repository) |
| `UndoHistory` | `UndoCommands.cpp`, the gestures that push commands, the scene's connection objects |
| `GroupHistory` | groups, under delete, create, copy, paste, undo and redo |
| `Document` | abstract: what opening a file promises to the user |
| `SceneFile` | `DataFlowGraphicsScene.cpp`, `save()`/`load()` of the graph model, group files, their validation; implements `Document` |
| `DynamicPortsModel` | `examples/dynamic_ports`: the model, its widgets, commands, files |
| `GraphicsView` | zoom, scale range, policies and shared cache mode of `GraphicsView.cpp` |
| `NodeGeometry` | both node geometries and the hit test |
| `SceneCanvas` | positions, endpoints, frames and mouse handling of the graphics objects |
| `DraftConnection` | a drag with the mouse on `SimpleGraphModel`, commands running meanwhile |
| `StatusIcon` | processing status, icon cache and styles of `NodeDelegateModel` |
| `RandomNumber` | the calculator's delayed `RandomNumberModel` |
| `MC...` | instances for TLC |
| `FoldFacts` | lemmas: what `FoldSet` over a finite set keeps and reaches, for any operation |
| `..._proofs` | theorems about the module of that name; `DataFlowGraphModel_proofs` also about `LoopSearch`, `IndexAndView_proofs` about `ConnectionIdIndex` and `GraphicsView`, `UndoAndDraft_proofs` about `UndoHistory` and `DraftConnection`, `Groups_proofs` about `GroupHistory` and `SceneCanvas`, `Documents_proofs` about `SceneFile`, `DynamicPortsModel`, `NodeGeometry`, `StatusIcon` and `RandomNumber` |

How they fit: `ConnectionIdIndex` is shown to be a plain set, so
`DataFlowGraphModel` has a plain set `conns`. `LoopSearch` shows the search to
be reachability, so `DataFlowGraphModel` asks for reachability (`Reaches`,
quantified over closed sets rather than recursive, so that it can be proved
about). `UndoHistory` and `DataFlow` instantiate `DataFlowGraphModel` and ask
its `connectionPossible` with an empty memo, which `CacheFresh` justifies.
`SceneFile` is shown to implement `Document`, which has no stages.
`UndoHistory`, `GroupHistory` and `DraftConnection` share `UndoStack`. A
definition that has a counterpart in the code bears its name.

Modules that share nothing in the code are checked in one TLC run, side by
side: a variable `part` of the MC module (`MCIndexAndView`, `MCUndoAndDraft`,
`MCGroups`, `MCDocuments`) says which of them moves in a behaviour, and the
others stay at their initial state. Nothing is composed by this; it only saves
runs.

**ConnectionIdIndex.** A hash map is a function whose domain is its keys, so a
bucket that is left empty shows. `preparedReplacement` is split into its loops,
one id per step in any order, with failure possible at each, because its copy
must not touch the active index; nothing else runs meanwhile. `Swap` is both
undo() and redo() of the transaction.

**DataFlowGraphModel.** One action per handler. `loadNode` has three outcomes,
since the id counter moves before the entry is validated. `askPossible` is an
action because asking fills the memo. A port edit is a sequence: the begin
handler, the delegate's change, one restoring addConnection at a time, the end;
`edit.due` remembers, for `PortEditKeepsConnections` only, what should be there
at the end. While a delegate edits, the painter may still ask (`askPossible`),
but nothing else is started; two edits that interleave are left for later. The
delegate is taken to keep its promise, that is to change the ports it named; a
delegate that does not is outside the contract of `AbstractGraphModel`.

**UndoHistory.** A command is a record; `undoX`/`redoX` give the graph and the
command afterwards (a replacement exchanges its spare set each time). `Push`
runs redo() first, as QUndoStack does. Obsolete commands drop the redo tail.
`recorded` is an auxiliary variable: the graph at each index. `LoadGroupFile`
is a menu action but not a command, which is what makes it interesting; what it
adds is added to every recorded graph. The graph a behaviour starts with and the
file are constants; `StartIsLegal` and `FileIsSaved` say that the first is one
the model can have built and the second one the library can have saved
(`IsLegal`, `IsSaved`). Nodes are a map from id to model name;
positions and the delegates' own data are left out. Each copied set of
connections restores in one order (`FoldSet`): the connections of a saved legal
graph do not exclude each other, so the order does not matter.

**GroupHistory.** Group functions are operators on the scene record, in the
order of the code: detaching before joining, the erasure of an emptied group,
the id counter, the lock. `session` selects the nodes a behaviour starts with,
how many commands it makes and which gestures it uses. Connections are left
out.

**DataFlow.** `calls` is the C++ call stack: each frame is a loop of the model
with the connections it has still to visit, and every turn of the innermost
loop is a step, in any order, since the loops run over hash sets. A sum keeps
weak pointers, so an input refers to a node's current result and expires when
that node makes another, unless a display, which has a shared pointer, still
holds the old one: then the input refers to what that display shows. User actions start only when no call is running.
`setup` says which delegates there are and which of them can be frozen.

**SceneFile.** `openFile` is a sequence of stages, the points where signals are
out and an exception can arise: staging, clearing, loading, putting back. Where
a delegate's `load()` throws is a choice at each entry, so the second load may
fail where the staging copy succeeded. A file that cannot be read or does not
validate is refused (`rejectFile`); the JSON behind that is left out. The undo
history is one earlier scene or none (`history`), because all that matters is
when it is cleared. Entries are restored in the order of the file.

**DynamicPortsModel.** A click on a button changes the widget's rows, asks the
model, which may refuse, and moves connections by the port edit of
`AbstractGraphModel`; all of it is one action since nothing runs in between.
The undo stack has one command, a deletion, a connection or an exchange of one
connection for others, undone or not: the question is what becomes of a command
that meets a graph which port edits, that are no commands, have changed. An
exchange puts a whole index in place of the present one, also then, and
announces only the exchanged connections. Replace the wire of an out port, click
"-" on that port and press Ctrl+Z: a connection is on a port that is gone, and
the file that is saved is refused. Shift another connection meanwhile, and the
scene goes on drawing the shifted one. The module does what the code does, and
`apart`, an auxiliary variable, remembers which of the two has happened:
`"ports"` until the next load, `"scene"` for good. `SavedGraphLoads` and
`WidgetsAndSceneFollow` claim nothing of connections in that case; of ports,
budgets, ids, rows and node objects they do. `thrown` is the exception that
leaves `QUndoStack`; the program has no handler, so the behaviour ends there.
Pasting, and a stack of more commands, are not part of this module; `UndoHistory`
has them, but no port edits between the commands.

**GraphicsView.** Scales and velocities are logarithms, so applying a factor is
adding; friction takes a level off per timer interval. Level 0 stands for
"below epsilon". Wheel events may be stamped before or after the clock.
`cacheMode` belongs to the nodes and `offset` (the view stands between pixels)
to a view; the mode is refreshed when a timer starts or stops, and by the policy
and scene changes.

**NodeGeometry.** Lengths are numbers and positions half pixels, because the
code halves; widths are unsigned and wrap at `UnsignedSize`. A change of a node
(`contentBecomes`: ports, labels, caption, widget, status) leaves the stored
size alone, so positions are computed from a stale size until `onNodeUpdated` or
a change of orientation measures the node again; dragging the handle does so at
once. `changed`, an auxiliary variable, says that the size is stale. The
vertical layout puts the widget behind the In labels, for which the node is not
measured there: with wide labels it overruns the right border. `WidgetInside`
has the exact overrun, `overhang`.

**SceneCanvas.** Space is a line, nodes have a position in the model and one of
their object, and connections store endpoints that are refreshed by calls, not
computed when drawn. `strays` is auxiliary: the items that a step moves without
the model or their groups being told, such as the other selected ones that a
drag carries along. `CanvasConsistent` says of all others that model, objects,
endpoints and frames agree.

**DraftConnection.** `SimpleGraphModel` adds any connection it is given, so the
gestures and commands have to ask first. They ask whether the ports are free, not
whether their nodes are there or differ, so a release may connect a node that the
Delete key has removed, or one with itself; both are reachable here. Between
press and release the keyboard works: `UndoStep`, `RedoStep`, `DeletePicked`.

**StatusIcon**, **RandomNumber.** A cache with a key and a dirty flag beside
the styles it was made from; a timer's handler beside the operands that arrive
while it counts. The handler holds the operands it was made with, so a frozen
random number node whose sources went on loses them only when the next operand
makes it compute again.

## Runs

| Run | Checks | Bounds |
|---|---|---|
| `index_and_view` | index: `IndexConsistent`, `DraftOnCourse`, refinement `ImplementsSet`; view: `CrispView`, `ScaleStaysInRange`, `ZoomEnds` | five connections between two nodes: self loop, shared ports, both directions, replacement lists of up to two ids with repetition; a zooming and a plain view, one node, four scale levels, two velocities, events one interval early or late |
| `graph` | `TypeOK`, `NoDangling`, `PortsNotOverbooked`, `Acyclic`, `CacheFresh`, `NextIdFresh`, `TypesAgree`, `PortEditKeepsConnections` | three nodes of three models: sources, sinks, and mixes, over which loops run, ports deleted; or two nodes with up to two ports a side and two types, ports inserted and deleted |
| `loop_search` | `AnswerIsReachability`, `StackBounded`, `SearchEnds` | every legal graph of up to three nodes with two outputs each, every candidate, every replaced set |
| `undo_and_draft` | history: `HistoryFaithful`, `SceneMirrorsModel`, `TopologyLegal`, `RestoredIdsAreFree`; draft: `BoardConsistent` | four node ids, a stack of two, single connections, a group file of one node; three node ids, three commands, a port a side |
| `groups` | history: `GroupsPartition`, `LocksFollowGroups`, `DeletionIsUndone`, `HeldGroupIdsReserved`; canvas: `CanvasConsistent` | three nodes, two group ids, either all gestures on a stack of one or grouping, locking and deleting on a stack of two; two nodes, a group and a connection on a line of three places, with and without a grid |
| `data_flow` | `DataSettled`, `NotReentered`, `Settles` | a source with two sums and a display, or with a sum that may be frozen and two displays; two numbers |
| `documents` | ports: `SavedGraphLoads`, `UndoFailsOnlyWhenFull`, `WidgetsAndSceneFollow`; files: `SavedSceneLoads`, `IdsStayTaken`, refinement `ImplementsDocument`; geometry: `LayoutInside`, `ClickFindsPort`; `IconIsCurrent`; `AnswersLatestOperands` | two nodes of two ports a side, four ports and two connections in all, four files, no new commands once an exchange has driven something apart; three node ids, two group ids, four scene files and two group files; two ports a side, two label widths, captions and widgets, one change between two measurements; two statuses, two resolutions and a single default style; three operands and a countdown of three |
| `undo_replace_stale` | `HistoryFaithful`, violated | as `undo_and_draft`, with a group file of two connected nodes |
| `undo_refused` | `RefusalKeepsHistory`, violated | three node ids |
| `group_paste_redo` | `RedoneDeletionIsUndone`, violated | one locked pair, copy and paste, a stack of three |
| `zoom_range` | `ZeroMaximumIsUnlimited`, violated | the views of `index_and_view` |
| `status_icon_stale` | `IconIsCurrent`, violated | two default styles, one status |

Why these bounds are enough to be interesting. Three nodes give loops longer
than two and a memo whose keys differ in one node; two ports a side give a port
that goes and one that moves. A stack of two has an undone command above a done
one, and a command that is pushed over it. Four ids leave room for a paste of
two connected nodes, or for a file between two creations. Two sums and a source
give the diamond in which one announcement reaches a node by two ways. Two
views are what it takes for one to be wrong about the cache the other set. The
files hold a legal grouped scene, groups that share a node, a node and a
connection that come twice, and a group that names an unknown model. Three
places on a line let a dragged node enter and leave a frame. A budget of four
ports is overrun by the undo of a deletion as soon as the other node has grown,
and two connections leave one to exchange and one to shift.

The bounds are constants: `InvalidNodeId` and `InvalidGroupId` are the ids
after the largest (2^32 - 1 in the code); the code refuses at that bound too,
so they are not only a device of the checking. `MaxPorts` bounds what delegates
insert. `MaxHistory` bounds the commands; `QUndoStack` has no limit unless it
is given one. Three bounds are guards of their own: `Pasteable` leaves out copies
for whose paste no ids are left; `OldCommand` of `MCDocuments` lets no new command
and node come once an exchange has driven something apart; and `GeometryPart` lets
a node change once between two measurements. `MaxScale`, `MaxVelocity` and `MaxDelay` bound
the numbers of a view, `MaxSpot` and `MouseWay` the line and the mouse,
`BoardIds`, `MaxSteps` and `MaxPicked` the drags. `MaxNodes`,
`MaxPortsPerNode`, `MaxPorts` and `MaxConnections` are budgets of the example
itself. The `ports` behaviours of `graph` ask without a memo and keep below the
last id, which the `graph` behaviours cover.

Deadlock is checked everywhere but in `loop_search`, where the search stops
when it has an answer, and in `documents`, where an exception that leaves
`QUndoStack` ends the program.

**Fairness.** `LoopSearch` and `DataFlow` assume weak fairness of the steps of
a running call: a C++ function that is running goes on to its next statement,
on one thread, with nothing to wait for. `GraphicsView` assumes it of `Timer`
for each view: the event loop serves a timer that is running. No user action is
fair, so `ZoomEnds` says that a zoom comes to rest unless the wheel is turned
for ever. The other modules state no liveness: nothing in them is bound to
happen.

### Where code and documentation part

- `undo_replace_stale`: undoing a replacement exchanges the whole connection
  index with the copy made when the command was created. `loadGroupFile()` has
  meanwhile added connections outside the undo stack; they vanish from the
  model, and no signal is sent, so the scene still draws them. The undo guide
  says that stack index and topology cannot diverge. (Port edits are no commands
  either, and the ports example shows more of this: see `DynamicPortsModel`.) In `undo_and_draft` the
  file has no connections, and everything holds.
- `undo_refused`: a replacement that gets no transaction is pushed as an
  obsolete command, and pushing drops the commands that could be redone,
  although the undo guide says a null result leaves the history unchanged.
- `group_paste_redo`: redoing a paste gives its group a new id, while a later
  deletion on the stack remembers the old one. Undoing that deletion then makes
  a second group of the deleted member, rather than restoring it to the
  surviving group.
- `zoom_range`: `setScaleRange(2, 0)` exchanges its bounds before it looks at
  what zero means, so a minimum without a maximum becomes a maximum without a
  minimum; the header says that 0 is infinite zoom.
- `status_icon_stale`: a node without a style of its own keeps showing the icon
  of the default style that was installed before, because only the node's own
  setters make its image dirty; `StyleCollection.hpp` says that the notice of a
  new style drops what was cached.

## Proofs

TLAPS checks the theorems for every value of the constants that satisfies the
named assumptions: ids and port bounds are naturals, initial layouts fit the
bound; replacement lists name possible connections; the levels of a view are
naturals and its range lies among them; lengths of captions, labels and widgets
are naturals; operands and the numbers that are typed in are integers; the nodes a
history starts with, and those of files, are finitely many; the first graph of
a history is legal and a group file is one that was saved; a document is made
of arrays, whatever stands in them; the budgets of the ports example have room
for the graph that `initializeModel()` makes; `None` and its like are none of the
values they stand beside. Nothing else is assumed, with four exceptions that are
hypotheses of their theorems, and named there.

**Index and views** (`IndexAndView_proofs`). `IndexIsConsistent`,
`ReplacementOnCourse`, `IndexImplementsSet`: the heart is a pair of lemmas for
each map: inserting c into the map of S gives the map of S with c, erasing
gives the map of S without it, the emptied bucket included. So the whole state
is determined by sets of connections, `IndexConsistent /\ DraftOnCourse` is
inductive, and every step is a step of `ConnectionSet` or a stutter.
`DraftOnCourse` is what makes the last step of a preparation implement the
abstract one. `ViewTypesHold`, `ViewsAreCrisp`, `ScaleIsBounded` come from
`ViewInv`. Neither property is inductive alone: clamping keeps a scale in range
only if the minimum is not above the maximum, and counting the views that share
a pixel cache needs the attached ones to be finitely many; so `ViewInv` adds to
the two halves of `CrispView` the types of all views and the order of their
bounds. There is a lemma per helper of the code (stop, advance, settle, set
up), each used by all the handlers that call it.

**Graph model** (`DataFlowGraphModel_proofs`). `TypesHold`, `NothingDangles`,
`PolicyRespected`, `TypesMatch`, `NoLoops`, `MemoIsFresh`, `IdsAreFresh`, all
from one inductive invariant `Inv`. None of them is inductive alone: `NoLoops`
needs the memo to be fresh, as addConnection trusts it; the memo is fresh only
if the walk over a node's present ports sees all its connections, which is
`NoDangling`; and this needs to know that, between the two phases of a port
edit, no connection sits on a port that is about to change. `Inv` therefore has
a part about the edit under way, `EditInv`. The lemmas about `Reaches`
(`AcyclicAdd`: one more connection closes no loop unless it closes one itself)
use its definition by closed sets, so no induction is needed.

`PortEditsLoseNothing` builds on `Inv`. What it adds, `DueInv`, is that what is
in the graph and what is still to be restored make up exactly what is due.
That alone is not enough: a connection is restored through `addConnection`,
which may refuse. So `DueInv` also says that all that is due, on the ports after
the edit, is `Sound` (ports exist, policies and types hold, no loop), and a part
of a sound graph is admitted. `MovedSound` is why it is sound: every connection
that is due stands for one of the graph before the edit, on a port that moved
with it, and no two stand for the same one.

**Loop search** (same module). `SearchIsRight`: the invariant `SearchInv` is
that the nodes on the stack and the visited ones are reachable, that what
follows a visited node is visited or on the stack, and that the target is not
visited while the search runs; an empty stack thus leaves a closed set without
the target. `StackStaysBounded`: a node may be on the stack many times, so its
length is bounded by counting connections, not nodes: `StackInv` says that the
entries and the connections that leave an unvisited node are together no more
than all connections, once more than the first node was pushed.

**Folds** (`FoldFacts`). The code restores sets of nodes and connections one at
a time, and the models do so with `FoldSet`. Its definition chooses an element
in each step, so a property of the result needs an induction over the size of
a finite set. It is carried out once, by a least counterexample (the naturals
are well founded under `<`, which is a theorem without an operator parameter),
with the folded operation and the relation between what is consumed and what
has come about as parameters of the module. `FoldStays` is the invariant of a
fold, `FoldRelates` its result.

**Groups** (`Groups_proofs`). `GroupsArePartition`, `LocksFollow`,
`HeldIdsStayReserved`, `DeletionsAreUndone`, from `GroupInv`. Every group
function of the scene gets a closed form first: what the groups, the nodes'
groups and the locks are after adding, removing or restoring a set of members,
without the fold. The partition is then an equation on sets. An undo keeps it
only if the nodes that come back are not there already: `Trail` follows the set
of nodes through the commands of the stack and says that each deletion removed
nodes that were there and each insertion added nodes that were not. That a
group id which an undo gives back was not handed out meanwhile is
`HeldIdsStayReserved`. `DeletionsAreUndone` follows from `GroupInv` by
computing with the closed forms: restoring the members of what was taken out
is the inverse of taking them out, whatever the selection.

**Canvas** (same module). `CanvasStaysConsistent`, from `CanvasInv`. Model,
objects, endpoints and frames are one record, and `Sound` says of such a record
which connections, frames and positions may be stale in it and which group may
make room for a node. Each function of the model has one lemma: given what is
stale before the call, what is stale after it. `moveConnections()` takes
connections off the list, `setPos()` puts the node's groups on it, and so on
through the drag of a selection and the members of a locked group, whose
connections are moved before the nodes are: what the lists then hold is what
the model's `strays` names. `CanvasInv` adds to the property what a drag in
progress may leave behind until the mouse is released: the model's positions of
the held node or of the held group's members, and the frame and the child of
the group the mouse is in, which is never locked while the node is in no group.
Positions need care in one place: a locked group's members are moved before
the bound on the line is known to hold, so the lemmas have the set of positions
as a parameter.

**Undo** (`UndoAndDraft_proofs`). `HistoryIsFaithful`, `SceneIsAMirror`,
`RestoringFindsItsIds`, `TopologyStaysLegal`. For each kind of command, `Makes`
relates the graphs before and after it and the command's payload: it is what
its redo() does and, read backwards, its undo(). `Track` says that the recorded
graphs are related by the commands of the stack one after another, and
`HistoryInv` that the graph of now is the recorded one at the index, that all
recorded graphs are legal and that the scene has its objects. A step on the
stack moves along `Track`; a push cuts it and adds to it; the menu action that
loads a group file adds the same nodes and connections to all recorded graphs,
and the lemmas `...Over` show that every `Makes` survives this. That last point
does not hold in general. A replacement remembers the entire set of
connections, and what the file adds is missing in it: this is the run
`undo_replace_stale`. So these theorems have the hypothesis
`FileSparesReplacements`: if there is a group file then it is legal beside the
rest and either has no connections or no replacement can be made at all, since
every out port takes many connections, which is the default policy of
`NodeDelegateModel`. With no group file the hypothesis is empty.

**Drags** (same module). `BoardStaysConsistent`: on `SimpleGraphModel`, though it
adds whatever it is told, no port has two connections and the scene mirrors the
model. Connections whose node is gone, and self loops, are reachable, since
neither `SimpleGraphModel::addConnection()` nor `canConnect()` asks for the
nodes; what holds is `NoWireAwaitsANode`: such a connection never falls to a node
that is created later. The model's checks are made at the press and at the
release; that a command undone or redone in between cannot spoil them is the
invariant `BoardInv`: `Course` walks along the stack as `Track` does, and every
board on it is consistent and of nodes that have been.

**Scene files** (`Documents_proofs`). `FilesImplementDocument`, `IdsAreTaken`,
`SavedScenesLoad`.
Opening takes many steps and may fail in each; `StagesInv` says what each stage
leaves: the copy is whole and so is the scene, which before the clearing is still
the copy, while loading is what the entries so far make, and after a failure is
empty. A scene is whole if its nodes, connections and groups are finite maps and
sets; every edit keeps it so, and so does every prefix of every document. The
main lemma is `SceneComesBack`: the document that is written of a whole scene
makes that scene again, though the order in which entries are written is the
hash table's. So the step that puts the copy back is a refusal of `Document` and
the last entry an opening, and all other steps are edits or stutter. The theorem
has the hypothesis `NothingStandsApart`: the value for "nothing is opened" is no
scene and no opening, without which the two could not be told apart.
`IdsInv` adds to the ids of scene and history those of the copy, which are below
the id that a failed opening rolls back to; without it nothing is known of the
ids after a rollback. `SavedScenesLoad` needs the scene to be one that the file's
readers accept, and these ask entry by entry, in an order that the hash tables
choose. `LegalInv` therefore says that the connections are `Sound`: each has
ports of one type at both ends, no two share a port with policy One, and none
leads back to where it starts; and that groups share no node. `PossibleIs` shows
that `connectionPossible()`, with an empty memo, admits exactly what `Admits`
says; `AddedSound`, that what is admitted keeps a graph sound; `PartAdmits`, that
a sound graph's connection is admitted to every part of the graph without it,
whatever the order. The other way round, every prefix of a document that the
staging model took is legal (`ReadIsLegal`), so that a scene which was loaded, or
put back, can be saved and loaded again.

**Dynamic ports** (same module). `RowsAndSceneFollow`, `UndoNeedsOnlyRoom`,
`GraphLoadsBack`, from `PortsInv`: the graph keeps the example's budgets, its
connections end at ports that exist and no two share one, unless `apart` has
`"ports"`, the scene draws them, unless `apart` has `"scene"`, a deletion's nodes
are below the next id and not in the graph while the command is done, and an
exception has left the stack only when the graph is full. `ExchangeFits` says
which connections an exchange finds and leaves as long as nothing came between. That the
saved graph loads is then to check it against the conditions of `load()` one by
one. Two things take work: the number of ports in all is a fold, and to say that
budgets add up it is counted as the cardinality of the set of places; and
connections are read one at a time, each checked against those before, while the
invariant speaks of all pairs.

**Node geometry** (same module). `LayoutStaysInside`, `ClicksFindPorts`. The
inductive part is short, `GeometryInv`: unless the content changed since, the
stored size is the one measured for it in the present layout. The rest is
arithmetic.
The centred positions come from an unsigned division; the lemmas show that what
is divided never falls below zero for the ports, so they need no bound on the
widths, while the position of a label may, and needs that widths stay below
2^32 (`WidthsFit`, a hypothesis). The ports of a side are multiples of one
distance apart, whatever the stored size, so the first port in reach of a click at
a port's centre is that port as long as the reach is at most that distance, which
`ClickFindsPort` asks of the style.

**Delegates** (same module). `IconStaysCurrent`, from the assumption
that all default styles are equal, with the invariant that a clean image is the
one that would be made now for the status, resolution and ratio it is kept
under; the run `status_icon_stale` shows that the assumption cannot be dropped.
`AnswersAreLatest`, from the invariant that, while both operands are there,
either a countdown that took them is running or the result is theirs.

**Data flow** (`DataFlow_proofs`). `CallsAreNotReentered`, `DataSettles`, from
`FlowInv`, which speaks of every frame of the call stack. Above a delegate that
announces there are only those its data leads on to (`AnnouncementAt`), and the
graph has no loops (`FlowGraphInv`, from what `connectionPossible()` asks): so
none of them is on the stack twice, and a number does not change under the loop
that passes it on. Hence what a call is still to deliver is what the source has
now, unless the connection is gone, and then the call brings nothing and every
other connection at that in port is still to be offered (`DeliveryAt`). This
order is what a replacement needs: the removed ends are emptied before the new
one is served. `ServedInv` puts it together: every in port holds what its source
has, or a call on the stack will see to it; with the stack empty that is
`DataSettled`. Frozen delegates are left out there, as in the property.

Only model-checked: the liveness properties (`SearchEnds`, `Settles`,
`ZoomEnds`), since liveness under fairness is out of the prover's reach. Every
invariant and every action property that a passing run checks is proved.

## Not modelled

Two port edits at once, which share one list of shifted connections. Delegates
that change the graph from inside `setInData`. `MoveNodeCommand` and positions
on the undo stack: `docs/guide/undo-redo.rst` lists moving nodes, but no
gesture of the library pushes the command. A model reset while a draft
connection is held or commands are on the stack (in `SceneCanvas` the model is
reset at any time, also during the drag of an item). An input that takes many
connections and loses one of them: no delegate of the repository says what it
should then hold. A number source whose text is no number emits
`dataInvalidated()`, which nothing is connected to: what follows it keeps the
last number, and `DataFlow` has no step for it.

Drawing, hovering, the path of a connection, panning and the background; the
JSON types and number formats behind "readable"; writing bytes and file
dialogs; renaming of groups; the remaining examples, which show single settings
of the API. Exceptions are modelled where the code catches them, and where the
one in `DynamicPortsModel` leaves the stack. A subclass that turns
`loopsEnabled()` on has no data-flow guarantee, and is left out. Switching
grouping off restarts the group ids while commands remember old ones, so
`HeldGroupIdsReserved` excludes that gesture, and fails with it. Port edits
between the commands of a deeper stack, and paste in the ports example: the
library's commands and port edits meet in `DynamicPortsModel`, one command at a
time.

## Plan

Done, in this order: the index and its abstraction, the graph model, the loop
search, undo, groups, data flow; the proofs of the first three. Then files and
their abstraction, dynamic ports, views, geometry, canvas, drafts, the two
delegates; the proofs of the views and the delegates. Then the facts about
folds, and with them the proofs of groups, undo and drags; port edits and the
bound of the search; files with their abstraction and what they accept, the
dynamic ports, the geometry, the data flow and the canvas.

Next:

1. Interleaved port edits: two delegates that share the list of shifted
   connections.
2. Delegates that change the graph while data arrives, in `DataFlow`.
3. A reset of the model under a draft connection and a filled undo stack.
