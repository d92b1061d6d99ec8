------------------------------ MODULE SceneCanvas ------------------------------
(***************************************************************************)
(* Where things are on a BasicGraphicsScene: the position the model keeps  *)
(* of a node and the one its graphics object has, the endpoints a          *)
(* connection stores, the frame a group stores, and the mouse that drags   *)
(* and resizes them.                                                       *)
(*                                                                         *)
(* Space is a line: a node covers [place, place + extent], its In port is  *)
(* at the left end and its Out port at the right end; a group's margins    *)
(* are left out.  Selection, moving of selected items and mouse grabbing   *)
(* are Qt's and modelled as QGraphicsItem does them: every selected item   *)
(* that may move goes where it was plus the way of the mouse.  Which nodes *)
(* are in which group, and their ids, is GroupHistory's subject; here a    *)
(* member of a locked group is locked.                                     *)
(***************************************************************************)
EXTENDS Integers, FiniteSets, FiniteSetsExt, Functions

CONSTANTS
  CanvasNode, CanvasGroup,   \* nodes of the model, names for groups
  CanvasWire,                \* connections, <<out node, in node>>
  MaxSpot, MouseWay,         \* bounds: the line 0 .. MaxSpot, the ways a mouse may go
  Extent,                    \* the sizes each node may have
  MayBePinned,               \* the nodes the model may lock
  Snap,                      \* adjustedNodePosition(): where a position is moved to
  NoItem

Spot == 0 .. MaxSpot
Extents == {f \in [CanvasNode -> UNION Range(Extent)] : \A n \in CanvasNode : f[n] \in Extent[n]}

ASSUME CanvasConstants ==
  /\ IsFiniteSet(CanvasNode) /\ CanvasWire \subseteq CanvasNode \X CanvasNode
  /\ CanvasNode \cap CanvasGroup = {} /\ CanvasWire \cap (CanvasNode \cup CanvasGroup) = {}
  /\ NoItem \notin CanvasNode \cup CanvasGroup \cup CanvasWire
  /\ MaxSpot \in Nat /\ Extent \in [CanvasNode -> (SUBSET Nat) \ {{}}]
  /\ 0 \in MouseWay /\ MouseWay \subseteq Int /\ MayBePinned \subseteq CanvasNode
  /\ Snap \in [Spot -> Spot] /\ \A p \in Spot : Snap[Snap[p]] = Snap[p]

VARIABLES
  desk,     \* [at, extent, place, ends, groups]: what the model and the items store
  pinned,   \* nodes with NodeFlag::Locked in the model
  chosen,   \* the selected items
  mouse,    \* the item the mouse holds, or NoItem, and its drag
  strays    \* what a step moved without the rest: see carry and the properties

canvasVars == <<desk, pinned, chosen, mouse, strays>>

-----------------------------------------------------------------------------
(* What the items derive from the nodes.                                   *)

groupsOf(d, n) == {g \in DOMAIN d.groups : n \in d.groups[g].nodes}
locked(d, n) == n \in pinned \/ \E g \in groupsOf(d, n) : d.groups[g].locked
nodesOf(d, items) == (items \cap CanvasNode) \cup
                     UNION {d.groups[g].nodes : g \in items \cap DOMAIN d.groups}

nodeRect(d, n) == [lo |-> d.place[n], hi |-> d.place[n] + d.extent[n]]
NoRect == [lo |-> 0, hi |-> 0]
meets(r, s) == r.lo <= s.hi /\ s.lo <= r.hi
portsOf(d, w) == [out |-> d.place[w[1]] + d.extent[w[1]], in |-> d.place[w[2]]]

computeGroupRect(d, g) ==
  LET ns == d.groups[g].nodes \cup ({d.groups[g].child} \ {NoItem})
  IN  [lo |-> Min({d.place[n] : n \in ns}), hi |-> Max({d.place[n] + d.extent[n] : n \in ns})]

updateGroupGeometry(d, gs) ==
  [d EXCEPT !.groups = [g \in DOMAIN @ |->
     IF g \in gs THEN [@[g] EXCEPT !.frame = computeGroupRect(d, g)] ELSE @[g]]]

\* ConnectionGraphicsObject::move() on every connection of the nodes.
moveConnections(d, ns) ==
  [d EXCEPT !.ends = [w \in CanvasWire |->
     IF w[1] \in ns \/ w[2] \in ns THEN portsOf(d, w) ELSE @[w]]]

\* setPos(): Qt asks itemChange() only for items that may be moved, which then
\* adjusts the position and takes the connections along.
setPos(d, n, p) ==
  IF locked(d, n) THEN [d EXCEPT !.place[n] = p]
  ELSE moveConnections([d EXCEPT !.place[n] = Snap[p]], {n})

syncNodePosition(d, n) ==
  LET p == Snap[d.at[n]] IN [setPos(d, n, p) EXCEPT !.at[n] = p]

\* setNodeData(Position), whose signal is onNodePositionUpdated().
setModelPosition(d, n, p) ==
  updateGroupGeometry(syncNodePosition([d EXCEPT !.at[n] = p], n), groupsOf(d, n))

update_model_position_if_needed(d, n) ==
  IF d.at[n] = d.place[n] THEN d ELSE setModelPosition(d, n, d.place[n])

\* A sequence of updates, one node after another.
forNodes(op(_, _), d, ns) == FoldSet(LAMBDA n, e : op(e, n), d, ns)

Fresh(at, extent) ==
  LET place == [n \in CanvasNode |-> Snap[at[n]]]
      d == [at |-> place, extent |-> extent, place |-> place,
            ends |-> << >>, groups |-> << >>]
  IN  [d EXCEPT !.ends = [w \in CanvasWire |-> portsOf(d, w)]]

\* What the mouse does with an item it has just taken, or with none.
held(item, resizing) ==
  [item |-> item, resizing |-> resizing, from |-> << >>, way |-> 0,
   into |-> NoItem, original |-> NoRect]

\* New nodes are at the origin; NodePositionUpdated() and NodeUpdated() take
\* them anywhere.
CanvasInit ==
  /\ desk = Fresh([n \in CanvasNode |-> 0], [n \in CanvasNode |-> Min(Extent[n])])
  /\ pinned = {} /\ chosen = {} /\ mouse = held(NoItem, FALSE) /\ strays = {}

\* A bound: drags that would leave the line are left out.
OnLine(d) == \A g \in DOMAIN d.groups : d.groups[g].frame.lo \in Spot
Idle == mouse.item = NoItem

\* The flags of a locked node deselect it, and items that are gone are not selected.
selectable(d) == {n \in CanvasNode : ~locked(d, n)} \cup DOMAIN d.groups

deskBecomes(d) ==
  /\ desk' = d
  /\ chosen' = chosen \cap selectable(d)

-----------------------------------------------------------------------------
(* The mouse.                                                              *)

\* Clicks and the rubber band.
Select(items) ==
  /\ Idle
  /\ items \subseteq selectable(desk) /\ chosen' = items
  /\ UNCHANGED <<desk, pinned, mouse, strays>>

\* A locked group lies above the nodes it covers; a locked node holds the mouse too.
PressNode(n, resizing) ==
  /\ Idle
  /\ \A g \in DOMAIN desk.groups : desk.groups[g].locked =>
       ~(desk.groups[g].frame.lo <= desk.place[n] /\ nodeRect(desk, n).hi <= desk.groups[g].frame.hi)
  /\ locked(desk, n) => ~resizing
  /\ chosen' = IF locked(desk, n) THEN {} ELSE IF n \in chosen THEN chosen ELSE {n}
  /\ mouse' = held(n, resizing)
  /\ UNCHANGED <<desk, pinned, strays>>

PressGroup(g) ==
  /\ Idle
  /\ chosen' = IF g \in chosen THEN chosen ELSE {g}
  /\ mouse' = held(g, FALSE)
  /\ UNCHANGED <<desk, pinned, strays>>

\* QGraphicsItem::mouseMoveEvent(): selected items, and the one held, go where
\* they were when the drag began plus the way of the mouse.
movable(d, items) == items \cap selectable(d)
positions(d, items) == [n \in items \cap CanvasNode |-> d.place[n]]
shifted(group, way) == [group EXCEPT !.frame = [lo |-> @.lo + way, hi |-> @.hi + way]]
drag(items, from, way) ==
  LET at == forNodes(LAMBDA d, n : setPos(d, n, from[n] + way), desk, items \cap CanvasNode)
  IN  [at EXCEPT !.groups = [g \in DOMAIN @ |->
         IF g \in items THEN shifted(@[g], way - mouse.way) ELSE @[g]]]

\* The mouse may enter the frame of an unlocked group, which then makes room
\* for the node, or leave the frame the group had before.
hits(d, n) == {g \in DOMAIN d.groups : ~d.groups[g].locked /\ meets(d.groups[g].frame, nodeRect(d, n))}
setPossibleChild(d, g, n) == updateGroupGeometry([d EXCEPT !.groups[g].child = n], {g})

approach(d, n, m) ==
  IF m.into = NoItem
  THEN IF hits(d, n) = {} THEN {<<d, m>>}
       ELSE {<<setPossibleChild(d, g, n), [m EXCEPT !.into = g, !.original = d.groups[g].frame]>> :
               g \in hits(d, n)}
  ELSE IF m.into \in hits(d, n) /\ ~meets(nodeRect(d, n), m.original)
  THEN LET left == setPossibleChild(d, m.into, NoItem)
       IN  {<<left, [m EXCEPT !.into = NoItem, !.original = NoRect]>>} \cup
           {<<setPossibleChild(left, g, n), [m EXCEPT !.into = g, !.original = d.groups[g].frame]>> :
              g \in hits(d, n) \ {m.into}}
  ELSE {<<d, m>>}

moveNodes(d, g, offset) ==
  updateGroupGeometry(
    forNodes(LAMBDA e, n : setPos(e, n, e.place[n] + offset), d, d.groups[g].nodes), {g})

\* Mutant: a group that is not locked keeps its frame while a member is dragged.
draggedNodeOnly(d, n, m, offset) ==
  IF groupsOf(d, n) # {} THEN {<<moveConnections(d, {n}), m>>}
  ELSE approach(moveConnections(d, {n}), n, m)

\* A locked group goes with its node; its connections were moved before that.
draggedNode(d, n, m, offset) ==
  IF groupsOf(d, n) = {} THEN approach(moveConnections(d, {n}), n, m)
  ELSE LET g == CHOOSE k \in groupsOf(d, n) : TRUE
           moved == moveConnections(d, d.groups[g].nodes)
       IN  {<<IF d.groups[g].locked THEN moveNodes(moved, g, offset) ELSE updateGroupGeometry(moved, {g}), m>>}

wiresOf(ns) == {w \in CanvasWire : w[1] \in ns \/ w[2] \in ns}

\* A position the model corrects does not take a locked node's connections along.
unfollowed(n) == IF locked(desk, n) THEN wiresOf({n}) ELSE {}

\* Other items are carried along: nothing tells the model, or their groups.
carry(n, items) ==
  LET others == items \ {n} IN strays \cup others \cup UNION {groupsOf(desk, i) : i \in others}
withGroup(n) ==
  UNION {desk.groups[g].nodes \cup wiresOf(desk.groups[g].nodes) : g \in {k \in groupsOf(desk, n) : desk.groups[k].locked}}

MoveNode(n, way) ==
  /\ mouse.item = n /\ ~mouse.resizing /\ way # mouse.way
  /\ LET selected == IF n \in chosen THEN chosen ELSE {n} \cap selectable(desk)
         free == ~locked(desk, n)
         items == IF free THEN movable(desk, selected) ELSE {}
         from == IF mouse.from = << >> THEN positions(desk, selected \cup {n}) ELSE mouse.from
         moved == IF free THEN drag(items, from, way) ELSE desk
     IN  /\ \A i \in items \cap CanvasNode : from[i] + way \in Spot
         /\ OnLine(moved)
         /\ chosen' = selected
         /\ \E r \in draggedNode(moved, n, [mouse EXCEPT !.from = IF free THEN from ELSE @, !.way = way],
                              way - mouse.way) :
              desk' = r[1] /\ mouse' = r[2] /\ \A i \in CanvasNode : r[1].place[i] \in Spot
         /\ strays' = (carry(n, items) \cup withGroup(n)) \ (groupsOf(desk, n) \cup {n})
  /\ UNCHANGED pinned

\* Neither a group's frame nor the model's position follows.
ResizeNode(n, extent) ==
  /\ mouse.item = n /\ mouse.resizing
  /\ desk' = moveConnections([desk EXCEPT !.extent[n] = extent], {n})
  /\ chosen' = IF n \in chosen THEN chosen ELSE {n} \cap selectable(desk)
  /\ strays' = (strays \ wiresOf({n})) \cup groupsOf(desk, n)
  /\ UNCHANGED <<pinned, mouse>>

MoveGroup(g, way) ==
  /\ mouse.item = g /\ way # mouse.way
  /\ LET items == movable(desk, chosen \cup {g})
         from == IF mouse.from = << >> THEN positions(desk, items) ELSE mouse.from
         members == desk.groups[g].nodes
     IN  /\ \A n \in items \cap CanvasNode : from[n] + way \in Spot
         /\ LET moved == drag(items, from, way)
            IN  /\ OnLine(moved) /\ \A n \in members : moved.place[n] + way - mouse.way \in Spot
                /\ desk' = moveConnections(moveNodes(moved, g, way - mouse.way), members)
         /\ mouse' = [mouse EXCEPT !.from = from, !.way = way]
         /\ strays' = carry(g, items \ members) \ ({g} \cup wiresOf(members))
  /\ UNCHANGED <<pinned, chosen>>

joinGroup(d, n, g) ==
  updateGroupGeometry([d EXCEPT !.groups[g].nodes = @ \cup {n}], {g})

\* A click that went nowhere leaves only its item selected.
clicked(item, d) == IF mouse.way = 0 /\ item \in selectable(desk) THEN {item} ELSE chosen \cap selectable(d)

ReleaseNode(n) ==
  LET moved == update_model_position_if_needed(moveConnections(desk, {n}), n)
      joined == IF mouse.into = NoItem THEN moved
                ELSE setPossibleChild(joinGroup(moved, n, mouse.into), mouse.into, NoItem)
  IN  /\ mouse.item = n
      /\ desk' = joined /\ chosen' = clicked(n, joined) /\ mouse' = held(NoItem, FALSE)
      /\ strays' = LET told == strays \ ({n, mouse.into} \cup wiresOf({n}))
                   IN  IF desk.at[n] = desk.place[n] THEN told
                       ELSE (told \ groupsOf(desk, n)) \cup unfollowed(n)
      /\ UNCHANGED pinned

ReleaseGroup(g) ==
  LET members == desk.groups[g].nodes
      told == forNodes(update_model_position_if_needed, desk, members)
      d == updateGroupGeometry(moveConnections(told, members), {g})
  IN  /\ mouse.item = g
      /\ desk' = d /\ chosen' = clicked(g, d) /\ mouse' = held(NoItem, FALSE)
      /\ strays' = strays \ ({g} \cup members \cup wiresOf(members))
      /\ UNCHANGED pinned

-----------------------------------------------------------------------------
(* Groups, by menu and double click.                                       *)

setLock(d, g, on) == [d EXCEPT !.groups[g].locked = on]

left(group, n) == [group EXCEPT !.nodes = @ \ {n}]

detached(d, n) ==
  LET gs == groupsOf(d, n)
      out == [d EXCEPT !.groups = [g \in DOMAIN @ |-> IF g \in gs THEN left(@[g], n) ELSE @[g]]]
      kept == {g \in DOMAIN out.groups : out.groups[g].nodes # {}}
  IN  updateGroupGeometry([out EXCEPT !.groups = Restrict(@, kept)], gs \cap kept)

CreateGroup(g) ==
  LET ns == chosen \cap CanvasNode
      d == forNodes(detached, desk, ns)
      group == [nodes |-> ns, locked |-> TRUE, child |-> NoItem, frame |-> NoRect]
      added == [d EXCEPT !.groups = [k \in DOMAIN @ \cup {g} |-> IF k = g THEN group ELSE @[k]]]
  IN  /\ Idle /\ ns # {} /\ g \notin DOMAIN desk.groups
      /\ deskBecomes(updateGroupGeometry(added, {g}))
      /\ strays' = strays \ (CanvasGroup \cap UNION {groupsOf(desk, n) : n \in ns})
      /\ UNCHANGED <<pinned, mouse>>

AddNodeToGroup(n, g) ==
  /\ Idle /\ n \in chosen /\ g \in DOMAIN desk.groups
  /\ n \notin desk.groups[g].nodes
  /\ deskBecomes(joinGroup(detached(desk, n), n, g))
  /\ strays' = strays \ (groupsOf(desk, n) \cup {g})
  /\ UNCHANGED <<pinned, mouse>>

RemoveNodeFromGroup(n) ==
  /\ Idle /\ groupsOf(desk, n) # {}
  /\ deskBecomes(detached(desk, n))
  /\ strays' = strays \ groupsOf(desk, n)
  /\ UNCHANGED <<pinned, mouse>>

DoubleClickGroup(g) ==
  /\ Idle /\ deskBecomes(setLock(desk, g, ~desk.groups[g].locked))
  /\ UNCHANGED <<pinned, mouse, strays>>

-----------------------------------------------------------------------------
(* The model speaks, at any time.                                          *)

NodeUpdated(n, extent) ==
  /\ desk' = moveConnections(updateGroupGeometry([desk EXCEPT !.extent[n] = extent],
                                                 groupsOf(desk, n)), {n})
  /\ strays' = strays \ (groupsOf(desk, n) \cup wiresOf({n}))
  /\ UNCHANGED <<pinned, chosen, mouse>>

applyStyleDefaults(extent) ==
  /\ desk' = updateGroupGeometry(moveConnections([desk EXCEPT !.extent = extent], CanvasNode),
                                 DOMAIN desk.groups)
  /\ strays' = strays \cap CanvasNode
  /\ UNCHANGED <<pinned, chosen, mouse>>

\* setNodeData(Position) by the program.  Nothing moves the connections of a
\* node that is locked.
NodePositionUpdated(n, p) ==
  /\ p # desk.at[n]
  /\ desk' = setModelPosition(desk, n, p)
  /\ strays' = (strays \ ({n} \cup groupsOf(desk, n)))
               \cup unfollowed(n)
  /\ UNCHANGED <<pinned, chosen, mouse>>

NodeFlagsUpdated(n) ==
  /\ pinned' = IF n \in pinned THEN pinned \ {n} ELSE pinned \cup {n}
  /\ chosen' = IF n \in pinned THEN chosen ELSE chosen \ {n}
  /\ UNCHANGED <<desk, mouse, strays>>

onModelReset ==
  /\ desk' = Fresh(desk.at, desk.extent)
  /\ chosen' = {} /\ mouse' = held(NoItem, FALSE) /\ strays' = {}
  /\ UNCHANGED pinned

Drag ==
  /\ ~Idle
  /\ \/ \E n \in CanvasNode : \/ \E way \in MouseWay : MoveNode(n, way)
                              \/ \E e \in Extent[n] : ResizeNode(n, e)
                              \/ ReleaseNode(n)
     \/ \E g \in DOMAIN desk.groups : \/ \E way \in MouseWay : MoveGroup(g, way)
                                      \/ ReleaseGroup(g)

CanvasNext ==
  \/ \E items \in SUBSET (CanvasNode \cup CanvasGroup) : Select(items)
  \/ \E n \in CanvasNode, resizing \in BOOLEAN : PressNode(n, resizing)
  \/ Drag
  \/ \E g \in CanvasGroup : CreateGroup(g)
  \/ \E g \in DOMAIN desk.groups : PressGroup(g) \/ DoubleClickGroup(g)
  \/ \E n \in CanvasNode, g \in CanvasGroup : AddNodeToGroup(n, g)
  \/ \E n \in CanvasNode : RemoveNodeFromGroup(n)
  \/ \E n \in MayBePinned : NodeFlagsUpdated(n)
  \/ \E n \in CanvasNode : \E e \in Extent[n] : NodeUpdated(n, e)
  \/ \E extent \in Extents : applyStyleDefaults(extent)
  \/ \E n \in CanvasNode, p \in Spot : NodePositionUpdated(n, p)
  \/ onModelReset

CanvasSpec == CanvasInit /\ [][CanvasNext]_canvasVars

-----------------------------------------------------------------------------
\* Types: positions on the line, groups of nodes, and a mouse that holds an
\* item of the scene.
CanvasTypeOK ==
  /\ desk.at \in [CanvasNode -> Spot] /\ desk.place \in [CanvasNode -> Spot]
  /\ desk.extent \in Extents
  /\ DOMAIN desk.groups \subseteq CanvasGroup
  /\ \A g \in DOMAIN desk.groups : desk.groups[g].nodes \in (SUBSET CanvasNode) \ {{}}
  /\ pinned \subseteq MayBePinned /\ chosen \subseteq selectable(desk)
  /\ Idle \/ mouse.item \in CanvasNode \cup DOMAIN desk.groups
  /\ Idle \/ mouse.into \in DOMAIN desk.groups \cup {NoItem}

\* A connection is drawn from port to port, during a drag as well: a
\* connection stores its endpoints, so every way to move or resize a node has
\* to refresh them.  The one exception is the connection of a locked node
\* that the program moves: no itemChange() reaches it.
WiresFollowPorts ==
  \A w \in CanvasWire \ strays : desk.ends[w] = portsOf(desk, w)

\* When the mouse is up, the model has the position each node is drawn at, so
\* that a saved scene looks as it did, and each group's frame fits its
\* members and nothing else.  Exceptions are nodes and groups that were
\* carried along by the drag of another item, and the group of a node that
\* was resized with the mouse, until their next update.
SettledAtRest ==
  Idle =>
    /\ \A n \in CanvasNode \ strays : desk.at[n] = desk.place[n]
    /\ \A g \in DOMAIN desk.groups :
         /\ desk.groups[g].child = NoItem
         /\ g \in strays \/ desk.groups[g].frame = computeGroupRect(desk, g)

\* What is drawn is where it belongs: all of the above, of every state.
CanvasConsistent == CanvasTypeOK /\ WiresFollowPorts /\ SettledAtRest
=============================================================================
