------------------------------ MODULE GroupHistory -----------------------------
(***************************************************************************)
(* Node groups (BasicGraphicsSceneGroups.cpp, NodeGroup.cpp, the lock of   *)
(* GroupGraphicsObject) under the commands that delete, create, copy and   *)
(* paste grouped nodes.  Grouping itself is no command: it changes what    *)
(* the commands on the stack meet when they are undone and redone.         *)
(*                                                                         *)
(* Connections play no part here and are left out; UndoHistory has them.   *)
(***************************************************************************)
EXTENDS UndoStack, FiniteSets, FiniteSetsExt, Functions

CONSTANTS
  InvalidNodeId,
  InvalidGroupId,   \* also bounds the groups made one after another
  Start,            \* the groups of the scene at the start, a set of sets of nodes
  Sessions,         \* what is considered together: [loose, bound, gestures], the
                    \* nodes in no group at the start, a bound on the history, and
                    \* which of "create", "clipboard", "group", "lock" and "toggle"
                    \* there are beside delete, undo and redo
  None

NodeId == 0 .. InvalidNodeId - 1
GroupId == 0 .. InvalidGroupId - 1

ASSUME GroupConstants ==
  /\ InvalidNodeId \in Nat /\ InvalidGroupId \in Nat /\ None \notin GroupId
  /\ IsFiniteSet(Start) /\ Cardinality(Start) <= InvalidGroupId
  /\ \A x \in Sessions : LET ns == x.loose \cup UNION Start
                         IN  ns \subseteq NodeId /\ ns = 0 .. Cardinality(ns) - 1

VARIABLES
  scene,            \* [nodes, groupOf, nodeLocked, groups, nextGroupId, enabled]
  nextNodeId,
  history,
  clipboard,        \* [nodes, groups]
  session           \* one of Sessions

vars == <<scene, nextNodeId, history, clipboard, session>>

GroupIds(s) == DOMAIN s.groups
Members(s, g) == s.groups[g].members
Partition(s) == {Members(s, g) : g \in GroupIds(s)}

-----------------------------------------------------------------------------
(* The scene's group operations.                                           *)

\* Mutant: a group that has lost its last child stays.
removeNodeKeepingGroup(s, n) ==
  IF ~s.enabled \/ n \notin s.nodes THEN s
  ELSE LET g == s.groupOf[n]
       IN  [s EXCEPT !.groupOf[n] = None, !.nodeLocked[n] = FALSE,
                     !.groups = IF g = None THEN @ ELSE [@ EXCEPT ![g].members = @ \ {n}]]

\* Removing the last child erases the group.
removeNodeFromGroup(s, n) ==
  IF ~s.enabled \/ n \notin s.nodes THEN s
  ELSE LET g == s.groupOf[n]
           rest == Members(s, g) \ {n}
       IN  [s EXCEPT !.groupOf[n] = None, !.nodeLocked[n] = FALSE,
                     !.groups = IF g = None THEN @
                                ELSE IF rest = {} THEN Restrict(@, GroupIds(s) \ {g})
                                ELSE [@ EXCEPT ![g].members = rest]]

removeAll(s, ns) == FoldSet(LAMBDA n, t : removeNodeFromGroup(t, n), s, ns)

lock(s, g, locked) ==
  [s EXCEPT !.groups[g].locked = locked,
            !.nodeLocked = [n \in s.nodes |-> IF n \in Members(s, g) THEN locked ELSE @[n]]]

nextGroupId(s) ==
  Min({g \in GroupId : g >= s.nextGroupId /\ g \notin GroupIds(s)})

\* nextGroupId() throws when it has run through all ids.
HasGroupIds(s, count) ==
  Cardinality({g \in GroupId : g >= s.nextGroupId /\ g \notin GroupIds(s)}) >= count

\* Mutant: a restored group sets the counter back.
CounterAfterLast(s, g) == g + 1

\* A restored group takes the counter along only upwards.
CounterAfter(s, g) == IF g < s.nextGroupId THEN s.nextGroupId ELSE g + 1

\* The nodes of ns, in no group of s, become the group g; a new group is locked.
insertGroup(s, ns, g) ==
  lock([s EXCEPT !.nextGroupId = CounterAfter(s, g),
                 !.groups = [h \in GroupIds(s) \cup {g} |->
                              IF h = g THEN [members |-> ns, locked |-> TRUE] ELSE @[h]],
                 !.groupOf = [n \in s.nodes |-> IF n \in ns THEN g ELSE @[n]]],
       g, TRUE)

\* id is None for a fresh one.
createGroup(s, ns, id) ==
  IF ~s.enabled \/ ns = {} THEN s
  ELSE LET free == removeAll(s, {n \in ns : s.groupOf[n] # None})
       IN  insertGroup(free, ns, IF id = None THEN nextGroupId(free) ELSE id)

\* Mutant: a node that joins a locked group stays unlocked.
addNodeUnlocked(s, n, g) ==
  IF ~s.enabled \/ n \notin s.nodes \/ g \notin GroupIds(s) \/ s.groupOf[n] = g THEN s
  ELSE LET free == removeNodeFromGroup(s, n)
       IN  [free EXCEPT !.groups[g].members = @ \cup {n}, !.groupOf[n] = g]

\* A node that joins a locked group is locked with it.
addNodeToGroup(s, n, g) ==
  IF ~s.enabled \/ n \notin s.nodes \/ g \notin GroupIds(s) \/ s.groupOf[n] = g THEN s
  ELSE LET free == removeNodeFromGroup(s, n)
       IN  [free EXCEPT !.groups[g].members = @ \cup {n},
                        !.groupOf[n] = g,
                        !.nodeLocked[n] = s.groups[g].locked]

\* onNodeDeleted() and onNodeCreated().
deleteNodes(s, ns) ==
  LET free == removeAll(s, ns)
      left == s.nodes \ ns
  IN  [free EXCEPT !.nodes = left, !.groupOf = Restrict(@, left),
                   !.nodeLocked = Restrict(@, left)]

loadNodes(s, ns) ==
  [s EXCEPT !.nodes = @ \cup ns,
            !.groupOf = [n \in s.nodes \cup ns |-> IF n \in ns THEN None ELSE @[n]],
            !.nodeLocked = [n \in s.nodes \cup ns |-> IF n \in ns THEN FALSE ELSE @[n]]]

\* Mutant: an undone deletion makes a group of its own.
restoreEntryAnew(s, entry, keepIdentity) ==
  IF entry.nodes \cap s.nodes = {} THEN s ELSE createGroup(s, entry.nodes \cap s.nodes, None)

\* The tail of insertSerializedItems() for one group entry.
restoreEntry(s, entry, keepIdentity) ==
  LET present == entry.nodes \cap s.nodes
      id == IF keepIdentity THEN entry.id ELSE None
      g == IF keepIdentity THEN entry.id ELSE nextGroupId(removeAll(s, present))
  IN  IF keepIdentity /\ entry.id \in GroupIds(s)
      THEN FoldSet(LAMBDA n, t : addNodeToGroup(t, n, entry.id), s, present)
      ELSE LET t == createGroup(s, present, id)
           IN  IF t = s THEN s ELSE lock(t, g, entry.locked)

insertSerializedItems(s, saved, keepIdentity) ==
  FoldSet(LAMBDA entry, t : restoreEntry(t, entry, keepIdentity),
          loadNodes(s, saved.nodes), saved.groups)

-----------------------------------------------------------------------------
(* The commands.  A deletion remembers the membership of every node it     *)
(* takes when it is made; a creation remembers none; a paste makes its     *)
(* groups anew each time it is done.                                       *)

Entry(s, g, ns) == [id |-> g, nodes |-> ns, locked |-> s.groups[g].locked]

\* The constructor of DeleteCommand: ns is what is selected.
DeleteCommand(s, ns) ==
  [kind |-> "delete", nodes |-> ns,
   groups |-> {Entry(s, g, Members(s, g) \cap ns) : g \in {s.groupOf[n] : n \in ns} \ {None}}]

redoOf(cmd, s) ==
  CASE cmd.kind = "delete" -> deleteNodes(s, cmd.nodes)
    [] cmd.kind \in {"create", "paste"} -> insertSerializedItems(s, cmd, FALSE)

undoOf(cmd, s) ==
  CASE cmd.kind = "delete" -> insertSerializedItems(s, cmd, TRUE)
    [] cmd.kind \in {"create", "paste"} -> deleteNodes(s, cmd.nodes)

Push(cmd) ==
  /\ history.index < session.bound
  /\ scene' = redoOf(cmd, scene)
  /\ history' = Pushed(history, cmd)

-----------------------------------------------------------------------------
Init ==
  /\ session \in Sessions
  /\ LET blank == [nodes |-> {}, groupOf |-> [n \in {} |-> None],
                   nodeLocked |-> [n \in {} |-> FALSE], groups |-> [g \in {} |-> None],
                   nextGroupId |-> 0, enabled |-> TRUE]
         ns == session.loose \cup UNION Start
     IN  scene = FoldSet(LAMBDA members, s : createGroup(s, members, None),
                         loadNodes(blank, ns), Start)
  /\ nextNodeId = Cardinality(scene.nodes)
  /\ history = EmptyStack
  /\ clipboard = [nodes |-> {}, groups |-> {}]

\* A locked node cannot be selected; its group can.
Selectable == {n \in scene.nodes : ~scene.nodeLocked[n]}
Selected(ns, gs) == ns \cup UNION {Members(scene, g) : g \in gs}

Create ==
  /\ "create" \in session.gestures
  /\ nextNodeId < InvalidNodeId
  /\ nextNodeId' = nextNodeId + 1
  /\ Push([kind |-> "create", nodes |-> {nextNodeId}, groups |-> {}])
  /\ UNCHANGED clipboard

Delete(ns, gs) ==
  /\ Selected(ns, gs) # {}
  /\ Push(DeleteCommand(scene, Selected(ns, gs)))
  /\ UNCHANGED <<nextNodeId, clipboard>>

Copy(ns, gs) ==
  /\ "clipboard" \in session.gestures
  /\ Selected(ns, gs) # {}
  /\ clipboard' = [nodes |-> Selected(ns, gs),
                   groups |-> {Entry(scene, g, Members(scene, g)) : g \in gs}]
  /\ history' = PushedObsolete(history)
  /\ UNCHANGED <<scene, nextNodeId>>

NewId(n) == nextNodeId + Cardinality({k \in clipboard.nodes : k < n})

Paste ==
  /\ clipboard.nodes # {}
  /\ nextNodeId + Cardinality(clipboard.nodes) <= InvalidNodeId
  /\ HasGroupIds(scene, Cardinality(clipboard.groups))
  /\ nextNodeId' = nextNodeId + Cardinality(clipboard.nodes)
  /\ Push([kind |-> "paste", nodes |-> {NewId(n) : n \in clipboard.nodes},
           groups |-> {[e EXCEPT !.nodes = {NewId(n) : n \in @}] : e \in clipboard.groups}])
  /\ UNCHANGED clipboard

\* A deletion, a copy or a paste of nothing: the command calls itself obsolete.
PushNothing ==
  /\ history' = PushedObsolete(history)
  /\ UNCHANGED <<scene, nextNodeId, clipboard>>

Undo ==
  /\ CanUndo(history)
  /\ scene' = undoOf(LastDone(history), scene)
  /\ history' = Undone(history, LastDone(history))
  /\ UNCHANGED <<nextNodeId, clipboard>>

Redo ==
  /\ CanRedo(history)
  /\ NextUndone(history).kind = "paste"
       => HasGroupIds(scene, Cardinality(NextUndone(history).groups))
  /\ scene' = redoOf(NextUndone(history), scene)
  /\ history' = Redone(history, NextUndone(history))
  /\ UNCHANGED <<nextNodeId, clipboard>>

\* The context menu of the scene, and the drag of a node onto a group.
GroupSelected(ns) ==
  /\ "group" \in session.gestures
  /\ scene.enabled /\ ns # {}
  /\ HasGroupIds(scene, 1)
  /\ scene' = createGroup(scene, ns, None)
  /\ UNCHANGED <<nextNodeId, history, clipboard>>

AddToGroup(n, g) ==
  /\ "group" \in session.gestures
  /\ scene' = addNodeToGroup(scene, n, g)
  /\ UNCHANGED <<nextNodeId, history, clipboard>>

RemoveFromGroup(n) ==
  /\ "group" \in session.gestures
  /\ scene' = removeNodeFromGroup(scene, n)
  /\ UNCHANGED <<nextNodeId, history, clipboard>>

\* The double click on a group.
ToggleLock(g) ==
  /\ "lock" \in session.gestures
  /\ scene' = lock(scene, g, ~scene.groups[g].locked)
  /\ UNCHANGED <<nextNodeId, history, clipboard>>

setGroupingEnabled(enabled) ==
  /\ "toggle" \in session.gestures
  /\ scene.enabled # enabled
  /\ scene' = IF enabled THEN [scene EXCEPT !.enabled = TRUE]
              ELSE [scene EXCEPT !.enabled = FALSE, !.groups = [g \in {} |-> None],
                                 !.nextGroupId = 0,
                                 !.groupOf = [n \in scene.nodes |-> None],
                                 !.nodeLocked = [n \in scene.nodes |-> FALSE]]
  /\ UNCHANGED <<nextNodeId, history, clipboard>>

Step ==
  \/ Create
  \/ \E ns \in SUBSET Selectable, gs \in SUBSET GroupIds(scene) : Delete(ns, gs)
  \/ \E ns \in SUBSET Selectable, gs \in SUBSET GroupIds(scene) : Copy(ns, gs)
  \/ Paste
  \/ PushNothing
  \/ Undo
  \/ Redo
  \/ \E ns \in SUBSET Selectable : GroupSelected(ns)
  \/ \E n \in Selectable, g \in GroupIds(scene) : AddToGroup(n, g)
  \/ \E n \in scene.nodes : RemoveFromGroup(n)
  \/ \E g \in GroupIds(scene) : ToggleLock(g)
  \/ \E enabled \in BOOLEAN : setGroupingEnabled(enabled)

Next == Step /\ UNCHANGED session

Spec == Init /\ [][Next]_vars

-----------------------------------------------------------------------------
(* The lists of children and the nodes' pointers to their groups agree: a  *)
(* node is in one group at most, no list names a deleted node, and no      *)
(* group is empty.                                                         *)
GroupsPartition ==
  /\ DOMAIN scene.groupOf = scene.nodes
  /\ \A g \in GroupIds(scene) :
       Members(scene, g) # {} /\ Members(scene, g) \subseteq scene.nodes
  /\ \A n \in scene.nodes, g \in GroupId :
       scene.groupOf[n] = g <=> g \in GroupIds(scene) /\ n \in Members(scene, g)

(* A node is locked by a group exactly while it is in a locked one.        *)
LocksFollowGroups ==
  \A n \in scene.nodes :
    scene.nodeLocked[n] <=>
      scene.groupOf[n] # None /\ scene.groups[scene.groupOf[n]].locked

\* What a deletion must bring back: who is grouped with whom, and what a
\* group that went with it, or one that stayed, does to the locks.
Grouping(s) == [groups |-> s.groups, groupOf |-> s.groupOf, nodeLocked |-> s.nodeLocked]

(* Deleting any selection and undoing it restores every group: the ones    *)
(* that lost some nodes and the ones that went altogether, under their own *)
(* ids and with their locks.                                               *)
DeletionIsUndone ==
  scene.enabled =>
    \A ns \in SUBSET Selectable, gs \in SUBSET GroupIds(scene) :
      LET cmd == DeleteCommand(scene, Selected(ns, gs))
      IN  Grouping(undoOf(cmd, redoOf(cmd, scene))) = Grouping(scene)

(* A deletion that waits to be redone, once redone and undone again, puts  *)
(* its nodes back with the ones they were with: "Delete/undo can restore   *)
(* individual members of a surviving group" (UndoCommands.cpp).            *)
RedoneDeletionIsUndone ==
  CanRedo(history) /\ NextUndone(history).kind = "delete" =>
    Partition(undoOf(NextUndone(history), redoOf(NextUndone(history), scene))) = Partition(scene)

(* The id of a group a deletion may have to restore is never given to a    *)
(* new group meanwhile, unless grouping is switched off, which starts the  *)
(* ids again.                                                              *)
HeldGroupIdsReserved ==
  \A i \in DOMAIN history.cmds :
    history.cmds[i].kind = "delete" /\ "toggle" \notin session.gestures =>
      \A entry \in history.cmds[i].groups : entry.id < scene.nextGroupId
=============================================================================
