------------------------------- MODULE SceneFile -------------------------------
(***************************************************************************)
(* Scene files and group files: DataFlowGraphicsScene::saveToFile() and    *)
(* loadFromFile(), DataFlowGraphModel::save() and load(), and the .group   *)
(* files of BasicGraphicsScene.                                            *)
(*                                                                         *)
(* A scene is opened in stages: the file is read and validated, built once *)
(* on a model of its own, and only then on the live model, which has been  *)
(* emptied for it.  The second building may fail where the first did not   *)
(* (a delegate's load() may throw), so the old scene is put back from a    *)
(* copy, and that may fail too.  The stages below are the points where     *)
(* signals are out and an exception can arise; nothing else runs between   *)
(* them.                                                                   *)
(***************************************************************************)
EXTENDS Integers, Sequences, SequencesExt, FiniteSets, FiniteSetsExt, Functions

CONSTANTS
  SceneInvalidNodeId, InvalidGroupId,
  SceneModel, SceneLayout,   \* the registry: model names and their ports
  SceneFiles,                \* documents a scene file may hold
  GroupFiles,                \* documents a group file may hold
  Nothing                    \* "no file is being opened", "the history is empty"

\* A document is made of arrays; what their entries hold may be wrong.
IsArray(a) == a \in Seq(Range(a))

ASSUME SceneConstants ==
  /\ SceneInvalidNodeId \in Nat /\ InvalidGroupId \in Nat
  /\ \A doc \in SceneFiles : /\ IsArray(doc.nodes) /\ IsArray(doc.conns) /\ IsArray(doc.groups)
                             /\ \A i \in DOMAIN doc.groups : IsArray(doc.groups[i].nodes)
  /\ \A doc \in GroupFiles : IsArray(doc.nodes) /\ IsArray(doc.conns)

VARIABLES
  live,        \* [nodes, conns, groups]: the model and the groups on the scene
  nextNode,    \* _nextNodeId of the live model
  nextGroup,   \* _nextGroupId of the scene
  history,     \* the scene the undo stack leads to, Nothing when it is empty
  opening,     \* [stage, doc, before, firstId] while a file is opened, or Nothing
  built        \* how many entries of the file the live model has taken

fileVars == <<live, nextNode, nextGroup, history, opening, built>>

Empty == [nodes |-> << >>, conns |-> {}, groups |-> << >>]
SceneNodeId == 0 .. SceneInvalidNodeId - 1
GroupIds == 0 .. InvalidGroupId - 1
members(g) == UNION {g.groups[k].nodes : k \in DOMAIN g.groups}

Graph(g) == INSTANCE DataFlowGraphModel WITH
  InvalidNodeId <- SceneInvalidNodeId, MaxPorts <- 1, Model <- SceneModel,
  Layout <- SceneLayout, NewPort <- {}, None <- Nothing, nodes <- DOMAIN g.nodes,
  ports <- [n \in DOMAIN g.nodes |-> SceneLayout[g.nodes[n]]], conns <- g.conns,
  nextNodeId <- 0, cache <- << >>, shifted <- {}, edit <- Nothing

possible(g, c) == Graph(g)!connectionPossible(c, {})

\* The map old after the entries of new were written into it.
Over(new, old) ==
  [x \in DOMAIN new \cup DOMAIN old |-> IF x \in DOMAIN new THEN new[x] ELSE old[x]]
WithGroup(g, gid, ns, locked) ==
  [g EXCEPT !.groups = Over([k \in {gid} |-> [nodes |-> ns, locked |-> locked]], @)]

\* Nodes leave their groups, and an empty group goes with its last node.
Ungrouped(groups, ns) ==
  LET left == {k \in DOMAIN groups : ~(groups[k].nodes \subseteq ns)}
  IN  [k \in left |-> [groups[k] EXCEPT !.nodes = @ \ ns]]

-----------------------------------------------------------------------------
(* Documents: sequences, in which an id or a name may be anything.         *)

saveNode(g, n) == [id |-> n, model |-> g.nodes[n]]
save(g) == [nodes |-> SetToSeq({saveNode(g, n) : n \in DOMAIN g.nodes}), conns |-> SetToSeq(g.conns)]

scene_json_with_groups(g) ==
  [nodes |-> save(g).nodes, conns |-> save(g).conns,
   groups |-> SetToSeq({[id |-> k, nodes |-> SetToSeq(g.groups[k].nodes),
                         locked |-> g.groups[k].locked] : k \in DOMAIN g.groups})]

ids(entries) == [i \in DOMAIN entries |-> entries[i].id]
listed(doc, i) == Range(doc.groups[i].nodes)
groupedNodes(doc) == UNION {listed(doc, i) : i \in DOMAIN doc.groups}

\* No group lists a node that it, or another one, has listed.
listedOnce(doc) ==
  \A i \in DOMAIN doc.groups :
    /\ IsInjective(doc.groups[i].nodes)
    /\ \A j \in DOMAIN doc.groups \ {i} : listed(doc, i) \cap listed(doc, j) = {}

\* Mutant: a node may be listed by two groups.
validate_groups_loosely(doc) ==
  \/ doc.groups = << >>
  \/ /\ IsInjective(ids(doc.nodes)) /\ Range(ids(doc.nodes)) \subseteq SceneNodeId
     /\ IsInjective(ids(doc.groups)) /\ Range(ids(doc.groups)) \subseteq GroupIds
     /\ groupedNodes(doc) \subseteq Range(ids(doc.nodes))

\* Unreadable, repeated or unknown ids, and a node in two groups.
validate_groups_json(doc) ==
  \/ doc.groups = << >>
  \/ /\ IsInjective(ids(doc.nodes)) /\ Range(ids(doc.nodes)) \subseteq SceneNodeId
     /\ IsInjective(ids(doc.groups)) /\ Range(ids(doc.groups)) \subseteq GroupIds
     /\ groupedNodes(doc) \subseteq Range(ids(doc.nodes))
     /\ listedOnce(doc)

\* loadNode() throws for an id it cannot read or has already, and for a model
\* that is not registered.
loadable(g, node) ==
  node.id \in SceneNodeId \ DOMAIN g.nodes /\ node.model \in SceneModel

\* The scene after the first k entries of a document, nodes before connections
\* before groups; a group none of whose nodes is there is passed over.
Entries(doc) == Len(doc.nodes) + Len(doc.conns) + Len(doc.groups)
After(doc, k) ==
  LET some(list, skip) == {list[i] : i \in {j \in DOMAIN list : j + skip <= k}}
      ns == some(doc.nodes, 0)
      gs == {g \in some(doc.groups, Len(doc.nodes) + Len(doc.conns)) : g.nodes # << >>}
  IN  [nodes  |-> [n \in {e.id : e \in ns} |-> (CHOOSE e \in ns : e.id = n).model],
       conns  |-> some(doc.conns, Len(doc.nodes)),
       groups |-> [k2 \in {g.id : g \in gs} |->
                     LET g == CHOOSE h \in gs : h.id = k2
                     IN  [nodes |-> Range(g.nodes), locked |-> g.locked]]]

Content(doc) == After(doc, Entries(doc))

\* DataFlowGraphModel::load() takes all of the document: the staging model's
\* verdict.
stageable(doc) ==
  /\ \A i \in DOMAIN doc.nodes : loadable(After(doc, i - 1), doc.nodes[i])
  /\ \A i \in DOMAIN doc.conns : possible(After(doc, Len(doc.nodes) + i - 1), doc.conns[i])

Readable(doc) == validate_groups_json(doc) /\ stageable(doc)

-----------------------------------------------------------------------------
FilesInit ==
  /\ live = Empty /\ nextNode = 0 /\ nextGroup = 0
  /\ history = Nothing /\ opening = Nothing /\ built = 0

\* An edit that is an undo command extends the history; one that is not leaves
\* the commands there are over the new scene.
Command == history' = live'
Uncommanded == history' = IF history = Nothing THEN Nothing ELSE live'

addSceneNode(m) ==
  /\ nextNode # SceneInvalidNodeId
  /\ live' = [live EXCEPT !.nodes = Over([n \in {nextNode} |-> m], @)]
  /\ nextNode' = nextNode + 1
  /\ Command /\ UNCHANGED nextGroup

deleteSceneNode(n) ==
  /\ live' = [nodes  |-> Restrict(live.nodes, DOMAIN live.nodes \ {n}),
              conns  |-> {c \in live.conns : n \notin {c.inNodeId, c.outNodeId}},
              groups |-> Ungrouped(live.groups, {n})]
  /\ Command /\ UNCHANGED <<nextNode, nextGroup>>

addSceneConnection(c) ==
  /\ possible(live, c)
  /\ live' = [live EXCEPT !.conns = @ \cup {c}]
  /\ Command /\ UNCHANGED <<nextNode, nextGroup>>

\* nextGroupId() skips ids that loaded groups took; createGroup() has already
\* detached the nodes when it throws for want of an id.
freeGroupId(g) ==
  IF \E k \in nextGroup .. InvalidGroupId - 1 : k \notin DOMAIN g.groups
  THEN Min({k \in nextGroup .. InvalidGroupId - 1 : k \notin DOMAIN g.groups})
  ELSE InvalidGroupId

createGroup(ns) ==
  LET detached == [live EXCEPT !.groups = Ungrouped(@, ns)]
      gid      == freeGroupId(detached)
  IN  /\ IF gid = InvalidGroupId
         THEN live' = detached /\ nextGroup' = InvalidGroupId
         ELSE live' = WithGroup(detached, gid, ns, TRUE) /\ nextGroup' = gid + 1
      /\ Uncommanded /\ UNCHANGED nextNode

toggleLock(k) ==
  /\ live' = [live EXCEPT !.groups[k].locked = ~@]
  /\ Uncommanded /\ UNCHANGED <<nextNode, nextGroup>>

-----------------------------------------------------------------------------
(* A .group file: new ids for its nodes, its connections carried over, and *)
(* one new group around them; any exception takes the new nodes back, but  *)
(* not the ids.                                                            *)

newId(i) == nextNode + i - 1
known(doc) == Range(ids(doc.nodes)) \cap SceneNodeId
renamed(doc, n) == newId(Min({i \in DOMAIN doc.nodes : doc.nodes[i].id = n}))
remapped(doc, c) ==
  [c EXCEPT !.outNodeId = renamed(doc, @), !.inNodeId = renamed(doc, @)]

creatableNodes(doc) ==
  \A i \in DOMAIN doc.nodes : newId(i) < SceneInvalidNodeId /\ doc.nodes[i].model \in SceneModel

withNodes(doc) ==
  [live EXCEPT !.nodes = Over([n \in {newId(i) : i \in DOMAIN doc.nodes} |->
                                doc.nodes[n - nextNode + 1].model], @)]

\* Each connection is added to those before it; one that is there already is
\* passed over.
carriable(doc) ==
  /\ \A c \in Range(doc.conns) : {c.outNodeId, c.inNodeId} \subseteq known(doc)
  /\ \A i \in DOMAIN doc.conns :
       LET before == {remapped(doc, doc.conns[j]) : j \in 1 .. i - 1}
           c      == remapped(doc, doc.conns[i])
       IN  c \in before \/ possible([withNodes(doc) EXCEPT !.conns = @ \cup before], c)

restoreGroup(doc) ==
  LET made == withNodes(doc)
      all  == [made EXCEPT !.conns = @ \cup {remapped(doc, c) : c \in Range(doc.conns)}]
      new  == {newId(i) : i \in DOMAIN doc.nodes}
      gid  == freeGroupId(live)
      ok   == creatableNodes(doc) /\ carriable(doc) /\ (gid # InvalidGroupId \/ new = {})
      bad  == {i \in DOMAIN doc.nodes : doc.nodes[i].model \notin SceneModel}
      took == IF bad = {} THEN Len(doc.nodes) ELSE Min(bad)
  IN  /\ live' = IF ~ok THEN live ELSE IF new = {} THEN all ELSE WithGroup(all, gid, new, TRUE)
      /\ nextNode' = Min({nextNode + took, SceneInvalidNodeId})
      /\ nextGroup' = IF new # {} /\ creatableNodes(doc) /\ carriable(doc)
                      THEN Min({gid + 1, InvalidGroupId}) ELSE nextGroup
      /\ Uncommanded

\* NodeGroup::serialized(), as saveGroupFile() writes it.
serialized(g, k) ==
  LET ns == g.groups[k].nodes
  IN  [nodes |-> SetToSeq({saveNode(g, n) : n \in ns}),
       conns |-> SetToSeq({c \in g.conns : {c.outNodeId, c.inNodeId} \subseteq ns})]

editScene ==
  /\ opening = Nothing
  /\ \/ \E m \in SceneModel : addSceneNode(m)
     \/ \E n \in DOMAIN live.nodes : deleteSceneNode(n)
     \/ \E out, in \in DOMAIN live.nodes :
          addSceneConnection([outNodeId |-> out, outPortIndex |-> 0,
                              inNodeId |-> in, inPortIndex |-> 0])
     \/ \E ns \in (SUBSET DOMAIN live.nodes) \ {{}} : createGroup(ns)
     \/ \E k \in DOMAIN live.groups : toggleLock(k)
     \/ \E doc \in GroupFiles \cup {serialized(live, k) : k \in DOMAIN live.groups} :
          restoreGroup(doc)
  /\ UNCHANGED <<opening, built>>

-----------------------------------------------------------------------------
(* Opening a scene file.                                                   *)

\* Not there, not readable, not valid, or refused by the staging model (whose
\* delegates may throw for any document): nothing has happened.
rejectFile == opening = Nothing /\ UNCHANGED fileVars

stageFile(doc) ==
  /\ opening = Nothing /\ Readable(doc)
  /\ opening' = [stage |-> "clear", doc |-> doc, before |-> live, firstId |-> nextNode]
  /\ UNCHANGED <<live, nextNode, nextGroup, history, built>>

Staged(stage) == opening # Nothing /\ opening.stage = stage

clearScene ==
  /\ Staged("clear")
  /\ live' = Empty /\ built' = 0
  /\ opening' = [opening EXCEPT !.stage = "build"]
  /\ UNCHANGED <<nextNode, nextGroup, history>>

\* Past the ids of the entries a load has made.
PastNodes(g, next) == Max({next} \cup {n + 1 : n \in DOMAIN g.nodes})
PastGroups(g, next) ==
  IF next = InvalidGroupId THEN next ELSE Max({next} \cup {k + 1 : k \in DOMAIN g.groups})

buildEntry ==
  /\ Staged("build") /\ built < Entries(opening.doc)
  /\ live' = After(opening.doc, built + 1) /\ built' = built + 1
  /\ nextNode' = PastNodes(live', nextNode)
  /\ nextGroup' = PastGroups(live', nextGroup)
  /\ UNCHANGED <<history, opening>>

\* Mutant: the counter is rolled back to where an empty model starts.
buildFailsForgettingIds ==
  /\ Staged("build") /\ built < Entries(opening.doc)
  /\ nextNode' = IF built < Len(opening.doc.nodes) + Len(opening.doc.conns) THEN 0 ELSE nextNode
  /\ live' = Empty /\ built' = 0
  /\ opening' = [opening EXCEPT !.stage = "restore"]
  /\ UNCHANGED <<nextGroup, history>>

\* DataFlowGraphModel::load() takes its nodes, its connections and the counter
\* back; what groups there are by then go with clearScene().
buildFails ==
  /\ Staged("build") /\ built < Entries(opening.doc)
  /\ nextNode' = IF built < Len(opening.doc.nodes) + Len(opening.doc.conns)
                 THEN opening.firstId ELSE nextNode
  /\ live' = Empty /\ built' = 0
  /\ opening' = [opening EXCEPT !.stage = "restore"]
  /\ UNCHANGED <<nextGroup, history>>

\* Mutant: what the failed load had asked for is built again.
restoreSceneFromFile ==
  /\ Staged("restore")
  /\ live' = Content(opening.doc)
  /\ nextNode' = PastNodes(live', nextNode) /\ nextGroup' = PastGroups(live', nextGroup)
  /\ opening' = Nothing /\ UNCHANGED <<history, built>>

restoreScene ==
  /\ Staged("restore")
  /\ live' = Content(scene_json_with_groups(opening.before))
  /\ nextNode' = PastNodes(live', nextNode) /\ nextGroup' = PastGroups(live', nextGroup)
  /\ opening' = Nothing /\ UNCHANGED <<history, built>>

restoreFails ==
  /\ Staged("restore") /\ opening.before # Empty
  /\ opening' = Nothing
  /\ UNCHANGED <<live, nextNode, nextGroup, history, built>>

finishLoad ==
  /\ Staged("build") /\ built = Entries(opening.doc)
  /\ history' = Nothing /\ opening' = Nothing /\ built' = 0
  /\ UNCHANGED <<live, nextNode, nextGroup>>

openFile ==
  \/ rejectFile
  \/ \E doc \in SceneFiles \cup {scene_json_with_groups(live)} : stageFile(doc)
  \/ clearScene \/ buildEntry \/ buildFails \/ restoreScene \/ restoreFails \/ finishLoad

FilesNext == editScene \/ openFile

FilesSpec == FilesInit /\ [][FilesNext]_fileVars

-----------------------------------------------------------------------------
(* Properties.                                                             *)

\* Ids and models are in their ranges, a group holds nodes of the scene, and
\* no node is in two groups (BasicGraphicsScene::groups()).
FilesTypeOK ==
  /\ DOMAIN live.nodes \subseteq SceneNodeId /\ Range(live.nodes) \subseteq SceneModel
  /\ DOMAIN live.groups \subseteq GroupIds
  /\ nextNode \in 0 .. SceneInvalidNodeId /\ nextGroup \in 0 .. InvalidGroupId
  /\ members(live) \subseteq DOMAIN live.nodes
  /\ \A k, l \in DOMAIN live.groups :
       k # l => live.groups[k].nodes \cap live.groups[l].nodes = {}

\* Whatever was edited, opened and put back before, the scene that is saved now
\* has no node in two groups, is accepted by the validation and by the staging
\* model, and opening the file gives the same nodes, connections, groups and
\* locks (saveToFile, loadFromFile).
SavedSceneLoads ==
  /\ FilesTypeOK
  /\ opening = Nothing =>
       LET doc == scene_json_with_groups(live) IN Readable(doc) /\ Content(doc) = live

\* Opening a file is one step of Document to whoever looks at the scene before
\* and after it: all of the file and no history, or the old scene and the old
\* history (loadFromFile).
Doc == INSTANCE Document WITH
  None <- Nothing, past <- history,
  shown <- IF opening = Nothing THEN live ELSE opening.before,
  asked <- IF opening = Nothing THEN Nothing ELSE Content(opening.doc)
ImplementsDocument == Doc!Spec

\* Neither a load that fails half way nor its rollback makes an id available
\* again that the scene, the copy it is restored from or the undo history still
\* holds (_nextNodeId in DataFlowGraphModel::load, PastNodes).
IdsStayTaken ==
  /\ \A n \in DOMAIN live.nodes : n < nextNode
  /\ opening # Nothing => \A n \in DOMAIN opening.before.nodes : n < nextNode
  /\ history # Nothing => \A n \in DOMAIN history.nodes : n < nextNode
=============================================================================
