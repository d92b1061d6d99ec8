------------------------------- MODULE MCDocuments -------------------------------
(* Dynamic ports, scene files, node layouts, status icons and the random    *)
(* number node side by side: each behaviour is one of `part', the other     *)
(* modules stay at their initial states.                                    *)
EXTENDS DynamicPortsModel, SceneFile, NodeGeometry, StatusIcon, RandomNumber

VARIABLE part

DocumentsInit ==
  /\ part \in {"ports", "files", "geometry", "icon", "random"}
  /\ PortsInit /\ FilesInit /\ GeometryInit /\ IconInit /\ RandomInit

\* Bound: once an exchange has driven something apart there are no new commands
\* and nodes, but the ports go on to be edited, the exchange to be taken back and
\* made again, and files to be loaded; once it has driven both apart only the last.
OldCommand ==
  IF apart = {} \/ command' = NoCommand THEN TRUE
  ELSE /\ command # NoCommand /\ apart # {"ports", "scene"}
       /\ DOMAIN ports' = DOMAIN ports /\ command'.kind = command.kind /\ command'.conns = command.conns

PortsPart ==
  part = "ports" /\ PortsNext /\ OldCommand
  /\ UNCHANGED <<fileVars, geometryVars, iconVars, randomVars>>
FilesPart ==
  part = "files" /\ FilesNext /\ UNCHANGED <<portVars, geometryVars, iconVars, randomVars>>
\* Bound: what a node shows changes once before it is measured again.
GeometryPart ==
  part = "geometry" /\ GeometryNext /\ (changed' => ~changed)
  /\ UNCHANGED <<portVars, fileVars, iconVars, randomVars>>
IconPart ==
  part = "icon" /\ IconNext /\ UNCHANGED <<portVars, fileVars, geometryVars, randomVars>>
RandomPart ==
  part = "random" /\ RandomNext /\ UNCHANGED <<portVars, fileVars, geometryVars, iconVars>>

DocumentsNext ==
  /\ PortsPart \/ FilesPart \/ GeometryPart \/ IconPart \/ RandomPart
  /\ UNCHANGED part

DocumentsSpec ==
  /\ DocumentsInit
  /\ [][DocumentsNext]_<<part, portVars, fileVars, geometryVars, iconVars, randomVars>>

-----------------------------------------------------------------------------
(* Ports: files that are as they should be, with a port that is not there,  *)
(* a node twice, and two connections on one in port.                        *)
PortsOf(id, in, out) == [id |-> id, In |-> in, Out |-> out]
Wire(a, p, b, q) == [outNodeId |-> a, outPortIndex |-> p, inNodeId |-> b, inPortIndex |-> q]
MCPortFiles == {
  [nodes |-> <<PortsOf(1, 1, 1)>>, conns |-> << >>],
  [nodes |-> <<PortsOf(0, 1, 2), PortsOf(2, 1, 0)>>, conns |-> <<Wire(0, 1, 2, 0), Wire(0, 0, 0, 0)>>],
  [nodes |-> <<PortsOf(0, 1, 1), PortsOf(0, 0, 1)>>, conns |-> << >>],
  [nodes |-> <<PortsOf(0, 1, 2)>>, conns |-> <<Wire(0, 0, 0, 0), Wire(0, 1, 0, 0)>>]}

(* Files: one that is as it should be, groups that share a node, a node     *)
(* twice and a connection twice; group files that start from other ids, and *)
(* that name a model nobody knows.                                          *)
OnePort(t) == [type |-> t, policy |-> "One"]
MCSceneModel == {"source", "sink"}
MCSceneLayout == [source |-> [In |-> << >>, Out |-> <<OnePort("a")>>],
                  sink   |-> [In |-> <<OnePort("a")>>, Out |-> << >>]]
NodeEntry(id, m) == [id |-> id, model |-> m]
GroupEntry(id, ns, l) == [id |-> id, nodes |-> ns, locked |-> l]
MCSceneFiles == {
  [nodes |-> <<NodeEntry(1, "source"), NodeEntry(0, "sink")>>, conns |-> <<Wire(1, 0, 0, 0)>>,
   groups |-> <<GroupEntry(1, <<0, 1>>, FALSE)>>],
  [nodes |-> <<NodeEntry(0, "source")>>, conns |-> << >>,
   groups |-> <<GroupEntry(0, <<0>>, TRUE), GroupEntry(1, <<0>>, TRUE)>>],
  [nodes |-> <<NodeEntry(0, "sink"), NodeEntry(0, "sink")>>, conns |-> << >>, groups |-> << >>],
  [nodes |-> <<NodeEntry(0, "sink"), NodeEntry(1, "source")>>,
   conns |-> <<Wire(1, 0, 0, 0), Wire(1, 0, 0, 0)>>, groups |-> << >>]}
MCGroupFiles == {
  [nodes |-> <<NodeEntry(5, "source"), NodeEntry(0, "sink")>>, conns |-> << >>],
  [nodes |-> <<NodeEntry(0, "source"), NodeEntry(1, "gone")>>, conns |-> << >>]}

(* Geometry: with and without a caption, a wide and a high widget.          *)
Box(w, h) == [width |-> w, height |-> h]
MCCaption == {Box(0, 0), Box(60, 17)}
MCWidget == {Box(100, 40), Box(20, 90)}

(* Icons: one default that is installed once and for all, two resolutions.  *)
MCStatus == {"Updated", "Processing"}
MCDefaults == {[icon |-> [s \in MCStatus |-> "plain"], resolution |-> 1]}
=============================================================================
