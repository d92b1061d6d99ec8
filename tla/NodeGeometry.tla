------------------------------ MODULE NodeGeometry ------------------------------
(***************************************************************************)
(* The two built-in node geometries.  recomputeSize() stores a size in the *)
(* model; where the ports, the texts and the embedded widget are is worked *)
(* out later from the stored size and from the content the node has then.  *)
(* Content changes before the scene hears of it and stores another size.   *)
(*                                                                         *)
(* Lengths are pixels, positions half pixels, since the code halves.       *)
(***************************************************************************)
EXTENDS Integers, Sequences, FiniteSets, FiniteSetsExt

CONSTANTS
  PortSize, PortSpacing,   \* _portSize, _portSpacing
  IconOverhead,            \* k_title_icon_width_overhead
  UnsignedSize,            \* unsigned arithmetic wraps here
  Label, MaxLabels,        \* text advances of port labels; bound: ports on a side
  Caption,                 \* [width, height] of captions; no caption is 0 by 0
  EmbeddedWidget,          \* [width, height] of embedded widgets
  NoWidget,
  Diameter                 \* ConnectionPointDiameter of the styles

ASSUME GeometryConstants ==
  /\ {PortSize, PortSpacing, IconOverhead, UnsignedSize} \subseteq Nat \ {0}
  /\ Label \subseteq Nat /\ Diameter \subseteq Nat /\ MaxLabels \in Nat
  /\ Caption \cup EmbeddedWidget \subseteq [width : Nat, height : Nat]
  /\ [width |-> 0, height |-> 0] \in Caption

VARIABLES
  orientation,   \* which geometry the scene has
  content,       \* what the node shows
  stored,        \* NodeRole::Size
  changed        \* auxiliary: the content changed since a size was stored

geometryVars == <<orientation, content, stored, changed>>

Sides == {"In", "Out"}
labels(c, side) == c.ports[side]
portCount(c, side) == Len(labels(c, side))
Most(S) == Max(S \cup {0})

maxPortsTextAdvance(c, side) == Most({labels(c, side)[i] : i \in DOMAIN labels(c, side)})
step == PortSize + PortSpacing
maxPortsExtent(c) == step * Most({portCount(c, s) : s \in Sides})

\* The width the title icon asks for next to a caption that is visible, also
\* when it is empty.
iconWidth(c) == IF c.icon THEN c.caption.width + IconOverhead ELSE 0
widgetSize(c) == IF c.widget = NoWidget THEN [width |-> 0, height |-> 0] ELSE c.widget

-----------------------------------------------------------------------------
(* DefaultHorizontalNodeGeometry.                                          *)

horizontalSize(c) ==
  [width |-> Most({maxPortsTextAdvance(c, "In") + maxPortsTextAdvance(c, "Out")
                     + 4 * PortSpacing + widgetSize(c).width,
                   c.caption.width + 2 * PortSpacing, iconWidth(c)}),
   height |-> Most({maxPortsExtent(c), widgetSize(c).height}) + c.caption.height
                + 2 * PortSpacing + (IF c.busy THEN 20 ELSE 0)]

\* Mutant: ports a spacing apart, whatever the font.
horizontalPortCrowded(c, size, side, i) ==
  [x |-> IF side = "In" THEN 0 ELSE 2 * size.width,
   y |-> 2 * (c.caption.height + PortSpacing + PortSpacing * i) + step]

horizontalPort(c, size, side, i) ==
  [x |-> IF side = "In" THEN 0 ELSE 2 * size.width,
   y |-> 2 * (c.caption.height + PortSpacing + step * i) + step]

horizontalText(c, size, side, i) ==
  [x |-> 2 * (IF side = "In" THEN PortSpacing
              ELSE size.width - PortSpacing - labels(c, side)[i + 1]),
   y |-> horizontalPort(c, size, side, i).y + PortSize \div 2]

horizontalWidget(c, size) ==
  [x |-> 2 * (2 * PortSpacing + maxPortsTextAdvance(c, "In")),
   y |-> IF c.expands THEN 2 * (PortSpacing + c.caption.height)
         ELSE c.caption.height + size.height - widgetSize(c).height]

-----------------------------------------------------------------------------
(* DefaultVerticalNodeGeometry.                                            *)

portCaptionsHeight(c, side) ==
  IF c.labelled /\ portCount(c, side) > 0 THEN PortSpacing ELSE 0

\* The space the labels of a side take, one next to the other.
totalPortsWidth(c, side) ==
  IF portCount(c, side) = 0 THEN 0
  ELSE maxPortsTextAdvance(c, side) * portCount(c, side) + PortSpacing * (portCount(c, side) - 1)

verticalSize(c) ==
  [width |-> Most({Most({totalPortsWidth(c, "In"), totalPortsWidth(c, "Out"),
                         widgetSize(c).width, c.caption.width}) + 2 * PortSpacing, iconWidth(c)}),
   height |-> Most({PortSpacing, widgetSize(c).height}) + c.caption.height + 2 * PortSpacing
                + portCaptionsHeight(c, "In") + portCaptionsHeight(c, "Out")]

\* size.width() - (count - 1) * width is unsigned.
verticalPort(c, size, side, i) ==
  LET width == maxPortsTextAdvance(c, side) + PortSpacing
  IN  [x |-> ((size.width - (portCount(c, side) - 1) * width) % UnsignedSize) + 2 * i * width,
       y |-> IF side = "In" THEN 0 ELSE 2 * size.height]

verticalText(c, size, side, i) ==
  [x |-> verticalPort(c, size, side, i).x - labels(c, side)[i + 1],
   y |-> IF side = "In" THEN 2 * (5 + PortSize) ELSE 2 * (size.height - 5)]

\* Behind the In labels, as if they stood on the left of the widget here too.
verticalWidget(c, size) ==
  [x |-> 2 * (PortSpacing + maxPortsTextAdvance(c, "In")),
   y |-> IF c.expands THEN 2 * c.caption.height
         ELSE c.caption.height + size.height - widgetSize(c).height]

verticalCaption(c, size) ==
  [x |-> size.width - c.caption.width,
   y |-> 2 * (portCaptionsHeight(c, "In") + PortSpacing + c.caption.height)]

horizontalCaption(c, size) ==
  [x |-> size.width - c.caption.width, y |-> PortSpacing + 2 * c.caption.height]

-----------------------------------------------------------------------------
(* What the scene asks of the geometry it has.                             *)

sizeOf(o, c) == IF o = "Horizontal" THEN horizontalSize(c) ELSE verticalSize(c)
portPosition(side, i) ==
  IF orientation = "Horizontal" THEN horizontalPort(content, stored, side, i)
  ELSE verticalPort(content, stored, side, i)
portTextPosition(side, i) ==
  IF orientation = "Horizontal" THEN horizontalText(content, stored, side, i)
  ELSE verticalText(content, stored, side, i)
widgetPosition ==
  IF orientation = "Horizontal" THEN horizontalWidget(content, stored)
  ELSE verticalWidget(content, stored)
captionPosition ==
  IF orientation = "Horizontal" THEN horizontalCaption(content, stored)
  ELSE verticalCaption(content, stored)

portIndices(side) == 0 .. portCount(content, side) - 1

Near(p, q, distance) ==
  (p.x - q.x) * (p.x - q.x) + (p.y - q.y) * (p.y - q.y) < distance * distance

\* The first port in reach, -1 for InvalidPortIndex.
checkPortHit(side, point, diameter) ==
  LET reached == {i \in portIndices(side) : Near(portPosition(side, i), point, 4 * diameter)}
  IN  IF reached = {} THEN -1 ELSE Min(reached)

-----------------------------------------------------------------------------
Contents ==
  [ports : [Sides -> UNION {[1 .. k -> Label] : k \in 0 .. MaxLabels}],
   labelled : BOOLEAN, caption : Caption, widget : EmbeddedWidget \cup {NoWidget},
   expands : BOOLEAN, icon : BOOLEAN, busy : BOOLEAN]

\* Where the states start: a node without ports, captions and widget.
bareNode ==
  [ports |-> [s \in Sides |-> << >>], labelled |-> FALSE, caption |-> [width |-> 0, height |-> 0],
   widget |-> NoWidget, expands |-> FALSE, icon |-> FALSE, busy |-> FALSE]

GeometryInit ==
  /\ orientation = "Horizontal"
  /\ content = bareNode
  /\ stored = sizeOf("Horizontal", bareNode) /\ changed = FALSE

\* The model, the delegate or the style changes what the node shows; the stored
\* size stays until somebody computes it again.
contentBecomes(c) == content' = c /\ changed' = TRUE /\ UNCHANGED <<orientation, stored>>

recomputeSize(o, c) == stored' = sizeOf(o, c) /\ changed' = FALSE

\* onNodeUpdated() applies the style, which computes the size.
onNodeUpdated == recomputeSize(orientation, content) /\ UNCHANGED <<orientation, content>>

\* Mutant: the nodes keep the sizes the other geometry gave them.
setOrientationKeepingSizes(o) ==
  orientation # o /\ orientation' = o /\ UNCHANGED <<content, stored, changed>>

\* The scene is rebuilt, which computes every node's size.
setOrientation(o) ==
  orientation # o /\ orientation' = o /\ recomputeSize(o, content) /\ UNCHANGED content

\* The handle is dragged: the widget and the stored size change together.
resizeWidget(w) ==
  /\ content.widget # NoWidget
  /\ content' = [content EXCEPT !.widget = w]
  /\ recomputeSize(orientation, content') /\ UNCHANGED orientation

AddPort(side, l) ==
  /\ portCount(content, side) < MaxLabels
  /\ contentBecomes([content EXCEPT !.ports[side] = Append(@, l)])

RemovePort(side) ==
  /\ portCount(content, side) > 0
  /\ contentBecomes([content EXCEPT !.ports[side] = SubSeq(@, 1, Len(@) - 1)])

Decorate ==
  \E c \in Caption, w \in EmbeddedWidget \cup {NoWidget}, expands, icon, busy, labelled \in BOOLEAN :
    contentBecomes([content EXCEPT !.caption = c, !.widget = w, !.expands = expands,
                                   !.icon = icon, !.busy = busy, !.labelled = labelled])

GeometryNext ==
  \/ \E side \in Sides, l \in Label : AddPort(side, l)
  \/ \E side \in Sides : RemovePort(side)
  \/ Decorate \/ onNodeUpdated
  \/ \E w \in EmbeddedWidget : resizeWidget(w)
  \/ \E o \in {"Horizontal", "Vertical"} : setOrientation(o)

GeometrySpec == GeometryInit /\ [][GeometryNext]_geometryVars

-----------------------------------------------------------------------------
GeometryTypeOK ==
  /\ orientation \in {"Horizontal", "Vertical"}
  /\ content \in Contents
  /\ stored.width \in Nat /\ stored.height \in Nat /\ changed \in BOOLEAN

\* The ports lie on the border and not beyond the corners: the position computed
\* from the stored size never runs over the size, nor below zero in unsigned
\* arithmetic (recomputeSize against portPosition).
PortsOnBorder ==
  \A side \in Sides : \A i \in portIndices(side) :
    LET p == portPosition(side, i)
    IN  /\ p.x \in 0 .. 2 * stored.width /\ p.y \in 0 .. 2 * stored.height
        /\ IF orientation = "Horizontal" THEN p.x \in {0, 2 * stored.width}
           ELSE p.y \in {0, 2 * stored.height}

\* The labels of a node lie between its left and right border, and in the
\* horizontal layout neither runs into the other side's, nor into the widget
\* between them; the caption lies in the node.
TextsInside ==
  /\ captionPosition.x >= 0 /\ captionPosition.y <= 2 * stored.height
  /\ \A side \in Sides : \A i \in portIndices(side) :
       LET p == portTextPosition(side, i)
           right == p.x + 2 * labels(content, side)[i + 1]
       IN  /\ p.x >= 0 /\ right <= 2 * stored.width
           /\ orientation = "Horizontal" =>
                IF side = "In" THEN right < widgetPosition.x
                ELSE p.x > widgetPosition.x + 2 * widgetSize(content).width

\* How far the widget may reach beyond the right border: in the vertical layout it
\* is put behind In labels that the size leaves no room for.
overhang ==
  IF orientation = "Horizontal" THEN 0 ELSE maxPortsTextAdvance(content, "In") - PortSpacing

\* The widget begins and ends inside the node, but for the overhang.
WidgetInside ==
  LET p == widgetPosition
      z == widgetSize(content)
  IN  content.widget # NoWidget =>
        /\ p.x >= 0 /\ p.x + 2 * z.width <= 2 * (stored.width + overhang)
        /\ p.y >= 0 /\ p.y + 2 * z.height <= 2 * stored.height

\* All of the above, in either layout, as soon as the node was measured after its
\* last change; the types at any time.
LayoutInside ==
  GeometryTypeOK /\ (~changed => PortsOnBorder /\ TextsInside /\ WidgetInside)

\* The distance at which the layout puts the ports of a side.
portDistance(side) ==
  IF orientation = "Horizontal" THEN step ELSE maxPortsTextAdvance(content, side) + PortSpacing

\* A click on the centre of a port finds that port and not a neighbour, for every
\* style whose reach is at most the distance of the ports (checkPortHit takes the
\* first port in reach, so that with a wider reach the later ports are lost), even
\* while the stored size is that of a node which has changed since.
ClickFindsPort ==
  \A side \in Sides, d \in Diameter : \A i \in portIndices(side) :
    d > 0 /\ 2 * d <= portDistance(side) =>
      checkPortHit(side, portPosition(side, i), d) = i
=============================================================================
