------------------------------- MODULE StatusIcon -------------------------------
(***************************************************************************)
(* NodeDelegateModel's processing status and the icon that shows it: the   *)
(* node's own style or the default it falls back to (StyleCollection), and *)
(* the image processingStatusImage() keeps between two paints.  Of a style *)
(* only what the icon depends on is kept.                                  *)
(***************************************************************************)
CONSTANTS
  ProcessingStatus,   \* the states with an icon, NoStatus is not among them
  NoStatus,
  Defaults,           \* styles [icon, resolution] that may be installed
  Pixmap,             \* icons a program may give to one node
  Resolution, Dpr,    \* icon resolutions, device pixel ratios
  NoStyle, NullImage

VARIABLES
  defaultStyle,   \* StyleCollection::nodeStyle()
  ownStyle,       \* _nodeStyle, or NoStyle
  status,         \* _processingStatus
  iconDirty,      \* _processingStatusIconDirty
  cachedIcon      \* _cachedProcessingStatus..., NullImage before the first paint

iconVars == <<defaultStyle, ownStyle, status, iconDirty, cachedIcon>>

nodeStyle == IF ownStyle = NoStyle THEN defaultStyle ELSE ownStyle

\* render_icon_image(), and the state it was called for.
rendered(dpr) ==
  [image |-> [icon |-> nodeStyle.icon[status], size |-> nodeStyle.resolution, dpr |-> dpr],
   status |-> status, resolution |-> nodeStyle.resolution, dpr |-> dpr]

cacheHit(dpr) ==
  /\ ~iconDirty /\ cachedIcon # NullImage
  /\ cachedIcon.status = status /\ cachedIcon.resolution = nodeStyle.resolution
  /\ cachedIcon.dpr = dpr

processingStatusImage(dpr) == IF cacheHit(dpr) THEN cachedIcon ELSE rendered(dpr)

-----------------------------------------------------------------------------
IconInit ==
  /\ defaultStyle \in Defaults /\ ownStyle = NoStyle
  /\ status = NoStatus /\ iconDirty = TRUE /\ cachedIcon = NullImage

\* The painter draws the indicator on a device of that pixel ratio.
drawProcessingIndicator(dpr) ==
  /\ status # NoStatus
  /\ cachedIcon' = processingStatusImage(dpr) /\ iconDirty' = FALSE
  /\ UNCHANGED <<defaultStyle, ownStyle, status>>

setNodeProcessingStatus(s) ==
  /\ status' = s /\ iconDirty' = TRUE
  /\ UNCHANGED <<defaultStyle, ownStyle, cachedIcon>>

\* NodeDelegateModel::setNodeStyle().
overrideStyle(style) ==
  /\ ownStyle' = style /\ iconDirty' = TRUE
  /\ UNCHANGED <<defaultStyle, status, cachedIcon>>

\* Mutant: the icon is exchanged and the image kept.
setStatusIconKeepingImage(s, pixmap) ==
  /\ ownStyle' = [nodeStyle EXCEPT !.icon[s] = pixmap]
  /\ UNCHANGED <<defaultStyle, status, iconDirty, cachedIcon>>

\* The first of the partial setters copies the default there is
\* (overriddenNodeStyle()).
setStatusIcon(s, pixmap) ==
  /\ ownStyle' = [nodeStyle EXCEPT !.icon[s] = pixmap]
  /\ iconDirty' = TRUE
  /\ UNCHANGED <<defaultStyle, status, cachedIcon>>

setStatusIconStyle(resolution) ==
  /\ ownStyle' = [nodeStyle EXCEPT !.resolution = resolution]
  /\ iconDirty' = TRUE
  /\ UNCHANGED <<defaultStyle, status, cachedIcon>>

\* The colour is no part of the icon, the copy is.
setBackgroundColor ==
  /\ ownStyle' = nodeStyle
  /\ UNCHANGED <<defaultStyle, status, iconDirty, cachedIcon>>

\* StyleCollection::setNodeStyle(); the scenes that are told repaint.
installDefault(style) ==
  /\ defaultStyle' = style
  /\ UNCHANGED <<ownStyle, status, iconDirty, cachedIcon>>

IconNext ==
  \/ \E dpr \in Dpr : drawProcessingIndicator(dpr)
  \/ \E s \in ProcessingStatus \cup {NoStatus} : setNodeProcessingStatus(s)
  \/ \E style \in Defaults : overrideStyle(style) \/ installDefault(style)
  \/ \E s \in ProcessingStatus, pixmap \in Pixmap : setStatusIcon(s, pixmap)
  \/ \E r \in Resolution : setStatusIconStyle(r)
  \/ setBackgroundColor

IconSpec == IconInit /\ [][IconNext]_iconVars

-----------------------------------------------------------------------------
\* Whatever was set on the node or installed for all of them since the last
\* paint, the next one shows the icon its style has now for the status it has
\* now: the image that is kept is dropped when it is out of date
\* (processingStatusImage; StyleCollection.hpp:17).
IconIsCurrent ==
  status # NoStatus => \A dpr \in Dpr : processingStatusImage(dpr).image = rendered(dpr).image
=============================================================================
