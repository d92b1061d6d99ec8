------------------------------ MODULE GraphicsView ------------------------------
(***************************************************************************)
(* GraphicsView: the zoom animation of a view, its scale range, and the    *)
(* cache mode of the nodes, which all views of a scene share.              *)
(*                                                                         *)
(* Scales and velocities are logarithms: applying a factor is adding, a    *)
(* timer interval of friction takes one level off the velocity, and level  *)
(* 0 is below zoom_velocity_epsilon.  Scale levels start at 1, so that a   *)
(* bound of 0 is "unlimited" as in the code.  Time is counted in timer     *)
(* intervals relative to now; the timestamps of wheel events may lie       *)
(* before or after it.                                                     *)
(***************************************************************************)
EXTENDS Integers, FiniteSets

CONSTANTS
  ZoomingView, PlainView,    \* views with a wheel, and views without
  SceneNode,                 \* nodes the scene may show
  MaxScale, MaxVelocity, MaxDelay,  \* bounds: scale and velocity levels, event lateness
  RangeBound                 \* the bounds setScaleRange() is called with, 0 among them

Views == ZoomingView \cup PlainView
Policy == {"Crisp", "Consistent"}
ScaleLevel == 1 .. MaxScale
Velocity == -MaxVelocity .. MaxVelocity

ASSUME ViewConstants ==
  /\ MaxScale \in Nat /\ MaxScale >= 3 /\ MaxVelocity \in Nat \ {0} /\ MaxDelay \in Nat
  /\ ZoomingView \cap PlainView = {} /\ RangeBound \subseteq 0 .. MaxScale

VARIABLES
  attached,   \* the views of the scene: QGraphicsScene::views()
  view,       \* each view's own state
  cacheMode   \* each node's item cache mode, "absent" when it has no graphics object

viewVars == <<attached, view, cacheMode>>

Least(a, b) == IF a < b THEN a ELSE b
Largest(a, b) == IF a < b THEN b ELSE a
Clamped(x, lo, hi) == Least(hi, Largest(lo, x))

-----------------------------------------------------------------------------
(* The cache mode of the nodes.                                            *)

\* Mutant: the views beyond the first are not counted.
effective_mode_of_any(scene, vs) ==
  IF \E v \in scene : vs[v].zooming \/ vs[v].policy = "Consistent"
  THEN "NoCache" ELSE "DeviceCache"

effective_node_cache_mode(scene, vs) ==
  IF Cardinality(scene) > 1 \/ \E v \in scene : vs[v].zooming \/ vs[v].policy = "Consistent"
  THEN "NoCache" ELSE "DeviceCache"

initial_cache_mode ==
  IF Cardinality(attached) > 1 \/ \E v \in attached : view[v].policy = "Consistent"
  THEN "NoCache" ELSE "DeviceCache"

\* set_node_cache_mode() on every node that has a graphics object.
refresh_node_cache_mode(scene, vs) ==
  cacheMode' = [n \in SceneNode |-> IF cacheMode[n] = "absent" THEN "absent"
                                    ELSE effective_node_cache_mode(scene, vs)]

\* A view off the scene refreshes nothing.
refreshFor(v, vs) ==
  IF v \in attached THEN refresh_node_cache_mode(attached, vs) ELSE UNCHANGED cacheMode

-----------------------------------------------------------------------------
(* One view's state and what the zoom does to it.                          *)

\* `last` is _lastZoomStepTimeMs; `offset` says the transform is translated by
\* a fraction of a pixel.
newView == [policy |-> "Consistent", minimum |-> 1, maximum |-> 3, scale |-> 2,
            velocity |-> 0, zooming |-> FALSE, last |-> 0, offset |-> FALSE]

Sign(x) == IF x > 0 THEN 1 ELSE IF x < 0 THEN -1 ELSE 0
Size(x) == IF x < 0 THEN -x ELSE x

\* Mutant: friction is forgotten.
zoomVelocityUndamped(velocity, steps) == velocity

zoomAnimationVelocityAfter(velocity, steps) ==
  Sign(velocity) * Largest(0, Size(velocity) - steps)

\* The velocity integrated over the steps.
zoomAnimationScaleFactor(velocity, steps) ==
  LET n == Least(steps, Size(velocity))
  IN  Sign(velocity) * (n * Size(velocity) - (n * (n - 1)) \div 2)

\* An "unlimited" scale is cut off at the bounds of the model.
withScale(w, s) == [w EXCEPT !.scale = Clamped(s, 1, MaxScale)]

stopZoomTimer(w) ==
  [w EXCEPT !.zooming = FALSE, !.velocity = 0, !.last = 0,
            !.offset = @ /\ w.policy # "Crisp"]

\* Rounding the scroll bars leaves a fraction, or none.
applyZoomFactor(w, s) ==
  {[withScale(w, s) EXCEPT !.offset = o] : o \in IF s = w.scale THEN {w.offset} ELSE BOOLEAN}

\* Mutant: only the upper bound stops the animation.
advanceWithoutMinimum(w, steps) ==
  LET s == w.scale + zoomAnimationScaleFactor(w.velocity, steps)
  IN  IF w.maximum > 0 /\ s > w.maximum
      THEN {stopZoomTimer(u) : u \in applyZoomFactor(w, w.maximum)}
      ELSE {[u EXCEPT !.velocity = zoomAnimationVelocityAfter(w.velocity, steps)] :
            u \in applyZoomFactor(w, s)}

advanceZoomAnimation(w, steps) ==
  LET s == w.scale + zoomAnimationScaleFactor(w.velocity, steps)
  IN  IF w.maximum > 0 /\ s > w.maximum
      THEN {stopZoomTimer(u) : u \in applyZoomFactor(w, w.maximum)}
      ELSE IF w.minimum > 0 /\ s < w.minimum
      THEN {stopZoomTimer(u) : u \in applyZoomFactor(w, w.minimum)}
      ELSE {[u EXCEPT !.velocity = zoomAnimationVelocityAfter(w.velocity, steps)] :
            u \in applyZoomFactor(w, s)}

\* An earlier time than the last step's changes nothing.
advanceZoomToTime(w, t) ==
  IF ~w.zooming THEN {[w EXCEPT !.last = 0]}
  ELSE IF t <= w.last THEN {w}
  ELSE advanceZoomAnimation([w EXCEPT !.last = t], t - w.last)

setupScale(w, s) ==
  LET u == stopZoomTimer(w)
      low == IF w.minimum > 0 THEN Largest(w.minimum, s) ELSE s
      new == IF w.maximum > 0 THEN Least(w.maximum, low) ELSE low
  IN  IF new = w.scale THEN u ELSE [withScale(u, new) EXCEPT !.offset = FALSE]

inRange(w) ==
  (w.minimum > 0 => w.scale >= w.minimum) /\ (w.maximum > 0 => w.scale <= w.maximum)

-----------------------------------------------------------------------------
(* Actions.  becomeWith() is what ends each of them: the view's new state,  *)
(* and the cache modes when the timer was started or stopped on the way.   *)

becomeWith(v, w, turned) ==
  LET vs == [view EXCEPT ![v] = w]
  IN  /\ view' = vs
      /\ IF turned THEN refreshFor(v, vs) ELSE UNCHANGED cacheMode
      /\ UNCHANGED attached

\* For what turns the timer once at most.
become(v, w) == becomeWith(v, w, view[v].zooming # w.zooming)

\* A wheel event stamped t intervals from now: the running animation is settled
\* up to it, then the impulse is added and a new animation seeded one interval
\* before it.  The timer may stop and start in one event.  The first event of an
\* animation sets the offset of the stamps, so it is stamped now.
wheelEvent(v, direction, t) ==
  /\ v \in ZoomingView /\ (view[v].zooming \/ t = 0)
  /\ \E settled \in IF view[v].zooming THEN advanceZoomToTime(view[v], t) ELSE {view[v]} :
     \E velocity \in {x \in Velocity : direction * x >= direction * settled.velocity} :
       /\ settled.velocity = 0 => velocity # 0
       /\ LET pushed == [settled EXCEPT !.velocity = velocity]
              started == IF pushed.zooming THEN pushed
                         ELSE [pushed EXCEPT !.zooming = TRUE, !.last = t - 1]
          IN  \E w \in advanceZoomToTime(started, t) :
                becomeWith(v, w, ~settled.zooming \/ ~w.zooming)

\* The timer, `steps` intervals after it was last served.
applyZoomStep(v, steps) ==
  /\ v \in ZoomingView /\ view[v].zooming
  /\ LET now == [view[v] EXCEPT !.last = @ - steps]
     IN  IF view[v].velocity = 0 THEN become(v, stopZoomTimer(view[v]))
         ELSE \E w \in advanceZoomToTime(now, 0) : become(v, w)

\* stopZoomAnimation(), and a mouse button pressed over the view.
stopZoomAnimation(v) == v \in ZoomingView /\ become(v, stopZoomTimer(view[v]))

setScaleRange(v, minimum, maximum) ==
  LET w == [view[v] EXCEPT !.minimum = Least(minimum, maximum),
                           !.maximum = Largest(minimum, maximum)]
  IN  become(v, setupScale(w, w.scale))

\* One notch of the keyboard or of a button; setupScale() when it meets the bound.
scaleUp(v) ==
  LET u == stopZoomTimer(view[v])
      s == u.scale + 1
  IN  become(v, IF u.maximum > 0 /\ s >= u.maximum THEN setupScale(u, s) ELSE withScale(u, s))

scaleDown(v) ==
  LET u == stopZoomTimer(view[v])
      s == u.scale - 1
  IN  become(v, IF u.minimum > 0 /\ s <= u.minimum THEN setupScale(u, s) ELSE withScale(u, s))

\* zoomFitAll(), zoomFitSelected(): fitInView() asks no range.
zoomFit(v, s) == v \in attached /\ become(v, withScale(stopZoomTimer(view[v]), s))

\* centerScene(), also when the view is shown: the animation goes on.
centerScene(v, s) == v \in attached /\ become(v, withScale(view[v], s))

applyRasterizationPolicy(v, w, scene) ==
  LET vs == [view EXCEPT ![v] = [w EXCEPT !.offset = @ /\ w.policy # "Crisp"]]
  IN  /\ view' = vs
      /\ IF v \in scene THEN refresh_node_cache_mode(scene, vs) ELSE UNCHANGED cacheMode

setRasterizationPolicy(v, policy) ==
  /\ view[v].policy # policy
  /\ applyRasterizationPolicy(v, [view[v] EXCEPT !.policy = policy], attached)
  /\ UNCHANGED attached

setTextRenderingPolicy(v) == refreshFor(v, view) /\ UNCHANGED <<attached, view>>

\* setScene(scene), after the view joined its QGraphicsScene.
joinScene(v) ==
  /\ v \notin attached
  /\ attached' = attached \cup {v}
  /\ applyRasterizationPolicy(v, view[v], attached')

\* setScene(nullptr) or to another scene: the old one's nodes are refreshed.
leaveScene(v) ==
  /\ v \in attached
  /\ attached' = attached \ {v}
  /\ refresh_node_cache_mode(attached', view)
  /\ UNCHANGED view

\* ~GraphicsView(): nothing is refreshed.  A view made later is a new one.
destroyView(v) ==
  /\ attached' = attached \ {v}
  /\ view' = [view EXCEPT ![v] = newView]
  /\ UNCHANGED cacheMode

createNodeObject(n) ==
  /\ cacheMode[n] = "absent"
  /\ cacheMode' = [cacheMode EXCEPT ![n] = initial_cache_mode]
  /\ UNCHANGED <<attached, view>>

deleteNodeObject(n) ==
  /\ cacheMode[n] # "absent"
  /\ cacheMode' = [cacheMode EXCEPT ![n] = "absent"]
  /\ UNCHANGED <<attached, view>>

-----------------------------------------------------------------------------
ViewInit ==
  /\ attached = {}
  /\ view = [v \in Views |-> newView]
  /\ cacheMode = [n \in SceneNode |-> "absent"]

Wheel(v) == \E direction \in {-1, 1}, t \in -MaxDelay .. MaxDelay : wheelEvent(v, direction, t)
Timer(v) == \E steps \in 1 .. 2 : applyZoomStep(v, steps)
Fit(v) == v \in ZoomingView /\ \E s \in ScaleLevel : zoomFit(v, s) \/ centerScene(v, s)

Rescale(v) ==
  /\ v \in ZoomingView
  /\ \/ \E lo, hi \in RangeBound : setScaleRange(v, lo, hi)
     \/ \E s \in ScaleLevel : become(v, setupScale(view[v], s))
     \/ scaleUp(v) \/ scaleDown(v)

Attach(v) == joinScene(v) \/ leaveScene(v) \/ destroyView(v)

ViewNext ==
  \/ \E v \in Views :
       \/ Wheel(v) \/ Timer(v) \/ stopZoomAnimation(v) \/ Rescale(v) \/ Fit(v) \/ Attach(v)
       \/ \E policy \in Policy : setRasterizationPolicy(v, policy)
       \/ setTextRenderingPolicy(v)
  \/ \E n \in SceneNode : createNodeObject(n) \/ deleteNodeObject(n)

\* The event loop serves a running timer.
ViewFairness == \A v \in ZoomingView : WF_viewVars(Timer(v))
ViewSpec == ViewInit /\ [][ViewNext]_viewVars /\ ViewFairness

-----------------------------------------------------------------------------
ViewTypeOK ==
  /\ attached \subseteq Views
  /\ view \in [Views -> [policy : Policy, minimum : 0 .. MaxScale, maximum : 0 .. MaxScale,
                         scale : ScaleLevel, velocity : Velocity, zooming : BOOLEAN,
                         last : Int, offset : BOOLEAN]]
  /\ cacheMode \in [SceneNode -> {"absent", "NoCache", "DeviceCache"}]

\* Nodes are drawn from a pixel cache only while one view, and a crisp one, shows
\* them: however views come, go, change policy or zoom, no view is served another
\* view's pixels (effective_node_cache_mode, NodeGraphicsObject's constructor).
CachedForOneCrispView ==
  (\E n \in SceneNode : cacheMode[n] = "DeviceCache") =>
    Cardinality(attached) <= 1 /\ \A v \in attached : view[v].policy = "Crisp"

\* A crisp view that is not zooming stands on whole pixels, whichever way the
\* animation ended or the policy changed during it.
CrispAtRest ==
  \A v \in Views : view[v].policy = "Crisp" /\ ~view[v].zooming => ~view[v].offset

\* What is drawn is sharp wherever it should be: both of the above.
CrispView == CachedForOneCrispView /\ CrispAtRest

\* A scale inside the range leaves it only by fitting the view to its content,
\* and a new range takes effect at once: no sequence of wheel, timer, late event
\* and setter does (advanceZoomAnimation, setupScale, scaleUp, scaleDown).
ScaleStaysInRange ==
  [][\A v \in Views :
       inRange(view[v]) \/ view[v].minimum # view'[v].minimum \/ view[v].maximum # view'[v].maximum
         => inRange(view'[v]) \/ Fit(v)]_viewVars

\* A zoom animation ends unless the wheel keeps turning: late events, impulses
\* that cancel out and steps stamped ahead of the clock do not keep it alive.
ZoomEnds ==
  \A v \in ZoomingView : []<>(~view[v].zooming) \/ []<><<Wheel(v)>>_viewVars

\* A bound of zero is no bound: what setScaleRange(minimum, 0) leaves visible is
\* no smaller than the minimum (GraphicsView.hpp:52).
ZeroMaximumIsUnlimited ==
  [][\A v \in ZoomingView, lo \in RangeBound :
       setScaleRange(v, lo, 0) => view'[v].scale >= lo]_viewVars
=============================================================================
