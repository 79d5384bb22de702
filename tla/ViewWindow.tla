----------------------------- MODULE ViewWindow -----------------------------
(***************************************************************************)
(* The part of the sky that the live view of the desktop window shows: the  *)
(* field of view round a facing, and the elevations.  The wheel zooms about *)
(* the pointer (live_view.py, hud_finder_view.py), a drag pans from where   *)
(* it began, and an aircraft that is followed is brought to the centre      *)
(* (aircraft_hud_finder_view.py) whatever the mouse does.  Angles are whole *)
(* units, zooming halves or doubles, and positions in the plot are in       *)
(* quarters of it.                                                          *)
(***************************************************************************)
EXTENDS Integers

CONSTANTS
  Circle,     \* 360 degrees
  Sky,        \* 90 degrees, the greatest span of elevations
  Fovs,       \* the fields of view of the saved settings
  Narrowest   \* 5 degrees, the least field of view and span

ViewAssumption ==
  /\ Circle \in Nat \ {0} /\ Narrowest \in Nat \ {0}
  /\ Sky \in Nat /\ Sky >= Narrowest
  /\ Fovs \subseteq Nat /\ \A fov \in Fovs : fov >= Narrowest

VARIABLES
  base,   \* _base_facing_deg and _base_horizontal_fov_deg
  view,   \* [facing, fov, low, high]: the window shown
  drag    \* _pan_origin: [on, facing, low, high]

vars == <<base, view, drag>>

NoDrag == [on |-> FALSE, facing |-> 0, low |-> 0, high |-> 0]

Least(m, n) == IF m < n THEN m ELSE n
Most(m, n) == IF m < n THEN n ELSE m

\* A window of elevations pushed back between the horizon and the zenith.
Inside(v, low, high) ==
  LET up == Most(0, -low)
      down == Most(0, high + up - Sky)
  IN [v EXCEPT !.low = Most(0, low + up - down), !.high = Least(Sky, high + up - down)]

\* reset_zoom
Whole(b) == [facing |-> b.facing, fov |-> b.fov, low |-> 0, high |-> Sky]

\* cursor_elevation: what the wheel takes to be under the pointer, as if the plot
\* were linear.  The view draws stereographically round the middle of the window
\* (stage20_perceptual_projection.py), and agrees with that in the middle column
\* of the plot, at its top, middle and bottom; anywhere else the point of the sky
\* under the pointer drifts as the wheel turns.
ElevationAt(v, y) == v.high - (y * (v.high - v.low)) \div 4

\* A quantity times factor, kept within limits.
Scaled(q, in, least, most) == Most(least, Least(most, IF in THEN q \div 2 ELSE 2 * q))

\* _zoom_about.  The facing moves by offset * (1 - factor), limit or no limit.
Turn(v, in, x) == LET offset == ((2 * x - 4) * v.fov) \div 8 IN IF in THEN offset \div 2 ELSE -offset

\* Slip: the edges of the sky cut the window off.
ZoomedCutOff(v, in, x, y) ==
  LET span == Scaled(v.high - v.low, in, Narrowest, Sky)
      high == ElevationAt(v, y) + (y * span) \div 4
  IN [v EXCEPT !.facing = (v.facing + Turn(v, in, x)) % Circle,
               !.fov = Scaled(v.fov, in, Narrowest, base.fov),
               !.low = Most(0, high - span), !.high = Least(Sky, high)]

Zoomed(v, in, x, y) ==
  LET span == Scaled(v.high - v.low, in, Narrowest, Sky)
      high == ElevationAt(v, y) + (y * span) \div 4
  IN Inside([v EXCEPT !.facing = (v.facing + Turn(v, in, x)) % Circle,
                      !.fov = Scaled(v.fov, in, Narrowest, base.fov)], high - span, high)

\* centred_elevation_window
Centred(v, azimuth, elevation) ==
  LET span == Scaled(2 * (v.high - v.low), TRUE, Narrowest, Sky)
      low == elevation - span \div 2
  IN Inside([v EXCEPT !.facing = azimuth % Circle], low, low + span)

\* set_view, with the settings of a place.
ViewSet ==
  /\ \E facing \in {0, Circle - 1}, fov \in Fovs : base' = [facing |-> facing, fov |-> fov]
  /\ view' = Whole(base')
  /\ UNCHANGED drag

ResetZoom == view' = Whole(base) /\ UNCHANGED <<base, drag>>

\* _on_mousewheel over the plot; the buttons zoom about its centre.
Zoom ==
  /\ \E in \in BOOLEAN, x, y \in {0, 2, 4} : view' = Zoomed(view, in, x, y)
  /\ UNCHANGED <<base, drag>>

\* _on_pan_start beside the symbols
PanStart ==
  /\ ~drag.on
  /\ drag' = [on |-> TRUE, facing |-> view.facing, low |-> view.low, high |-> view.high]
  /\ UNCHANGED <<base, view>>

\* pan_live_view_window: from the origin of the drag, with the field of view of now.
Pan ==
  /\ drag.on
  /\ \E dx, dy \in {-4, 0, 1} :
       LET shift == (dy * (drag.high - drag.low)) \div 4
       IN view' = Inside([view EXCEPT !.facing = (drag.facing - ((dx * view.fov) \div 4)) % Circle],
                         drag.low + shift, drag.high + shift)
  /\ UNCHANGED <<base, drag>>

PanEnd == drag.on /\ drag' = NoDrag /\ UNCHANGED <<base, view>>

\* centre_on_aircraft: the button, or the tick of the aircraft panel that follows.
Follow ==
  /\ \E azimuth \in {0, 1, Circle \div 2}, elevation \in {0, 1, Sky \div 2, Sky} :
       view' = Centred(view, azimuth, elevation)
  /\ UNCHANGED <<base, drag>>

Init ==
  /\ \E fov \in Fovs : base = [facing |-> 0, fov |-> fov]
  /\ view = Whole(base) /\ drag = NoDrag

Next == ViewSet \/ ResetZoom \/ Zoom \/ PanStart \/ Pan \/ PanEnd \/ Follow

Spec == Init /\ [][Next]_vars

(***************************************************************************)
(* Properties.                                                             *)
(***************************************************************************)
InSky(v) ==
  /\ 0 <= v.low /\ v.low + Narrowest <= v.high /\ v.high <= Sky
  /\ Narrowest <= v.fov /\ v.fov <= base.fov

\* The window is as high as the zoom makes it: the edge of the sky moves it, and
\* does not cut it.
Uncut(v, w, in) == w.high - w.low = Scaled(v.high - v.low, in, Narrowest, Sky)

\* In the middle column the point of the sky under the pointer stays there, unless
\* the edge of the sky is reached.
PointKept(v, w, y) ==
  /\ w.facing = v.facing % Circle
  /\ w.low > 0 /\ w.high < Sky => ElevationAt(w, y) = ElevationAt(v, y)

\* However zooms, drags and following are mixed, the window lies in the sky and
\* is neither too narrow nor wider than the settings; the next zoom, about any
\* point, leaves it so and uncut, and one in the middle column of the plot, where
\* the buttons zoom, keeps the point of the sky that is there; and an aircraft
\* that is followed comes into the window.
WindowSound ==
  /\ InSky(view)
  /\ \A in \in BOOLEAN, x, y \in {0, 2, 4} :
       LET w == Zoomed(view, in, x, y)
       IN InSky(w) /\ Uncut(view, w, in) /\ (x = 2 => PointKept(view, w, y))
  /\ \A elevation \in 0 .. Sky :
       LET w == Centred(view, 0, elevation) IN w.low <= elevation /\ elevation <= w.high

\* What WindowSound rests on: a drag goes on from a window in the sky.
ViewInv ==
  /\ base \in [facing : Int, fov : Nat]
  /\ view \in [facing : Int, fov : Nat, low : Nat, high : Nat]
  /\ drag \in [on : BOOLEAN, facing : Int, low : Nat, high : Nat]
  /\ InSky(view)
  /\ drag.on => drag.low + Narrowest <= drag.high /\ drag.high <= Sky
=============================================================================
