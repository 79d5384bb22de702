--------------------------- MODULE SatelliteTracks ---------------------------
(***************************************************************************)
(* The satellites of the final desktop window between two refreshes        *)
(* (stage20_realtime_satellite_view.py over smooth_hud_finder_view.py,     *)
(* hud_finder_view.py and live_view.py).  A refresh brings positions, a    *)
(* later call the same satellites with predicted tracks                    *)
(* (track_prediction.py); from then on every frame moves the markers along *)
(* their tracks by the time since the call, and redraws the paths ahead of *)
(* them.  Any full redraw puts the markers back to the positions of the    *)
(* refresh and removes the paths, until the next frame.                    *)
(*                                                                         *)
(* One tick is REALTIME_TRACK_REFRESH_SECONDS.  The sky is a circle of     *)
(* azimuths; elevation, which the code treats in the same way, is left     *)
(* out, and so are the bounds on how many paths and labels are drawn.      *)
(***************************************************************************)
EXTENDS Integers, Sequences, FiniteSets

CONSTANTS
  Sats,
  Start, Rate,      \* where a satellite is at instant 0, and how far it moves in a tick
  Circle, Half,     \* azimuths of the circle, and of half the field of view
  Step, Duration,   \* step_seconds and duration_seconds of a prediction, in ticks
  MaxLag,           \* bound: from the positions, or the prediction, to their arrival
  MaxTime           \* bound

\* In a step a satellite goes less than half way round.
TracksAssumption ==
  /\ Circle \in Nat \ {0} /\ Half \in Nat /\ Step \in Nat \ {0} /\ Duration \in Nat \ {0}
  /\ MaxLag \in Nat /\ MaxTime \in Nat
  /\ Start \in [Sats -> Int] /\ Rate \in [Sats -> Int]
  /\ \A s \in Sats : 2 * Rate[s] * Step < Circle /\ -Circle < 2 * Rate[s] * Step

VARIABLES
  now,
  scene,    \* [sats, tracked, at, predicted, started]: _all_satellites, those with a
            \* future_track, the epochs of both, and _animation_started
  shown,    \* _satellites
  window,   \* [facing, selected, all]: _facing_deg, _selected_norad, _show_all_tracked
  drawn,    \* _drawn_satellite_positions: a partial function from Sats
  paths,    \* the lines tagged realtime-satellite-track: a partial function from Sats
  pathsAt   \* _last_realtime_track_refresh

vars == <<now, scene, shown, window, drawn, paths, pathsAt>>

NoSat == "no satellite"
Nothing == [s \in {} |-> 0]
NoScene == [sats |-> {}, tracked |-> {}, at |-> 0, predicted |-> 0, started |-> 0]

\* Where a satellite really is: what propagating its elements would give.
Truth(s, t) == (Start[s] + Rate[s] * t) % Circle

\* signed_angular_difference
SignedDifference(a, centre) == ((a - centre + Circle \div 2) % Circle) - Circle \div 2

\* project_live_view
Visible(az, w) == SignedDifference(az, w.facing) \in -Half .. Half

\* TrackPredictor.predict: one point at every step, and one at the very end.
Offsets ==
  [i \in 1 .. (Duration \div Step) + 1 |-> (i - 1) * Step]
    \o (IF Duration % Step = 0 THEN <<>> ELSE <<Duration>>)

Track(sc, s) ==
  IF s \notin sc.tracked THEN <<>>
  ELSE [i \in DOMAIN Offsets |-> [after |-> Offsets[i], az |-> Truth(s, sc.predicted + Offsets[i])]]

\* interpolated_satellite_position: on the track, or at one of its ends.
Interpolated(track, elapsed) ==
  LET last == track[Len(track)]
      next == CHOOSE j \in 2 .. Len(track) :
                elapsed <= track[j].after /\ \A i \in 2 .. j - 1 : track[i].after < elapsed
      p == track[next - 1]
      q == track[next]
  IN IF elapsed <= track[1].after THEN track[1].az
     ELSE IF elapsed >= last.after THEN last.az
     ELSE (p.az + (SignedDifference(q.az, p.az) * (elapsed - p.after)) \div (q.after - p.after)) % Circle

\* _remaining_track_points: where the satellite is, and the points it has not passed.
Passed(track, elapsed) == Cardinality({i \in DOMAIN track : track[i].after <= elapsed})

Remaining(track, elapsed) ==
  [i \in 1 .. Len(track) - Passed(track, elapsed) + 1 |->
     IF i = 1 THEN Interpolated(track, elapsed) ELSE track[Passed(track, elapsed) + i - 1].az]

(***************************************************************************)
(* Redraws.                                                                *)
(***************************************************************************)
Placed(sc, s) == Truth(s, sc.at)

\* _satellites_in_current_view, _rebuild_display_satellites
Rebuilt(sc, w) ==
  {s \in sc.sats : Visible(Placed(sc, s), w)} \cup (sc.sats \cap {w.selected})

\* redraw
Redrawn(sc, list, w) ==
  /\ drawn' = [s \in {x \in list : Visible(Placed(sc, x), w)} |-> Placed(sc, s)]
  /\ paths' = Nothing

Show(sc, w) ==
  /\ scene' = sc /\ window' = w
  /\ shown' = Rebuilt(sc, w)
  /\ Redrawn(sc, Rebuilt(sc, w), w)
  /\ UNCHANGED <<now, pathsAt>>

(***************************************************************************)
(* Actions.                                                                *)
(***************************************************************************)
\* set_satellites: positions without tracks do not replace a populated scene.
SetSatellites(sats, tracked, at, predicted) ==
  LET held == sats # {} /\ scene.sats # {} /\ shown # {} /\ tracked = {}
      w == IF window.selected \in sats THEN window ELSE [window EXCEPT !.selected = NoSat]
  IN IF held THEN UNCHANGED vars
     ELSE Show([sats |-> sats, tracked |-> tracked, at |-> at, predicted |-> predicted,
                started |-> now], w)

\* Panning, zooming, following; "All tracked"; and select_norad.
LookAt(facing) == Show(scene, [window EXCEPT !.facing = facing])
ShowAll(all) == Show(scene, [window EXCEPT !.all = all])
SelectNorad(s) == Show(scene, [window EXCEPT !.selected = s])

\* _select, a click on a marker: a redraw that keeps the list.
Click(s) ==
  /\ s \in DOMAIN drawn
  /\ window' = [window EXCEPT !.selected = s]
  /\ Redrawn(scene, shown, window')
  /\ UNCHANGED <<now, scene, shown, pathsAt>>

\* redraw called by a layer of the view that has changed: stars, airports, size.
LayerChanged == Redrawn(scene, shown, window) /\ UNCHANGED <<now, scene, shown, window, pathsAt>>

\* _redraw_realtime_satellite_tracks: the points the lines go through, those in the
\* window that have a neighbour there.
OnLine(points) ==
  LET inside == {i \in DOMAIN points : Visible(points[i], window)}
  IN [i \in {j \in inside : {j - 1, j + 1} \cap inside # {}} |-> points[i]]

PathsAt(elapsed) ==
  [s \in {x \in shown : Len(Track(scene, x)) >= 2} |->
     OnLine(Remaining(Track(scene, s), elapsed))]

\* _animation_tick: markers move only while they stay in the window.
Frame ==
  LET elapsed == now - scene.started
      moving == IF window.all /\ window.selected # NoSat THEN shown \cap {window.selected} ELSE shown
      To(s) == Interpolated(Track(scene, s), elapsed)
      moves == {s \in moving \cap scene.tracked \cap DOMAIN drawn : Visible(To(s), window)}
  IN /\ drawn' = [s \in DOMAIN drawn |-> IF s \in moves THEN To(s) ELSE drawn[s]]
     /\ IF now > pathsAt THEN paths' = PathsAt(elapsed) /\ pathsAt' = now
        ELSE UNCHANGED <<paths, pathsAt>>
     /\ UNCHANGED <<now, scene, shown, window>>

Tick == now < MaxTime /\ now' = now + 1 /\ UNCHANGED <<scene, shown, window, drawn, paths, pathsAt>>

Init ==
  /\ now = 1 /\ scene = NoScene /\ shown = {} /\ drawn = Nothing /\ paths = Nothing /\ pathsAt = 0
  /\ window = [facing |-> 0, selected |-> NoSat, all |-> FALSE]

Next ==
  \/ \E sats \in SUBSET Sats, at, predicted \in now - MaxLag .. now :
       \E tracked \in SUBSET sats :
         at >= 0 /\ at <= predicted /\ SetSatellites(sats, tracked, at, predicted)
  \/ \E facing \in {0, Half + 1} : LookAt(facing)
  \/ \E all \in BOOLEAN : ShowAll(all)
  \/ \E s \in scene.sats \cup {NoSat} : SelectNorad(s)
  \/ \E s \in Sats : Click(s)
  \/ LayerChanged \/ Frame \/ Tick

(***************************************************************************)
(* Properties.                                                             *)
(***************************************************************************)
\* Between refreshes no marker is a ghost and none runs ahead: what is drawn is a
\* satellite of the list, where it was at some time since its positions were
\* computed and not later than now, across the north, past the end of its track,
\* and when other refreshes, redraws and selections come between two frames.
MarkersWereThere ==
  /\ DOMAIN drawn \subseteq shown /\ shown \subseteq scene.sats
  /\ \A s \in DOMAIN drawn : \E t \in scene.at .. now : drawn[s] = Truth(s, t)

\* A path that begins in the window begins at the marker it is the path of, if that
\* is free to move, and every path goes where the satellite will be.
PathsBeginAtMarkers ==
  \A s \in DOMAIN paths :
    /\ s \in DOMAIN drawn /\ 1 \in DOMAIN paths[s] /\ ~(window.all /\ window.selected \notin {NoSat, s})
         => paths[s][1] = drawn[s]
    /\ \A i \in DOMAIN paths[s] :
         \E t \in 0 .. Duration : paths[s][i] = Truth(s, scene.predicted + t)

\* What they rest on: paths were drawn in the scene and the window that are shown,
\* by a frame that moved the markers to where the paths begin.
Scenes == [sats : SUBSET Sats, tracked : SUBSET Sats, at : Nat, predicted : Nat, started : Nat]

MayMove(s) == ~(window.all /\ window.selected \notin {NoSat, s})

PathOf(s) == Remaining(Track(scene, s), pathsAt - scene.started)

TracksInv ==
  /\ now \in Nat /\ pathsAt \in Nat /\ pathsAt <= now
  /\ scene \in Scenes
  /\ scene.at <= scene.predicted /\ scene.predicted <= scene.started /\ scene.started <= now
  /\ MarkersWereThere
  /\ \A s \in DOMAIN paths :
       /\ s \in shown \cap scene.tracked /\ scene.started <= pathsAt
       /\ paths[s] = OnLine(PathOf(s))
       /\ s \in DOMAIN drawn /\ Visible(PathOf(s)[1], window) /\ MayMove(s) => drawn[s] = PathOf(s)[1]
=============================================================================
