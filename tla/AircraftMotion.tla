--------------------------- MODULE AircraftMotion ---------------------------
(***************************************************************************)
(* The marker of one aircraft in the desktop's live view: the snapshots     *)
(* that fix its position (aircraft.py, aircraft_readsb.py), the history of  *)
(* its fixes, shared by all refreshes (aircraft_motion.py), the contact     *)
(* built from them with its projection into the near future                 *)
(* (aircraft_live.py), and the marker that moves along the projection until *)
(* the next contact is applied (aircraft_hud_finder_view.py).               *)
(*                                                                         *)
(* The aircraft flies steadily round a circle of Circle units, one a tick:  *)
(* its longitude, and its azimuth, pass from the last unit to the first.    *)
(* Altitude and latitude change without such a jump and are left out, and   *)
(* so is the projection from the ground to the sky.  A fix says where the   *)
(* aircraft was at its time, with its speed and track or without.           *)
(***************************************************************************)
EXTENDS Integers, Sequences

CONSTANTS
  Circle,           \* 360 degrees
  MaxFixes,         \* max_fixes_per_aircraft
  MaxHistoryAge,    \* max_history_age_seconds
  PredictionLimit,  \* prediction_limit_seconds
  Projected,        \* the last of projection_seconds
  MaxSeen, MaxSkew, \* bounds: how long ago a fix was taken, how far the clock of its source is ahead
  MaxNow            \* bound

\* The history allows fewer than two fixes to nobody, and in the age of a history
\* the aircraft is less than half way round.
MotionAssumption ==
  /\ Circle \in Nat \ {0} /\ MaxFixes \in Nat \ {0, 1} /\ MaxHistoryAge \in Nat \ {0}
  /\ PredictionLimit \in Nat /\ Projected \in Nat /\ MaxSeen \in Nat /\ MaxSkew \in Nat
  /\ MaxNow \in Nat /\ 2 * MaxHistoryAge < Circle

VARIABLES
  now,
  history,   \* the fixes of AircraftMotionHistory, oldest first
  built,     \* contacts posted by the worker, not yet applied
  marker,    \* the contact of the live view, with the time of _aircraft_animation_started
             \* and the point of its track where it is drawn, 0 when it is not
  holding    \* it was kept over an empty refresh

vars == <<now, history, built, marker, holding>>

Truth(at) == at % Circle
Fix(at, known) == [at |-> at, pos |-> Truth(at), known |-> known]
Nowhere == [state |-> "none"]
NoMarker == [track |-> <<>>, from |-> 0, started |-> 0, fixed |-> 0, steady |-> FALSE,
             drawn |-> 0]

(***************************************************************************)
(* AircraftMotionHistory.                                                  *)
(***************************************************************************)
Last(s) == s[Len(s)]

\* A fix of a known time replaces that one; one older than the newest is
\* dropped; then the fixes too old for the newest go, the first ones since they are
\* in order, and the oldest of too many.
Extended(h, f) ==
  IF \E i \in DOMAIN h : h[i].at = f.at
    THEN [i \in DOMAIN h |-> IF h[i].at = f.at THEN f ELSE h[i]]
    ELSE IF h # <<>> /\ f.at < Last(h).at THEN h ELSE Append(h, f)

InAge(h) == {i \in DOMAIN h : h[i].at >= Last(h).at - MaxHistoryAge}
Recent(h) == SubSeq(h, CHOOSE i \in InAge(h) : \A j \in InAge(h) : i <= j, Len(h))
Bounded(h) == SubSeq(h, IF Len(h) > MaxFixes THEN Len(h) - MaxFixes + 1 ELSE 1, Len(h))

\* Slip: fixes are kept as they come.
AddedUnsorted(h, f) == Bounded(Recent(Append(h, f)))

Added(h, f) == Bounded(Recent(Extended(h, f)))

\* _interpolate_longitude, _interpolate_angle: the shorter way round.
ShorterWay(a, b) == ((b - a + Circle \div 2) % Circle) - Circle \div 2

\* Slip: straight through the numbers.
StraightBetween(f, g, at) ==
  (f.pos + ((g.pos - f.pos) * (at - f.at)) \div (g.at - f.at)) % Circle
Between(f, g, at) ==
  (f.pos + (ShorterWay(f.pos, g.pos) * (at - f.at)) \div (g.at - f.at)) % Circle

\* _destination_point: so far along the track.
Onward(pos, way) == (pos + way) % Circle

\* _extrapolate: without speed or track the aircraft stays where it was.
Ahead(f, at) == IF f.known THEN Onward(f.pos, at - f.at) ELSE f.pos

Predicts(h, at) ==
  IF at > Last(h).at + PredictionLimit THEN [state |-> "stale"]
  ELSE [state |-> "extrapolated", pos |-> Ahead(Last(h), at), fixed |-> Last(h).at, steady |-> Last(h).known]

\* resolve: at the time of a fix, between two, after the last, before the first.
Resolved(h, at) ==
  LET exact == {i \in DOMAIN h : h[i].at = at}
      gaps == {i \in 1 .. Len(h) - 1 : h[i].at < at /\ at < h[i + 1].at}
  IN IF h = <<>> THEN Nowhere
     ELSE IF exact # {}
       THEN LET f == h[CHOOSE i \in exact : TRUE]
            IN [state |-> "measured", pos |-> f.pos, fixed |-> f.at, steady |-> TRUE]
     ELSE IF gaps # {}
       THEN LET i == CHOOSE i \in gaps : TRUE
            IN [state |-> "interpolated", pos |-> Between(h[i], h[i + 1], at), fixed |-> h[i + 1].at,
                steady |-> TRUE]
     ELSE IF at < h[1].at THEN Nowhere ELSE Predicts(h, at)

Usable(r) == r.state \notin {"none", "stale"}

\* build_sky_aircraft: the contact at an instant and, second by second, until
\* nothing can be predicted.
Reach(h, at) ==
  LET ends == {s \in 1 .. Projected : ~Usable(Resolved(h, at + s))}
  IN IF ends = {} THEN Projected ELSE (CHOOSE s \in ends : \A u \in ends : s <= u) - 1

Contact(h, at) ==
  IF ~Usable(Resolved(h, at)) THEN NoMarker
  ELSE [track |-> [i \in 1 .. Reach(h, at) + 1 |-> Resolved(h, at + i - 1).pos],
        from |-> at, started |-> 0, fixed |-> Last(h).at,
        steady |-> \A i \in 0 .. Reach(h, at) : Resolved(h, at + i).steady, drawn |-> 0]

(***************************************************************************)
(* The refresh and the marker.                                             *)
(***************************************************************************)
\* The worker has a snapshot, with the aircraft or without: the sources differ in
\* how long ago they fixed it, their clocks may be ahead, and one that is not
\* available is replaced by the last good snapshot, whose fixes are old.
SnapshotArrives ==
  /\ Len(built) = 0
  /\ \/ /\ built' = <<NoMarker>> /\ UNCHANGED history
     \/ \E at \in now - MaxSeen .. now + MaxSkew, known \in BOOLEAN :
          /\ at >= 0
          /\ history' = Added(history, Fix(at, known))
          /\ built' = <<Contact(history', now)>>
  /\ UNCHANGED <<now, marker, holding>>

\* _aircraft_in_current_view, _draw_aircraft_layer: a full drawing shows a contact
\* whose first position is in the window, there and nowhere else.
DrawnAfresh == {0, 1}

\* _apply_aircraft_snapshot, set_aircraft: the animation starts when the contact
\* is set and drawn; an empty refresh holds the contacts of the one before.
Applied ==
  /\ built # <<>>
  /\ LET c == built[1]
     IN \/ /\ c = NoMarker
           /\ holding' = (marker # NoMarker) /\ UNCHANGED marker
        \/ /\ c # NoMarker
           /\ \E n \in DrawnAfresh : marker' = [c EXCEPT !.started = now, !.drawn = n]
           /\ holding' = FALSE
  /\ built' = <<>>
  /\ UNCHANGED <<now, history>>

\* _on_location_changed: a worker that is under way may fill the history again;
\* its contact is refused (AircraftPanel).
PlaceChanged ==
  /\ history # <<>>
  /\ history' = <<>> /\ marker' = NoMarker /\ holding' = FALSE /\ built' = <<>>
  /\ UNCHANGED now

\* redraw, _redraw_aircraft_only, for a pan, a zoom, a layer or a selection: the
\* marker is back at the first point, or gone.
Redrawn ==
  /\ marker # NoMarker
  /\ \E n \in DrawnAfresh : marker' = [marker EXCEPT !.drawn = n]
  /\ UNCHANGED <<now, history, built, holding>>

\* interpolated_aircraft_sky_position: the point of the track the time since the
\* contact was set has reached, its last one when the time is past it.
Reached(m) ==
  LET elapsed == now - m.started IN IF elapsed >= Len(m.track) THEN Len(m.track) ELSE elapsed + 1

\* _animate_aircraft: a marker that is drawn is moved there, when that is in the
\* window; otherwise it stays where it was drawn.
Animated ==
  /\ marker.drawn # 0
  /\ marker' = [marker EXCEPT !.drawn = Reached(marker)]
  /\ UNCHANGED <<now, history, built, holding>>

Tick == now < MaxNow /\ now' = now + 1 /\ UNCHANGED <<history, built, marker, holding>>

Init == now = 0 /\ history = <<>> /\ built = <<>> /\ marker = NoMarker /\ holding = FALSE

Next == SnapshotArrives \/ Applied \/ PlaceChanged \/ Redrawn \/ Animated \/ Tick

Spec == Init /\ [][Next]_vars

Drawn(m) == m.track[m.drawn]

(***************************************************************************)
(* Properties.                                                             *)
(***************************************************************************)
\* Whatever order fixes come in, the marker of an aircraft that flies steadily is
\* drawn where the aircraft was or is, at some instant since the contact was built.
\* So it never runs ahead of the aircraft, and never further than the prediction
\* limit past a fix, also when an empty refresh holds it, a full drawing puts it
\* back, it stands since it left the window, or it crosses the north or the
\* antimeridian.
MarkerOnItsWay ==
  marker.drawn # 0 =>
    LET instant == marker.from + marker.drawn - 1
    IN /\ marker.steady => Drawn(marker) = Truth(instant)
       /\ instant <= now
       /\ instant <= marker.fixed + PredictionLimit

\* The history is in order of time however the sources disagree, within its
\* bounds, and never forgets its newest fix for an older one but with the place.
HistoryAdvances ==
  /\ \A i \in 1 .. Len(history') - 1 : history'[i].at < history'[i + 1].at
  /\ history' # <<>> =>
       /\ Len(history') <= MaxFixes
       /\ history'[1].at >= Last(history').at - MaxHistoryAge
       /\ history # <<>> => Last(history').at >= Last(history).at

\* What they rest on: every fix of the history is where the aircraft was; and a
\* contact, posted or set, follows it for as long as it was predicted.
Fixes == {f \in [at : Nat, pos : Int, known : BOOLEAN] : f.pos = Truth(f.at)}

InOrder(h) ==
  /\ h \in Seq(Fixes)
  /\ \A i, j \in DOMAIN h : i < j => h[i].at < h[j].at
  /\ h # <<>> => h[1].at >= Last(h).at - MaxHistoryAge

Contacts == [track : Seq(Int), from : Nat, started : Nat, fixed : Nat, steady : BOOLEAN,
             drawn : Nat]

Follows(c) ==
  \A i \in DOMAIN c.track :
    /\ c.from + i - 1 <= c.fixed + PredictionLimit
    /\ c.steady => c.track[i] = Truth(c.from + i - 1)

MotionInv ==
  /\ now \in Nat
  /\ InOrder(history) /\ Len(history) <= MaxFixes
  /\ built \in Seq(Contacts) /\ \A i \in DOMAIN built : Follows(built[i]) /\ built[i].from <= now
  /\ \A i \in DOMAIN built : built[i] = NoMarker \/ built[i].track # <<>>
  /\ marker \in Contacts /\ Follows(marker)
  /\ marker.from <= marker.started /\ marker.started <= now
  /\ marker = NoMarker \/ marker.track # <<>>
  /\ marker.drawn <= Len(marker.track) /\ marker.drawn <= now - marker.started + 1
=============================================================================
