---------------------------- MODULE SharedRegion ----------------------------
(***************************************************************************)
(* The scope of an aircraft request (api_aircraft.py:56-117) and the slice *)
(* of the snapshot it is answered from (aircraft_snapshot_cache.py:        *)
(* 188-222).  Observers up to the Live Sky radius share the request of     *)
(* their cell: its centre and the widest radius a provider takes.  The     *)
(* answer is then cut to the circle of the caller.                         *)
(*                                                                         *)
(* Places are points of a grid that is closed in longitude.  The distance  *)
(* is the sum of the steps in both coordinates, a step being what it is at *)
(* the equator: half a cell's diagonal is no longer than this on Earth.    *)
(***************************************************************************)
EXTENDS Integers

CONSTANTS
  North, East,      \* the largest latitude and longitude, in steps
  Cell,             \* _REGIONAL_CELL_DEGREES, in steps
  Mile, MostMiles,  \* a nautical mile, in steps, and the most a provider takes
  SharedRadius,     \* _LIVE_SKY_SHARED_RADIUS_KM
  RegionRadius      \* _REGIONAL_PROVIDER_RADIUS_KM, also the largest the API takes

Lowest(x, y) == IF x <= y THEN x ELSE y
Highest(x, y) == IF x >= y THEN x ELSE y

\* provider_effective_radius_km: whole miles, a half to the even number.
Nearest(radius) ==
  LET miles == radius \div Mile
      rest == 2 * (radius % Mile)
  IN IF rest > Mile \/ (rest = Mile /\ miles % 2 = 1) THEN miles + 1 ELSE miles
EffectiveRadius(radius) == Mile * Highest(1, Lowest(MostMiles, Nearest(radius)))

\* The cells have a centre among the places and fill the ranges of both
\* coordinates; the widest circle around a centre holds the shared circle of
\* every observer of its cell (463 km against 400 km and half a degree).
RegionAssumption ==
  /\ North \in Nat \ {0} /\ East \in Nat \ {0} /\ Mile \in Nat \ {0} /\ MostMiles \in Nat \ {0}
  /\ Cell \in Nat \ {0} /\ Cell % 2 = 0 /\ North % Cell = 0 /\ East % Cell = 0
  /\ SharedRadius \in Nat /\ RegionRadius \in Nat
  /\ EffectiveRadius(SharedRadius) + Cell <= EffectiveRadius(RegionRadius)

Places == [lat : -North .. North, lon : -East .. East]
Requests == [at : Places, radius : 1 .. RegionRadius]

Apart(x, y) == Highest(x - y, y - x)
Distance(p, q) ==
  LET along == Apart(p.lon, q.lon)
  IN Apart(p.lat, q.lat) + Lowest(along, 2 * East - along)

\* _region_center_coordinate, _bounded_region_center
RegionCentre(v) == (v \div Cell) * Cell + Cell \div 2
BoundedCentre(v, most) ==
  Lowest(most - Cell \div 2, Highest(Cell \div 2 - most, RegionCentre(v)))

\* _provider_request_scope
Scope(request) ==
  IF request.radius <= SharedRadius
  THEN [at |-> [lat |-> BoundedCentre(request.at.lat, North),
                lon |-> BoundedCentre(request.at.lon, East)],
        radius |-> RegionRadius, shared |-> TRUE]
  ELSE [at |-> request.at, radius |-> request.radius, shared |-> FALSE]

\* What a provider sends: the aircraft of the circle it is asked for.
Provided(at, radius, aircraft) ==
  {p \in aircraft : Distance(at, p) <= EffectiveRadius(radius)}

\* slice_snapshot_radius
SliceOfSnapshot(snapshot, request) ==
  {p \in snapshot : Distance(request.at, p) <= EffectiveRadius(request.radius)}

Contacts(request, aircraft) ==
  LET scope == Scope(request)
      snapshot == Provided(scope.at, scope.radius, aircraft)
  IN IF scope.shared \/ scope.radius > request.radius
     THEN SliceOfSnapshot(snapshot, request)
     ELSE snapshot

\* Sharing loses nothing and adds nothing: wherever the observer stands, poles and
\* antimeridian included, a request has the aircraft it would have been sent for a
\* circle of its own, and the centre that is asked for is a place on Earth.
SharingLosesNothing(request) ==
  /\ Scope(request).at \in Places
  /\ Contacts(request, Places) = Provided(request.at, request.radius, Places)
=============================================================================
