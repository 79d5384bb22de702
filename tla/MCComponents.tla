---------------------------- MODULE MCComponents ----------------------------
(***************************************************************************)
(* Eight components that share no state: the lookup caches, the            *)
(* observability store and the build of the server, the camera panel and   *)
(* the selection of the browser, the motion of aircraft and satellites and *)
(* the window of the view on the desktop.  A behaviour chooses one at the  *)
(* start and is a behaviour of its module.  The variables a .. h are the   *)
(* state of the chosen one.  Or it chooses what is asked of a calculation  *)
(* that has no state, of the shared region or of the sky, and ends.        *)
(***************************************************************************)
EXTENDS Integers, Sequences

CONSTANTS
  None,
  Threads, Keys, Kept, KeptFailure, Capacity, MaxClock,   \* LookupCaches
  TicksPerSecond, Window, MaxSamples, LastTick,           \* ObservabilityStore
  MaxRecords,
  Settings, MaxStarts, MaxSolves,                         \* Camera
  Planes, Sats, Stars, Roadster,                          \* BrowserSelection
  Resources, Optional, MaxBuilds,                         \* DeployPreload
  Round, Sky, Fovs, Narrowest,                            \* ViewWindow, SatelliteTracks
  Circle, MaxFixes, MaxHistoryAge, PredictionLimit,       \* AircraftMotion
  Projected, MaxSeen, MaxSkew, MaxNow,
  Routes, StartsAt, Rate, Half, Step, Duration,           \* SatelliteTracks
  MaxLag, MaxTime,
  North, East, Cell, Mile, MostMiles,                     \* SharedRegion
  SharedRadius, RegionRadius,
  Objects, Instants, Heights, MaxTops, MaxFrames,         \* SkyCalculations
  LastFrame, Suns, Clouds, Fogs, Rains, Tolerance,
  Widths, MaxRadius, Fleet, MaxFastLabels, AirportCount, MostDistance, SampleDistances

VARIABLES slice, a, b, c, d, e, f, g, h

vars == <<slice, a, b, c, d, e, f, g, h>>

Idle == "idle"

Lookup == INSTANCE LookupCaches WITH
  about <- a, cache <- b, calls <- c, owners <- d, clock <- e

Store == INSTANCE ObservabilityStore WITH
  MaxTime <- LastTick,
  now <- a, samples <- b, buckets <- c, asked <- d, log <- e

Camera == INSTANCE Camera WITH
  form <- a, buttons <- b, camera <- c, frame <- d, solves <- e, solution <- f,
  lately <- g, slips <- h

Selection == INSTANCE BrowserSelection WITH
  tracked <- a, sky <- b, stars <- c, cards <- d, insp <- e, routes <- f, photos <- g

Motion == INSTANCE AircraftMotion WITH
  now <- a, history <- b, built <- c, marker <- d, holding <- e

View == INSTANCE ViewWindow WITH
  Circle <- Round, base <- a, view <- b, drag <- c

Tracks == INSTANCE SatelliteTracks WITH
  Sats <- Routes, Start <- StartsAt, Circle <- Round,
  now <- a, scene <- b, shown <- c, window <- d, drawn <- e, paths <- f, pathsAt <- g

Preload == INSTANCE DeployPreload WITH
  stage <- a, at <- b, attempt <- c, temp <- d, files <- e, builds <- f, history <- g

Region == INSTANCE SharedRegion

Sums == INSTANCE SkyCalculations

ASSUME RegionAssumption == Region!RegionAssumption
ASSUME StoreAssumption == Store!StoreAssumption
ASSUME LookupAssumption == Lookup!LookupAssumption
ASSUME SelectionAssumption == Selection!SelectionAssumption
ASSUME PreloadAssumption == Preload!PreloadAssumption
ASSUME ViewAssumption == View!ViewAssumption
ASSUME MotionAssumption == Motion!MotionAssumption
ASSUME TracksAssumption == Tracks!TracksAssumption

\* The instance of the build.
TwoResources == <<"stars", "planets">>
TwoGroups == <<"stations", "visual">>

\* One satellite goes round to the north, one the other way, faster.
TwoStarts == [s \in Routes |-> IF s = "slow" THEN 15 ELSE 3]
TwoRates == [s \in Routes |-> IF s = "slow" THEN 1 ELSE -2]

\* Thresholds of twilight, met and missed, and satellites below, on and above the horizon.
TwilightSuns == {0, -833, -6000, -6001, -12000, -18000, -18001}
ThreeHeights == {-1, 0, 1}

\* distances_km, in quarters.
QuarterKilometres ==
  <<1, 2, 3, 4, 6, 8, 12, 16, 24, 32, 48, 64, 96, 128, 192, 256, 320, 400>>

FromSecond == b = Idle /\ c = Idle /\ d = Idle /\ e = Idle /\ f = Idle /\ g = Idle /\ h = Idle
FromFourth == d = Idle /\ e = Idle /\ f = Idle /\ g = Idle /\ h = Idle
FromSixth == f = Idle /\ g = Idle /\ h = Idle

Init ==
  \/ slice = "lookup" /\ Lookup!Init /\ FromSixth
  \/ slice = "store" /\ Store!Init /\ FromSixth
  \/ slice = "camera" /\ Camera!Init
  \/ slice = "selection" /\ Selection!Init /\ h = Idle
  \/ slice = "motion" /\ Motion!Init /\ FromSixth
  \/ slice = "view" /\ View!Init /\ FromFourth
  \/ slice = "tracks" /\ Tracks!Init /\ h = Idle
  \/ slice = "preload" /\ Preload!Init /\ h = Idle
  \/ slice = "region" /\ a \in Region!Requests /\ FromSecond
  \/ slice = "sums" /\ a \in Sums!Asked /\ FromSecond

Next ==
  \/ slice = "lookup" /\ Lookup!Next /\ UNCHANGED <<slice, f, g, h>>
  \/ slice = "store" /\ Store!Next /\ UNCHANGED <<slice, f, g, h>>
  \/ slice = "camera" /\ Camera!Next /\ UNCHANGED slice
  \/ slice = "selection" /\ Selection!Next /\ UNCHANGED <<slice, h>>
  \/ slice = "motion" /\ Motion!Next /\ UNCHANGED <<slice, f, g, h>>
  \/ slice = "view" /\ View!Next /\ UNCHANGED <<slice, d, e, f, g, h>>
  \/ slice = "tracks" /\ Tracks!Next /\ UNCHANGED <<slice, h>>
  \/ slice = "preload" /\ Preload!Next /\ UNCHANGED <<slice, h>>

Spec == Init /\ [][Next]_vars

(***************************************************************************)
(* The properties of the components.                                       *)
(***************************************************************************)
\* A cached fact is answered within its lifetime, however lookups overlap, and
\* all owner descriptions come from one table.
AnswersInTime == slice = "lookup" => Lookup!AnswersInTime /\ Lookup!OneOwnerTable
\* A lookup that ends, or a fix that comes in, late never replaces what was
\* newer: cached facts that still count, and the newest fix of an aircraft.
NewerKept ==
  [][/\ slice = "lookup" => Lookup!FreshNotReplaced
     /\ slice = "motion" => Motion!HistoryAdvances]_vars
\* A report counts what was recorded, and one without the flag has every sample.
ReportCountsLog == slice = "store" => Store!ReportCountsLog /\ Store!UnflaggedIsComplete
\* The alignment is of the current settings, and no stream is left open but in
\* the ways the code leaves.
CameraSound == slice = "camera" => Camera!SolutionOfSettings /\ Camera!StreamsExplained
\* The inspector is about the selected object.
InspectorOfTracked == slice = "selection" => Selection!InspectorOfTracked
\* An aircraft is drawn on its way, a satellite where it was and on its path, and
\* neither ahead of it.
MarkerOnItsWay ==
  /\ slice = "motion" => Motion!MarkerOnItsWay
  /\ slice = "tracks" => Tracks!MarkersWereThere /\ Tracks!PathsBeginAtMarkers
\* The window lies in the sky, and zooming in the middle column keeps the point there.
WindowSound == slice = "view" => View!WindowSound
\* A build that succeeds has every resource in place, whatever earlier ones left.
PreloadSound == slice = "preload" => Preload!PreloadSound
\* A shared region gives an observer all of its own circle, and each calculation of
\* the sky gives what it is for.
CalculationsRight ==
  /\ slice = "region" => Region!SharingLosesNothing(a)
  /\ slice = "sums" => Sums!CalculatedRightly(a)
=============================================================================
