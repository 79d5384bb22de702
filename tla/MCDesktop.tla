----------------------------- MODULE MCDesktop -----------------------------
(***************************************************************************)
(* The panels of the desktop window, each checked on its own: a behaviour  *)
(* chooses one at the start and is a behaviour of its module.  They share  *)
(* the places and nothing else, so following them together would only      *)
(* multiply their states.  The variables a .. f are the state of the       *)
(* chosen one; those it does not have are idle.                            *)
(***************************************************************************)
EXTENDS Places

CONSTANTS MaxChanges, MaxRefreshes, Frames, Sats, Planes

VARIABLES slice, a, b, c, d, e, f

vars == <<slice, profiles, selected, saved, a, b, c, d, e, f>>

Idle == "idle"

Layers == INSTANCE PlaceLayers WITH stars <- a, terrain <- b
Sky == INSTANCE SkyRefresh WITH sky <- a, tracks <- b, view <- c, changes <- d
Forecast == INSTANCE ForecastPanels WITH kind <- a, panel <- b, plan <- c
Map == INSTANCE WeatherMapPanel WITH map <- a, play <- b, future <- c
Aircraft == INSTANCE AircraftPanel WITH air <- a, shown <- b, lastGood <- c
Satellite == INSTANCE SatelliteSelection WITH sky <- a, drawn <- b, sel <- c, tracks <- d
Detail == INSTANCE AircraftDetail WITH contacts <- a, inView <- b, pick <- c, detail <- d,
                                       lookups <- e, follow <- f

NoPlaces == profiles = <<>> /\ selected = Idle /\ saved = Idle

Init ==
  \/ slice = "layers" /\ Layers!Init /\ c = Idle /\ d = Idle /\ e = Idle /\ f = Idle
  \/ slice = "sky" /\ Sky!Init /\ e = Idle /\ f = Idle
  \/ slice = "forecast" /\ Forecast!Init /\ d = Idle /\ e = Idle /\ f = Idle
  \/ slice = "map" /\ Map!Init /\ d = Idle /\ e = Idle /\ f = Idle
  \/ slice = "aircraft" /\ Aircraft!Init /\ d = Idle /\ e = Idle /\ f = Idle
  \/ slice = "satellite" /\ Satellite!Init /\ NoPlaces /\ e = Idle /\ f = Idle
  \/ slice = "detail" /\ Detail!Init /\ NoPlaces

Next ==
  \/ slice = "layers" /\ Layers!Next /\ UNCHANGED <<slice, c, d, e, f>>
  \/ slice = "sky" /\ Sky!Next /\ UNCHANGED <<slice, e, f>>
  \/ slice = "forecast" /\ Forecast!Next /\ UNCHANGED <<slice, d, e, f>>
  \/ slice = "map" /\ Map!Next /\ UNCHANGED <<slice, d, e, f>>
  \/ slice = "aircraft" /\ Aircraft!Next /\ UNCHANGED <<slice, d, e, f>>
  \/ slice = "satellite" /\ Satellite!Next /\ UNCHANGED <<slice, places, e, f>>
  \/ slice = "detail" /\ Detail!Next /\ UNCHANGED <<slice, places>>

\* The fairness of SkyRefresh, whose liveness is checked.
SkyStep(A) == slice = "sky" /\ A /\ UNCHANGED <<slice, e, f>>
Fairness ==
  /\ WF_vars(SkyStep(Sky!TimerFires)) /\ WF_vars(SkyStep(Sky!Arrive))
  /\ WF_vars(SkyStep(Sky!TracksArrive)) /\ SF_vars(SkyStep(Sky!Good))

Spec == Init /\ [][Next]_vars /\ Fairness

(***************************************************************************)
(* The properties of the panels.                                           *)
(***************************************************************************)
\* What is shown as the selected place's is of that place: the stars and the
\* horizon kept for the skyline, the planner's rows once they have caught up with
\* the weather shown, and the picture of the weather map by its caption.
ShownIsOfPlace ==
  /\ slice = "layers" => Layers!LayersOfPlace
  /\ slice = "forecast" => Forecast!PlannerCoherent /\ Forecast!RowsFollow
  /\ slice = "map" => Map!CaptionTrue
\* Nothing is left standing: a change of place reaches the terrain and the
\* forecast panels, the playback goes on, aircraft keep being refreshed once.
NothingStranded ==
  /\ slice = "layers" => Layers!TerrainUnderWay
  /\ slice = "forecast" => Forecast!PanelFollowsPlace
  /\ slice = "map" => Map!PlaybackAlive
  /\ slice = "aircraft" => Aircraft!AircraftRefreshAlive
  /\ slice = "sky" => Sky!NoStrandedTracks
\* The drawer is about the selected satellite, the aircraft texts and the routes in
\* them about the selected aircraft.
DetailOfSelected ==
  /\ slice = "satellite" => Satellite!DrawerOfSelection
  /\ slice = "detail" => Detail!RouteOfSelected /\ Detail!TextOfSelected
\* A refresh of the satellites is never lost.
RefreshNotDropped == [][slice = "sky" => Sky!KeepsRefreshing]_vars
\* The sky is the selected place's in the end, and so is what the live view draws,
\* if predictions find tracks now and then.
ViewCatchesUp ==
  /\ <>[](slice = "sky" => Sky!SkySettled)
  /\ SF_vars(SkyStep(Sky!Found)) => <>[](slice = "sky" => Sky!ViewSettled)
\* Contacts shown as live are of the selected place.
LiveIsOfPlace == [][slice = "aircraft" => Aircraft!ShownLiveHere]_vars
=============================================================================
