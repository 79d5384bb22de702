-------------------------- MODULE SkyCalculations --------------------------
(***************************************************************************)
(* The calculations of the sky that choose, order and match: the           *)
(* satellites above the horizon and their tracks (tracker.py,              *)
(* live_catalog.py), the passes of a satellite (passes.py), the times of   *)
(* the evening (observing_conditions.py), the guidance of an hour          *)
(* (observing_planner.py), the frames of the cloud imagery                 *)
(* (cloud_imagery.py), the tiles and the radar of the weather map          *)
(* (weather_map.py), the satellites drawn and labelled in the live view    *)
(* (stage20_live_sky_view.py), the airports nearby                         *)
(* (stage20_rc_airports.py) and the skyline (terrain_horizon.py).  What    *)
(* Skyfield and SGP4 compute is given, and so is the geometry of the       *)
(* Earth: heights, events, states of the sky, distances and angles of the  *)
(* terrain are inputs.  Each calculation is followed by what it is for,    *)
(* said without its steps.                                                 *)
(***************************************************************************)
EXTENDS Integers, Sequences, FiniteSets, FiniteSetsExt, SequencesExt

CONSTANTS
  None,
  Objects, Instants,   \* bounds: satellites in a catalogue, points in a track
  Heights,             \* elevations, -1 below the horizon
  MaxTops,             \* bound: culminations in one pass
  MaxFrames,           \* MAX_INTERVAL_FRAMES
  LastFrame,           \* bound: the latest time of a frame
  Suns, Clouds, Fogs,  \* bounds: thousandths of a degree, percents,
  Rains,               \* tenths of a millimetre
  Tolerance,           \* RAINVIEWER_FRAME_TOLERANCE_SECONDS
  Widths, MaxRadius,   \* bounds: of the world and of a map, in tiles
  Fleet, AirportCount, \* bounds: satellites of a scene, airports on record
  MaxFastLabels,       \* MAX_FAST_LABELS
  MostDistance,        \* max_distance_km, of the airports
  SampleDistances      \* distances_km of _sample_distances, in quarters

(***************************************************************************)
(* merge_orbital_catalogues.  A catalogue is a list of NORAD numbers, 0    *)
(* where an element has none.                                              *)
(***************************************************************************)
Numbers == BoundedSeq(0 .. 2, 3)

MergedIds(first, second) ==
  FoldLeft(LAMBDA merged, id : IF id[2] = 0 \/ \E m \in ToSet(merged) : m[2] = id[2]
                               THEN merged ELSE Append(merged, id),
           << >>, [i \in DOMAIN first |-> <<1, first[i]>>] \o [i \in DOMAIN second |-> <<2, second[i]>>])

\* Every satellite that has a number is there once, with the elements of the
\* first catalogue that has it.
MergedOnce(first, second) ==
  LET merged == MergedIds(first, second)
  IN /\ Len(merged) = Cardinality((ToSet(first) \cup ToSet(second)) \ {0})
     /\ ToSet(merged) = {<<1, id>> : id \in ToSet(first) \ {0}}
                          \cup {<<2, id>> : id \in ToSet(second) \ (ToSet(first) \cup {0})}

(***************************************************************************)
(* SatelliteTracker.positions_above_horizon.  The elements give, for every *)
(* satellite and instant, the elevation or None where SGP4 reports an      *)
(* error; elements that make no satellite record are << >> and dropped     *)
(* (_build_prepared_catalogue).  The later instants are computed for the   *)
(* visible ones only, in arrays that are indexed by the place among those. *)
(***************************************************************************)
Elements == [1 .. Objects -> [1 .. Instants -> Heights \cup {None}] \cup {<< >>}]

Places(n) == [i \in 1 .. n |-> i]

\* metadata, and satrecs
Metadata(elements) == SelectSeq(Places(Objects), LAMBDA i : elements[i] # << >>)
Satrecs(elements) == LET names == Metadata(elements) IN [i \in DOMAIN names |-> elements[names[i]]]

Shows(track, minimum) == track[1] # None /\ track[1] >= minimum

VisibleIndices(satrecs, minimum) ==
  SelectSeq(Places(Len(satrecs)), LAMBDA i : Shows(satrecs[i], minimum))

\* Slip: the arrays are read by the places of the catalogue.
FutureOfAll(satrecs, visible) ==
  [t \in 2 .. Instants |-> [k \in DOMAIN visible |-> satrecs[k][t]]]

FutureSeries(satrecs, visible) ==
  [t \in 2 .. Instants |-> [k \in DOMAIN visible |-> satrecs[visible[k]][t]]]

TrackOf(future, k, height) ==
  <<[time |-> 1, height |-> height]>>
    \o SelectSeq([t \in 1 .. Instants - 1 |-> [time |-> t + 1, height |-> future[t + 1][k]]],
                 LAMBDA point : point.height # None)

PositionsAboveHorizon(elements, minimum) ==
  LET names == Metadata(elements)
      satrecs == Satrecs(elements)
      visible == VisibleIndices(satrecs, minimum)
      future == FutureSeries(satrecs, visible)
      results == [k \in DOMAIN visible |->
                    [name |-> names[visible[k]],
                     track |-> TrackOf(future, k, satrecs[visible[k]][1])]]
  IN SortSeq(results, LAMBDA x, y : x.track[1].height > y.track[1].height)

\* Every satellite that is up is listed once, the highest first, and its track has
\* its own elevations of the instants that could be computed, in order.
TracksAreTheirOwn(elements, minimum) ==
  LET positions == PositionsAboveHorizon(elements, minimum)
      Times(track) == [i \in DOMAIN track |-> track[i].time]
  IN /\ Len(positions) = Cardinality(ToSet(positions))
     /\ {p.name : p \in ToSet(positions)}
          = {i \in 1 .. Objects : elements[i] # << >> /\ Shows(elements[i], minimum)}
     /\ \A i, j \in DOMAIN positions :
          i < j => positions[i].track[1].height >= positions[j].track[1].height
     /\ \A p \in ToSet(positions) :
          /\ \A point \in ToSet(p.track) : point.height = elements[p.name][point.time]
          /\ ToSet(Times(p.track)) = {t \in 1 .. Instants : elements[p.name][t] # None}
          /\ \A i, j \in DOMAIN p.track : i < j => p.track[i].time < p.track[j].time

(***************************************************************************)
(* PassPredictor.predict.  Skyfield's find_events gives a rise, one or     *)
(* more culminations and a set for every pass, and starts and stops where  *)
(* the window does.  An event is named by its place.                       *)
(***************************************************************************)
Pass(tops) == <<"rise">> \o [i \in 1 .. tops |-> "top"] \o <<"set">>
Windows(s) == {SubSeq(s, from, to) : from \in 1 .. Len(s), to \in 1 .. Len(s)}
EventLists ==
  UNION {Windows(Pass(x) \o Pass(y) \o Pass(z)) :
           x \in 1 .. MaxTops, y \in 1 .. MaxTops, z \in 1 .. MaxTops}

NoPass == [rise |-> 0, top |-> 0, found |-> << >>]

Taken(p, kind, i) ==
  CASE kind = "rise" -> [p EXCEPT !.rise = i, !.top = 0]
    [] kind = "top" /\ p.rise # 0 -> [p EXCEPT !.top = i]
    [] kind = "set" /\ p.rise # 0 /\ p.top # 0 ->
         [NoPass EXCEPT !.found = Append(p.found, [rise |-> p.rise, top |-> p.top, set |-> i])]
    [] OTHER -> p

Passes(events) ==
  FoldLeftDomain(LAMBDA p, i : Taken(p, events[i], i), NoPass, events).found

\* The passes are those that rise and set within the window, whole and in order,
\* each with the last of its culminations.
PassesAreWhole(events) ==
  LET found == Passes(events)
      whole == {p \in [rise : DOMAIN events, set : DOMAIN events] :
                  /\ p.rise < p.set /\ events[p.rise] = "rise" /\ events[p.set] = "set"
                  /\ \A i \in p.rise + 1 .. p.set - 1 : events[i] = "top"}
  IN /\ ToSet(found) = {[rise |-> p.rise, top |-> p.set - 1, set |-> p.set] : p \in whole}
     /\ \A i, j \in DOMAIN found : i < j => found[i].set < found[j].rise

(***************************************************************************)
(* ObservingConditionsEngine.calculate.  The sky goes from 4, daylight,    *)
(* down to the deepest state of the season and back, one state in a step;  *)
(* polar days and nights are left out.  A calculation sees the day before  *)
(* and the two days after the moment.                                      *)
(***************************************************************************)
Nights == [deepest : 0 .. 3, moment : 1 .. 8]

Night(deepest) ==
  [i \in 1 .. 2 * (4 - deepest) |-> IF i <= 4 - deepest THEN 5 - i ELSE i + 2 * deepest - 5]
SkyOf(night) ==
  LET day == Night(night.deepest) IN day \o day \o day \o day
Moment(night) ==
  LET length == Len(Night(night.deepest)) IN length + 1 + (night.moment % length)

Transitions(sky, target) == {t \in 2 .. Len(sky) : sky[t] # sky[t - 1] /\ sky[t] = target}
Sunsets(sky) == {t \in 2 .. Len(sky) : sky[t - 1] = 4 /\ sky[t] = 3}

\* _select_transition
SelectTransition(times, moment, reached) ==
  LET previous == {t \in times : t <= moment}
      future == {t \in times : t > moment}
  IN IF reached
     THEN IF previous = {} THEN None ELSE Max(previous)
     ELSE IF future = {} THEN None ELSE Min(future)

Conditions(sky, moment) ==
  LET code == sky[moment]
  IN [sunset |-> SelectTransition(Sunsets(sky), moment, code < 4),
      civil |-> SelectTransition(Transitions(sky, 2), moment, code <= 2),
      nautical |-> SelectTransition(Transitions(sky, 1), moment, code <= 1),
      dark |-> SelectTransition(Transitions(sky, 0), moment, code = 0)]

\* Dawn: the sky grows lighter and it is not yet day.
Dawn(sky, moment) == sky[moment] < 4 /\ sky[moment] > sky[moment - 1]

\* Until dawn the times are those of one evening, as deep as it gets: each state
\* follows the sunset directly and none is missing.
OneEvening(night) ==
  LET sky == SkyOf(night)
      now == Conditions(sky, Moment(night))
      After(depth) == IF night.deepest <= depth THEN now.sunset + 3 - depth ELSE None
  IN ~Dawn(sky, Moment(night)) =>
       /\ now.sunset # None
       /\ now.civil = After(2) /\ now.nautical = After(1) /\ now.dark = After(0)

(***************************************************************************)
(* ObservingPlanner._guidance_for_point.  The score of an hour, in         *)
(* hundredths, and its rating; a value that is not forecast costs nothing. *)
(***************************************************************************)
Points == [sun : Suns, cloud : Clouds \cup {None}, fog : Fogs \cup {None}, rain : Rains \cup {None}]

Bounded(x, most) == Max({0, Min({most, x})})
CostOfSun(sun) ==
  CASE sun > -833 -> 7500
    [] sun <= -833 /\ sun > -6000 -> 4500
    [] sun <= -6000 /\ sun > -12000 -> 2500
    [] sun <= -12000 /\ sun > -18000 -> 1200
    [] OTHER -> 0
CostOfPercent(percent, factor) == IF percent = None THEN 0 ELSE Bounded(percent, 100) * factor
CostOfRain(rain) == IF rain = None \/ rain = 0 THEN 0 ELSE Min({3000, 1000 + 80 * rain})

Score(p) ==
  Bounded(10000 - CostOfSun(p.sun) - CostOfPercent(p.cloud, 62)
                - CostOfPercent(p.fog, 25) - CostOfRain(p.rain), 10000)

\* 3 is "Very good", 0 is "Poor".
Rating(score) ==
  CASE score >= 7800 -> 3
    [] score >= 5800 /\ score < 7800 -> 2
    [] score >= 3800 /\ score < 5800 -> 1
    [] OTHER -> 0

\* Worse is rated no better: with a higher sun, more cloud, fog or rain, where all
\* are forecast; and by day an hour is poor, whatever its weather.
WorseRatedNoBetter(p) ==
  /\ p.sun > -833 => Rating(Score(p)) = 0
  /\ None \notin {p.cloud, p.fog, p.rain} =>
       \A q \in [sun : Suns, cloud : Clouds, fog : Fogs, rain : Rains] :
         /\ q.sun >= p.sun /\ q.cloud >= p.cloud /\ q.fog >= p.fog /\ q.rain >= p.rain
         => Rating(Score(q)) <= Rating(Score(p))

(***************************************************************************)
(* EumetViewCloudProvider.  The provider announces its frames as an        *)
(* interval; the last MaxFrames of it are kept, and a load takes one.      *)
(***************************************************************************)
Announced == [start : 0 .. LastFrame, end : 0 .. LastFrame, step : 1 .. LastFrame]

\* _parse_time_dimension
Frames(dimension) ==
  LET count == Max({0, dimension.end - dimension.start}) \div dimension.step + 1
      times == {dimension.start + dimension.step * i : i \in Max({0, count - MaxFrames}) .. count - 1}
  IN {t \in times : t <= dimension.end}

\* _select_frame_time
SelectFrame(frames, requested) ==
  LET earlier == {t \in frames : t <= requested}
  IN CASE frames = {} -> None
       [] frames # {} /\ requested = None -> Max(frames)
       [] frames # {} /\ requested # None /\ earlier # {} -> Max(earlier)
       [] OTHER -> Min(frames)

\* The newest frames of the interval are kept, and the one that is taken is the
\* newest that was there at the time asked for, or else one of those kept; with no
\* time asked for it is the newest.
NewestFrameTaken(dimension, requested) ==
  LET every == {t \in dimension.start .. dimension.end : (t - dimension.start) % dimension.step = 0}
      frames == Frames(dimension)
      frame == SelectFrame(frames, requested)
  IN /\ frames = {t \in every : Cardinality({u \in every : u > t}) < MaxFrames}
     /\ frames # {} =>
          /\ frame \in frames
          /\ \A t \in frames :
               IF requested = None THEN t <= frame
               ELSE t <= requested => t <= frame /\ frame <= requested

(***************************************************************************)
(* WeatherMapProvider._radar_frame_at.  The provider lists its frames;     *)
(* those without a path or a time are passed over.                         *)
(***************************************************************************)
RadarLists == BoundedSeq([usable : BOOLEAN, time : 0 .. LastFrame], 2)

Away(x, y) == Max({x - y, y - x})

\* _radar_frames
RadarFrames(past) == SelectSeq(past, LAMBDA frame : frame.usable)

RadarFrameAt(past, requested) ==
  LET times == LET frames == RadarFrames(past) IN [i \in DOMAIN frames |-> frames[i].time]
      Nearest == FoldLeft(LAMBDA best, t : IF Away(t, requested) < Away(best, requested)
                                           THEN t ELSE best, times[1], times)
  IN CASE times = << >> -> None
       [] times # << >> /\ requested = None -> Last(times)
       [] OTHER -> IF Away(Nearest, requested) > Tolerance THEN None ELSE Nearest

\* The map has the radar of its time or none: no usable frame is nearer than the
\* one that is taken, and there is one whenever one is near enough.  With no time
\* asked for, any list with a usable frame gives one.
RadarOfItsTime(past, requested) ==
  LET frame == RadarFrameAt(past, requested)
      usable == {f \in ToSet(past) : f.usable}
      near == {f \in usable : Away(f.time, requested) <= Tolerance}
  IN IF requested = None
     THEN frame \in {f.time : f \in usable} \/ (frame = None /\ usable = {})
     ELSE /\ frame = None <=> near = {}
          /\ frame # None =>
               /\ [usable |-> TRUE, time |-> frame] \in near
               /\ \A f \in near : Away(frame, requested) <= Away(f.time, requested)

(***************************************************************************)
(* WeatherMapRenderer.render: the tiles of the map, radius tiles around    *)
(* that of the observer.  The world is a square of width tiles, closed in  *)
(* longitude; an observer beyond its latitudes is a tile above or below.   *)
(* A cell of the map is a row and a column, from 0; a tile is in y and x.  *)
(***************************************************************************)
Maps ==
  UNION {[width : {w}, x : 0 .. w - 1, y : -1 .. w, radius : 0 .. MaxRadius] : w \in Widths}

Cells(map) == (0 .. 2 * map.radius) \X (0 .. 2 * map.radius)

TileAt(map, row, column) ==
  [y |-> map.y - map.radius + row, x |-> (map.x - map.radius + column) % map.width]

Pasted(map) ==
  {cell \in Cells(map) : TileAt(map, cell[1], cell[2]).y \in 0 .. map.width - 1}

\* The observer's tile is in the middle; east of a tile is its eastern neighbour,
\* round the world, and below it the southern one; blank are the cells that the
\* world does not reach.
MapIsAround(map) ==
  LET r == map.radius
      Tile(cell) == TileAt(map, cell[1], cell[2])
  IN /\ Tile(<<r, r>>) = [y |-> map.y, x |-> map.x]
     /\ \A cell \in Cells(map) : Tile(cell).x \in 0 .. map.width - 1
     /\ \A i \in 0 .. 2 * r, j \in 1 .. 2 * r :
          /\ Tile(<<i, j>>) = [Tile(<<i, j - 1>>) EXCEPT
                                 !.x = IF @ = map.width - 1 THEN 0 ELSE @ + 1]
          /\ Tile(<<j, i>>) = [Tile(<<j - 1, i>>) EXCEPT !.y = @ + 1]
     /\ \A cell \in Cells(map) :
          cell \in Pasted(map) <=> cell[1] - r \in -map.y .. map.width - 1 - map.y

(***************************************************************************)
(* Stage20LiveSkyView: the satellites the view draws and those it labels.  *)
(* A satellite moves at a rate along its track, of which some points are   *)
(* dated.  Elevation and range, which part those that are equal otherwise, *)
(* are the place in the list here; the first in the list is the ISS.       *)
(***************************************************************************)
Iss == 1
StillTrack == [rate |-> 1, dates |-> <<0>>]
Motions == {StillTrack} \cup [rate : {1, 2}, dates : {<<0, 0, 2>>}]
Scenes == [1 .. Fleet -> [inView : BOOLEAN, candidate : BOOLEAN, sunlit : BOOLEAN, track : Motions]]

Lower(x, y) == \E k \in DOMAIN x : x[k] < y[k] /\ \A l \in 1 .. k - 1 : x[l] = y[l]
LastIf(condition) == IF condition THEN 1 ELSE 0

\* apparent_angular_speed_deg_s
ApparentSpeed(track) ==
  LET later == {i \in DOMAIN track.dates : track.dates[i] > track.dates[1]}
      Along(i) == track.rate * track.dates[i]
  IN IF later = {} THEN 0
     ELSE LET i == Min(later) IN (Along(i) - Along(1)) \div (track.dates[i] - track.dates[1])

\* _ideal_visual_candidate
IdealCandidate(scene, i) == i = Iss \/ scene[i].candidate

\* _rebuild_display_satellites
DisplaySatellites(scene, selected) ==
  LET inView == SelectSeq(Places(Fleet), LAMBDA i : scene[i].inView)
      key == [i \in 1 .. Fleet |->
                <<LastIf(i # Iss), LastIf(~IdealCandidate(scene, i)), LastIf(~scene[i].sunlit),
                  -ApparentSpeed(scene[i].track), i>>]
      sorted == SortSeq(inView, LAMBDA i, j : Lower(key[i], key[j]))
  IN IF selected \in 1 .. Fleet \ ToSet(sorted) THEN Append(sorted, selected) ELSE sorted

\* _priority_satellite_ids
PriorityIds(scene, shown, selected) ==
  LET fast == SortSeq(shown, LAMBDA i, j : Lower(<<-ApparentSpeed(scene[i].track), i>>,
                                                  <<-ApparentSpeed(scene[j].track), j>>))
  IN ToSet(SubSeq(fast, 1, Min({Len(fast), MaxFastLabels})))
       \cup {i \in ToSet(shown) : IdealCandidate(scene, i)} \cup {Iss, selected}

\* Every satellite in view is drawn, and the selected one wherever it is; the ISS
\* and those to look for come first and have their names, as does the selected one;
\* of the others the names go to the fastest.
SceneIsWhole(scene, selected) ==
  LET shown == DisplaySatellites(scene, selected)
      labelled == PriorityIds(scene, shown, selected)
      Speed(i) == IF scene[i].track = StillTrack THEN 0 ELSE scene[i].track.rate
      Faster(i) == {j \in ToSet(shown) : Speed(j) > Speed(i)}
      inView == {i \in 1 .. Fleet : scene[i].inView}
  IN /\ ToSet(shown) = inView \cup ({selected} \ {0})
     /\ Len(shown) = Cardinality(ToSet(shown))
     /\ Iss \in inView => shown[1] = Iss
     /\ \A i, j \in DOMAIN shown : i < j /\ shown[j] \in inView /\ scene[shown[j]].candidate
                                 => IdealCandidate(scene, shown[i])
     /\ \A i \in ToSet(shown) :
          /\ i = selected \/ IdealCandidate(scene, i) => i \in labelled
          /\ i \notin labelled =>
               Cardinality({j \in labelled \cap ToSet(shown) : Speed(j) >= Speed(i)}) >= MaxFastLabels
          /\ i \in labelled /\ i # selected /\ ~IdealCandidate(scene, i) =>
               Cardinality(Faster(i)) < MaxFastLabels

(***************************************************************************)
(* GlobalAirportProvider.nearby: the airports near a place, the larger     *)
(* before the smaller, then those with scheduled flights, then the nearer. *)
(* An airport's place in the list stands for its code.                     *)
(***************************************************************************)
Records == [1 .. AirportCount -> [size : 0 .. 2, scheduled : BOOLEAN, distance : 0 .. MostDistance + 1]]

\* _priority
Priority(records, i) ==
  <<records[i].size, LastIf(~records[i].scheduled), records[i].distance, i>>

Nearby(records, limit) ==
  LET within == SelectSeq(Places(AirportCount), LAMBDA i : records[i].distance <= MostDistance)
      sorted == SortSeq(within, LAMBDA i, j : Lower(Priority(records, i), Priority(records, j)))
  IN SubSeq(sorted, 1, Min({Len(sorted), Max({0, limit})}))

\* An airport within reach is left out only for as many others that are larger, or
\* have flights where it has none, or are nearer; all others are listed, once.
NearbyAreFirst(records, limit) ==
  LET listed == Nearby(records, limit)
      within == {i \in 1 .. AirportCount : records[i].distance <= MostDistance}
  IN /\ ToSet(listed) \subseteq within
     /\ Len(listed) = Cardinality(ToSet(listed))
     /\ Len(listed) = Min({Max({0, limit}), Cardinality(within)})
     /\ \A i \in within \ ToSet(listed), j \in ToSet(listed) :
          /\ records[j].size <= records[i].size
          /\ records[j].size = records[i].size =>
               /\ records[i].scheduled => records[j].scheduled
               /\ records[i].scheduled = records[j].scheduled =>
                    records[j].distance <= records[i].distance

(***************************************************************************)
(* calculate_horizon_profile.  Steps in quarters of a degree, distances in *)
(* quarters of a kilometre.  The angles of the terrain along a bearing are *)
(* given, nearest first.                                                   *)
(***************************************************************************)
Terrain == [angles : [1 .. 3 -> Heights], step : {0, 1, 7, 16, 40, 41}]
FullCircle == 1440

HighestAngle(angles) ==
  FoldLeft(LAMBDA highest, angle : IF angle > highest THEN angle ELSE highest, 0, angles)

Azimuths(asked) ==
  LET step == Max({1, Min({40, asked})})
  IN {k * step : k \in 0 .. (FullCircle - 1) \div step}

SampledDistances(far) ==
  LET near == SelectSeq(SampleDistances, LAMBDA distance : distance <= far)
  IN IF near = << >> \/ Last(near) < far THEN Append(near, far) ELSE near

\* The skyline has a point in every ten degrees all the way round, each as high as
\* the highest terrain and never below the horizon.
SkylineAllRound(angles, step) ==
  LET azimuths == Azimuths(step)
  IN /\ \A azimuth \in 0 .. FullCircle - 1 : \E k \in 0 .. 39 : azimuth - k \in azimuths
     /\ HighestAngle(angles) >= 0 /\ \A i \in DOMAIN angles : HighestAngle(angles) >= angles[i]
     /\ HighestAngle(angles) \in {0} \cup ToSet(angles)

\* The samples go out to the end, every one at most twice as far as the one
\* before: the list of distances carries that to 200 km.
SamplesReachOut(far) ==
  LET samples == SampledDistances(far)
  IN /\ Last(samples) = far
     /\ \A i \in 2 .. Len(samples) :
          samples[i - 1] < samples[i] /\ samples[i] <= 2 * samples[i - 1]

(***************************************************************************)
(* One calculation: what is asked for.                                     *)
(***************************************************************************)
Asked ==
  [elements : Elements, minimum : {0, 1}] \cup [first : Numbers, second : Numbers]
    \cup [events : EventLists] \cup [night : Nights]
    \cup [point : Points] \cup [dimension : Announced, requested : {None} \cup 0 .. LastFrame]
    \cup [past : RadarLists, requested : {None} \cup 0 .. LastFrame]
    \cup [map : Maps] \cup [scene : Scenes, selected : 0 .. Fleet]
    \cup [records : Records, limit : 0 .. 2] \cup [terrain : Terrain]
    \cup [far : 4 .. 2 * Last(SampleDistances)]

\* Each calculation gives what it is for.
CalculatedRightly(asked) ==
  /\ "elements" \in DOMAIN asked => TracksAreTheirOwn(asked.elements, asked.minimum)
  /\ "first" \in DOMAIN asked => MergedOnce(asked.first, asked.second)
  /\ "events" \in DOMAIN asked => PassesAreWhole(asked.events)
  /\ "night" \in DOMAIN asked => OneEvening(asked.night)
  /\ "point" \in DOMAIN asked => WorseRatedNoBetter(asked.point)
  /\ "dimension" \in DOMAIN asked => NewestFrameTaken(asked.dimension, asked.requested)
  /\ "past" \in DOMAIN asked => RadarOfItsTime(asked.past, asked.requested)
  /\ "map" \in DOMAIN asked => MapIsAround(asked.map)
  /\ "scene" \in DOMAIN asked => SceneIsWhole(asked.scene, asked.selected)
  /\ "records" \in DOMAIN asked => NearbyAreFirst(asked.records, asked.limit)
  /\ "terrain" \in DOMAIN asked => SkylineAllRound(asked.terrain.angles, asked.terrain.step)
  /\ "far" \in DOMAIN asked => SamplesReachOut(asked.far)
=============================================================================
