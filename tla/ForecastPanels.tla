--------------------------- MODULE ForecastPanels ---------------------------
(***************************************************************************)
(* The desktop's forecast panels: darkness and twilight (gui_stage14.py),   *)
(* the point weather (gui_stage15.py, gui_stage16_polish.py), and the two   *)
(* planners computed from a weather snapshot, for a day (gui_stage16.py)    *)
(* and for a week (gui_stage16_animation.py).  All follow one protocol: a   *)
(* refresh starts a new generation and a thread, and a result counts only   *)
(* if it is of the current generation and of the selected place.  Only      *)
(* whether a generation is the current one matters, so a load carries that. *)
(* The panels do not read each other's snapshots (but for the time zone of  *)
(* their labels), nor the planners each other's rows, so one behaviour      *)
(* follows the darkness panel, or the weather panel with either planner.    *)
(***************************************************************************)
EXTENDS Places

VARIABLES
  kind,    \* "darkness", or "weather" with a planner that follows it
  panel,   \* [shown, timer, loads] of the darkness or of the weather panel
  plan     \* [rows, loads] of the planner; rows are of a place with the weather of one

vars == <<profiles, selected, saved, kind, panel, plan>>

NoRows == [at |-> NoPlace, of |-> NoPlace]

\* A new generation: no load under way is the current one.  Of the outdated
\* ones, which all end without effect, the last is followed.
Current(loads) == {l \in loads : l.now}
Superseded(loads) == {[l EXCEPT !.now = FALSE] : l \in Current(loads)}

\* _refresh_weather and _refresh_observing_conditions: without a place the
\* generation stays.
Refreshed(ps, n) ==
  LET here == Find(ps, n)
  IN IF here = NoPlace THEN [panel EXCEPT !.shown = NoPlace, !.timer = FALSE]
     ELSE [panel EXCEPT !.timer = TRUE, !.loads = Superseded(@) \cup {[at |-> here, now |-> TRUE]}]

\* _refresh_observing_planner and _refresh_seven_day_planner, with the snapshot
\* of a place.
Planned(of) ==
  IF Here = NoPlace THEN [plan EXCEPT !.rows = NoRows]
  ELSE [plan EXCEPT !.loads = Superseded(@) \cup {[at |-> Here, of |-> of, now |-> TRUE]}]

\* _refresh_location_selector and _on_location_changed.  "Use this location"
\* saves first and so refreshes twice: the first load is outdated at once, or the
\* only one.
Moved == panel' = Refreshed(profiles', selected') /\ UNCHANGED <<kind, plan>>
ChangeHere == Changed /\ Moved
ChangeUntold ==
  /\ \/ ChangedUntold /\ UNCHANGED panel
     \/ \E row \in Rows, p \in Profile :
          Use(row, p, FALSE) /\ panel' = Refreshed(profiles', Between(row, p))
  /\ UNCHANGED <<kind, plan>>

\* OBSERVING_REFRESH_MS and WEATHER_REFRESH_MS have passed, or the button.
RefreshAgain ==
  /\ panel.timer
  /\ panel' = Refreshed(profiles, selected)
  /\ UNCHANGED <<places, kind, plan>>

\* A load that counts for nothing any more.
Outdated(l) == ~l.now \/ l.at # Here

Arrived(l) == [panel EXCEPT !.loads = @ \ {l}]

\* _apply_observing_conditions
DarknessApplied(l) ==
  /\ kind = "darkness" /\ l \in panel.loads
  /\ panel' = IF Outdated(l) THEN Arrived(l) ELSE [Arrived(l) EXCEPT !.shown = l.at]
  /\ UNCHANGED <<places, kind, plan>>

\* _apply_weather down the chain: the planners are started whenever the
\* generation is current, whatever became of the place.
WeatherApplied(l) ==
  /\ kind # "darkness" /\ l \in panel.loads
  /\ panel' = IF Outdated(l) THEN Arrived(l) ELSE [Arrived(l) EXCEPT !.shown = l.at]
  /\ plan' = IF l.now THEN Planned(l.at) ELSE plan
  /\ UNCHANGED <<places, kind>>

\* _observing_conditions_failed, _weather_failed_with_reason
PanelFailed(l) ==
  /\ l \in panel.loads
  /\ panel' = IF l.now THEN [Arrived(l) EXCEPT !.shown = NoPlace] ELSE Arrived(l)
  /\ UNCHANGED <<places, kind, plan>>

Calculated(l) == [plan EXCEPT !.loads = @ \ {l}]

\* _apply_seven_day_planner, and _apply_observing_planner alike
RowsCalculated(l) ==
  /\ l \in plan.loads
  /\ plan' = IF Outdated(l) THEN Calculated(l)
             ELSE [Calculated(l) EXCEPT !.rows = [at |-> l.at, of |-> l.of]]
  /\ UNCHANGED <<places, kind, panel>>

\* _seven_day_planner_failed, _planner_failed
CalculationFails(l) ==
  /\ l \in plan.loads
  /\ plan' = IF l.now THEN [Calculated(l) EXCEPT !.rows = NoRows] ELSE Calculated(l)
  /\ UNCHANGED <<places, kind, panel>>

Load == [at : Profile, now : BOOLEAN]
RowLoad == [at : Profile, of : Profile, now : BOOLEAN]

\* Building the window refreshes the panels once.
Init ==
  /\ \E p \in Profile :
       /\ profiles = <<p>> /\ selected = p.name /\ saved = "always"
       /\ panel = [shown |-> NoPlace, timer |-> TRUE, loads |-> {[at |-> p, now |-> TRUE]}]
  /\ kind \in {"darkness", "weather"}
  /\ plan = [rows |-> NoRows, loads |-> {}]

PanelEnds == \E l \in Load : DarknessApplied(l) \/ WeatherApplied(l) \/ PanelFailed(l)
PlanEnds == \E l \in RowLoad : RowsCalculated(l) \/ CalculationFails(l)
Next == ChangeHere \/ ChangeUntold \/ RefreshAgain \/ PanelEnds \/ PlanEnds

Spec == Init /\ [][Next]_vars

(***************************************************************************)
(* Properties.                                                             *)
(***************************************************************************)
\* The rows of a planner combine a place's darkness with a weather snapshot:
\* they are never computed from the weather of another place, although a
\* snapshot that was not accepted is still handed to the planners.  A change
\* whose save fails is the exception: nothing then outdates the weather load,
\* and its planner is computed for the new place.
PlannerCoherent ==
  saved = "always" => plan.rows.of = plan.rows.at /\ \A l \in plan.loads : l.of = l.at

\* The rows keep up with the panel they were computed from: when the weather of
\* the selected place is shown and nothing is under way, the planner shows that
\* place's rows, or says it has none.  Until then, and when no weather comes for
\* the new place, it goes on showing the rows of the place before.
RowsFollow ==
  Told /\ kind # "darkness" /\ Here # NoPlace /\ panel.shown = Here
    /\ Current(panel.loads) = {} /\ Current(plan.loads) = {}
      => plan.rows \in {NoRows, [at |-> Here, of |-> Here]}

\* As long as a place is selected its panel is refreshed, whatever was dropped,
\* deleted or failed meanwhile; and a panel that has nothing under way for the
\* selected place shows that place, or says it has nothing.
PanelFollowsPlace ==
  Told =>
    /\ Here # NoPlace => panel.timer
    /\ Current(panel.loads) = {} => panel.shown \in {NoPlace, Here}

\* What these rest on: the load that counts is of the selected place, and so is
\* the calculation that counts once it was started from that load.
ForecastInv ==
  /\ DOMAIN panel = {"shown", "timer", "loads"} /\ panel.timer \in BOOLEAN
  /\ DOMAIN plan = {"rows", "loads"}
  /\ \A l \in panel.loads : DOMAIN l = {"at", "now"} /\ l.now \in BOOLEAN
  /\ \A l \in plan.loads : DOMAIN l = {"at", "of", "now"} /\ l.now \in BOOLEAN
  /\ Told => \A l \in Current(panel.loads) : l.at = Here \/ Here = NoPlace
  /\ Told /\ Here = NoPlace => panel.shown = NoPlace
  /\ Told /\ kind # "darkness" /\ Here # NoPlace /\ panel.shown = Here /\ Current(panel.loads) = {}
       => \A l \in Current(plan.loads) : l.at = Here /\ l.of = Here
  /\ PlannerCoherent /\ RowsFollow /\ PanelFollowsPlace
=============================================================================
