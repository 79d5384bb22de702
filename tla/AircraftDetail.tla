--------------------------- MODULE AircraftDetail ---------------------------
(***************************************************************************)
(* Selecting an aircraft in the final desktop window: the live view's       *)
(* selection (aircraft_hud_finder_view.py), the text about it with the      *)
(* route that is looked up by a thread (gui_stage20_clean.py,               *)
(* gui_stage20_realtime.py, gui_stage20_rc.py), and following it            *)
(* (gui_stage19.py).  The contacts come from the periodic refresh, through  *)
(* a filter; a contact that is filtered out or gone loses its selection,    *)
(* while its lookup goes on.  The text is written into the summary of the   *)
(* live view, which is also written to by others, and copied from there     *)
(* into the panel "Selected aircraft", which nothing but a change of place  *)
(* clears.                                                                  *)
(***************************************************************************)
EXTENDS Naturals

CONSTANT Planes      \* ICAO addresses

VARIABLES
  contacts,   \* NightAzimuthApp._aircraft_contacts
  inView,     \* the filtered contacts the live view holds
  pick,       \* LiveSkyView.selected_icao24
  detail,     \* [about, route, pending, live, panel]: _stage20_aircraft_detail_icao, the
              \* aircraft whose route is kept, _stage20_aircraft_route_pending, and the
              \* texts of live_detail_var and _aircraft_detail_var
  lookups,    \* route lookups under way: of an aircraft, of the current generation or not
  follow      \* "Follow selected"

vars == <<contacts, inView, pick, detail, lookups, follow>>

NoPlane == "no aircraft"

\* A text about an aircraft, with the route of one or none; about no aircraft in
\* particular; or about something else: a satellite, the live view as a whole.
Text(p, route) == [of |-> p, route |-> route]
Prompt == Text(NoPlane, NoPlane)
Elsewhere == Text("something else", NoPlane)

Superseded == {[l EXCEPT !.now = FALSE] : l \in lookups}

\* _refresh_selected_aircraft_detail, which every refresh of the panel ends with.
Refreshed(chosen, d) ==
  IF chosen = NoPlane THEN [d EXCEPT !.about = NoPlane, !.route = NoPlane, !.pending = FALSE]
  ELSE [d EXCEPT !.live = Text(chosen, IF d.about = chosen THEN d.route ELSE NoPlane)]

\* _copy_selected_aircraft_detail
Copied(d) == [d EXCEPT !.panel = d.live]

\* set_aircraft of the view, and the refresh of the panel that follows it.
Remaining(new) == IF pick \in new THEN pick ELSE NoPlane
SetAircraft(new) ==
  /\ inView' = new
  /\ pick' = Remaining(new)
  /\ detail' = Refreshed(Remaining(new), detail)

\* _apply_aircraft_snapshot with contacts, or an empty one with nothing to hold.
ContactsArrive(new, passing) ==
  /\ new # {} \/ contacts = {}
  /\ contacts' = new
  /\ SetAircraft(new \cap passing)
  /\ UNCHANGED <<lookups, follow>>

\* The clean window holds contacts over an empty snapshot; and a failed refresh.
ContactsHeld ==
  /\ detail' = Refreshed(pick, detail)
  /\ UNCHANGED <<contacts, inView, pick, lookups, follow>>

\* _on_aircraft_filter_changed
FilterChanged(passing) ==
  /\ follow' = FALSE
  /\ SetAircraft(contacts \cap passing)
  /\ UNCHANGED <<contacts, lookups>>

\* _on_location_changed
PlaceChosen ==
  /\ contacts' = {} /\ inView' = {} /\ pick' = NoPlane
  /\ follow' = FALSE
  /\ lookups' = Superseded
  /\ detail' = [Refreshed(NoPlane, detail) EXCEPT !.panel = Prompt]

\* _refresh_aircraft without a place.
PlaceGone ==
  /\ contacts' = {}
  /\ SetAircraft({})
  /\ UNCHANGED <<lookups, follow>>

\* _on_live_aircraft_selected: only a callsign can be looked up.
Selected(p) ==
  \E callsign \in BOOLEAN :
    /\ pick' = p
    /\ LET chosen == [detail EXCEPT !.about = p, !.route = NoPlane, !.pending = callsign]
       IN detail' = Copied(Refreshed(p, chosen))
    /\ lookups' = Superseded \cup (IF callsign THEN {[of |-> p, now |-> TRUE]} ELSE {})
    /\ UNCHANGED <<contacts, inView, follow>>

\* _select_aircraft of the view: a click on a symbol, the selected one included.
Click(p) == p \in inView /\ Selected(p)

\* _on_aircraft_table_selected: the table lists contacts of the view.
TableSelected(p) == p \in inView /\ p # pick /\ Selected(p)

\* _apply_aircraft_route down the chain of overrides: the last of them copies the
\* text, whatever it is, on a route of an older generation as well.
RouteArrives(l) ==
  /\ l \in lookups
  /\ lookups' = lookups \ {l}
  /\ LET found == [detail EXCEPT !.about = l.of, !.route = l.of, !.pending = FALSE,
                                 !.live = Text(l.of, l.of)]
     IN detail' = IF pick # l.of THEN detail
                  ELSE Refreshed(pick, Copied(IF l.now THEN found ELSE detail))
  /\ UNCHANGED <<contacts, inView, pick, follow>>

\* _on_aircraft_follow_changed centres on the selected aircraft, and so refreshes.
FollowSet(on) ==
  /\ follow' = (on /\ pick # NoPlane)
  /\ detail' = IF follow' THEN Refreshed(pick, detail) ELSE detail
  /\ UNCHANGED <<contacts, inView, pick, lookups>>

\* _on_aircraft_layer_changed
LayerChanged(on) ==
  /\ follow' = (on /\ follow)
  /\ detail' = Refreshed(pick, detail)
  /\ UNCHANGED <<contacts, inView, pick, lookups>>

\* _on_live_satellite_selected, and _update_live_view_summary when no aircraft is
\* selected.
OtherSaid ==
  /\ detail' = [detail EXCEPT !.live = Elsewhere]
  /\ UNCHANGED <<contacts, inView, pick, lookups, follow>>

\* _aircraft_panel_tick
PanelTick ==
  /\ follow' = (follow /\ pick # NoPlane)
  /\ detail' = Refreshed(pick, detail)
  /\ UNCHANGED <<contacts, inView, pick, lookups>>

Lookup == [of : Planes, now : BOOLEAN]

Init ==
  /\ contacts = {} /\ inView = {} /\ pick = NoPlane
  /\ detail = [about |-> NoPlane, route |-> NoPlane, pending |-> FALSE, live |-> Elsewhere,
               panel |-> Prompt]
  /\ lookups = {} /\ follow = FALSE

Next ==
  \/ \E new, passing \in SUBSET Planes : ContactsArrive(new, passing)
  \/ \E passing \in SUBSET Planes : FilterChanged(passing)
  \/ ContactsHeld \/ PlaceChosen \/ PlaceGone \/ OtherSaid \/ PanelTick
  \/ \E p \in Planes : Click(p) \/ TableSelected(p)
  \/ \E l \in Lookup : RouteArrives(l)
  \/ \E on \in BOOLEAN : FollowSet(on) \/ LayerChanged(on)

Spec == Init /\ [][Next]_vars

(***************************************************************************)
(* Properties.                                                             *)
(***************************************************************************)
\* The route that is kept is that of the selected aircraft, whatever vanished, came
\* back or was selected again while lookups were under way; and "looking up route"
\* is said only while the lookup that will end it is under way.
RouteOfSelected ==
  /\ detail.about = pick
  /\ detail.route \in {NoPlane, pick}
  /\ detail.pending => detail.route = NoPlane /\ [of |-> pick, now |-> TRUE] \in lookups

\* No text gives one aircraft the route of another; and while one is selected
\* neither the summary nor the panel is about another one, although the panel is
\* cleared by no deselection and is copied into on late routes too.  (It may then
\* repeat the summary of a satellite.)
TextOfSelected ==
  /\ \A text \in {detail.live, detail.panel} :
       /\ text.route \in {NoPlane, text.of}
       /\ pick # NoPlane => text.of \in {pick, Elsewhere.of}

DetailInv ==
  /\ DOMAIN detail = {"about", "route", "pending", "live", "panel"}
  /\ detail.pending \in BOOLEAN
  /\ \A l \in lookups : DOMAIN l = {"of", "now"} /\ l.now \in BOOLEAN
  /\ RouteOfSelected /\ TextOfSelected
=============================================================================
