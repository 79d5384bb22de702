------------------------- MODULE SatelliteSelection -------------------------
(***************************************************************************)
(* Selecting a satellite in the final desktop window                       *)
(* (gui_stage20_realtime.py).  The selection is held twice: by the live     *)
(* view, which drops it when a sky without that satellite arrives, and by   *)
(* the application, which does not.  A click starts a lookup for the        *)
(* information drawer and a new track prediction; the arrival of tracks     *)
(* calls the same handler as a click.                                       *)
(***************************************************************************)
EXTENDS Naturals

CONSTANT Sats      \* NORAD numbers

VARIABLES
  sky,      \* NightAzimuthApp._sky_satellites
  drawn,    \* the satellites the live view holds
  sel,      \* [chosen, marked, about, loaded, lookups]: the application's and the view's
            \* selection, what the drawer is about, and the lookups under way
  tracks    \* [running, pending]: predictions of the "current" or an "old" generation

vars == <<sky, drawn, sel, tracks>>

NoSat == "no satellite"
Ages == {"none", "old", "current"}

\* next_satellite_selection
Toggled(current, clicked) == IF current = clicked THEN NoSat ELSE clicked

\* A new _satellite_info_generation: the lookups under way no longer count.
Superseded(lookups) == {[l EXCEPT !.now = FALSE] : l \in lookups}

\* Slip: the lookups under way still count.
DeselectedSameGeneration(s) ==
  [chosen |-> NoSat, marked |-> NoSat, about |-> NoSat, loaded |-> FALSE, lookups |-> s.lookups]

\* _deselect_live_satellite
Deselected(s) ==
  [chosen |-> NoSat, marked |-> NoSat, about |-> NoSat, loaded |-> FALSE,
   lookups |-> Superseded(s.lookups)]

\* _on_live_satellite_selected
Handled(s, sat) ==
  IF Toggled(s.chosen, sat) = NoSat THEN Deselected(s)
  ELSE [chosen |-> sat, marked |-> sat, about |-> sat, loaded |-> FALSE,
        lookups |-> Superseded(s.lookups) \cup {[about |-> sat, now |-> TRUE]}]

\* _start_track_prediction of the current generation: it does nothing when the
\* view offers no candidates.
Predicting(t) ==
  {t} \cup (IF t.running = "none" THEN {[running |-> "current", pending |-> "none"]}
            ELSE {[t EXCEPT !.pending = "current"]})

\* _start_pending_track_prediction, after the running one has ended.
Released(t) ==
  IF t.running # "none" THEN t
  ELSE [running |-> IF t.pending = "current" THEN "current" ELSE "none", pending |-> "none"]

Older(a) == IF a = "none" THEN a ELSE "old"
Outdated(t) == [running |-> Older(t.running), pending |-> Older(t.pending)]

\* LiveSkyView._select: a click on a satellite of the view.
Click(sat) ==
  /\ sat \in drawn
  /\ sel' = Handled(sel, sat)
  /\ tracks' \in Predicting(tracks)
  /\ UNCHANGED <<sky, drawn>>

\* set_satellites of the real-time view.
Marked(new) == IF sel.marked \in new THEN sel ELSE [sel EXCEPT !.marked = NoSat]

\* The view holds what it draws over a populated sky without tracks, as long as
\* some of it is within the view.
Held(new, sight) == new # {} /\ drawn # {} /\ sight

\* A refresh is applied.  Stage 20 holds an empty one over a populated sky.
SkyApplied(new, sight) ==
  /\ new # {} \/ sky = {}
  /\ sky' = new
  /\ IF Held(new, sight) THEN UNCHANGED <<drawn, sel>>
     ELSE drawn' = new /\ sel' = Marked(new)
  /\ tracks' \in IF new = {} THEN {Outdated(tracks)} ELSE Predicting(Outdated(tracks))

\* _apply_projected_tracks: the current sky gets its tracks, if any was found for
\* it, and the satellite marked then is handed to the selection handler once more.
TracksApplied(found, sight) ==
  /\ tracks.running = "current"
  /\ LET idle == [tracks EXCEPT !.running = "none"]
         held == ~found /\ Held(sky, sight)
     IN /\ drawn' = IF held THEN drawn ELSE sky
        /\ IF sel.marked \in sky
             THEN /\ sel' = Handled(sel, sel.marked)
                  /\ \E t \in Predicting(idle) : tracks' = Released(t)
             ELSE sel' = (IF held THEN sel ELSE Marked(sky)) /\ tracks' = Released(idle)
  /\ UNCHANGED sky

\* _projected_track_failed, and tracks of an older generation.
TracksDropped ==
  /\ tracks.running # "none"
  /\ tracks' = Released([tracks EXCEPT !.running = "none"])
  /\ UNCHANGED <<sky, drawn, sel>>

\* _apply_satellite_information
InfoArrives(l) ==
  /\ l \in sel.lookups
  /\ LET rest == [sel EXCEPT !.lookups = @ \ {l}]
     IN sel' = IF l.now /\ sel.marked = l.about
                 THEN [rest EXCEPT !.about = l.about, !.loaded = TRUE] ELSE rest
  /\ UNCHANGED <<sky, drawn, tracks>>

Init ==
  /\ sky \in SUBSET Sats
  /\ drawn = sky
  /\ sel = [chosen |-> NoSat, marked |-> NoSat, about |-> NoSat, loaded |-> FALSE, lookups |-> {}]
  /\ tracks = [running |-> "none", pending |-> "none"]

Lookup == [about : Sats, now : BOOLEAN]

Next ==
  \/ \E s \in Sats : Click(s)
  \/ \E new \in SUBSET Sats, sight \in BOOLEAN : SkyApplied(new, sight)
  \/ \E found, sight \in BOOLEAN : TracksApplied(found, sight)
  \/ TracksDropped
  \/ \E l \in Lookup : InfoArrives(l)

\* A lookup ends: both of its requests have timeouts.
Spec == Init /\ [][Next]_vars /\ WF_vars(\E l \in Lookup : InfoArrives(l))

(***************************************************************************)
(* Properties.                                                             *)
(***************************************************************************)
\* The drawer never shows one satellite's information as another's: it is about
\* the application's selection, the view marks that one or none, and what a
\* lookup of an earlier selection brings is dropped even if the same satellite
\* was selected, deselected and selected again meanwhile.
DrawerOfSelection ==
  /\ sel.about = sel.chosen
  /\ sel.marked \in {NoSat, sel.chosen}
  /\ \A l \in sel.lookups : l.now => l.about = sel.chosen

\* The user's guide: clicking the selected object again deselects it.  So a
\* selected satellite that is still in the sky loses its selection only by a
\* click.
DeselectedByClick ==
  [][sel.chosen # NoSat /\ sel.chosen \in sky' /\ sel'.chosen = NoSat
       => Click(sel.chosen)]_vars

\* What the drawer's property rests on.
SelectionInv ==
  /\ DOMAIN sel = {"chosen", "marked", "about", "loaded", "lookups"}
  /\ \A l \in sel.lookups : DOMAIN l = {"about", "now"} /\ l.now \in BOOLEAN
  /\ DrawerOfSelection
=============================================================================
