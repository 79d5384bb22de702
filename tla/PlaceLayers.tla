---------------------------- MODULE PlaceLayers ----------------------------
(***************************************************************************)
(* The two layers of the desktop's live view that are computed once for a  *)
(* place: the star field (gui_stage7.py) and the terrain horizon           *)
(* (gui_stage12.py).  Each is loaded by one worker thread at a time.  A    *)
(* request made meanwhile leaves only the NAME of its profile behind; a    *)
(* result carries the whole profile it was computed for, and is shown only *)
(* if that is still the selected one.  The two differ in who asks: stars   *)
(* are asked for when satellites arrive, terrain on every change of place, *)
(* and in what a failure leaves: terrain remembers it, stars do not.  The  *)
(* horizon is kept by the application; its handlers draw it in a view of   *)
(* stage 12 only, which the final window's is not.                         *)
(***************************************************************************)
EXTENDS Places

VARIABLES
  stars,     \* [busy, pending, shown, fresh] of the star field
  terrain    \* [busy, pending, done, horizon, flight] of the terrain horizon: done is
             \* _terrain_location_key, horizon the place of _terrain_horizon

vars == <<profiles, selected, saved, stars, terrain>>

NoStars == [busy |-> FALSE, pending |-> NoName, flight |-> {}, shown |-> NoPlace,
            fresh |-> FALSE]
NoTerrain == [busy |-> FALSE, pending |-> NoName, flight |-> {}, done |-> NoPlace,
              horizon |-> NoPlace]

\* _ensure_star_field: nothing to do while a field of this place is younger
\* than 60 s, and one thread at a time.
EnsureStars(s, ps, n, force) ==
  IF Find(ps, n) = NoPlace \/ (~force /\ s.shown = Find(ps, n) /\ s.fresh) THEN s
  ELSE IF s.busy THEN [s EXCEPT !.pending = n]
  ELSE [s EXCEPT !.busy = TRUE, !.pending = NoName, !.flight = {Find(ps, n)}]

\* _invalidate_stale_star_field
DropStars(s, ps, n) ==
  IF s.shown = Find(ps, n) THEN s ELSE [s EXCEPT !.shown = NoPlace, !.fresh = FALSE]

\* _start_pending_star_field
PendingStars(s, ps, n) ==
  LET idle == [s EXCEPT !.pending = NoName]
  IN IF s.pending # NoName /\ s.pending = n THEN EnsureStars(idle, ps, n, TRUE) ELSE idle

\* _ensure_terrain_horizon
EnsureTerrain(t, ps, n, force) ==
  IF Find(ps, n) = NoPlace \/ (~force /\ t.done = Find(ps, n)) THEN t
  ELSE IF t.busy THEN [t EXCEPT !.pending = n]
  ELSE [t EXCEPT !.busy = TRUE, !.pending = NoName, !.flight = {Find(ps, n)}]

\* _invalidate_stale_terrain_horizon
DropTerrain(t, ps, n) ==
  IF t.done = Find(ps, n) THEN t ELSE [t EXCEPT !.done = NoPlace, !.horizon = NoPlace]

\* Slip: the place asked for meanwhile is dropped.
PendingForgotten(t, ps, n) ==
  [t EXCEPT !.pending = NoName]

\* _start_pending_terrain_horizon
PendingTerrain(t, ps, n) ==
  LET idle == [t EXCEPT !.pending = NoName]
  IN IF t.pending # NoName /\ t.pending = n THEN EnsureTerrain(idle, ps, n, TRUE) ELSE idle

\* What _refresh_location_selector and _on_location_changed make of a change.
TerrainMoved(t, ps, n) == EnsureTerrain(DropTerrain(t, ps, n), ps, n, FALSE)

Moved ==
  /\ stars' = DropStars(stars, profiles', selected')
  /\ terrain' = TerrainMoved(terrain, profiles', selected')

ChangeHere == Event(TRUE) /\ Moved
ChangeUntold == ChangedUntold /\ UNCHANGED <<stars, terrain>>

\* _use_profile saves first, so the layers see both changes one after the other,
\* or only the first.
UseHere(ok) ==
  \E row \in Rows, p \in Profile :
    /\ Use(row, p, ok)
    /\ LET first == DropStars(stars, profiles', Between(row, p))
       IN stars' = IF ok THEN DropStars(first, profiles', selected') ELSE first
    /\ LET first == TerrainMoved(terrain, profiles', Between(row, p))
       IN terrain' = IF ok THEN TerrainMoved(first, profiles', selected') ELSE first

\* _on_star_layer_changed
ToggleStars ==
  /\ stars' = EnsureStars(stars, profiles, selected, FALSE)
  /\ UNCHANGED <<places, terrain>>

\* Satellites of the selected profile arrived: _apply_tracking_data asks for
\* both layers.
SkyApplied ==
  /\ Here # NoPlace
  /\ stars' = EnsureStars(stars, profiles, selected, FALSE)
  /\ terrain' = EnsureTerrain(terrain, profiles, selected, FALSE)
  /\ UNCHANGED places

StarsAge == stars.fresh /\ stars' = [stars EXCEPT !.fresh = FALSE] /\ UNCHANGED <<places, terrain>>

\* Slip: the result is recognised by its name.
StarsOfName(ok) ==
  \E p \in stars.flight :
    LET idle == [stars EXCEPT !.busy = FALSE, !.flight = {}]
        kept == IF ok /\ p.name = selected THEN [idle EXCEPT !.shown = p, !.fresh = TRUE] ELSE idle
    IN /\ stars' = PendingStars(kept, profiles, selected)
       /\ UNCHANGED <<places, terrain>>

\* _apply_star_field (ok) and _star_field_failed.
StarsLoaded(ok) ==
  \E p \in stars.flight :
    LET idle == [stars EXCEPT !.busy = FALSE, !.flight = {}]
        kept == IF ok /\ p = Here THEN [idle EXCEPT !.shown = p, !.fresh = TRUE] ELSE idle
    IN /\ stars' = PendingStars(kept, profiles, selected)
       /\ UNCHANGED <<places, terrain>>

\* _apply_terrain_horizon (ok) and _terrain_horizon_failed.
TerrainLoaded(ok) ==
  \E p \in terrain.flight :
    LET idle == [terrain EXCEPT !.busy = FALSE, !.flight = {}]
        kept == IF p = Here
                  THEN [idle EXCEPT !.done = p, !.horizon = IF ok THEN p ELSE NoPlace] ELSE idle
    IN /\ terrain' = PendingTerrain(kept, profiles, selected)
       /\ UNCHANGED <<places, stars>>

\* A terrain pack was imported: _terrain_cache_changed.
PackImported ==
  /\ LET cleared == [terrain EXCEPT !.done = NoPlace, !.horizon = NoPlace]
     IN terrain' = EnsureTerrain(cleared, profiles, selected, TRUE)
  /\ UNCHANGED <<places, stars>>

Init ==
  /\ \E p \in Profile : profiles = <<p>> /\ selected = p.name /\ saved = "always"
  /\ stars = EnsureStars(NoStars, profiles, selected, FALSE)
  /\ terrain = TerrainMoved(NoTerrain, profiles, selected)

Change == ChangeHere \/ ChangeUntold \/ \E ok \in BOOLEAN : UseHere(ok)
Arrive == \E ok \in BOOLEAN : StarsLoaded(ok) \/ TerrainLoaded(ok)
Next == Change \/ ToggleStars \/ SkyApplied \/ StarsAge \/ PackImported \/ Arrive

\* A worker thread ends, and Tk runs what it posted.
Fairness == WF_vars(Arrive)

Spec == Init /\ [][Next]_vars /\ Fairness

(***************************************************************************)
(* Properties.                                                             *)
(***************************************************************************)

\* The stars that are drawn and the horizon that is kept were computed for the
\* place that is selected now, coordinates and all, whatever was edited, chosen
\* or deleted while the threads worked, once the last change has been saved: a
\* successful one makes good what failing ones before it left behind.
LayersOfPlace ==
  Told => stars.shown \in {NoPlace, Here} /\ terrain.horizon \in {NoPlace, Here}

\* A change of place is never lost on the terrain: if its horizon is neither
\* computed nor known to be unavailable, a thread is at work for it, or one is
\* at work whose end starts it (gui_stage12.py, the pending name).
TerrainUnderWay ==
  Told /\ Here # NoPlace /\ terrain.done # Here =>
    terrain.busy /\ (Here \in terrain.flight \/ terrain.pending = selected)

(***************************************************************************)
(* What these properties rest on.                                          *)
(***************************************************************************)
LayersInv ==
  /\ PlacesInv
  /\ DOMAIN stars = {"busy", "pending", "flight", "shown", "fresh"}
  /\ DOMAIN terrain = {"busy", "pending", "flight", "done", "horizon"} /\ terrain.busy \in BOOLEAN
  /\ \A p, q \in terrain.flight : p = q
  /\ terrain.horizon \in {NoPlace, terrain.done}
  /\ Told => terrain.done \in {NoPlace, Here}
  /\ LayersOfPlace /\ TerrainUnderWay
=============================================================================
