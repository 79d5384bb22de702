----------------------------- MODULE SkyRefresh -----------------------------
(***************************************************************************)
(* The desktop's satellite refresh: a periodic load of the positions above *)
(* the horizon (gui.py), the short track prediction that follows each one  *)
(* (gui_stage7.py, gui_stage20_realtime.py), the rule that an empty refresh *)
(* keeps the last good sky (gui_stage20.py) and the rule that the view     *)
(* keeps the old satellites while none of the new ones has a track         *)
(* (stage20_realtime_satellite_view.py).  What is predicted are the        *)
(* satellites in the view, so the old ones; after a change of place some   *)
(* of them may have set.  A load is recognised by the NAME of its profile, *)
(* so the module keeps the place a sky was computed for next to it.        *)
(***************************************************************************)
EXTENDS Places, FiniteSets

CONSTANTS
  MaxChanges,     \* bound: changes of place, a stable place follows
  MaxRefreshes    \* bound: generations kept apart

VARIABLES
  sky,      \* [busy, timer, flight, shown, some]: _refresh_in_progress, the timer, the
            \* place in flight, the place of _sky_satellites, whether it has any
  tracks,   \* [gen, busy, pending, flight]: _track_generation and the prediction thread
  view,     \* the place whose satellites the live view draws, or NoPlace
  changes   \* changes of place made so far

vars == <<profiles, selected, saved, sky, tracks, view, changes>>

NoTrack == [place |-> NoPlace, gen |-> 0]

\* Generations are compared for equality only, and at most two predictions
\* (one running, one pending) hold one: counting them modulo the bound keeps
\* different ones apart.
NextGen(g) == (g + 1) % (MaxRefreshes + 3)

\* NightAzimuthApp.refresh_data
RefreshData(s, ps, n) ==
  IF s.busy \/ Find(ps, n) = NoPlace THEN s
  ELSE [s EXCEPT !.busy = TRUE, !.timer = FALSE, !.flight = {Find(ps, n)}]

\* _start_track_prediction, with candidates in the current view or without.
StartTracks(t, ps, req, candidates) ==
  IF ~candidates \/ Find(ps, req.place.name) = NoPlace THEN t
  ELSE IF t.busy THEN [t EXCEPT !.pending = req]
  ELSE [t EXCEPT !.busy = TRUE, !.pending = NoTrack,
                 !.flight = {[req EXCEPT !.place = Find(ps, req.place.name)]}]

\* _start_pending_track_prediction
PendingTracks(t, ps, n, candidates) ==
  LET idle == [t EXCEPT !.pending = NoTrack]
  IN IF t.pending # NoTrack /\ t.pending.place.name = n /\ t.pending.gen = t.gen
       THEN StartTracks(idle, ps, t.pending, candidates) ELSE idle

\* set_satellites of the live view: the old ones stay as long as no new one has
\* a track and some of them are within the view.
Draw(v, place, some, tracked, sight) ==
  IF some /\ ~tracked /\ v # NoPlace /\ sight THEN v ELSE IF some THEN place ELSE NoPlace

\* Which handlers call refresh_data: all but
\* "Save location", and none whose write fails.
ChooseSky ==
  /\ \E n \in Names : Choose(n, TRUE)
  /\ sky' = RefreshData(sky, profiles', selected')
SaveSky == (\E row \in Rows, p \in Profile : Save(row, p, TRUE)) /\ UNCHANGED sky
UseSky ==
  /\ \E row \in Rows, p \in Profile : Use(row, p, TRUE)
  /\ sky' = RefreshData(sky, profiles', selected')
DeleteSky ==
  /\ \E row \in Rows : Delete(row, TRUE)
  /\ sky' = RefreshData(sky, profiles', selected')
SkyUntold ==
  /\ ChangedUntold \/ \E row \in Rows, p \in Profile : Use(row, p, FALSE)
  /\ UNCHANGED sky

Change ==
  /\ changes < MaxChanges
  /\ changes' = changes + 1
  /\ ChooseSky \/ SaveSky \/ UseSky \/ DeleteSky \/ SkyUntold
  /\ UNCHANGED <<tracks, view>>

\* The refresh button, and the timer of _schedule_auto_refresh.
RefreshPressed ==
  /\ sky' = RefreshData(sky, profiles, selected)
  /\ UNCHANGED <<places, tracks, view, changes>>
TimerFires ==
  /\ sky.timer
  /\ sky' = RefreshData([sky EXCEPT !.timer = FALSE], profiles, selected)
  /\ UNCHANGED <<places, tracks, view, changes>>

Landed == [sky EXCEPT !.busy = FALSE, !.flight = {}]

\* _apply_tracking_data for a profile that is no longer the selected one.
SkyOfAnother ==
  \E p \in sky.flight :
    /\ p.name # selected
    /\ sky' = RefreshData(Landed, profiles, selected)
    /\ UNCHANGED <<places, tracks, view, changes>>

\* Stage 20: an empty refresh over a populated sky is not applied.
SkyHeld ==
  \E p \in sky.flight :
    /\ p.name = selected /\ sky.some
    /\ sky' = [Landed EXCEPT !.timer = TRUE]
    /\ UNCHANGED <<places, tracks, view, changes>>

\* _apply_tracking_data, down the chain of overrides.
SkyApplied(some, sight, candidates) ==
  \E p \in sky.flight :
    /\ p.name = selected
    /\ some \/ ~sky.some
    /\ sky' = [Landed EXCEPT !.shown = p, !.some = some, !.timer = TRUE]
    /\ view' = Draw(view, p, some, FALSE, sight)
    /\ LET next == [tracks EXCEPT !.gen = NextGen(@)]
       IN tracks' = StartTracks(next, profiles, [place |-> p, gen |-> next.gen], some /\ candidates)
    /\ UNCHANGED <<places, changes>>

\* Slip: the error is shown and no timer is set.
SkyFailedQuietly ==
  /\ sky.flight # {}
  /\ sky' = Landed
  /\ UNCHANGED <<places, tracks, view, changes>>

\* _show_refresh_error
SkyFailed ==
  /\ sky.flight # {}
  /\ sky' = [Landed EXCEPT !.timer = TRUE]
  /\ UNCHANGED <<places, tracks, view, changes>>

\* A click in the live view or a deselection asks for tracks of the sky shown.
TracksAsked(candidates) ==
  /\ sky.some /\ selected # NoName
  /\ tracks' = StartTracks(tracks, profiles, [place |-> Here, gen |-> tracks.gen], candidates)
  /\ UNCHANGED <<places, sky, view, changes>>

Predicted(candidates) ==
  PendingTracks([tracks EXCEPT !.busy = FALSE, !.flight = {}], profiles, selected, candidates)

\* _apply_projected_tracks: the current satellites get the tracks that came.  One
\* of them has a track if one of those that were in the view is still up and
\* still in the sky, or the ISS is, or the selected one ...
TracksShown(found, sight, candidates) ==
  \E r \in tracks.flight :
    /\ r.place.name = selected /\ r.gen = tracks.gen
    /\ tracks' = Predicted(candidates)
    /\ view' = Draw(view, sky.shown, sky.some, found, sight)
    /\ UNCHANGED <<places, sky, changes>>

\* Slip: an early return before the flag is reset.
OutdatedStaysBusy(candidates) ==
  \E r \in tracks.flight :
    /\ r.place.name # selected \/ r.gen # tracks.gen
    /\ tracks' = [tracks EXCEPT !.flight = {}]
    /\ UNCHANGED <<places, sky, view, changes>>

\* ... unless these are of an older sky or another place.
TracksOutdated(candidates) ==
  \E r \in tracks.flight :
    /\ r.place.name # selected \/ r.gen # tracks.gen
    /\ tracks' = Predicted(candidates)
    /\ UNCHANGED <<places, sky, view, changes>>

\* _projected_track_failed
TracksFailed(candidates) ==
  /\ tracks.flight # {}
  /\ tracks' = Predicted(candidates)
  /\ UNCHANGED <<places, sky, view, changes>>

Init ==
  /\ \E p \in Profile : profiles = <<p>> /\ selected = p.name /\ saved = "always"
  /\ sky = [busy |-> FALSE, timer |-> TRUE, flight |-> {}, shown |-> NoPlace, some |-> FALSE]
  /\ tracks = [gen |-> 0, busy |-> FALSE, pending |-> NoTrack, flight |-> {}]
  /\ view = NoPlace
  /\ changes = 0

Good == SkyOfAnother \/ \E s \in BOOLEAN : SkyApplied(TRUE, s, TRUE)
Arrive == Good \/ SkyHeld \/ SkyFailed \/ \E s, c \in BOOLEAN : SkyApplied(FALSE, s, c)
Found == \E s, c \in BOOLEAN : TracksShown(TRUE, s, c)
TracksArrive ==
  Found \/ \E s, c \in BOOLEAN : TracksShown(FALSE, s, c) \/ TracksOutdated(c) \/ TracksFailed(c)

Next ==
  \/ Change \/ RefreshPressed \/ TimerFires
  \/ Arrive \/ \E s \in BOOLEAN : SkyApplied(TRUE, s, FALSE)
  \/ \E c \in BOOLEAN : TracksAsked(c)
  \/ TracksArrive

\* Timers fire and threads end; a load that is repeated for ever is answered
\* with satellites, some in the view, infinitely often.
Fairness ==
  /\ WF_vars(TimerFires) /\ WF_vars(Arrive) /\ WF_vars(TracksArrive) /\ SF_vars(Good)

Spec == Init /\ [][Next]_vars /\ Fairness

(***************************************************************************)
(* Properties.                                                             *)
(***************************************************************************)
\* A refresh of the desktop is never lost: while a load runs or the timer is
\* set, no event of the user, no result and no failure leaves the application
\* with a place selected and neither of them (gui.py, refresh_data and the
\* three ways a load ends).
KeepsRefreshing ==
  (sky.busy \/ sky.timer) /\ selected' # NoName => sky'.busy \/ sky'.timer

\* A pending prediction always has a running one whose end starts or drops it
\* (gui_stage7.py, _pending_track_profile).
NoStrandedTracks == tracks.pending # NoTrack => tracks.busy

\* The refreshes go on.
Started == sky.busy \/ sky.timer

\* The sky is the selected place's, if one is selected and the refreshes go on
\* (they do not after every place was deleted: nothing starts them again), and so
\* are the satellites drawn in the live view.
SkySettled == Here = NoPlace \/ ~Started \/ sky.shown = Here
ViewSettled == Here = NoPlace \/ ~Started \/ (sky.shown = Here /\ view = Here)

\* After the last change of place the sky is so in the end: a hold of an empty
\* refresh, a failure or a late answer only delays it.  The live view is so if
\* the predictions for the sky as it is now find something now and then.  That is
\* a condition and no fairness: the satellites predicted are those of the view, and
\* after a far change of place all of them may have set, so that the old sky
\* stays in the view (the comment in set_satellites has it cleared).
ViewCatchesUp == <>[]SkySettled /\ (SF_vars(Found) => <>[]ViewSettled)

\* What the first two rest on: a selected name is in the list, so that the timer
\* never fires for nothing.
SkyInv ==
  /\ PlacesInv
  /\ DOMAIN sky = {"busy", "timer", "flight", "shown", "some"}
  /\ sky.busy \in BOOLEAN /\ sky.timer \in BOOLEAN
  /\ DOMAIN tracks = {"gen", "busy", "pending", "flight"} /\ tracks.busy \in BOOLEAN
  /\ NoStrandedTracks
=============================================================================
