-------------------------- MODULE WeatherMapPanel --------------------------
(***************************************************************************)
(* The desktop's weather map: the 2D map of gui_stage15.py with the cloud   *)
(* imagery and forecast hours of gui_stage16.py and the endless playback of *)
(* the observed day of gui_stage16_animation.py.  A frame is rendered by a  *)
(* thread of its own; each request supersedes the ones before.  The next    *)
(* frame of the playback is timed only when the current one has been shown  *)
(* or has failed, so a request that nobody answers would stop it for good.  *)
(* The clouds a frame brings for the live view are drawn by a view of stage *)
(* 16 only, which the final window's is not, and are left out.              *)
(***************************************************************************)
EXTENDS Places

CONSTANT Frames      \* bound: frames of the playback

VARIABLES
  map,      \* [shown, source, cramped, caption, loads]: the picture on the label, the one
            \* kept for resizing, whether the panel was too small to draw it when it was
            \* to be, the status text, and the renderings under way
  play,     \* [idle, playing, job, index] of the playback; idle: start still pending
  future    \* whether a forecast hour is selected

vars == <<profiles, selected, saved, map, play, future>>

Current(loads) == {l \in loads : l.now}
Superseded(loads) == {[l EXCEPT !.now = FALSE] : l \in Current(loads)}

\* _refresh_weather_map of stage 16, which the animated one falls back on.
Emptied == [map EXCEPT !.shown = NoPlace, !.caption = "no place", !.loads = Superseded(@)]

\* _refresh_weather_map with a place.
Requested(here, f) ==
  [map EXCEPT !.caption = "loading",
              !.loads = Superseded(@) \cup {[at |-> here, now |-> TRUE, future |-> f]}]

Refresh(ps, n, f) ==
  LET here == Find(ps, n)
  IN map' = IF here = NoPlace THEN Emptied ELSE Requested(here, f)

\* _refresh_location_selector and _on_location_changed.
ChangeHere ==
  /\ Changed
  /\ Refresh(profiles', selected', future)
  /\ UNCHANGED <<play, future>>
ChangeUntold ==
  /\ \/ ChangedUntold /\ UNCHANGED map
     \/ \E row \in Rows, p \in Profile :
          Use(row, p, FALSE) /\ Refresh(profiles', Between(row, p), future)
  /\ UNCHANGED <<play, future>>

\* The refresh button, the radar and cloud boxes, a cloud frame, a new viewing
\* direction, and the cloud timer while no forecast hour is selected.
RefreshAsked ==
  /\ Refresh(profiles, selected, future)
  /\ UNCHANGED <<places, play, future>>

\* _schedule_weather_animation_tick
Scheduled(p) == IF p.playing THEN [p EXCEPT !.job = TRUE] ELSE p

\* _start_weather_animation, once the window is idle.
PlaybackStarts ==
  /\ play.idle
  /\ play' = IF future THEN [play EXCEPT !.idle = FALSE]
             ELSE Scheduled([play EXCEPT !.idle = FALSE, !.playing = TRUE])
  /\ UNCHANGED <<places, map, future>>

\* _on_map_time_selected: a forecast hour suspends the playback, "Now" starts it
\* over.
MapTimeSelected(f) ==
  /\ future' = f
  /\ Refresh(profiles, selected, f)
  /\ LET suspended == [play EXCEPT !.playing = FALSE, !.job = FALSE]
     IN play' = IF f THEN suspended
                ELSE Scheduled([suspended EXCEPT !.index = 0, !.playing = TRUE])
  /\ UNCHANGED places

\* next_weather_timeline_index
NextFrame(i) == (i + 1) % Frames

\* _weather_animation_tick
Tick ==
  /\ play.job
  /\ play' = [play EXCEPT !.job = FALSE, !.index = NextFrame(@)]
  /\ future' = FALSE
  /\ Refresh(profiles, selected, FALSE)
  /\ UNCHANGED places

Rendered(l) == [map EXCEPT !.loads = @ \ {l}]

\* _render_weather_map_for_current_size: a panel below 40 pixels keeps its picture.
Drawn(m, cramped) ==
  [m EXCEPT !.shown = IF cramped THEN @ ELSE m.source, !.cramped = cramped]

\* _apply_stage16_weather_map and its override: the frame of another place is not
\* shown, but the next one is timed.
Applied(l) ==
  /\ l \in map.loads /\ l.now
  /\ LET kept == [Rendered(l) EXCEPT !.source = l.at,
                                     !.caption = IF l.future THEN "forecast" ELSE "observed"]
     IN IF l.at = Here THEN \E cramped \in BOOLEAN : map' = Drawn(kept, cramped)
        ELSE map' = Rendered(l)
  /\ play' = Scheduled(play)
  /\ UNCHANGED <<places, future>>

\* _weather_map_failed
Failed(l) ==
  /\ l \in map.loads /\ l.now
  /\ map' = [Rendered(l) EXCEPT !.caption = "unavailable"]
  /\ play' = Scheduled(play)
  /\ UNCHANGED <<places, future>>

\* Either, of an older generation.
Dropped(l) ==
  /\ l \in map.loads /\ ~l.now
  /\ map' = Rendered(l)
  /\ UNCHANGED <<places, play, future>>

\* 120 ms after the last resize.
Resized ==
  /\ map.source # NoPlace
  /\ \E cramped \in BOOLEAN : map' = Drawn(map, cramped)
  /\ UNCHANGED <<places, play, future>>

Load == [at : Profile, now : BOOLEAN, future : BOOLEAN]

Init ==
  /\ \E p \in Profile :
       /\ profiles = <<p>> /\ selected = p.name /\ saved = "always"
       /\ map = [shown |-> NoPlace, source |-> NoPlace, cramped |-> FALSE, caption |-> "loading",
                 loads |-> {[at |-> p, now |-> TRUE, future |-> FALSE]}]
  /\ play = [idle |-> TRUE, playing |-> FALSE, job |-> FALSE, index |-> 0]
  /\ future = FALSE

Next ==
  \/ ChangeHere \/ ChangeUntold \/ RefreshAsked \/ PlaybackStarts \/ Tick \/ Resized
  \/ \E f \in BOOLEAN : MapTimeSelected(f)
  \/ \E l \in Load : Applied(l) \/ Failed(l) \/ Dropped(l)

Spec == Init /\ [][Next]_vars

(***************************************************************************)
(* Properties.                                                             *)
(***************************************************************************)
\* The playback does not stop by itself: while it plays for a selected place a
\* tick is due, or the frame under way will set one when it is shown or fails,
\* although every control, timer and saved change of place may supersede it.
PlaybackAlive ==
  /\ play.job => play.playing
  /\ Told /\ play.playing /\ Here # NoPlace => play.job \/ Current(map.loads) # {}

\* What the status says is true of the picture: "centred on the selected
\* location" and "forecast" are said of a map of the selected place only, drawn
\* or, in a panel too small for it, kept to be drawn, once the last change of
\* place has been saved.
CaptionTrue ==
  Told /\ map.caption \in {"observed", "forecast"} =>
    map.source = Here /\ (map.shown = Here \/ map.cramped)

\* What these rest on.
MapInv ==
  /\ DOMAIN map = {"shown", "source", "cramped", "caption", "loads"}
  /\ \A l \in map.loads : DOMAIN l = {"at", "now", "future"} /\ l.now \in BOOLEAN
  /\ DOMAIN play = {"idle", "playing", "job", "index"}
  /\ play.playing \in BOOLEAN /\ play.job \in BOOLEAN
  /\ PlaybackAlive /\ CaptionTrue
=============================================================================
