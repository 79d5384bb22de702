---------------------------- MODULE BrowserRefresh ----------------------------
(***************************************************************************)
(* The browser page (web/app.js, web/live-sky-layout.js and                *)
(* web/aircraft-sensitivity.js): a refresh asks every endpoint at once,    *)
(* two timers poll the satellites and the aircraft in between, and the     *)
(* user edits and saves the observer's place at any time.  JavaScript runs *)
(* one handler at a time; answers arrive in any order.                     *)
(*                                                                         *)
(* A place is one pair of coordinates.  The layer "sky" stands for the     *)
(* four parts of a refresh that differ in what they draw only: sky,        *)
(* airports, weather and observing.  refreshGeneration is compared with    *)
(* its present value only, so a request keeps whether its generation still *)
(* is the present one.  A satellite poll is one request, or two when ALEN  *)
(* fails and the whole catalogue is asked for instead: both draw the same  *)
(* layer under the same condition.                                         *)
(*                                                                         *)
(* getJson, as live-sky-layout.js wraps it, answers from responseCache or  *)
(* with the answer of an equal request in flight, and sends the sky and    *)
(* satellite requests one after the other.  Equal requests name the same   *)
(* place, so an answer so kept or shared is one of the request's place,    *)
(* which may come at once or together with another; how old its data is,   *)
(* is left out.                                                            *)
(***************************************************************************)
CONSTANTS
  Places,  \* the coordinates an observer can enter
  None

ASSUME BrowserAssumption == None \notin Places

VARIABLES
  form,    \* the coordinates in the inputs, saved or not, None when empty
  hidden,  \* document.hidden
  group,   \* the refresh in flight, with its pending parts, or None
  sat,     \* the satellite poll in flight, alone or of a refresh, or None
  fast,    \* the place of the aircraft poll in flight, or None
  rerun,   \* whether a rerun waits for the refresh in flight since a save
  drawn,   \* the place each layer was last drawn for, or None
  frame,   \* the celestial frame on display, and whether it is to be renewed
  radar,   \* the place of the contacts the radar shows, or None
  owed     \* history: a saved place has not been refreshed yet

vars == <<form, hidden, group, sat, fast, rerun, drawn, frame, radar, owed>>

Layers == {"sky", "aircraft", "satellites"}

\* Slip: the generation stays as it is.
OutdatedUnnoticed(r) ==
  IF r = None THEN None ELSE [r EXCEPT !.fresh = FALSE]

\* A request r in flight when a refresh or a save moves the generation on:
\* its generation is not current any more.  fresh is history, the same fact
\* kept whatever the generation does.
Outdated(r) ==
  IF r = None THEN None ELSE [r EXCEPT !.current = FALSE, !.fresh = FALSE]

(***************************************************************************)
(* Starting requests.                                                      *)
(***************************************************************************)
NewGroup(p, wrapped) ==
  [place |-> p, current |-> TRUE, fresh |-> TRUE, enhanced |-> wrapped,
   pending |-> {"sky", "aircraft"}]

NewPoll(p, ofGroup) ==
  [place |-> p, current |-> TRUE, fresh |-> TRUE, grouped |-> ofGroup]

\* The page is loaded with or without a place in the local storage.  Both
\* first requests start even in a hidden page; getJson is not wrapped yet.
Init ==
  /\ form \in Places \cup {None}
  /\ hidden \in BOOLEAN
  /\ group = IF form = None THEN None ELSE NewGroup(form, FALSE)
  /\ sat = IF form = None THEN None ELSE NewPoll(form, TRUE)
  /\ fast = IF hidden THEN None ELSE form
  /\ rerun = FALSE
  /\ drawn = [l \in Layers |-> None]
  /\ frame = [place |-> None, due |-> TRUE]
  /\ radar = None
  /\ owed = FALSE

\* refresh() in a page that shows: nothing while another one is in flight.  Its
\* satellite part leaves a poll in flight alone, whose answer is now outdated.
Refresh ==
  IF group # None THEN UNCHANGED <<group, sat, owed>>
  ELSE /\ owed' = FALSE
       /\ IF form = None THEN UNCHANGED <<group, sat>>
          ELSE /\ group' = NewGroup(form, TRUE)
               /\ sat' = IF sat = None THEN NewPoll(form, TRUE) ELSE Outdated(sat)

PollAircraft == fast' = IF fast = None THEN form ELSE fast

MinuteTimer ==
  /\ ~hidden /\ group = None /\ form # None
  /\ Refresh
  /\ UNCHANGED <<form, hidden, fast, rerun, drawn, frame, radar>>

SatelliteTimer ==
  /\ ~hidden /\ form # None /\ sat = None
  /\ sat' = NewPoll(form, FALSE)
  /\ UNCHANGED <<form, hidden, group, fast, rerun, drawn, frame, radar, owed>>

AircraftTimer ==
  /\ ~hidden /\ fast = None /\ form # None
  /\ PollAircraft
  /\ UNCHANGED <<form, hidden, group, sat, rerun, drawn, frame, radar, owed>>

(***************************************************************************)
(* The user and the browser.                                               *)
(***************************************************************************)
\* Typing, or the browser's location: the inputs change, nothing else does.
Edit(p) ==
  /\ p # form
  /\ form' = p
  /\ UNCHANGED <<hidden, group, sat, fast, rerun, drawn, frame, radar, owed>>

\* Both listeners of the submit event: the one of live-sky-layout.js moves the
\* generation on and queues a rerun behind a refresh in flight; the one of
\* app.js blanks the frame and calls refresh().
Save ==
  /\ ~hidden /\ form # None
  /\ frame' = [place |-> None, due |-> TRUE]
  /\ IF group = None
     THEN /\ group' = NewGroup(form, TRUE)
          /\ sat' = IF sat = None THEN NewPoll(form, TRUE) ELSE Outdated(sat)
          /\ owed' = FALSE /\ UNCHANGED rerun
     ELSE /\ group' = Outdated(group)
          /\ sat' = Outdated(sat)
          /\ rerun' = TRUE
          /\ owed' = TRUE
  /\ UNCHANGED <<form, hidden, fast, drawn, radar>>

\* Slip: the rerun looks once instead of waiting for the refresh in flight.
RerunOnce ==
  /\ rerun
  /\ rerun' = FALSE
  /\ IF hidden THEN UNCHANGED <<group, sat, owed>> ELSE Refresh
  /\ UNCHANGED <<form, hidden, fast, drawn, frame, radar>>

\* The rerun waits until no refresh is in flight.  In a hidden page it does
\* nothing, and revealing the page refreshes.  Several saves queue several
\* reruns; those after the first do what the minute timer may do at any time.
Rerun ==
  /\ rerun /\ group = None
  /\ rerun' = FALSE
  /\ IF hidden THEN UNCHANGED <<group, sat, owed>> ELSE Refresh
  /\ UNCHANGED <<form, hidden, fast, drawn, frame, radar>>

Hide ==
  /\ ~hidden
  /\ hidden' = TRUE
  /\ UNCHANGED <<form, group, sat, fast, rerun, drawn, frame, radar, owed>>

Reveal ==
  /\ hidden
  /\ hidden' = FALSE
  /\ Refresh /\ PollAircraft
  /\ UNCHANGED <<form, rerun, drawn, frame, radar>>

\* Dragging, zooming or following an object shows the latest celestial frame.
Look ==
  /\ ~hidden
  /\ frame' = [place |-> drawn["sky"], due |-> FALSE]
  /\ UNCHANGED <<form, hidden, group, sat, fast, rerun, drawn, radar, owed>>

(***************************************************************************)
(* Answers and failures, in any order.                                     *)
(***************************************************************************)
\* The refresh g ends with its last part; s is the satellite poll after it.
Settled(g, s) ==
  IF g # None /\ g.pending = {} /\ ~(s # None /\ s.grouped) THEN None ELSE g

PartEnds(part) ==
  /\ group # None /\ part \in group.pending
  /\ group' = Settled([group EXCEPT !.pending = @ \ {part}], sat)
  /\ UNCHANGED <<form, hidden, sat, fast, rerun, owed>>

SkyAnswers ==
  /\ PartEnds("sky")
  /\ group.current
  /\ drawn' = [drawn EXCEPT !["sky"] = group.place]
  /\ frame' = IF frame.due \/ frame.place = None
              THEN [place |-> group.place, due |-> FALSE] ELSE frame
  /\ UNCHANGED radar

\* An answer of an older generation is dropped, as a failure draws nothing.
SkyDropped == PartEnds("sky") /\ UNCHANGED <<drawn, frame, radar>>

\* The radar takes its contacts from every answer, before the generation is
\* compared.
AircraftAnswers ==
  /\ PartEnds("aircraft")
  /\ radar' = IF group.enhanced THEN group.place ELSE radar
  /\ drawn' = IF group.current THEN [drawn EXCEPT !["aircraft"] = group.place] ELSE drawn
  /\ UNCHANGED frame

AircraftFails == PartEnds("aircraft") /\ UNCHANGED <<drawn, frame, radar>>

FastEnds ==
  /\ fast # None
  /\ fast' = None
  /\ UNCHANGED <<form, hidden, group, sat, rerun, frame, owed>>

\* There is one such poll at a time and observed_at is read when the server gets
\* the request, so the comparison with the last observed_at refuses nothing.
FastAnswers ==
  /\ FastEnds
  /\ radar' = fast
  /\ drawn' = IF fast = form THEN [drawn EXCEPT !["aircraft"] = fast] ELSE drawn

FastFails == FastEnds /\ UNCHANGED <<drawn, radar>>

\* Slip: an outdated answer leaves satellitePollInFlight set.
SatelliteEndsIfCurrent ==
  /\ sat # None
  /\ sat' = IF sat.current THEN None ELSE [sat EXCEPT !.grouped = FALSE]
  /\ group' = Settled(group, sat')
  /\ UNCHANGED <<form, hidden, fast, rerun, frame, radar, owed>>

SatelliteEnds ==
  /\ sat # None
  /\ sat' = None
  /\ group' = Settled(group, None)
  /\ UNCHANGED <<form, hidden, fast, rerun, frame, radar, owed>>

SatellitesAnswer ==
  /\ SatelliteEnds
  /\ sat.current
  /\ drawn' = [drawn EXCEPT !["satellites"] = sat.place]

\* Outdated, or both requests failed, or the second one was not due yet.
SatellitesDropped == SatelliteEnds /\ UNCHANGED drawn

Arrival ==
  \/ SkyAnswers \/ SkyDropped \/ AircraftAnswers \/ AircraftFails
  \/ FastAnswers \/ FastFails
  \/ SatellitesAnswer \/ SatellitesDropped

Timer == MinuteTimer \/ SatelliteTimer \/ AircraftTimer \/ Rerun

Next ==
  \/ \E p \in Places \cup {None} : Edit(p)
  \/ Save \/ Hide \/ Reveal \/ Look
  \/ Timer
  \/ Arrival

Spec == Init /\ [][Next]_vars

\* Timers fire, and every request ends because getJson aborts it after its
\* timeout.  An endpoint that is asked again and again answers some time.
Fairness ==
  /\ WF_vars(MinuteTimer) /\ WF_vars(SatelliteTimer) /\ WF_vars(AircraftTimer)
  /\ WF_vars(Rerun)
  /\ WF_vars(SkyAnswers \/ SkyDropped)
  /\ WF_vars(AircraftAnswers \/ AircraftFails)
  /\ WF_vars(FastAnswers \/ FastFails)
  /\ WF_vars(SatellitesAnswer \/ SatellitesDropped)
  /\ SF_vars(SkyAnswers) /\ SF_vars(FastAnswers) /\ SF_vars(SatellitesAnswer)

FairSpec == Spec /\ Fairness

(***************************************************************************)
(* Properties.                                                             *)
(***************************************************************************)
\* Nothing that was asked before the last save or refresh is drawn after it,
\* unless it is for the very place in the form: the generation and the comparison
\* of the coordinates together keep out every late answer, in whatever order
\* refreshes, polls and saves overlap.
NoOldPaint ==
  [][/\ drawn'["sky"] # drawn["sky"] => group.fresh
     /\ drawn'["satellites"] # drawn["satellites"] => sat.fresh
     /\ drawn'["aircraft"] # drawn["aircraft"] =>
          drawn'["aircraft"] = form \/ (group # None /\ group.fresh)]_vars

\* A place saved during a refresh is not forgotten: until it has been refreshed,
\* a page that shows has a rerun waiting.
SaveNotForgotten == owed /\ ~hidden => rerun

\* Once the user leaves the form alone and the page in sight, every layer and
\* the radar come to show that place and stay with it: no in-flight flag stays
\* set, and nothing late comes back.
Converges ==
  \A p \in Places :
    <>[](form = p /\ ~hidden) =>
      <>[](radar = p /\ \A l \in Layers : drawn[l] = p)

==============================================================================
