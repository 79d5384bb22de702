-------------------------- MODULE BrowserSelection --------------------------
(***************************************************************************)
(* What the web client shows of the selected object.  app.js has an         *)
(* inspector that takes the place of the contacts panel; the aircraft list  *)
(* (live-contacts-view.js), the satellites (satellite-motion.js) and the    *)
(* Roadster (roadster-deep-space.js) each wrap its functions, put their own *)
(* click handlers before its own, and keep a card of their own inside the   *)
(* contacts panel.  Routes and photos arrive later than the selection they  *)
(* were asked for.                                                          *)
(***************************************************************************)
EXTENDS FiniteSets

CONSTANTS
  Planes,      \* ICAO24 addresses
  Sats,        \* satellites
  Stars,       \* stars and planets
  Roadster     \* the one deep-space object

VARIABLES
  tracked,   \* trackedObject
  sky,       \* skyAircraft
  stars,     \* the stars layer: "shown", "hidden", or "again" when it has been hidden once
  cards,     \* [panel, list, sat, road: what is not hidden of .contacts-panel, #contacts and the two
             \* cards; satOf: whose card satellitePanelActive stands for; roadOn: panelActive]
  insp,      \* the inspector: [shown, about, route, photo], and whether it is a left-over of an
             \* earlier selection that an unchanged card did not hide
  routes,    \* [known: routeCache per callsign, asking: selections waiting for their route]
  photos     \* photos awaited: [of, now], now if inspectorMediaGeneration is still theirs

vars == <<tracked, sky, stars, cards, insp, routes, photos>>

Nothing == "nothing"

\* What can be selected is of one kind.
SelectionAssumption ==
  /\ Nothing \notin Planes \cup Sats \cup Stars \cup {Roadster}
  /\ Planes \cap Sats = {} /\ Planes \cap Stars = {} /\ Sats \cap Stars = {}
  /\ Roadster \notin Planes \cup Sats \cup Stars

NoSatCard == [cards EXCEPT !.sat = FALSE, !.satOf = Nothing, !.list = TRUE]
NoRoadCard(c) == [c EXCEPT !.road = FALSE, !.roadOn = FALSE, !.list = TRUE]

\* What the Roadster's wrappers and, with the stars layer shown, its handler of
\* clicks on anything else do first.
RoadCardClosed(c) == IF c.roadOn THEN NoRoadCard(c) ELSE c
ClickedPast(c) == IF stars = "hidden" THEN c ELSE RoadCardClosed(c)

Superseded == {[p EXCEPT !.now = FALSE] : p \in photos}

(***************************************************************************)
(* The inspector.                                                          *)
(***************************************************************************)
\* renderAircraftInspector in place of the panel; its photo is fetched anew.
Inspect(a, route, c) ==
  /\ cards' = [c EXCEPT !.panel = FALSE]
  /\ insp' = [shown |-> TRUE, about |-> a, route |-> route, photo |-> Nothing, left |-> FALSE]
  /\ photos' = Superseded \cup {[of |-> a, now |-> TRUE]}

\* renderSelectedWithCachedRoute: the callsign a contact has may be known already.
InspectCached(a, callsign, c) ==
  Inspect(a, IF callsign /\ routes.known[a] = "route" THEN a ELSE Nothing, c)

\* clearObjectSelection
Clear(c) ==
  /\ tracked' = Nothing
  /\ cards' = [c EXCEPT !.panel = TRUE]
  /\ insp' = [insp EXCEPT !.shown = FALSE, !.photo = Nothing]
  /\ photos' = Superseded

(***************************************************************************)
(* Aircraft.                                                               *)
(***************************************************************************)
\* lookupRoute: one request per callsign, whose failure is kept like an answer.
Lookup(a, callsign) ==
  routes' = IF callsign /\ routes.known[a] \in {"unasked", "asked"}
              THEN [known |-> [routes.known EXCEPT ![a] = "asked"], asking |-> routes.asking \cup {a}]
              ELSE routes

\* selectAircraftWithoutRecentering
Select(a, c) ==
  IF tracked = a THEN Clear(c) /\ UNCHANGED routes
  ELSE /\ tracked' = a
       /\ \E callsign \in BOOLEAN : InspectCached(a, callsign, c) /\ Lookup(a, callsign)

\* A click on the aircraft overlay goes through the wrappers of toggleTracking,
\* one on the radar or on a row of the list does not.
PlaneClicked(a) ==
  /\ a \in sky
  /\ Select(a, RoadCardClosed(NoSatCard))
  /\ UNCHANGED <<sky, stars>>

\* The radar has aircraft of its own, in reach though not in the sky, and hits of
\* the last time it was drawn.
RadarClicked(a) ==
  /\ Select(a, cards)
  /\ UNCHANGED <<sky, stars>>

RowClicked(a) == cards.panel /\ cards.list /\ a \in sky /\ RadarClicked(a)

\* renderContacts with new aircraft: a selected one that is among them is shown again.
AircraftArrive(new) ==
  /\ sky' = new
  /\ IF tracked \in new THEN \E callsign \in BOOLEAN : InspectCached(tracked, callsign, cards)
                        ELSE UNCHANGED <<cards, insp, photos>>
  /\ UNCHANGED <<tracked, stars, routes>>

Known(a, answer) == [known |-> [routes.known EXCEPT ![a] = answer], asking |-> routes.asking \ {a}]

\* Slip: the selection is not compared.
RouteOfAnySelection(a) ==
  /\ a \in routes.asking
  /\ \E answer \in {"route", "none"} :
       /\ routes' = Known(a, answer)
       /\ IF answer = "route" /\ tracked \in Planes THEN Inspect(tracked, a, cards)
                                                   ELSE UNCHANGED <<cards, insp, photos>>
  /\ UNCHANGED <<tracked, sky, stars>>

\* lookupRoute ends; the selection that asked goes on if it still stands.
RouteArrives(a) ==
  /\ a \in routes.asking
  /\ \E answer \in {"route", "none"} :
       /\ routes' = Known(a, answer)
       /\ IF answer = "route" /\ tracked = a THEN Inspect(a, a, cards)
                                            ELSE UNCHANGED <<cards, insp, photos>>
  /\ UNCHANGED <<tracked, sky, stars>>

\* updateInspectorMedia ends, with a photo or without.
PhotoArrives(p) ==
  /\ photos' = photos \ {p}
  /\ insp' \in IF p.now THEN {insp, [insp EXCEPT !.photo = p.of]} ELSE {insp}
  /\ UNCHANGED <<tracked, sky, stars, cards, routes>>

(***************************************************************************)
(* Satellites and the Roadster.                                            *)
(***************************************************************************)
\* renderSatelliteContacts, or its early return while the numbers on the card are
\* what they were.
SatCard(s, c) ==
  \/ /\ c.satOf = s
     /\ cards' = c /\ insp' = [insp EXCEPT !.left = insp.shown]
  \/ /\ cards' = [c EXCEPT !.sat = TRUE, !.satOf = s, !.list = FALSE]
     /\ insp' = [insp EXCEPT !.shown = FALSE]

\* A click handled by satellite-motion.js: selectSatellite.
SatClicked(s) ==
  /\ IF tracked = s
       THEN /\ tracked' = Nothing
            /\ cards' = ClickedPast(NoSatCard) /\ UNCHANGED insp
       ELSE /\ tracked' = s
            /\ SatCard(s, ClickedPast(cards))
  /\ UNCHANGED <<sky, stars, routes, photos>>

\* animate, four times a second
SatTick ==
  /\ tracked \in Sats
  /\ SatCard(tracked, cards)
  /\ UNCHANGED <<tracked, sky, stars, routes, photos>>

\* renderRoadsterContacts, which leaves satellitePanelActive alone.
RoadCard ==
  \/ /\ cards.roadOn
     /\ insp' = [insp EXCEPT !.left = insp.shown] /\ UNCHANGED cards
  \/ /\ cards' = [cards EXCEPT !.road = TRUE, !.roadOn = TRUE, !.sat = FALSE, !.list = FALSE]
     /\ insp' = [insp EXCEPT !.shown = FALSE]

RoadsterClicked ==
  /\ stars # "hidden"
  /\ IF tracked = Roadster
       THEN tracked' = Nothing /\ cards' = NoRoadCard(cards) /\ UNCHANGED insp
       ELSE tracked' = Roadster /\ RoadCard
  /\ UNCHANGED <<sky, stars, routes, photos>>

\* drawRoadster, in each drawing of the sky that has it in view.
RoadsterDrawn ==
  /\ stars # "hidden" /\ tracked = Roadster
  /\ RoadCard
  /\ UNCHANGED <<tracked, sky, stars, routes, photos>>

\* The cards' "Back to aircraft".
BackFromSat ==
  /\ cards.panel /\ cards.sat
  /\ tracked' = IF tracked \in Sats THEN Nothing ELSE tracked
  /\ cards' = NoSatCard
  /\ UNCHANGED <<sky, stars, insp, routes, photos>>

BackFromRoadster ==
  /\ cards.panel /\ cards.road
  /\ tracked' = IF tracked = Roadster THEN Nothing ELSE tracked
  /\ cards' = NoRoadCard(cards)
  /\ UNCHANGED <<sky, stars, insp, routes, photos>>

(***************************************************************************)
(* Stars, and everything else.                                             *)
(***************************************************************************)
\* app.js's own click handler: toggleTracking and showObject through all wrappers.
\* A planet can be clicked whatever the stars layer.
StarClicked(s) ==
  /\ LET c == RoadCardClosed(NoSatCard) IN
     IF tracked = s THEN Clear(c)
     ELSE /\ tracked' = s
          /\ cards' = [c EXCEPT !.panel = FALSE]
          /\ insp' = [shown |-> TRUE, about |-> s, route |-> Nothing, photo |-> s, left |-> FALSE]
          /\ photos' = Superseded
  /\ UNCHANGED <<sky, stars, routes>>

\* Airports and galaxies cannot be tracked: a click on one ends the selection.
OtherClicked ==
  /\ Clear(RoadCardClosed(NoSatCard))
  /\ UNCHANGED <<sky, stars, routes>>

EmptyClicked ==
  /\ cards' = ClickedPast(cards)
  /\ UNCHANGED <<tracked, sky, stars, insp, routes, photos>>

\* The view is dragged, a bearing is entered, or the inspector is closed.
Deselected ==
  /\ Clear(cards)
  /\ UNCHANGED <<sky, stars, routes>>

StarsToggled ==
  /\ stars' = IF stars = "hidden" THEN "again" ELSE "hidden"
  /\ UNCHANGED <<tracked, sky, cards, insp, routes, photos>>

Init ==
  /\ tracked = Nothing /\ sky = {} /\ stars = "shown"
  /\ cards = [panel |-> TRUE, list |-> TRUE, sat |-> FALSE, road |-> FALSE, satOf |-> Nothing, roadOn |-> FALSE]
  /\ insp = [shown |-> FALSE, about |-> Nothing, route |-> Nothing, photo |-> Nothing, left |-> FALSE]
  /\ routes = [known |-> [a \in Planes |-> "unasked"], asking |-> {}]
  /\ photos = {}

Next ==
  \/ \E a \in Planes : PlaneClicked(a) \/ RadarClicked(a) \/ RowClicked(a) \/ RouteArrives(a)
  \/ \E new \in SUBSET Planes : AircraftArrive(new)
  \/ \E p \in photos : PhotoArrives(p)
  \/ \E s \in Sats : SatClicked(s)
  \/ \E s \in Stars : StarClicked(s)
  \/ SatTick \/ RoadsterClicked \/ RoadsterDrawn \/ BackFromSat \/ BackFromRoadster
  \/ OtherClicked \/ EmptyClicked \/ Deselected \/ StarsToggled

Spec == Init /\ [][Next]_vars

(***************************************************************************)
(* Properties.                                                             *)
(***************************************************************************)
\* The inspector is about the selected object, and the route and the photo in it
\* are that object's, in whatever order clicks, routes, photos and new aircraft
\* come; only an inspector that an unchanged card left standing is about an
\* earlier one.  The cards of a satellite and of the Roadster are shown together
\* only once the stars layer has been hidden.
InspectorOfTracked ==
  /\ insp.shown /\ ~insp.left => insp.about = tracked
  /\ insp.shown => {insp.route, insp.photo} \subseteq {Nothing, insp.about}
  /\ cards.sat /\ cards.road => stars # "shown"

\* README.md: satellites are selectable, with object information.
SatelliteShown == tracked \in Sats => cards.panel /\ cards.sat

(***************************************************************************)
(* What InspectorOfTracked rests on.                                       *)
(***************************************************************************)
Inspectable == Planes \cup Stars \cup {Nothing}

Somethings == Planes \cup Sats \cup Stars \cup {Roadster, Nothing}

Cards == [panel : BOOLEAN, list : BOOLEAN, sat : BOOLEAN, road : BOOLEAN,
          satOf : Sats \cup {Nothing}, roadOn : BOOLEAN]

Inspector == [shown : BOOLEAN, about : Inspectable, route : Inspectable,
              photo : Inspectable, left : BOOLEAN]

Photos == [of : Planes, now : BOOLEAN]

TypeOK ==
  /\ tracked \in Somethings
  /\ sky \subseteq Planes
  /\ stars \in {"shown", "hidden", "again"}
  /\ cards \in Cards /\ insp \in Inspector
  /\ routes.asking \subseteq Planes
  /\ photos \subseteq Photos

\* A photo that would still be shown is of the object inspected; and a satellite
\* was not selected beside the Roadster's card, unless the stars were hidden.
SelectionInv ==
  /\ TypeOK
  /\ \A p \in photos : p.now => p.of = insp.about
  /\ cards.road => cards.roadOn
  /\ stars = "shown" /\ tracked \in Sats => ~cards.road
  /\ InspectorOfTracked
=============================================================================
