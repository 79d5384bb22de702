--------------------------- MODULE ComponentsProofs ---------------------------
(***************************************************************************)
(* Proofs about components of MCComponents, for every value of their       *)
(* constants.  Each has an inductive invariant in its module; a behaviour  *)
(* of the composition that has chosen a component keeps that invariant.    *)
(***************************************************************************)
EXTENDS MCComponents, SequenceTheorems, FiniteSetTheorems, WellFoundedInduction, TLAPS

(***************************************************************************)
(* The build: DeployPreload.                                               *)
(***************************************************************************)
LEMMA ResourceIndices == DOMAIN Resources = 1 .. Len(Resources) /\ Len(Resources) \in Nat
BY PreloadAssumption DEF Preload!PreloadAssumption

LEMMA PreloadInit == Preload!Init => Preload!PreloadInv
BY ResourceIndices DEF Preload!Init, Preload!PreloadInv, Preload!PreloadSound

\* The resource at hand is in place, and so are then all before the next one.
LEMMA ResourceInPlace ==
  ASSUME Preload!PreloadInv, Preload!NextResource, a = "sky",
         DOMAIN e' = DOMAIN Resources, e'[b] = "exact",
         \A r \in DOMAIN Resources \ {b} : e'[r] = e[r]
  PROVE  /\ b' \in Nat /\ (a' = "sky" => b' > 0) /\ a' \in {"sky", "satellites", "failed"}
         /\ a' = "sky" => \A r \in DOMAIN Resources : r < b' => e'[r] = "exact"
         /\ a' = "satellites" => \A r \in DOMAIN Resources : e'[r] = "exact"
<1>1. b \in Nat /\ b > 0 /\ \A r \in DOMAIN Resources : r < b => e[r] = "exact"
  BY DEF Preload!PreloadInv
<1>2. \A r \in DOMAIN Resources : r <= b => e'[r] = "exact"
  BY ResourceIndices, <1>1
<1>3. CASE b < Len(Resources) /\ b' = b + 1 /\ UNCHANGED a
  BY ResourceIndices, <1>1, <1>2, <1>3
<1>4. CASE b = Len(Resources) /\ b' = 0 /\ a' \in {"satellites", "failed"}
  BY ResourceIndices, <1>2, <1>4
<1> QED BY <1>3, <1>4 DEF Preload!NextResource

LEMMA PreloadStep ==
  ASSUME Preload!PreloadInv, [Preload!Next]_(Preload!vars)
  PROVE  Preload!PreloadInv'
<1> USE DEF Preload!PreloadInv, Preload!PreloadSound
<1>1. CASE Preload!InCache
  BY <1>1, ResourceInPlace DEF Preload!InCache
<1>2. CASE Preload!OpenTemporary
  BY <1>2 DEF Preload!OpenTemporary
<1>3. CASE Preload!Move
  <2>1. a = "sky" /\ Preload!NextResource /\ g' = g /\ e' = [e EXCEPT ![b] = "exact"]
    BY <1>3 DEF Preload!Move
  <2>2. b \in Nat /\ b > 0 /\ (b < Len(Resources) \/ b = Len(Resources))
    <3>1. b < Len(Resources) \/ b = Len(Resources) BY <2>1 DEF Preload!NextResource
    <3> QED BY <2>1, <3>1
  <2>3. b \in DOMAIN Resources
    <3> HIDE DEF Preload!PreloadInv, Preload!PreloadSound
    <3>1. b \in 1 .. Len(Resources)
      <4> DEFINE last == Len(Resources)
      <4>1. last \in Nat BY ResourceIndices
      <4>2. b < last \/ b = last BY <2>2
      <4> HIDE DEF last
      <4>3. b \in 1 .. last BY <4>1, <4>2, <2>2
      <4> QED BY <4>3 DEF last
    <3> QED BY <3>1, ResourceIndices
  <2> QED BY <2>1, <2>3, ResourceInPlace
<1>4. CASE Preload!Failed
  BY <1>4 DEF Preload!Failed
<1>5. ASSUME NEW bytes, Preload!Download(bytes) PROVE Preload!PreloadInv'
  BY <1>5 DEF Preload!Download
<1>6. ASSUME NEW o, Preload!Primary(o) PROVE Preload!PreloadInv'
  BY <1>6 DEF Preload!Primary
<1>7. ASSUME NEW o, Preload!Supplementary(o) PROVE Preload!PreloadInv'
  BY <1>7 DEF Preload!Supplementary
<1>8. CASE Preload!SatellitesDone
  BY <1>8 DEF Preload!SatellitesDone
<1>9. ASSUME NEW n, Preload!Airports(n) PROVE Preload!PreloadInv'
  BY <1>9 DEF Preload!Airports
<1>10. CASE Preload!Killed
  BY <1>10 DEF Preload!Killed
<1>11. CASE Preload!Rebuild
  BY <1>11, ResourceIndices DEF Preload!Rebuild
<1>12. CASE UNCHANGED Preload!vars
  BY <1>12 DEF Preload!vars
<1> QED BY <1>1, <1>2, <1>3, <1>4, <1>5, <1>6, <1>7, <1>8, <1>9, <1>10, <1>11, <1>12
        DEF Preload!Next

\* A build that succeeds has put every resource in place (preload_sky.py), for any
\* number of resources, groups, builds and kills.
THEOREM PreloadHolds == Spec => []PreloadSound
<1> DEFINE Inv == slice = "preload" => Preload!PreloadInv
<1>1. Init => Inv BY PreloadInit DEF Init
<1>2. Inv /\ [Next]_vars => Inv'
  <2> SUFFICES ASSUME Inv, [Next]_vars, slice' = "preload" PROVE Preload!PreloadInv'
    OBVIOUS
  <2>1. slice = "preload" /\ [Preload!Next]_(Preload!vars)
    BY DEF Next, vars, Preload!vars
  <2> QED BY <2>1, PreloadStep
<1>3. Inv => PreloadSound BY DEF PreloadSound, Preload!PreloadInv
<1> QED BY <1>1, <1>2, <1>3, PTL DEF Spec

(***************************************************************************)
(* The inspector of the browser: BrowserSelection.                         *)
(***************************************************************************)
LEMMA SelectionInit == Selection!Init => Selection!SelectionInv
BY SelectionAssumption
   DEF Selection!Init, Selection!SelectionInv, Selection!InspectorOfTracked, Selection!TypeOK,
       Selection!Somethings, Selection!Inspectable, Selection!Nothing, Selection!Cards,
       Selection!Inspector, Selection!Photos

\* Cards that may be shown as the stars layer is now.
Fits(k) ==
  /\ k \in Selection!Cards
  /\ k.road => k.roadOn
  /\ k.sat /\ k.road => c # "shown"

LEMMA CardsFit ==
  ASSUME NEW k, Fits(k)
  PROVE  /\ Fits(Selection!NoRoadCard(k)) /\ ~Selection!NoRoadCard(k).road
         /\ Fits(Selection!RoadCardClosed(k)) /\ ~Selection!RoadCardClosed(k).road
         /\ Fits(Selection!ClickedPast(k)) /\ (c = "shown" => ~Selection!ClickedPast(k).road)
         /\ \A p \in BOOLEAN : Fits([k EXCEPT !.panel = p])
         /\ \A p \in BOOLEAN : [k EXCEPT !.panel = p].road = k.road
BY DEF Fits, Selection!Cards, Selection!NoRoadCard, Selection!RoadCardClosed, Selection!ClickedPast

LEMMA CardsFitNow ==
  ASSUME Selection!SelectionInv
  PROVE  Fits(d) /\ Fits(Selection!NoSatCard)
BY DEF Fits, Selection!Cards, Selection!NoSatCard, Selection!SelectionInv, Selection!TypeOK,
       Selection!InspectorOfTracked

\* The photos that were awaited are still photos, and none is waited for now.
LEMMA SupersededPhotos ==
  ASSUME Selection!SelectionInv
  PROVE  Selection!Superseded \subseteq Selection!Photos /\ \A p \in Selection!Superseded : ~p.now
BY DEF Selection!Superseded, Selection!Photos, Selection!SelectionInv, Selection!TypeOK

\* An inspector opened for what is selected.
LEMMA InspectKeeps ==
  ASSUME Selection!SelectionInv, NEW x \in Planes, NEW r \in {x, Selection!Nothing},
         NEW k, Fits(k), Selection!Inspect(x, r, k),
         a' = x, b' \subseteq Planes, UNCHANGED c, f'.asking \subseteq Planes
  PROVE  Selection!SelectionInv'
<1>1. x \notin Sats BY SelectionAssumption DEF Selection!SelectionAssumption
<1>2. Fits(d') BY CardsFit DEF Selection!Inspect
<1>3. e' \in Selection!Inspector
  BY DEF Selection!Inspect, Selection!Inspector, Selection!Inspectable
<1>6. g' \subseteq Selection!Photos
  <2>1. [of |-> x, now |-> TRUE] \in Selection!Photos BY DEF Selection!Photos
  <2> QED BY <2>1, SupersededPhotos DEF Selection!Inspect
<1>4. \A p \in g' : p.now => p.of = e'.about
  BY SupersededPhotos DEF Selection!Inspect
<1>5. e'.about = a' /\ {e'.route, e'.photo} \subseteq {Selection!Nothing, e'.about}
  BY DEF Selection!Inspect
<1> QED
  BY <1>1, <1>2, <1>3, <1>4, <1>5, <1>6
     DEF Fits, Selection!SelectionInv, Selection!TypeOK, Selection!InspectorOfTracked,
         Selection!Somethings

\* The selection is cleared.
LEMMA ClearKeeps ==
  ASSUME Selection!SelectionInv, NEW k, Fits(k), Selection!Clear(k),
         UNCHANGED <<b, c>>, f'.asking \subseteq Planes
  PROVE  Selection!SelectionInv'
<1>1. a' = Selection!Nothing /\ Selection!Nothing \notin Sats
  BY SelectionAssumption DEF Selection!SelectionAssumption, Selection!Clear
<1>2. Fits(d') BY CardsFit DEF Selection!Clear
<1>3. e' \in Selection!Inspector /\ ~e'.shown
  BY DEF Selection!Clear, Selection!Inspector, Selection!Inspectable, Selection!SelectionInv,
         Selection!TypeOK
<1>4. g' \subseteq Selection!Photos /\ \A p \in g' : ~p.now
  BY SupersededPhotos DEF Selection!Clear
<1> QED
  BY <1>1, <1>2, <1>3, <1>4
     DEF Fits, Selection!SelectionInv, Selection!TypeOK, Selection!InspectorOfTracked,
         Selection!Somethings

\* The selection is given up, or stays, and so does the inspector.
LEMMA LeftAlone ==
  ASSUME Selection!SelectionInv, a' = a \/ (a' = Selection!Nothing /\ a \in Sats \cup {Roadster}),
         Fits(d'), c' = "shown" /\ a' \in Sats => ~d'.road,
         c' = c \/ (c' # "shown" /\ c' \in {"hidden", "again"}),
         UNCHANGED <<b, e, f, g>>
  PROVE  Selection!SelectionInv'
<1>1. Selection!Nothing \notin Sats /\ Sats \cap Selection!Inspectable = {}
      /\ Roadster \notin Selection!Inspectable
  BY SelectionAssumption DEF Selection!SelectionAssumption, Selection!Inspectable
<1>2. e.shown /\ ~e.left => e.about = a'
  BY <1>1 DEF Selection!SelectionInv, Selection!TypeOK, Selection!InspectorOfTracked,
     Selection!Inspector
<1> QED
  BY <1>1, <1>2
     DEF Fits, Selection!SelectionInv, Selection!TypeOK, Selection!InspectorOfTracked,
         Selection!Somethings

\* A satellite's card, drawn or already there.
LEMMA SatCardKeeps ==
  ASSUME Selection!SelectionInv, NEW s \in Sats, NEW k, Fits(k), c = "shown" => ~k.road,
         Selection!SatCard(s, k), a' = s, UNCHANGED <<b, c, f, g>>
  PROVE  Selection!SelectionInv'
<1>1. Fits(d') /\ d'.road = k.road
  BY DEF Selection!SatCard, Fits, Selection!Cards
<1>2. /\ e' \in Selection!Inspector /\ (e'.shown => e'.left) /\ e'.about = e.about
      /\ e'.route = e.route /\ e'.photo = e.photo /\ (e'.shown => e.shown)
  BY DEF Selection!SatCard, Selection!SelectionInv, Selection!TypeOK, Selection!Inspector
<1> QED
  BY <1>1, <1>2
     DEF Fits, Selection!SelectionInv, Selection!TypeOK, Selection!InspectorOfTracked,
         Selection!Somethings

\* The Roadster's card, drawn or already there.
LEMMA RoadCardKeeps ==
  ASSUME Selection!SelectionInv, Selection!RoadCard, a' = Roadster, UNCHANGED <<b, c, f, g>>
  PROVE  Selection!SelectionInv'
<1>0. Roadster \notin Sats BY SelectionAssumption DEF Selection!SelectionAssumption
<1>1. Fits(d')
  BY CardsFitNow DEF Selection!RoadCard, Fits, Selection!Cards
<1>2. /\ e' \in Selection!Inspector /\ (e'.shown => e'.left) /\ e'.about = e.about
      /\ e'.route = e.route /\ e'.photo = e.photo /\ (e'.shown => e.shown)
  BY DEF Selection!RoadCard, Selection!SelectionInv, Selection!TypeOK, Selection!Inspector
<1> QED
  BY <1>0, <1>1, <1>2
     DEF Fits, Selection!SelectionInv, Selection!TypeOK, Selection!InspectorOfTracked,
         Selection!Somethings

\* A click on an aircraft, or on its row.
LEMMA SelectKeeps ==
  ASSUME Selection!SelectionInv, NEW x \in Planes, NEW k, Fits(k), Selection!Select(x, k),
         UNCHANGED <<b, c>>
  PROVE  Selection!SelectionInv'
<1>0. b \subseteq Planes /\ f.asking \subseteq Planes
  BY DEF Selection!SelectionInv, Selection!TypeOK
<1>1. CASE a = x
  BY <1>0, <1>1, ClearKeeps DEF Selection!Select
<1>2. CASE a # x
  <2>1. PICK callsign \in BOOLEAN :
          Selection!InspectCached(x, callsign, k) /\ Selection!Lookup(x, callsign)
    BY <1>2 DEF Selection!Select
  <2>2. f'.asking \subseteq Planes BY <1>0, <2>1 DEF Selection!Lookup
  <2>3. \E r \in {x, Selection!Nothing} : Selection!Inspect(x, r, k)
    BY <2>1 DEF Selection!InspectCached
  <2> QED BY <1>0, <1>2, <2>2, <2>3, InspectKeeps DEF Selection!Select
<1> QED BY <1>1, <1>2

LEMMA SelectionStep ==
  ASSUME Selection!SelectionInv, [Selection!Next]_(Selection!vars)
  PROVE  Selection!SelectionInv'
<1>0. /\ b \subseteq Planes /\ f.asking \subseteq Planes /\ Fits(d) /\ Fits(Selection!NoSatCard)
      /\ c \in {"shown", "hidden", "again"}
      /\ c = "shown" /\ a \in Sats => ~d.road
  BY CardsFitNow DEF Selection!SelectionInv, Selection!TypeOK
<1>k. /\ Selection!Nothing \notin Planes \cup Sats \cup Stars \cup {Roadster}
      /\ Planes \cap Sats = {} /\ Stars \cap Sats = {} /\ Roadster \notin Sats
  BY SelectionAssumption DEF Selection!SelectionAssumption
<1>1. ASSUME NEW x \in Planes, Selection!PlaneClicked(x) PROVE Selection!SelectionInv'
  <2>1. Fits(Selection!RoadCardClosed(Selection!NoSatCard)) BY <1>0, CardsFit
  <2> QED BY <1>1, <2>1, SelectKeeps DEF Selection!PlaneClicked
<1>2. ASSUME NEW x \in Planes, Selection!RadarClicked(x) PROVE Selection!SelectionInv'
  BY <1>0, <1>2, SelectKeeps DEF Selection!RadarClicked
<1>3. ASSUME NEW x \in Planes, Selection!RouteArrives(x) PROVE Selection!SelectionInv'
  <2>1. PICK answer \in {"route", "none"} :
          /\ f' = Selection!Known(x, answer)
          /\ IF answer = "route" /\ a = x THEN Selection!Inspect(x, x, d)
                                          ELSE UNCHANGED <<d, e, g>>
    BY <1>3 DEF Selection!RouteArrives
  <2>2. f'.asking \subseteq Planes BY <1>0, <2>1 DEF Selection!Known
  <2>3. UNCHANGED <<a, b, c>> BY <1>3 DEF Selection!RouteArrives
  <2>4. CASE answer = "route" /\ a = x
    BY <1>0, <2>1, <2>2, <2>3, <2>4, InspectKeeps
  <2>5. CASE ~(answer = "route" /\ a = x)
    BY <2>1, <2>2, <2>3, <2>5
       DEF Selection!SelectionInv, Selection!TypeOK, Selection!InspectorOfTracked
  <2> QED BY <2>4, <2>5
<1>4. ASSUME NEW new \in SUBSET Planes, Selection!AircraftArrive(new)
      PROVE  Selection!SelectionInv'
  <2>1. CASE a \in new
    <3>1. PICK callsign \in BOOLEAN : Selection!InspectCached(a, callsign, d)
      BY <1>4, <2>1 DEF Selection!AircraftArrive
    <3>2. \E r \in {a, Selection!Nothing} : Selection!Inspect(a, r, d)
      BY <3>1 DEF Selection!InspectCached
    <3> QED BY <1>0, <1>4, <2>1, <3>2, InspectKeeps DEF Selection!AircraftArrive
  <2>2. CASE a \notin new
    BY <1>4, <2>2
       DEF Selection!AircraftArrive, Selection!SelectionInv, Selection!TypeOK,
           Selection!InspectorOfTracked
  <2> QED BY <2>1, <2>2
<1>5. ASSUME NEW p \in g, Selection!PhotoArrives(p) PROVE Selection!SelectionInv'
  <2>1. p \in Selection!Photos /\ (p.now => p.of = e.about)
    BY DEF Selection!SelectionInv, Selection!TypeOK
  <2>2. /\ e' \in Selection!Inspector /\ e'.shown = e.shown /\ e'.left = e.left
        /\ e'.about = e.about /\ e'.route = e.route
        /\ e'.photo \in {e.photo, e.about}
    BY <1>5, <2>1 DEF Selection!PhotoArrives, Selection!SelectionInv, Selection!TypeOK,
       Selection!Inspector, Selection!Inspectable, Selection!Photos
  <2> QED
    BY <1>5, <2>2 DEF Selection!PhotoArrives, Selection!SelectionInv, Selection!TypeOK,
       Selection!InspectorOfTracked
<1>6. ASSUME NEW s \in Sats, Selection!SatClicked(s) PROVE Selection!SelectionInv'
  <2>1. CASE a = s
    BY <1>0, <1>6, <1>k, <2>1, CardsFit, LeftAlone DEF Selection!SatClicked
  <2>2. CASE a # s
    BY <1>0, <1>6, <2>2, CardsFit, SatCardKeeps DEF Selection!SatClicked
  <2> QED BY <2>1, <2>2
<1>7. ASSUME NEW s \in Stars, Selection!StarClicked(s) PROVE Selection!SelectionInv'
  <2> DEFINE k == Selection!RoadCardClosed(Selection!NoSatCard)
  <2>1. Fits(k) BY <1>0, CardsFit
  <2> HIDE DEF k
  <2>2. CASE a = s
    BY <1>0, <1>7, <2>1, <2>2, ClearKeeps DEF Selection!StarClicked, k
  <2>3. CASE a # s
    <3>1. /\ a' = s /\ d' = [k EXCEPT !.panel = FALSE] /\ g' = Selection!Superseded
          /\ e' = [shown |-> TRUE, about |-> s, route |-> Selection!Nothing, photo |-> s,
                   left |-> FALSE]
          /\ UNCHANGED <<b, c, f>>
      BY <1>7, <2>3 DEF Selection!StarClicked, k
    <3>2. Fits(d') BY <2>1, <3>1, CardsFit
    <3>3. g' \subseteq Selection!Photos /\ \A p \in g' : ~p.now BY <3>1, SupersededPhotos
    <3>4. e' \in Selection!Inspector /\ e'.about = a'
          /\ {e'.route, e'.photo} \subseteq {Selection!Nothing, e'.about}
      BY <3>1 DEF Selection!Inspector, Selection!Inspectable
    <3> QED
      BY <1>0, <1>k, <3>1, <3>2, <3>3, <3>4
         DEF Fits, Selection!SelectionInv, Selection!TypeOK, Selection!InspectorOfTracked,
             Selection!Somethings
  <2> QED BY <2>2, <2>3
<1>8. CASE Selection!SatTick
  BY <1>0, <1>8, SatCardKeeps DEF Selection!SatTick
<1>9. CASE Selection!RoadsterClicked
  <2>1. CASE a = Roadster
    BY <1>0, <1>9, <1>k, <2>1, CardsFit, LeftAlone DEF Selection!RoadsterClicked
  <2>2. CASE a # Roadster
    BY <1>9, <2>2, RoadCardKeeps DEF Selection!RoadsterClicked
  <2> QED BY <2>1, <2>2
<1>10. CASE Selection!RoadsterDrawn
  BY <1>10, RoadCardKeeps DEF Selection!RoadsterDrawn
<1>11. CASE Selection!BackFromSat
  BY <1>0, <1>11, <1>k, LeftAlone DEF Selection!BackFromSat
<1>12. CASE Selection!BackFromRoadster
  BY <1>0, <1>12, <1>k, CardsFit, LeftAlone DEF Selection!BackFromRoadster
<1>13. CASE Selection!OtherClicked
  BY <1>0, <1>13, CardsFit, ClearKeeps DEF Selection!OtherClicked
<1>14. CASE Selection!EmptyClicked
  BY <1>0, <1>14, CardsFit, LeftAlone DEF Selection!EmptyClicked
<1>15. CASE Selection!Deselected
  BY <1>0, <1>15, ClearKeeps DEF Selection!Deselected
<1>16. CASE Selection!StarsToggled
  <2>1. Fits(d)' BY <1>0, <1>16 DEF Fits, Selection!StarsToggled
  <2>2. c' # "shown" /\ c' \in {"hidden", "again"} BY <1>16 DEF Selection!StarsToggled
  <2> QED BY <1>0, <1>16, <2>2, LeftAlone DEF Selection!StarsToggled
<1>17. CASE UNCHANGED Selection!vars
  BY <1>17 DEF Selection!vars, Selection!SelectionInv, Selection!TypeOK,
     Selection!InspectorOfTracked
<1> QED
  BY <1>1, <1>2, <1>3, <1>4, <1>5, <1>6, <1>7, <1>8, <1>9, <1>10, <1>11, <1>12, <1>13, <1>14,
     <1>15, <1>16, <1>17 DEF Selection!Next, Selection!RowClicked

\* The inspector shows the selected object, with its own route and photo (app.js),
\* in whatever order clicks, routes and photos come, for any aircraft, satellites
\* and stars.
THEOREM InspectorHolds == Spec => []InspectorOfTracked
<1> DEFINE Inv == slice = "selection" => Selection!SelectionInv
<1>1. Init => Inv BY SelectionInit DEF Init
<1>2. Inv /\ [Next]_vars => Inv'
  <2> SUFFICES ASSUME Inv, [Next]_vars, slice' = "selection" PROVE Selection!SelectionInv'
    OBVIOUS
  <2>1. slice = "selection" /\ [Selection!Next]_(Selection!vars)
    BY DEF Next, vars, Selection!vars
  <2> QED BY <2>1, SelectionStep
<1>3. Inv => InspectorOfTracked BY DEF InspectorOfTracked, Selection!SelectionInv
<1> QED BY <1>1, <1>2, <1>3, PTL DEF Spec

(***************************************************************************)
(* The camera panel of the browser: Camera.                                *)
(***************************************************************************)
Stages == {"asking", "playing"}

LEMMA CameraInit == Camera!Init => Camera!CameraInv
<1> SUFFICES ASSUME Camera!Init PROVE Camera!CameraInv
  OBVIOUS
<1>1. c.starts = <<>> /\ c \in Camera!Cameras
  BY EmptySeq DEF Camera!Init, Camera!Cameras
<1>2. a \in Camera!Forms BY DEF Camera!Init, Camera!Forms
<1> QED
  BY <1>1, <1>2
     DEF Camera!Init, Camera!CameraInv, Camera!TypeOK, Camera!ForSettings, Camera!Noted,
         Camera!SolutionOfSettings, Camera!StreamsExplained

\* A sequence without one of its elements.
LEMMA RemovedStage ==
  ASSUME NEW s \in Seq(Stages), NEW i \in DOMAIN s
  PROVE  LET r == Camera!RemoveAt(s, i)
         IN  /\ r \in Seq(Stages) /\ Len(r) = Len(s) - 1
             /\ \A j \in DOMAIN r : \E n \in DOMAIN s : r[j] = s[n]
<1>1. i \in 1 .. Len(s) /\ Len(s) \in Nat /\ DOMAIN s = 1 .. Len(s)
      /\ \A j \in 1 .. Len(s) : s[j] \in Stages
  BY LenProperties, ElementOfSeq
<1> DEFINE front == SubSeq(s, 1, i - 1)
           back == SubSeq(s, i + 1, Len(s))
<1>2. front \in Seq(Stages) /\ Len(front) = i - 1 /\ \A j \in 1 .. i - 1 : front[j] = s[j]
  <2>1. 1 \in Int /\ i - 1 \in Int /\ \A j \in 1 .. i - 1 : s[j] \in Stages BY <1>1
  <2>2. /\ front \in Seq(Stages) /\ Len(front) = IF 1 <= i - 1 THEN (i - 1) - 1 + 1 ELSE 0
        /\ \A j \in 1 .. (i - 1) - 1 + 1 : front[j] = s[1 + j - 1]
    BY <2>1, SubSeqProperties
  <2> QED BY <1>1, <2>2
<1>3. back \in Seq(Stages) /\ Len(back) = Len(s) - i
      /\ \A j \in 1 .. Len(s) - i : back[j] = s[i + j]
  <2>1. /\ i + 1 \in Int /\ Len(s) \in Int
        /\ \A j \in i + 1 .. Len(s) : s[j] \in Stages
    BY <1>1
  <2>2. /\ back \in Seq(Stages)
        /\ Len(back) = IF i + 1 <= Len(s) THEN Len(s) - (i + 1) + 1 ELSE 0
        /\ \A j \in 1 .. Len(s) - (i + 1) + 1 : back[j] = s[(i + 1) + j - 1]
    BY <2>1, SubSeqProperties
  <2> QED BY <1>1, <2>2
<1>4. Camera!RemoveAt(s, i) = front \o back BY DEF Camera!RemoveAt
<1> HIDE DEF front, back
<1>5. /\ front \o back \in Seq(Stages) /\ Len(front \o back) = Len(s) - 1
      /\ \A j \in 1 .. Len(s) - 1 :
           (front \o back)[j] = IF j <= i - 1 THEN front[j] ELSE back[j - (i - 1)]
  <2>1. /\ front \o back \in Seq(Stages) /\ Len(front \o back) = Len(front) + Len(back)
        /\ \A j \in 1 .. Len(front) + Len(back) :
             (front \o back)[j] = IF j <= Len(front) THEN front[j] ELSE back[j - Len(front)]
    BY <1>2, <1>3, ConcatProperties
  <2>2. Len(front) + Len(back) = Len(s) - 1 /\ Len(front) = i - 1 BY <1>1, <1>2, <1>3
  <2> QED BY <2>1, <2>2
<1>6. \A j \in 1 .. Len(s) - 1 : \E n \in DOMAIN s : (front \o back)[j] = s[n]
  <2> SUFFICES ASSUME NEW j \in 1 .. Len(s) - 1
               PROVE  \E n \in DOMAIN s : (front \o back)[j] = s[n]
    OBVIOUS
  <2>1. CASE j <= i - 1
    <3>1. (front \o back)[j] = s[j] BY <1>1, <1>2, <1>5, <2>1
    <3> QED BY <1>1, <3>1
  <2>2. CASE ~(j <= i - 1)
    <3> DEFINE n == j - (i - 1)
    <3>1. n \in 1 .. Len(s) - i /\ i + n \in 1 .. Len(s) BY <1>1, <2>2
    <3>2. (front \o back)[j] = back[n] BY <1>5, <2>2
    <3> HIDE DEF n
    <3>3. back[n] = s[i + n] BY <1>3, <3>1
    <3> QED BY <1>1, <3>1, <3>2, <3>3
  <2> QED BY <2>1, <2>2
<1>7. DOMAIN (front \o back) = 1 .. Len(s) - 1 BY <1>5, LenProperties
<1> QED BY <1>4, <1>5, <1>6, <1>7

LEMMA CancelledSolves ==
  ASSUME Camera!CameraInv
  PROVE  Camera!Cancelled \subseteq Camera!Solves /\ \A s \in Camera!Cancelled : ~s.now
BY DEF Camera!Cancelled, Camera!Solves, Camera!CameraInv, Camera!TypeOK

\* What was for the settings still is when they stay, or has been cancelled.
LEMMA SettingsKept ==
  ASSUME Camera!CameraInv,
         \/ e' = e /\ f' = f /\ a'.lens = a.lens /\ a'.place = a.place
         \/ e' = e /\ f' = Camera!NoSolution /\ a'.lens = a.lens /\ a'.place = a.place
         \/ e' = Camera!Cancelled /\ f' = f /\ a'.lens = a.lens /\ a'.place = a.place
         \/ e' = Camera!Cancelled /\ f' = Camera!NoSolution
  PROVE  /\ e' \subseteq Camera!Solves /\ f' \in Camera!Solutions \cup {Camera!NoSolution}
         /\ Camera!ForSettings'
BY CancelledSolves
   DEF Camera!CameraInv, Camera!TypeOK, Camera!ForSettings, Camera!SolutionOfSettings

\* What was noted still is when no start begins or goes on.
LEMMA NotesKept ==
  ASSUME Camera!CameraInv, c'.starts = c.starts, c'.leaked = c.leaked, c'.active => c.active,
         h \subseteq h', d' # "none" => c'.active,
         a'.hidden => a.hidden \/ (~c'.active /\ (c.starts # <<>> => "closed" \in h'))
  PROVE  Camera!Noted'
BY DEF Camera!CameraInv, Camera!Noted, Camera!StreamsExplained

LEMMA StoppedCamera ==
  ASSUME Camera!CameraInv
  PROVE  /\ Camera!Stopped(c) \in Camera!Cameras /\ ~Camera!Stopped(c).active
         /\ Camera!Stopped(c).leaked = c.leaked /\ Camera!Stopped(c).starts = c.starts
BY DEF Camera!Stopped, Camera!CameraInv, Camera!TypeOK, Camera!Cameras

\* The camera is stopped or stays as it is.
LEMMA StopKeeps ==
  ASSUME Camera!CameraInv,
         (Camera!Stop(c) \/ (UNCHANGED <<c, d>> /\ (e' = e \/ e' = Camera!Cancelled))),
         a' \in Camera!Forms, a'.lens = a.lens /\ a'.place = a.place,
         f' \in {f, Camera!NoSolution}, h \subseteq h', h' \subseteq {"overlap", "closed", "probe"},
         a'.hidden => a.hidden \/ (~c'.active /\ (c.starts # <<>> => "closed" \in h'))
  PROVE  Camera!CameraInv'
<1>1. /\ c' \in Camera!Cameras /\ c'.starts = c.starts /\ c'.leaked = c.leaked
      /\ (c'.active => c.active)
  BY StoppedCamera DEF Camera!Stop, Camera!CameraInv, Camera!TypeOK
<1>2. d' \in {"none", "still"} /\ (d' # "none" => c'.active)
  BY DEF Camera!Stop, Camera!CameraInv, Camera!TypeOK, Camera!Noted, Camera!StreamsExplained
<1>3. e' = e \/ e' = Camera!Cancelled BY DEF Camera!Stop
<1>4. Camera!Noted' BY <1>1, <1>2, NotesKept
<1>5. /\ e' \subseteq Camera!Solves /\ f' \in Camera!Solutions \cup {Camera!NoSolution}
      /\ Camera!ForSettings'
  BY <1>3, SettingsKept
<1> QED BY <1>1, <1>2, <1>4, <1>5 DEF Camera!CameraInv, Camera!TypeOK

\* A call of startCamera is over; the camera may have been stopped with it.
LEMMA EndKeeps ==
  ASSUME Camera!CameraInv, NEW i \in DOMAIN c.starts,
         c' \in {Camera!Ended(c, i), Camera!Stopped(Camera!Ended(c, i))},
         e' = e \/ e' = Camera!Cancelled, f' \in {f, Camera!NoSolution},
         d' \in {d, "none"}, d' # "none" => c'.active, UNCHANGED <<a, h>>
  PROVE  Camera!CameraInv'
<1>0. c \in Camera!Cameras /\ c.starts \in Seq(Stages) /\ d \in {"none", "still"}
      /\ a \in Camera!Forms /\ h \subseteq {"overlap", "closed", "probe"}
  BY DEF Camera!CameraInv, Camera!TypeOK, Camera!Cameras, Stages
<1> DEFINE r == Camera!RemoveAt(c.starts, i)
<1>1. /\ r \in Seq(Stages) /\ Len(r) = Len(c.starts) - 1
      /\ \A j \in DOMAIN r : \E n \in DOMAIN c.starts : r[j] = c.starts[n]
  BY <1>0, RemovedStage
<1>2. /\ c' \in Camera!Cameras /\ c'.starts = r /\ c'.leaked = c.leaked
      /\ (c'.active => c.active)
  BY <1>0, <1>1 DEF Camera!Ended, Camera!Stopped, Camera!Cameras, Stages
<1> HIDE DEF r
<1>3. Len(c.starts) \in Nat /\ DOMAIN c.starts = 1 .. Len(c.starts) /\ c.starts # <<>>
  BY <1>0, LenProperties, EmptySeq
<1>4. Camera!Noted'
  <2>1. Len(r) > 1 => "overlap" \in h
    BY <1>1, <1>3 DEF Camera!CameraInv, Camera!Noted
  <2>2. c'.active /\ (\E j \in DOMAIN r : r[j] = "asking") => "overlap" \in h
    BY <1>1, <1>2 DEF Camera!CameraInv, Camera!Noted
  <2>3. a.hidden => h \cap {"closed", "probe"} # {}
    BY <1>3 DEF Camera!CameraInv, Camera!Noted
  <2> QED
    BY <1>2, <2>1, <2>2, <2>3
       DEF Camera!CameraInv, Camera!Noted, Camera!StreamsExplained
<1>5. /\ e' \subseteq Camera!Solves /\ f' \in Camera!Solutions \cup {Camera!NoSolution}
      /\ Camera!ForSettings'
  BY SettingsKept
<1> QED BY <1>0, <1>2, <1>4, <1>5 DEF Camera!CameraInv, Camera!TypeOK

\* A start begins: the camera it replaces is stopped first.
LEMMA StartKeeps ==
  ASSUME Camera!CameraInv, Camera!StartCamera, a' \in Camera!Forms, a'.hidden = a.hidden
  PROVE  Camera!CameraInv'
<1>0. c \in Camera!Cameras /\ c.starts \in Seq(Stages) /\ h \subseteq {"overlap", "closed", "probe"}
  BY DEF Camera!CameraInv, Camera!TypeOK, Camera!Cameras, Stages
<1>1. /\ c' \in Camera!Cameras /\ c'.starts = Append(c.starts, "asking")
      /\ c'.leaked = c.leaked /\ ~c'.active
  <2>1. Append(c.starts, "asking") \in Seq(Stages) BY <1>0, AppendProperties DEF Stages
  <2> QED BY <1>0, <2>1, StoppedCamera DEF Camera!StartCamera, Camera!Cameras, Stages
<1>2. h \subseteq h' /\ h' \subseteq {"overlap", "closed", "probe"} BY <1>0 DEF Camera!StartCamera
<1>3. Len(c'.starts) > 1 => "overlap" \in h'
  <2>1. CASE c.starts = <<>>
    <3>1. Len(c.starts) = 0 BY <2>1, EmptySeq
    <3>2. Len(c'.starts) = Len(c.starts) + 1 BY <1>0, <1>1, AppendProperties DEF Stages
    <3> QED BY <3>1, <3>2
  <2>2. CASE c.starts # <<>> BY <2>2 DEF Camera!StartCamera
  <2> QED BY <2>1, <2>2
<1>4. Camera!Noted'
  BY <1>1, <1>2, <1>3
     DEF Camera!StartCamera, Camera!CameraInv, Camera!Noted, Camera!StreamsExplained
<1>5. /\ e' \subseteq Camera!Solves /\ f' \in Camera!Solutions \cup {Camera!NoSolution}
      /\ Camera!ForSettings'
  BY SettingsKept DEF Camera!StartCamera, Camera!Invalidated
<1> QED BY <1>1, <1>2, <1>4, <1>5 DEF Camera!CameraInv, Camera!TypeOK, Camera!StartCamera

\* A stream opens; if one is open already, this start was not alone.
LEMMA OpenKeeps ==
  ASSUME Camera!CameraInv, NEW i \in DOMAIN c.starts, Camera!StreamOpens(i)
  PROVE  Camera!CameraInv'
<1>0. c \in Camera!Cameras /\ c.starts \in Seq(Stages) /\ i \in 1 .. Len(c.starts)
      /\ DOMAIN c.starts = 1 .. Len(c.starts) /\ Len(c.starts) \in Nat /\ c.starts # <<>>
  BY LenProperties, EmptySeq DEF Camera!CameraInv, Camera!TypeOK, Camera!Cameras, Stages
<1> DEFINE r == [c.starts EXCEPT ![i] = "playing"]
<1>1. /\ r \in Seq(Stages) /\ Len(r) = Len(c.starts) /\ DOMAIN r = 1 .. Len(c.starts)
      /\ \A j \in 1 .. Len(c.starts) : r[j] = IF j = i THEN "playing" ELSE c.starts[j]
  BY <1>0, ExceptSeq DEF Stages
<1>2. /\ c' \in Camera!Cameras /\ c'.starts = r /\ c'.active
      /\ (c'.leaked => c.leaked \/ c.active)
  BY <1>0, <1>1 DEF Camera!StreamOpens, Camera!Cameras, Stages
<1> HIDE DEF r
<1>3. c.active => "overlap" \in h
  BY DEF Camera!StreamOpens, Camera!CameraInv, Camera!Noted
<1>4. (\E j \in DOMAIN r : r[j] = "asking") => Len(c.starts) > 1
  BY <1>0, <1>1
<1>6. Camera!Noted'
  BY <1>0, <1>1, <1>2, <1>3, <1>4
     DEF Camera!StreamOpens, Camera!CameraInv, Camera!Noted, Camera!StreamsExplained
<1>7. Camera!ForSettings' BY SettingsKept DEF Camera!StreamOpens
<1> QED BY <1>2, <1>6, <1>7 DEF Camera!CameraInv, Camera!TypeOK, Camera!StreamOpens

\* Frames and solves: the panel, the camera and what was noted stay.
LEMMA SolvesKeep ==
  ASSUME Camera!CameraInv, UNCHANGED <<c, h>>, a' \in Camera!Forms, a'.hidden = a.hidden,
         d' \in {"none", "still"},
         d' # "none" => c.active, e' \subseteq Camera!Solves,
         f' \in Camera!Solutions \cup {Camera!NoSolution}, Camera!ForSettings'
  PROVE  Camera!CameraInv'
<1>1. Camera!Noted' BY NotesKept
<1> QED BY <1>1 DEF Camera!CameraInv, Camera!TypeOK

LEMMA CameraStep ==
  ASSUME Camera!CameraInv, [Camera!Next]_(Camera!vars)
  PROVE  Camera!CameraInv'
<1>0. /\ a \in Camera!Forms /\ d \in {"none", "still"} /\ (d # "none" => c.active)
      /\ h \subseteq {"overlap", "closed", "probe"}
      /\ e \subseteq Camera!Solves /\ f \in Camera!Solutions \cup {Camera!NoSolution}
      /\ \A s \in e : s.now => s.lens = a.lens /\ s.place = a.place
      /\ (f # Camera!NoSolution => f.lens = a.lens /\ f.place = a.place)
  BY DEF Camera!CameraInv, Camera!TypeOK, Camera!Noted, Camera!StreamsExplained,
     Camera!ForSettings, Camera!SolutionOfSettings
<1>1. CASE Camera!Start BY <1>0, <1>1, StartKeeps DEF Camera!Start
<1>2. CASE Camera!StopPressed
  BY <1>0, <1>2, StopKeeps DEF Camera!StopPressed
<1>3. CASE Camera!Close
  <2>1. a' \in Camera!Forms /\ a'.lens = a.lens /\ a'.place = a.place
    BY <1>0, <1>3 DEF Camera!Close, Camera!Forms
  <2>2. ~c'.active
    BY <1>3, StoppedCamera DEF Camera!Close, Camera!Stop
  <2>3. /\ h \subseteq h' /\ h' \subseteq {"overlap", "closed", "probe"} /\ f' = f
        /\ (c.starts # <<>> => "closed" \in h')
        /\ (Camera!Stop(c) \/ UNCHANGED <<c, d, e>>)
    BY <1>0, <1>3 DEF Camera!Close
  <2> QED BY <2>1, <2>2, <2>3, StopKeeps
<1>4. CASE Camera!Open
  <2>1. a' \in Camera!Forms /\ a'.lens = a.lens /\ a'.place = a.place /\ ~a'.hidden
    BY <1>0, <1>4 DEF Camera!Open, Camera!Forms
  <2> QED BY <1>0, <1>4, <2>1, StopKeeps DEF Camera!Open
<1>5. CASE Camera!DeviceChosen
  BY <1>0, <1>5, StopKeeps DEF Camera!DeviceChosen
<1>6. CASE Camera!ModeChosen
  <2>1. /\ a' \in Camera!Forms /\ a'.lens = a.lens /\ a'.place = a.place
        /\ a'.hidden = a.hidden
    BY <1>0, <1>6 DEF Camera!ModeChosen, Camera!Forms
  <2>2. /\ UNCHANGED <<f, h>>
        /\ Camera!Stop(c) \/ UNCHANGED <<c, d, e>>
    BY <1>6 DEF Camera!ModeChosen
  <2> QED BY <1>0, <2>1, <2>2, StopKeeps
<1>7. CASE Camera!LensChanged
  <2>1. a' \in Camera!Forms /\ a'.hidden = a.hidden
    BY <1>0, <1>7 DEF Camera!LensChanged, Camera!Forms
  <2>2. Camera!Noted' BY <1>0, <1>7, <2>1, NotesKept DEF Camera!LensChanged
  <2>3. e' \subseteq Camera!Solves /\ f' = Camera!NoSolution /\ Camera!ForSettings'
    BY <1>7, SettingsKept DEF Camera!LensChanged, Camera!Invalidated
  <2> QED BY <1>7, <2>1, <2>2, <2>3 DEF Camera!LensChanged, Camera!CameraInv, Camera!TypeOK
<1>8. CASE Camera!PlaceSaved
  <2>1. a' \in Camera!Forms BY <1>0, <1>8 DEF Camera!PlaceSaved, Camera!Forms
  <2>2. /\ c' \in Camera!Cameras /\ c'.starts = c.starts /\ c'.leaked = c.leaked
        /\ ~c'.active /\ d' = "none"
    BY <1>0, <1>8, StoppedCamera DEF Camera!PlaceSaved, Camera!CameraInv, Camera!TypeOK
  <2>3. /\ h \subseteq h' /\ h' \subseteq {"overlap", "closed", "probe"}
        /\ (c.starts # <<>> => "closed" \in h')
    BY <1>0, <1>8 DEF Camera!PlaceSaved
  <2>4. Camera!Noted' BY <2>2, <2>3, NotesKept
  <2>5. e' \subseteq Camera!Solves /\ f' = Camera!NoSolution /\ Camera!ForSettings'
    BY <1>8, SettingsKept DEF Camera!PlaceSaved, Camera!Invalidated
  <2> QED BY <2>1, <2>2, <2>3, <2>4, <2>5 DEF Camera!CameraInv, Camera!TypeOK
<1>9. CASE Camera!RearCameraChosen
  <2>1. /\ a' \in Camera!Forms /\ a'.lens = a.lens /\ a'.place = a.place
        /\ a'.hidden = a.hidden
    BY <1>0, <1>9 DEF Camera!RearCameraChosen, Camera!Forms
  <2>2. CASE Camera!StartCamera BY <2>1, <2>2, StartKeeps
  <2>3. CASE Camera!Invalidated /\ UNCHANGED <<b, c, d, h>>
    BY <1>0, <2>1, <2>3, StopKeeps DEF Camera!Invalidated
  <2> QED BY <1>9, <2>2, <2>3 DEF Camera!RearCameraChosen
<1>20. CASE Camera!RearCameraAsked
  <2>1. a' \in Camera!Forms /\ a'.hidden = a.hidden
    BY <1>0, <1>20 DEF Camera!RearCameraAsked, Camera!Forms
  <2>2. Camera!Noted' BY <1>0, <1>20, <2>1, NotesKept DEF Camera!RearCameraAsked
  <2>3. e' \subseteq Camera!Solves /\ f' = Camera!NoSolution /\ Camera!ForSettings'
    BY <1>20, SettingsKept DEF Camera!RearCameraAsked, Camera!Invalidated
  <2> QED
    BY <1>20, <2>1, <2>2, <2>3 DEF Camera!RearCameraAsked, Camera!CameraInv, Camera!TypeOK
<1>21. CASE Camera!ProbeFails \/ Camera!SteadyAsked
  <2>1. /\ a' \in Camera!Forms /\ a'.lens = a.lens /\ a'.place = a.place
        /\ a'.hidden = a.hidden
    BY <1>0, <1>21 DEF Camera!ProbeFails, Camera!SteadyAsked, Camera!Forms
  <2>2. UNCHANGED <<b, c, d, e, f, h>> BY <1>21 DEF Camera!ProbeFails, Camera!SteadyAsked
  <2> QED BY <1>0, <2>1, <2>2, StopKeeps
<1>10. CASE Camera!Capture
  <2>1. e' \subseteq Camera!Solves /\ f' = Camera!NoSolution /\ Camera!ForSettings'
    BY <1>10, SettingsKept DEF Camera!Capture, Camera!CaptureFrame, Camera!Invalidated
  <2>2. a' \in Camera!Forms /\ a'.hidden = a.hidden BY <1>0, <1>10 DEF Camera!Capture
  <2> QED BY <1>10, <2>1, <2>2, SolvesKeep DEF Camera!Capture, Camera!CaptureFrame
<1>22. CASE Camera!SteadyCapture
  <2>1. /\ a' \in Camera!Forms /\ a'.lens = a.lens /\ a'.place = a.place
        /\ a'.hidden = a.hidden
    BY <1>0, <1>22 DEF Camera!SteadyCapture, Camera!Forms
  <2>2. CASE Camera!CaptureFrame
    <3>1. e' \subseteq Camera!Solves /\ f' = Camera!NoSolution /\ Camera!ForSettings'
      BY <2>2, SettingsKept DEF Camera!CaptureFrame, Camera!Invalidated
    <3> QED
      BY <1>22, <2>1, <2>2, <3>1, SolvesKeep DEF Camera!SteadyCapture, Camera!CaptureFrame
  <2>3. CASE UNCHANGED <<d, e, f>>
    BY <1>0, <1>22, <2>1, <2>3, StopKeeps DEF Camera!SteadyCapture
  <2> QED BY <1>22, <2>2, <2>3 DEF Camera!SteadyCapture
<1>11. CASE Camera!Solve \/ Camera!SteadySolve
  <2> DEFINE new == [now |-> TRUE, stage |-> "stars", lens |-> a.lens, place |-> a.place]
  <2>1. new \in Camera!Solves BY <1>0 DEF Camera!Forms, Camera!Solves
  <2>2. (e' = e \cup {new} \/ e' = e) /\ UNCHANGED <<c, d, f, h>>
    BY <1>11 DEF Camera!Solve, Camera!SteadySolve, Camera!SolveFrame
  <2>3. /\ a' \in Camera!Forms /\ a'.lens = a.lens /\ a'.place = a.place
        /\ a'.hidden = a.hidden
    BY <1>0, <1>11 DEF Camera!Solve, Camera!SteadySolve, Camera!Forms
  <2>4. \A s \in e' : s.now => s.lens = a'.lens /\ s.place = a'.place BY <1>0, <2>2, <2>3
  <2>5. e' \subseteq Camera!Solves BY <1>0, <2>1, <2>2
  <2> HIDE DEF new
  <2>6. Camera!ForSettings'
    BY <1>0, <2>2, <2>3, <2>4 DEF Camera!ForSettings, Camera!SolutionOfSettings
  <2> QED BY <1>0, <2>2, <2>3, <2>5, <2>6, SolvesKeep
<1>12. CASE Camera!PhoneMoves
  BY <1>0, <1>12, SettingsKept, SolvesKeep DEF Camera!PhoneMoves
<1>13. CASE Camera!HalfSecondPasses
  BY <1>0, <1>13, SettingsKept, SolvesKeep DEF Camera!HalfSecondPasses
<1>14. ASSUME NEW i \in DOMAIN c.starts, Camera!StreamOpens(i) PROVE Camera!CameraInv'
  BY <1>14, OpenKeeps
<1>15. ASSUME NEW i \in DOMAIN c.starts, Camera!Plays(i) PROVE Camera!CameraInv'
  <2>1. c'.active = c.active
    BY <1>15 DEF Camera!Plays, Camera!Ended, Camera!CameraInv, Camera!TypeOK, Camera!Cameras
  <2> QED BY <1>0, <1>15, <2>1, EndKeeps DEF Camera!Plays
<1>16. ASSUME NEW i \in DOMAIN c.starts, Camera!StartFails(i) PROVE Camera!CameraInv'
  BY <1>16, EndKeeps DEF Camera!StartFails, Camera!Stop
<1>17. ASSUME NEW s \in e, Camera!StarsArrive(s) PROVE Camera!CameraInv'
  <2>1. /\ UNCHANGED <<a, c, d, f, h>>
        /\ e' \subseteq e \cup (IF s.now THEN {[s EXCEPT !.stage = "matching"]} ELSE {})
    BY <1>17 DEF Camera!StarsArrive
  <2>2. e' \subseteq Camera!Solves /\ \A x \in e' : x.now => x.lens = a.lens /\ x.place = a.place
    BY <1>0, <2>1 DEF Camera!Solves
  <2>3. Camera!ForSettings'
    BY <1>0, <2>1, <2>2 DEF Camera!ForSettings, Camera!SolutionOfSettings
  <2> QED BY <1>0, <2>1, <2>2, <2>3, SolvesKeep
<1>18. ASSUME NEW s \in e, Camera!Solved(s) PROVE Camera!CameraInv'
  <2>1. /\ UNCHANGED <<a, c, d, h>> /\ e' = e \ {s}
        /\ \/ f' = f \/ f' = Camera!NoSolution
           \/ s.now /\ f' = [lens |-> s.lens, place |-> s.place, handheld |-> a.handheld]
    BY <1>18 DEF Camera!Solved
  <2>2. f' \in Camera!Solutions \cup {Camera!NoSolution}
        /\ (f' # Camera!NoSolution => f'.lens = a.lens /\ f'.place = a.place)
    BY <1>0, <2>1 DEF Camera!Solutions, Camera!Solves, Camera!Forms
  <2>3. Camera!ForSettings'
    BY <1>0, <2>1, <2>2 DEF Camera!ForSettings, Camera!SolutionOfSettings
  <2> QED BY <1>0, <2>1, <2>2, <2>3, SolvesKeep
<1>19. ASSUME NEW s \in e, Camera!SolveFails(s) PROVE Camera!CameraInv'
  <2>1. UNCHANGED <<a, c, d, h>> /\ e' = e \ {s} /\ f' \in {f, Camera!NoSolution}
    BY <1>19 DEF Camera!SolveFails
  <2>2. Camera!ForSettings'
    BY <1>0, <2>1 DEF Camera!ForSettings, Camera!SolutionOfSettings
  <2> QED BY <1>0, <2>1, <2>2, SolvesKeep
<1>23. CASE UNCHANGED Camera!vars
  BY <1>0, <1>23, SettingsKept, SolvesKeep DEF Camera!vars
<1> QED
  BY <1>1, <1>2, <1>3, <1>4, <1>5, <1>6, <1>7, <1>8, <1>9, <1>10, <1>11, <1>12, <1>13, <1>14,
     <1>15, <1>16, <1>17, <1>18, <1>19, <1>20, <1>21, <1>22, <1>23 DEF Camera!Next

\* The alignment is of the current settings, and a stream is open unseen only in
\* the three named ways (camera-settings.js, mobile-camera.js), for any number of starts and solves
\* under way.
THEOREM CameraHolds == Spec => []CameraSound
<1> DEFINE Inv == slice = "camera" => Camera!CameraInv
<1>1. Init => Inv BY CameraInit DEF Init
<1>2. Inv /\ [Next]_vars => Inv'
  <2> SUFFICES ASSUME Inv, [Next]_vars, slice' = "camera" PROVE Camera!CameraInv'
    OBVIOUS
  <2>1. slice = "camera" /\ [Camera!Next]_(Camera!vars)
    BY DEF Next, vars, Camera!vars
  <2> QED BY <2>1, CameraStep
<1>3. Inv => CameraSound
  BY DEF CameraSound, Camera!CameraInv, Camera!ForSettings, Camera!Noted
<1> QED BY <1>1, <1>2, <1>3, PTL DEF Spec

(***************************************************************************)
(* The caches of facts about one object: LookupCaches.                     *)
(***************************************************************************)
Dated(q) ==
  /\ q \in Seq(Lookup!Entries)
  /\ \A i \in DOMAIN q : Lookup!Dated(q[i])

LEMMA LookupInit == Lookup!Init => Lookup!LookupInv
<1> SUFFICES ASSUME Lookup!Init PROVE Lookup!LookupInv
  OBVIOUS
<1>1. b \in Seq(Lookup!Entries) /\ Len(b) = 0 /\ DOMAIN b = {}
  BY EmptySeq DEF Lookup!Init
<1>2. c = [t \in Threads |-> Lookup!Resting] BY DEF Lookup!Init
<1>3. Lookup!TypeOK
  BY <1>1, <1>2 DEF Lookup!Init, Lookup!TypeOK, Lookup!Resting, Lookup!NoEntry, Lookup!Answer,
         Lookup!Calls
<1>4. Lookup!AnswersInTime /\ Lookup!OneOwnerTable
  BY <1>1, <1>2, LookupAssumption
     DEF Lookup!AnswersInTime, Lookup!OneOwnerTable, Lookup!Resting, Lookup!LookupAssumption
<1> QED BY <1>1, <1>2, <1>3, <1>4 DEF Lookup!LookupInv, Lookup!Resting

\* A sequence without one of its entries.
LEMMA WithoutOne ==
  ASSUME NEW q, Dated(q), NEW j \in 1 .. Len(q)
  PROVE  Dated(Lookup!Without(q, j)) /\ Len(Lookup!Without(q, j)) = Len(q) - 1
<1>1. /\ Len(q) \in Nat /\ Len(q) > 0 /\ DOMAIN q = 1 .. Len(q)
      /\ \A i \in 1 .. Len(q) : q[i] \in Lookup!Entries
  BY LenProperties, ElementOfSeq DEF Dated
<1> DEFINE n == Len(q) - 1
           w == [i \in 1 .. n |-> IF i < j THEN q[i] ELSE q[i + 1]]
<1>2. n \in Nat BY <1>1
<1>3. \A i \in 1 .. n : w[i] \in Lookup!Entries /\ Lookup!Dated(w[i])
  <2> SUFFICES ASSUME NEW i \in 1 .. n PROVE w[i] \in Lookup!Entries /\ Lookup!Dated(w[i])
    OBVIOUS
  <2>1. i \in DOMAIN q /\ i + 1 \in DOMAIN q BY <1>1
  <2>2. w[i] = q[i] \/ w[i] = q[i + 1] OBVIOUS
  <2> QED BY <1>1, <2>1, <2>2 DEF Dated
<1>4. Lookup!Without(q, j) = w BY DEF Lookup!Without
<1>5. DOMAIN w = 1 .. n OBVIOUS
<1>6. w = [i \in 1 .. n |-> w[i]] OBVIOUS
<1> HIDE DEF n, w
<1>7. w \in Seq(Lookup!Entries) /\ Len(w) = n BY <1>2, <1>3, <1>5, <1>6
<1>8. Dated(w) BY <1>3, <1>5, <1>7 DEF Dated
<1> QED BY <1>4, <1>7, <1>8 DEF n

LEMMA StoredOne ==
  ASSUME NEW q, Dated(q), NEW x \in Lookup!Entries, Lookup!Dated(x)
  PROVE  Dated(Lookup!Stored(q, x)) /\ Len(Lookup!Stored(q, x)) <= Len(q) + 1
<1>1. Len(q) \in Nat /\ DOMAIN q = 1 .. Len(q) /\ q \in Seq(Lookup!Entries)
  BY LenProperties DEF Dated
<1>2. CASE Lookup!Places(q, x.key) = {}
  <2>1. Lookup!Stored(q, x) = Append(q, x) BY <1>2 DEF Lookup!Stored
  <2>2. /\ Append(q, x) \in Seq(Lookup!Entries) /\ Len(Append(q, x)) = Len(q) + 1
        /\ \A i \in 1 .. Len(q) : Append(q, x)[i] = q[i]
        /\ Append(q, x)[Len(q) + 1] = x
    BY <1>1, AppendProperties
  <2>3. DOMAIN Append(q, x) = 1 .. Len(q) + 1 BY <2>2, LenProperties
  <2> QED BY <1>1, <2>1, <2>2, <2>3 DEF Dated
<1>3. CASE Lookup!Places(q, x.key) # {}
  <2> DEFINE i == CHOOSE n \in Lookup!Places(q, x.key) : TRUE
  <2>1. Lookup!Stored(q, x) = [q EXCEPT ![i] = x] BY <1>3 DEF Lookup!Stored
  <2>2. i \in 1 .. Len(q) BY <1>1, <1>3 DEF Lookup!Places
  <2> HIDE DEF i
  <2>3. /\ [q EXCEPT ![i] = x] \in Seq(Lookup!Entries) /\ Len([q EXCEPT ![i] = x]) = Len(q)
        /\ \A n \in 1 .. Len(q) : [q EXCEPT ![i] = x][n] = IF n = i THEN x ELSE q[n]
    BY <1>1, <2>2, ExceptSeq
  <2>4. DOMAIN [q EXCEPT ![i] = x] = 1 .. Len(q) BY <1>1
  <2>5. Dated([q EXCEPT ![i] = x]) BY <1>1, <2>3, <2>4 DEF Dated
  <2> QED BY <1>1, <2>1, <2>3, <2>5
<1> QED BY <1>2, <1>3

LEMMA TrimmedOne ==
  ASSUME NEW q, Dated(q), NEW k
  PROVE  /\ Dated(Lookup!Trimmed(q, k))
         /\ a = "roadster" /\ Len(q) <= Capacity + 1 => Len(Lookup!Trimmed(q, k)) <= Capacity
<1>1. Len(q) \in Nat /\ Capacity \in Nat
  BY LookupAssumption, LenProperties DEF Dated, Lookup!LookupAssumption
<1>2. CASE a # "roadster" \/ Len(q) <= Capacity
  BY <1>2 DEF Lookup!Trimmed
<1>3. CASE a = "roadster" /\ Len(q) > Capacity
  <2>1. PICK j \in 1 .. Len(q) : Lookup!Trimmed(q, k) = Lookup!Without(q, j)
    <3>1. CASE q[1].key = k /\ Len(q) > 1
      <4>1. 2 \in 1 .. Len(q) BY <1>1, <3>1
      <4>2. Lookup!Trimmed(q, k) = Lookup!Without(q, 2) BY <1>1, <1>3, <3>1 DEF Lookup!Trimmed
      <4> QED BY <4>1, <4>2
    <3>2. CASE ~(q[1].key = k /\ Len(q) > 1)
      <4>1. 1 \in 1 .. Len(q) BY <1>1, <1>3
      <4>2. Lookup!Trimmed(q, k) = Lookup!Without(q, 1) BY <1>1, <1>3, <3>2 DEF Lookup!Trimmed
      <4> QED BY <4>1, <4>2
    <3> QED BY <3>1, <3>2
  <2> QED BY <1>1, <2>1, WithoutOne
<1> QED BY <1>1, <1>2, <1>3

\* What one thread's call is, if it is sound.
CallSound(r) ==
  /\ r \in Lookup!Calls
  /\ r.pc \in {"fetching", "owners"} => r.key \in Keys
  /\ r.pc = "done" /\ r.answered = "cache" => r.found.asked + Lookup!Lifetime(r.value) > r.asked

LEMMA LookupParts ==
  Lookup!LookupInv <=>
    /\ Dated(b) /\ (a = "roadster" => Len(b) <= Capacity)
    /\ a \in {"route", "photo", "metadata", "roadster"}
    /\ c \in [Threads -> Lookup!Calls] /\ \A t \in Threads : CallSound(c[t])
    /\ d \in {"unset", "table", "nothing"} /\ Lookup!OneOwnerTable
    /\ e \in Nat
BY DEF Lookup!LookupInv, Lookup!TypeOK, Lookup!AnswersInTime, Dated, CallSound

\* One call changes, the cache and the clock stay.
LEMMA CallChanges ==
  ASSUME Lookup!LookupInv, NEW t \in Threads, NEW r, CallSound(r),
         c' = [c EXCEPT ![t] = r], UNCHANGED <<a, b, e>>,
         d' \in {"unset", "table", "nothing"}, d = "unset" \/ d' = d, r.owners \in {"unset", d'}
  PROVE  Lookup!LookupInv'
<1>1. c' \in [Threads -> Lookup!Calls] /\ \A u \in Threads : c'[u] = IF u = t THEN r ELSE c[u]
  BY DEF CallSound, Lookup!LookupInv, Lookup!TypeOK
<1>2. Lookup!OneOwnerTable' BY <1>1 DEF Lookup!LookupInv, Lookup!OneOwnerTable
<1>3. Lookup!AnswersInTime'
  BY <1>1 DEF CallSound, Lookup!LookupInv, Lookup!AnswersInTime, Lookup!Lifetime
<1>4. \A u \in Threads : c'[u].pc \in {"fetching", "owners"} => c'[u].key \in Keys
  BY <1>1 DEF CallSound, Lookup!LookupInv
<1> QED
  BY <1>1, <1>2, <1>3, <1>4 DEF Lookup!LookupInv, Lookup!TypeOK, Lookup!Dated, Lookup!Lifetime

\* What is found under a key is an entry of the cache.
LEMMA EntryFound ==
  ASSUME Lookup!LookupInv, NEW k
  PROVE  LET x == Lookup!Entry(b, k)
         IN  x = Lookup!NoEntry \/ (x \in Lookup!Entries /\ Lookup!Dated(x))
<1>1. CASE Lookup!Places(b, k) = {} BY <1>1 DEF Lookup!Entry
<1>2. CASE Lookup!Places(b, k) # {}
  <2> DEFINE i == CHOOSE n \in Lookup!Places(b, k) : TRUE
  <2>1. i \in DOMAIN b /\ Lookup!Entry(b, k) = b[i]
    BY <1>2 DEF Lookup!Places, Lookup!Entry
  <2> HIDE DEF i
  <2>2. b[i] \in Lookup!Entries
    BY <2>1, LenProperties, ElementOfSeq DEF Lookup!LookupInv, Lookup!TypeOK
  <2> QED BY <2>1, <2>2 DEF Lookup!LookupInv
<1> QED BY <1>1, <1>2

LEMMA LookupStep ==
  ASSUME Lookup!LookupInv, [Lookup!Next]_(Lookup!vars)
  PROVE  Lookup!LookupInv'
<1>0. /\ c \in [Threads -> Lookup!Calls] /\ \A t \in Threads : CallSound(c[t])
      /\ d \in {"unset", "table", "nothing"} /\ \A t \in Threads : c[t].owners \in {"unset", d}
      /\ e \in Nat
  BY LookupParts DEF Lookup!OneOwnerTable
<1>r. Lookup!Resting \in Lookup!Calls
  BY DEF Lookup!Resting, Lookup!Calls, Lookup!NoEntry, Lookup!Answer
<1>1. ASSUME NEW t \in Threads, NEW k \in Keys, Lookup!Look(t, k) PROVE Lookup!LookupInv'
  <2> DEFINE x == Lookup!Entry(b, k)
             call == [Lookup!Resting EXCEPT !.key = k, !.asked = e, !.found = x]
             hit == [call EXCEPT !.pc = "done", !.value = x.value, !.answered = "cache"]
             miss == [call EXCEPT !.pc = "fetching"]
  <2>1. x = Lookup!NoEntry \/ (x \in Lookup!Entries /\ Lookup!Dated(x)) BY EntryFound
  <2>2. c' = [c EXCEPT ![t] = IF Lookup!Counts(x) THEN hit ELSE miss] /\ UNCHANGED <<a, b, d, e>>
    BY <1>1 DEF Lookup!Look
  <2> HIDE DEF x
  <2>3. CASE Lookup!Counts(x)
    <3>1. CallSound(hit) /\ hit.owners = "unset"
      BY <1>0, <1>r, <2>1, <2>3
         DEF CallSound, Lookup!Resting, Lookup!Calls, Lookup!Entries, Lookup!Answer,
             Lookup!Counts, Lookup!Dated
    <3> QED BY <1>0, <2>2, <2>3, <3>1, CallChanges
  <2>4. CASE ~Lookup!Counts(x)
    <3>1. CallSound(miss) /\ miss.owners = "unset"
      BY <1>0, <1>r, <2>1
         DEF CallSound, Lookup!Resting, Lookup!Calls, Lookup!Answer
    <3> QED BY <1>0, <2>2, <2>4, <3>1, CallChanges
  <2> QED BY <2>3, <2>4
<1>2. ASSUME NEW t \in Threads, Lookup!OwnersRead(t) PROVE Lookup!LookupInv'
  <2>1. c' = [c EXCEPT ![t] = [c[t] EXCEPT !.owners = d]] /\ UNCHANGED <<a, b, d, e>>
    BY <1>0, <1>2 DEF Lookup!OwnersRead
  <2>2. CallSound([c[t] EXCEPT !.owners = d]) BY <1>0 DEF CallSound, Lookup!Calls
  <2>3. [c[t] EXCEPT !.owners = d].owners = d BY <1>0 DEF Lookup!Calls
  <2> QED BY <1>0, <2>1, <2>2, <2>3, CallChanges
<1>3. ASSUME NEW t \in Threads, Lookup!OwnersAsked(t) PROVE Lookup!LookupInv'
  <2>1. c' = [c EXCEPT ![t] = [c[t] EXCEPT !.pc = "owners"]] /\ UNCHANGED <<a, b, d, e>>
        /\ c[t].pc = "fetching"
    BY <1>0, <1>3 DEF Lookup!OwnersAsked
  <2>2. CallSound([c[t] EXCEPT !.pc = "owners"]) BY <1>0, <2>1 DEF CallSound, Lookup!Calls
  <2>3. [c[t] EXCEPT !.pc = "owners"].owners = c[t].owners BY <1>0 DEF Lookup!Calls
  <2> QED BY <1>0, <2>1, <2>2, <2>3, CallChanges
<1>4. ASSUME NEW t \in Threads, NEW got \in {"table", "nothing"}, Lookup!OwnersArrive(t, got)
      PROVE  Lookup!LookupInv'
  <2> DEFINE r == [c[t] EXCEPT !.pc = "fetching", !.owners = d']
  <2>1. /\ c' = [c EXCEPT ![t] = r] /\ UNCHANGED <<a, b, e>> /\ c[t].pc = "owners"
        /\ d' = IF d = "unset" THEN got ELSE d
    BY <1>0, <1>4 DEF Lookup!OwnersArrive
  <2>2. d' \in {"unset", "table", "nothing"} /\ (d = "unset" \/ d' = d) BY <1>0, <2>1
  <2>3. CallSound(r) /\ r.owners = d' BY <1>0, <2>1, <2>2 DEF CallSound, Lookup!Calls
  <2> HIDE DEF r
  <2> QED BY <2>1, <2>2, <2>3, CallChanges
<1>5. ASSUME NEW t \in Threads, NEW value \in {"fact", "nothing", "error"},
             Lookup!Fetched(t, value)
      PROVE  Lookup!LookupInv'
  <2> DEFINE Over(v) == [Lookup!Resting EXCEPT !.pc = "done", !.value = v, !.owners = c[t].owners]
  <2>1. \A v \in Lookup!Answer : CallSound(Over(v)) /\ Over(v).owners = c[t].owners
    BY <1>0, <1>r DEF CallSound, Lookup!Resting, Lookup!Calls
  <2>2. c[t].found.value \in Lookup!Answer
    BY <1>0 DEF Lookup!Calls, Lookup!Entries, Lookup!NoEntry, Lookup!Answer
  <2>3. c[t].pc = "fetching" /\ UNCHANGED <<a, d, e>> BY <1>5 DEF Lookup!Fetched
  <2>4. CASE value = "error"
    <3>1. c' = [c EXCEPT ![t] = Over(c[t].found.value)] /\ UNCHANGED b
      BY <1>5, <2>4 DEF Lookup!Fetched, Lookup!Ended
    <3> HIDE DEF Over
    <3> QED BY <1>0, <2>1, <2>2, <2>3, <3>1, CallChanges
  <2>5. CASE value \in {"fact", "nothing"}
    <3> DEFINE x == [key |-> c[t].key, value |-> value, asked |-> c[t].asked,
                     until |-> c[t].asked + Lookup!Lifetime(value)]
    <3>1. /\ c' = [c EXCEPT ![t] = Over(value)]
          /\ b' = Lookup!Trimmed(Lookup!Stored(b, x), c[t].key)
      BY <1>5, <2>5 DEF Lookup!Fetched, Lookup!Ended
    <3>2. c[t].key \in Keys /\ c[t].asked \in Nat /\ Lookup!Lifetime(value) \in Nat
      BY <1>0, <2>3, LookupAssumption
         DEF CallSound, Lookup!Calls, Lookup!Lifetime, Lookup!LookupAssumption
    <3>3. x \in Lookup!Entries /\ Lookup!Dated(x)
      BY <2>5, <3>2 DEF Lookup!Entries, Lookup!Dated
    <3> HIDE DEF x, Over
    <3>4. Dated(b) /\ (a = "roadster" => Len(b) <= Capacity) BY LookupParts
    <3>5. Dated(Lookup!Stored(b, x)) /\ Len(Lookup!Stored(b, x)) <= Len(b) + 1
      BY <3>3, <3>4, StoredOne
    <3>6. Len(b) \in Nat /\ Len(Lookup!Stored(b, x)) \in Nat /\ Capacity \in Nat
      BY <3>4, <3>5, LookupAssumption, LenProperties DEF Dated, Lookup!LookupAssumption
    <3>7. a = "roadster" => Len(Lookup!Stored(b, x)) <= Capacity + 1 BY <3>4, <3>5, <3>6
    <3>8. Dated(b') /\ (a = "roadster" => Len(b') <= Capacity)
      BY <3>1, <3>5, <3>7, TrimmedOne
    <3>9. b' \in Seq(Lookup!Entries) /\ (\A i \in DOMAIN b : Lookup!Dated(b[i]))'
      BY <2>3, <3>8 DEF Dated, Lookup!Dated, Lookup!Lifetime
    <3>10. value \in Lookup!Answer BY <2>5 DEF Lookup!Answer
    <3>11. /\ c' \in [Threads -> Lookup!Calls]
           /\ \A u \in Threads : c'[u] = IF u = t THEN Over(value) ELSE c[u]
      BY <1>0, <2>1, <3>1, <3>10 DEF CallSound
    <3>12. \A u \in Threads : CallSound(c'[u]) /\ c'[u].owners \in {"unset", d}
      BY <1>0, <2>1, <3>10, <3>11
    <3>13. Lookup!AnswersInTime' /\ Lookup!OneOwnerTable'
      BY <2>3, <3>8, <3>12
         DEF CallSound, Lookup!AnswersInTime, Lookup!OneOwnerTable, Lookup!Lifetime
    <3>14. \A u \in Threads : c'[u].pc \in {"fetching", "owners"} => c'[u].key \in Keys
      BY <3>12 DEF CallSound
    <3>15. Lookup!TypeOK'
      BY <1>0, <2>3, <3>9, <3>11 DEF Lookup!LookupInv, Lookup!TypeOK
    <3> QED BY <3>9, <3>13, <3>14, <3>15 DEF Lookup!LookupInv
  <2> QED BY <2>4, <2>5
<1>6. ASSUME NEW t \in Threads, Lookup!Return(t) PROVE Lookup!LookupInv'
  <2>1. CallSound(Lookup!Resting) /\ Lookup!Resting.owners = "unset"
    BY <1>r DEF CallSound, Lookup!Resting
  <2> QED BY <1>0, <1>6, <2>1, CallChanges DEF Lookup!Return
<1>7. CASE Lookup!Tick
  BY <1>0, <1>7 DEF Lookup!Tick, Lookup!LookupInv, Lookup!TypeOK, Lookup!Dated, Lookup!Lifetime,
     Lookup!AnswersInTime, Lookup!OneOwnerTable
<1>8. CASE UNCHANGED Lookup!vars
  BY <1>8 DEF Lookup!vars, Lookup!LookupInv, Lookup!TypeOK, Lookup!Dated, Lookup!Lifetime,
     Lookup!AnswersInTime, Lookup!OneOwnerTable
<1> QED
  BY <1>1, <1>2, <1>3, <1>4, <1>5, <1>6, <1>7, <1>8 DEF Lookup!Next

\* What the lookup caches answer was asked for within its lifetime, and all owner
\* descriptions come from one table (aircraft_routes.py and the others), for any
\* number of threads and keys, any lifetimes and any capacity.
THEOREM LookupsHold == Spec => []AnswersInTime
<1> DEFINE Inv == slice = "lookup" => Lookup!LookupInv
<1>1. Init => Inv BY LookupInit DEF Init
<1>2. Inv /\ [Next]_vars => Inv'
  <2> SUFFICES ASSUME Inv, [Next]_vars, slice' = "lookup" PROVE Lookup!LookupInv'
    OBVIOUS
  <2>1. slice = "lookup" /\ [Lookup!Next]_(Lookup!vars)
    BY DEF Next, vars, Lookup!vars
  <2> QED BY <2>1, LookupStep
<1>3. Inv => AnswersInTime BY DEF AnswersInTime, Lookup!LookupInv
<1> QED BY <1>1, <1>2, <1>3, PTL DEF Spec

(***************************************************************************)
(* The circle of azimuths and longitudes.                                  *)
(***************************************************************************)
\* A remainder is the only one.
LEMMA Circled ==
  ASSUME NEW C \in Nat, C > 0, NEW n \in Int, NEW q \in Int, NEW r \in 0 .. C - 1, n = C * q + r
  PROVE  n % C = r
<1> DEFINE whole == n \div C
           rest == n % C
<1>1. whole \in Int /\ rest \in 0 .. C - 1 /\ n = C * whole + rest OBVIOUS
<1> HIDE DEF whole, rest
<1>2. C * (whole - q) = r - rest BY <1>1
<1>3. CASE whole - q >= 1
  <2>1. C * (whole - q) >= C BY <1>1, <1>3
  <2> QED BY <2>1, <1>1, <1>2
<1>4. CASE whole - q <= -1
  <2>1. C * (whole - q) <= -C BY <1>1, <1>4
  <2> QED BY <2>1, <1>1, <1>2
<1>5. CASE whole = q BY <1>1, <1>5 DEF rest
<1> QED BY <1>1, <1>3, <1>4, <1>5

\* Going on from a point of the circle.
LEMMA TurnedBy ==
  ASSUME NEW C \in Nat, C > 0, NEW n \in Int, NEW k \in Int
  PROVE  ((n % C) + k) % C = (n + k) % C
<1> DEFINE m == n + k
           whole == n \div C
           rest == n % C
           p == m \div C
           r == m % C
<1>1. whole \in Int /\ rest \in 0 .. C - 1 /\ n = C * whole + rest OBVIOUS
<1>2. m \in Int /\ p \in Int /\ r \in 0 .. C - 1 /\ m = C * p + r OBVIOUS
<1> HIDE DEF whole, rest, p, r
<1>3. rest + k = C * (p - whole) + r BY <1>1, <1>2
<1>4. rest + k \in Int /\ p - whole \in Int BY <1>1, <1>2
<1>5. (rest + k) % C = r BY <1>2, <1>3, <1>4, Circled
<1> QED BY <1>5 DEF rest, r

\* Less than half way round, the way is the shorter one.
LEMMA ShorterIs ==
  ASSUME NEW C \in Nat, C > 0, NEW n \in Int, NEW k \in Int, 2 * k < C, -C < 2 * k
  PROVE  ((((n + k) % C) - (n % C) + C \div 2) % C) - C \div 2 = k
<1> DEFINE half == C \div 2
           whole == n \div C
           rest == n % C
           m == half - rest
<1>1. whole \in Int /\ rest \in 0 .. C - 1 /\ n = C * whole + rest OBVIOUS
<1>2. half \in Nat /\ k + half \in 0 .. C - 1 OBVIOUS
<1> HIDE DEF half, whole, rest
<1>3. m \in Int /\ n + k \in Int /\ (n + k) % C \in Int BY <1>1, <1>2
<1>4. ((n + k) % C) - rest + half = ((n + k) % C) + m BY <1>1, <1>2, <1>3
<1>5. (((n + k) % C) + m) % C = ((n + k) + m) % C
  <2> HIDE DEF m
  <2> QED BY <1>3, TurnedBy
<1>6. (n + k) + m = C * whole + (k + half) BY <1>1, <1>2
<1>7. ((n + k) + m) % C = k + half
  <2>1. (n + k) + m \in Int BY <1>3
  <2> HIDE DEF m
  <2> QED BY <1>1, <1>2, <1>6, <2>1, Circled
<1>8. (((n + k) % C) - rest + half) % C = k + half BY <1>4, <1>5, <1>7
<1>9. (k + half) - half = k BY <1>2
<1> QED BY <1>8, <1>9 DEF half, rest

\* A whole number of shares.
LEMMA Shares ==
  ASSUME NEW m \in Nat, m > 0, NEW k \in Int
  PROVE  (m * k) \div m = k
<1> DEFINE n == m * k
           whole == n \div m
           rest == n % m
<1>1. n \in Int /\ n = m * k + 0 OBVIOUS
<1>2. rest = 0 BY <1>1, Circled
<1>3. whole \in Int /\ n = m * whole + rest BY <1>1
<1> HIDE DEF n, whole, rest
<1>4. m * (whole - k) = 0 BY <1>1, <1>2, <1>3
<1>5. CASE whole - k >= 1
  <2>1. m * (whole - k) >= m BY <1>3, <1>5
  <2> QED BY <2>1, <1>4
<1>6. CASE whole - k <= -1
  <2>1. m * (whole - k) <= -m BY <1>3, <1>6
  <2> QED BY <2>1, <1>4
<1>7. CASE whole = k BY <1>7 DEF whole, n
<1> QED BY <1>3, <1>5, <1>6, <1>7

(***************************************************************************)
(* The window of the desktop's view: ViewWindow.                           *)
(***************************************************************************)
Windows == [facing : Int, fov : Nat, low : Nat, high : Nat]

LEMMA Limits ==
  /\ Narrowest \in Nat /\ Narrowest > 0 /\ Sky \in Nat /\ Sky >= Narrowest /\ Round \in Nat
  /\ Round > 0 /\ \A fov \in Fovs : fov \in Nat /\ fov >= Narrowest
BY ViewAssumption DEF View!ViewAssumption

\* A quantity that is scaled stays between its limits.
LEMMA ScaledBetween ==
  ASSUME NEW q \in Nat, NEW in \in BOOLEAN, NEW most \in Nat, Narrowest <= most
  PROVE  /\ View!Scaled(q, in, Narrowest, most) \in Nat
         /\ Narrowest <= View!Scaled(q, in, Narrowest, most)
         /\ View!Scaled(q, in, Narrowest, most) <= most
BY Limits DEF View!Scaled, View!Least, View!Most

\* A window is pushed into the sky and keeps its height.
LEMMA InsideSky ==
  ASSUME NEW v \in Windows, NEW low \in Int, NEW high \in Int,
         Narrowest <= high - low, high - low <= Sky
  PROVE  LET w == View!Inside(v, low, high)
         IN  /\ w \in Windows /\ w.fov = v.fov /\ w.facing = v.facing
             /\ w.high - w.low = high - low /\ w.low + Narrowest <= w.high /\ w.high <= Sky
             /\ w.low > 0 /\ w.high < Sky => w.high = high
             /\ \A z \in 0 .. Sky : low <= z /\ z <= high => w.low <= z /\ z <= w.high
<1> DEFINE up == View!Most(0, -low)
           down == View!Most(0, high + up - Sky)
           bottom == View!Most(0, low + up - down)
           top == View!Least(Sky, high + up - down)
<1>1. up \in Nat /\ up = IF low < 0 THEN -low ELSE 0 BY DEF View!Most
<1>2. down \in Nat /\ down = IF high + up > Sky THEN high + up - Sky ELSE 0
  BY <1>1, Limits DEF View!Most
<1>3. bottom \in Int /\ bottom = IF low + up - down > 0 THEN low + up - down ELSE 0
  BY <1>1, <1>2 DEF View!Most
<1>4. top \in Int /\ top = IF high + up - down > Sky THEN Sky ELSE high + up - down
  BY <1>1, <1>2, Limits DEF View!Least
<1>5. View!Inside(v, low, high) = [v EXCEPT !.low = bottom, !.high = top]
  BY DEF View!Inside
<1> HIDE DEF up, down, bottom, top
<1>6. /\ bottom \in Nat /\ top \in Nat /\ top - bottom = high - low /\ top <= Sky
      /\ (bottom > 0 /\ top < Sky => top = high)
      /\ \A z \in 0 .. Sky : low <= z /\ z <= high => bottom <= z /\ z <= top
  BY <1>1, <1>2, <1>3, <1>4, Limits
<1> DEFINE w == [v EXCEPT !.low = bottom, !.high = top]
<1>7. w \in Windows /\ w.fov = v.fov /\ w.facing = v.facing /\ w.low = bottom /\ w.high = top
  BY <1>6 DEF Windows
<1> HIDE DEF w
<1>8. w.low + Narrowest <= w.high BY <1>6, <1>7, Limits
<1> QED BY <1>5, <1>6, <1>7, <1>8 DEF w

ViewTypes ==
  /\ a \in [facing : Int, fov : Nat]
  /\ b \in Windows
  /\ c \in [on : BOOLEAN, facing : Int, low : Nat, high : Nat]

\* A height in the plot is some whole number of units.
LEMMA WholeUnits ==
  /\ \A m, n \in Int : (m * n) \div 4 \in Int /\ (m * n) \div 8 \in Int
  /\ \A m \in Int : m \div 2 \in Int /\ m % Round \in Int
<1>1. \A m \in Int : m \div 4 \in Int /\ m \div 8 \in Int /\ m \div 2 \in Int OBVIOUS
<1>2. \A m, n \in Int : m * n \in Int OBVIOUS
<1>3. \A m \in Int : m % Round \in Int BY Limits
<1> QED BY <1>1, <1>2, <1>3

\* Zooming leaves the window in the sky and uncut, and keeps what is under the
\* pointer in the middle column.
LEMMA ZoomKeeps ==
  ASSUME ViewTypes, NEW v \in Windows, View!InSky(v), NEW in \in BOOLEAN,
         NEW x \in {0, 2, 4}, NEW y \in {0, 2, 4}
  PROVE  LET w == View!Zoomed(v, in, x, y)
         IN  /\ w \in Windows /\ View!InSky(w) /\ View!Uncut(v, w, in)
             /\ x = 2 => View!PointKept(v, w, y)
<1> DEFINE span == View!Scaled(v.high - v.low, in, Narrowest, Sky)
           fov == View!Scaled(v.fov, in, Narrowest, a.fov)
           at == View!ElevationAt(v, y)
           high == at + (y * span) \div 4
           facing == (v.facing + View!Turn(v, in, x)) % Round
           u == [v EXCEPT !.facing = facing, !.fov = fov]
           w == View!Inside(u, high - span, high)
<1>1. /\ v.facing \in Int /\ v.fov \in Nat /\ v.low \in Nat /\ v.high \in Nat /\ a.fov \in Nat
      /\ v.low + Narrowest <= v.high /\ v.high <= Sky /\ Narrowest <= v.fov /\ v.fov <= a.fov
  BY DEF ViewTypes, Windows, View!InSky
<1>2. span \in Nat /\ Narrowest <= span /\ span <= Sky
  <2>1. v.high - v.low \in Nat /\ Sky \in Nat /\ Narrowest <= Sky BY <1>1, Limits
  <2> QED BY <2>1, ScaledBetween, Zenon
<1>3. fov \in Nat /\ Narrowest <= fov /\ fov <= a.fov
  <2>1. Narrowest <= a.fov BY <1>1, Limits
  <2> QED BY <2>1, <1>1, ScaledBetween, Zenon
<1>4. at \in Int /\ at = v.high - (y * (v.high - v.low)) \div 4
  <2>1. y \in Int /\ v.high - v.low \in Int BY <1>1
  <2> QED BY <2>1, <1>1, WholeUnits DEF View!ElevationAt
<1>5. high \in Int
  <2>1. y \in Int /\ span \in Int BY <1>2
  <2> QED BY <2>1, <1>4, WholeUnits
<1>6. facing \in Int
  <2>1. 2 * x - 4 \in Int OBVIOUS
  <2>2. ((2 * x - 4) * v.fov) \div 8 \in Int BY <2>1, <1>1, WholeUnits
  <2>3. View!Turn(v, in, x) \in Int BY <2>2, WholeUnits DEF View!Turn
  <2> QED BY <2>3, <1>1, WholeUnits
<1>7. View!Zoomed(v, in, x, y) = w
  BY DEF View!Zoomed
<1>8. \A q : View!ElevationAt(q, y) = q.high - (y * (q.high - q.low)) \div 4
  BY DEF View!ElevationAt
<1> HIDE DEF span, fov, at, high, facing
<1>9. u \in Windows /\ u.fov = fov /\ u.facing = facing
  BY <1>1, <1>3, <1>6 DEF Windows
<1> HIDE DEF u
<1>10. high - span \in Int /\ high - (high - span) = span
  BY <1>2, <1>5
<1>11. /\ w \in Windows /\ w.fov = fov /\ w.facing = facing /\ w.high - w.low = span
       /\ w.low + Narrowest <= w.high /\ w.high <= Sky
       /\ w.low > 0 /\ w.high < Sky => w.high = high
  BY <1>2, <1>5, <1>9, <1>10, InsideSky
<1> HIDE DEF w
<1>12. View!InSky(w)
  BY <1>3, <1>11, Limits DEF View!InSky, Windows
<1>13. w.low > 0 /\ w.high < Sky => View!ElevationAt(w, y) = View!ElevationAt(v, y)
  <2> SUFFICES ASSUME w.low > 0, w.high < Sky
               PROVE  View!ElevationAt(w, y) = at
    BY DEF at
  <2>1. View!ElevationAt(w, y) = w.high - (y * span) \div 4
    BY <1>8, <1>11
  <2> DEFINE part == (y * span) \div 4
  <2>2. part \in Int
    BY <1>2, WholeUnits
  <2>3. w.high = at + part BY <1>11 DEF high
  <2> HIDE DEF part
  <2> QED BY <2>1, <2>2, <2>3, <1>4 DEF part
<1>14. View!Uncut(v, w, in)
  BY <1>11 DEF View!Uncut, span
<1>15. x = 2 => w.facing = v.facing % Round
  <2> SUFFICES ASSUME x = 2 PROVE facing = v.facing % Round
    BY <1>11
  <2>1. (2 * x - 4) * v.fov = 0 BY <1>1
  <2>2. View!Turn(v, in, x) = 0 BY <2>1 DEF View!Turn
  <2>3. v.facing + View!Turn(v, in, x) = v.facing BY <1>1, <2>2
  <2> QED BY <2>3 DEF facing
<1> QED BY <1>7, <1>11, <1>12, <1>13, <1>14, <1>15 DEF View!PointKept

\* Following brings the aircraft into the window.
LEMMA CentreKeeps ==
  ASSUME ViewTypes, NEW v \in Windows, View!InSky(v), NEW azimuth \in Int, NEW elevation \in 0 .. Sky
  PROVE  LET w == View!Centred(v, azimuth, elevation)
         IN  w \in Windows /\ View!InSky(w) /\ w.low <= elevation /\ elevation <= w.high
<1> DEFINE span == View!Scaled(2 * (v.high - v.low), TRUE, Narrowest, Sky)
           half == span \div 2
           low == elevation - half
           u == [v EXCEPT !.facing = azimuth % Round]
           w == View!Inside(u, low, low + span)
<1>1. /\ v.facing \in Int /\ v.fov \in Nat /\ v.low \in Nat /\ v.high \in Nat
      /\ v.low + Narrowest <= v.high /\ v.high <= Sky /\ Narrowest <= v.fov /\ v.fov <= a.fov
  BY DEF Windows, View!InSky
<1>2. span \in Nat /\ Narrowest <= span /\ span <= Sky
  <2>1. 2 * (v.high - v.low) \in Nat BY <1>1, Limits
  <2> QED BY <2>1, Limits, ScaledBetween
<1>3. View!Centred(v, azimuth, elevation) = w
  BY DEF View!Centred
<1>4. u \in Windows /\ u.fov = v.fov
  BY <1>1, WholeUnits DEF Windows
<1> HIDE DEF span
<1>5. half \in Nat /\ half <= span BY <1>2
<1> HIDE DEF half, u
<1>6. low \in Int /\ low + span \in Int /\ (low + span) - low = span
      /\ low <= elevation /\ elevation <= low + span
  BY <1>2, <1>5, Limits
<1> HIDE DEF low
<1>7. /\ w \in Windows /\ w.fov = u.fov /\ w.low + Narrowest <= w.high /\ w.high <= Sky
      /\ w.low <= elevation /\ elevation <= w.high
  BY <1>2, <1>4, <1>6, InsideSky
<1> HIDE DEF w
<1> QED BY <1>1, <1>3, <1>4, <1>7, Limits DEF View!InSky, Windows

LEMMA WholeSky ==
  ASSUME NEW fov \in Fovs, NEW facing \in Int
  PROVE  LET w == View!Whole([facing |-> facing, fov |-> fov])
         IN  w \in Windows /\ w.fov = fov /\ w.low = 0 /\ w.high = Sky
BY Limits DEF View!Whole, Windows

LEMMA ViewInvParts ==
  View!ViewInv <=> /\ ViewTypes /\ View!InSky(b)
                   /\ c.on => c.low + Narrowest <= c.high /\ c.high <= Sky
BY DEF View!ViewInv, ViewTypes, Windows

LEMMA ViewInit == View!Init => View!ViewInv
<1> SUFFICES ASSUME View!Init PROVE View!ViewInv
  OBVIOUS
<1>1. PICK fov \in Fovs : a = [facing |-> 0, fov |-> fov]
  BY DEF View!Init
<1>2. b = View!Whole([facing |-> 0, fov |-> fov]) /\ c = View!NoDrag
  BY <1>1 DEF View!Init
<1>3. b \in Windows /\ b.fov = fov /\ b.low = 0 /\ b.high = Sky
  BY <1>2, WholeSky
<1>4. c \in [on : BOOLEAN, facing : Int, low : Nat, high : Nat] /\ ~c.on
  BY <1>2 DEF View!NoDrag
<1>5. a \in [facing : Int, fov : Nat] /\ a.fov = fov
  BY <1>1, Limits
<1>6. View!InSky(b)
  BY <1>3, <1>5, Limits DEF View!InSky
<1> QED BY <1>3, <1>4, <1>5, <1>6, ViewInvParts DEF ViewTypes

\* The invariant follows from a window in the sky when the drag and the settings
\* are left alone.
LEMMA WindowMoves ==
  ASSUME View!ViewInv, UNCHANGED <<a, c>>, b' \in Windows,
         b'.fov <= a.fov, Narrowest <= b'.fov,
         0 <= b'.low, b'.low + Narrowest <= b'.high, b'.high <= Sky
  PROVE  View!ViewInv'
BY DEF View!ViewInv, View!InSky, Windows

LEMMA SkyWindow ==
  ASSUME NEW w, View!InSky(w)
  PROVE  /\ w.fov <= a.fov /\ Narrowest <= w.fov
         /\ 0 <= w.low /\ w.low + Narrowest <= w.high /\ w.high <= Sky
BY DEF View!InSky

LEMMA ViewStep == View!ViewInv /\ [View!Next]_(View!vars) => View!ViewInv'
<1> SUFFICES ASSUME View!ViewInv, [View!Next]_(View!vars) PROVE View!ViewInv'
  OBVIOUS
<1>0. ViewTypes /\ View!InSky(b) /\ b \in Windows
  BY ViewInvParts DEF ViewTypes
<1>1. CASE View!ViewSet
  <2>1. PICK facing \in {0, Round - 1}, fov \in Fovs : a' = [facing |-> facing, fov |-> fov]
    BY <1>1 DEF View!ViewSet
  <2>2. facing \in Int /\ fov \in Nat /\ fov >= Narrowest BY Limits
  <2>3. b' = View!Whole([facing |-> facing, fov |-> fov]) /\ c' = c
    BY <1>1, <2>1 DEF View!ViewSet
  <2>4. b' \in Windows /\ b'.fov = fov /\ b'.low = 0 /\ b'.high = Sky
    BY <2>2, <2>3, WholeSky
  <2>5. a' \in [facing : Int, fov : Nat] /\ a'.fov = fov
    BY <2>1, <2>2
  <2> QED BY <2>2, <2>3, <2>4, <2>5, Limits DEF View!ViewInv, View!InSky, Windows
<1>2. CASE View!ResetZoom
  <2>1. a = [facing |-> a.facing, fov |-> a.fov] /\ a.facing \in Int /\ a.fov \in Nat
    BY <1>0 DEF ViewTypes
  <2>2. b' = [facing |-> a.facing, fov |-> a.fov, low |-> 0, high |-> Sky] /\ UNCHANGED <<a, c>>
    BY <1>2 DEF View!ResetZoom, View!Whole
  <2>3. b' \in Windows /\ b'.fov = a.fov /\ b'.low = 0 /\ b'.high = Sky
    BY <2>1, <2>2, Limits DEF Windows
  <2>4. Narrowest <= a.fov
    BY <1>0, <2>1, Limits DEF View!InSky, Windows
  <2> QED BY <2>1, <2>2, <2>3, <2>4, Limits, WindowMoves
<1>3. CASE View!Zoom
  <2>1. PICK in \in BOOLEAN, x \in {0, 2, 4}, y \in {0, 2, 4} : b' = View!Zoomed(b, in, x, y)
    BY <1>3 DEF View!Zoom
  <2>2. b' \in Windows /\ View!InSky(b') /\ UNCHANGED <<a, c>>
    BY <1>0, <1>3, <2>1, ZoomKeeps DEF View!Zoom
  <2> QED BY <2>2, SkyWindow, WindowMoves
<1>4. CASE View!PanStart
  <2>1. UNCHANGED <<a, b>> BY <1>4 DEF View!PanStart
  <2>2. c' = [on |-> TRUE, facing |-> b.facing, low |-> b.low, high |-> b.high]
    BY <1>4 DEF View!PanStart
  <2>3. c' \in [on : BOOLEAN, facing : Int, low : Nat, high : Nat] /\ c'.low = b.low /\ c'.high = b.high
    BY <1>0, <2>2 DEF Windows
  <2>4. b.low + Narrowest <= b.high /\ b.high <= Sky BY <1>0 DEF View!InSky
  <2> QED BY <2>1, <2>3, <2>4 DEF View!ViewInv, View!InSky
<1>5. CASE View!Pan
  <2>1. PICK dx \in {-4, 0, 1}, dy \in {-4, 0, 1} :
          LET shift == (dy * (c.high - c.low)) \div 4
          IN b' = View!Inside([b EXCEPT !.facing = (c.facing - ((dx * b.fov) \div 4)) % Round],
                              c.low + shift, c.high + shift)
    BY <1>5 DEF View!Pan
  <2> DEFINE shift == (dy * (c.high - c.low)) \div 4
             facing == (c.facing - ((dx * b.fov) \div 4)) % Round
             u == [b EXCEPT !.facing = facing]
  <2>2. /\ c.low \in Nat /\ c.high \in Nat /\ c.facing \in Int /\ b.fov \in Nat
        /\ c.low + Narrowest <= c.high /\ c.high <= Sky
    BY <1>5, ViewInvParts, <1>0 DEF View!Pan, ViewTypes, Windows
  <2>3. shift \in Int
    <3>1. dy \in Int /\ c.high - c.low \in Int BY <2>2
    <3> QED BY <3>1, WholeUnits
  <2>4. facing \in Int
    <3>1. dx \in Int OBVIOUS
    <3>2. (dx * b.fov) \div 4 \in Int BY <3>1, <2>2, WholeUnits
    <3> QED BY <3>2, <2>2, WholeUnits
  <2>5. b' = View!Inside(u, c.low + shift, c.high + shift)
    BY <2>1
  <2> HIDE DEF shift, facing
  <2>6. u \in Windows /\ u.fov = b.fov
    BY <1>0, <2>4 DEF Windows
  <2> HIDE DEF u
  <2>7. /\ c.low + shift \in Int /\ c.high + shift \in Int
        /\ (c.high + shift) - (c.low + shift) = c.high - c.low
        /\ Narrowest <= c.high - c.low /\ c.high - c.low <= Sky
    BY <2>2, <2>3, Limits
  <2>8. /\ b' \in Windows /\ b'.fov = b.fov
        /\ b'.low + Narrowest <= b'.high /\ b'.high <= Sky
    BY <2>5, <2>6, <2>7, InsideSky
  <2>9. Narrowest <= b.fov /\ b.fov <= a.fov /\ 0 <= b'.low
    BY <1>0, <2>8 DEF View!InSky, Windows
  <2>10. UNCHANGED <<a, c>> BY <1>5 DEF View!Pan
  <2> QED BY <2>8, <2>9, <2>10, WindowMoves
<1>6. CASE View!PanEnd
  BY <1>0, <1>6 DEF View!PanEnd, View!NoDrag, View!ViewInv, View!InSky
<1>7. CASE View!Follow
  <2>1. PICK azimuth \in {0, 1, Round \div 2}, elevation \in {0, 1, Sky \div 2, Sky} :
          b' = View!Centred(b, azimuth, elevation)
    BY <1>7 DEF View!Follow
  <2>2. Round \div 2 \in Int /\ Sky \div 2 \in 0 .. Sky /\ 1 \in 0 .. Sky
    BY Limits
  <2>3. azimuth \in Int /\ elevation \in 0 .. Sky
    BY <2>2, Limits
  <2>4. b' \in Windows /\ View!InSky(b')
    BY <1>0, <2>1, <2>3, CentreKeeps
  <2>5. UNCHANGED <<a, c>> BY <1>7 DEF View!Follow
  <2> QED BY <2>4, <2>5, SkyWindow, WindowMoves
<1>8. CASE UNCHANGED View!vars
  BY <1>8 DEF View!vars, View!ViewInv, View!InSky
<1> QED BY <1>1, <1>2, <1>3, <1>4, <1>5, <1>6, <1>7, <1>8 DEF View!Next

LEMMA WindowFits == View!ViewInv => View!WindowSound
<1> SUFFICES ASSUME View!ViewInv PROVE View!WindowSound
  OBVIOUS
<1>1. ViewTypes /\ View!InSky(b) /\ b \in Windows
  BY ViewInvParts DEF ViewTypes
<1>2. \A in \in BOOLEAN, x, y \in {0, 2, 4} :
        LET w == View!Zoomed(b, in, x, y)
        IN View!InSky(w) /\ View!Uncut(b, w, in) /\ (x = 2 => View!PointKept(b, w, y))
  BY <1>1, ZoomKeeps
<1>3. \A elevation \in 0 .. Sky :
        LET w == View!Centred(b, 0, elevation) IN w.low <= elevation /\ elevation <= w.high
  BY <1>1, CentreKeeps
<1> QED BY <1>1, <1>2, <1>3 DEF View!WindowSound

\* The window of the view stays in the sky, the next zoom keeps it there uncut,
\* with what is under the pointer in the middle column of the plot, and an aircraft that is followed is in it:
\* set_view, _zoom_about, pan_live_view_window and centred_elevation_window, for
\* every circle, sky, field of view and narrowest window.
THEOREM WindowStaysInSky == Spec => []WindowSound
<1> DEFINE Inv == slice = "view" => View!ViewInv
<1>1. Init => Inv BY ViewInit DEF Init
<1>2. Inv /\ [Next]_vars => Inv'
  <2> SUFFICES ASSUME Inv, [Next]_vars, slice' = "view" PROVE View!ViewInv'
    OBVIOUS
  <2>1. slice = "view" /\ [View!Next]_(View!vars)
    BY DEF Next, vars, View!vars
  <2> QED BY <2>1, ViewStep
<1>3. Inv => WindowSound BY WindowFits DEF WindowSound
<1> QED BY <1>1, <1>2, <1>3, PTL DEF Spec

(***************************************************************************)
(* The motion of an aircraft: AircraftMotion.                              *)
(***************************************************************************)
LEMMA MotionLimits ==
  /\ Circle \in Nat /\ Circle > 0 /\ MaxFixes \in Nat /\ MaxFixes > 1
  /\ MaxHistoryAge \in Nat /\ MaxHistoryAge > 0 /\ 2 * MaxHistoryAge < Circle
  /\ PredictionLimit \in Nat /\ Projected \in Nat /\ MaxSeen \in Nat /\ MaxSkew \in Nat
BY MotionAssumption DEF Motion!MotionAssumption

LEMMA OnwardFrom ==
  ASSUME NEW n \in Int, NEW k \in Int
  PROVE  ((n % Circle) + k) % Circle = (n + k) % Circle
<1>1. Circle \in Nat /\ Circle > 0 BY MotionLimits
<1> QED BY <1>1, TurnedBy

\* Fixes in the order of their times, one at least.
Timely(q) ==
  /\ q \in Seq(Motion!Fixes) /\ q # <<>>
  /\ \A i, j \in DOMAIN q : i < j => q[i].at < q[j].at

LEMMA TimelyParts ==
  ASSUME NEW q, Timely(q)
  PROVE  /\ Len(q) \in Nat /\ Len(q) > 0 /\ DOMAIN q = 1 .. Len(q)
         /\ \A i \in 1 .. Len(q) : q[i] \in Motion!Fixes /\ q[i].at \in Nat
         /\ \A i \in 1 .. Len(q) : q[i].at <= q[Len(q)].at
<1>1. Len(q) \in Nat /\ DOMAIN q = 1 .. Len(q) /\ Len(q) # 0
  BY LenProperties, EmptySeq DEF Timely
<1>2. \A i \in 1 .. Len(q) : q[i] \in Motion!Fixes /\ q[i].at \in Nat
  BY <1>1, ElementOfSeq DEF Timely, Motion!Fixes
<1>3. \A i \in 1 .. Len(q) : q[i].at <= q[Len(q)].at
  <2> SUFFICES ASSUME NEW i \in 1 .. Len(q) PROVE q[i].at <= q[Len(q)].at
    OBVIOUS
  <2>1. CASE i = Len(q) BY <1>1, <1>2, <2>1
  <2>2. CASE i < Len(q)
    <3>1. i \in DOMAIN q /\ Len(q) \in DOMAIN q BY <1>1
    <3>2. q[i].at < q[Len(q)].at BY <2>2, <3>1 DEF Timely
    <3> QED BY <1>1, <1>2, <3>1, <3>2
  <2>3. i = Len(q) \/ i < Len(q)
    <3>1. \A n \in Nat : \A k \in 1 .. n : k = n \/ k < n OBVIOUS
    <3> QED BY <1>1, <3>1
  <2> QED BY <2>1, <2>2, <2>3
<1> QED BY <1>1, <1>2, <1>3

\* The lowest of some numbers.
LEMMA Lowest ==
  ASSUME NEW S, S \subseteq Nat, S # {}
  PROVE  \E m \in S : \A k \in S : m <= k
<1> DEFINE R == OpToRel(<, Nat)
<1>1. IsWellFoundedOn(R, Nat) BY NatLessThanWellFounded
<1>2. \A m, n \in Nat : m < n => <<m, n>> \in R BY DEF OpToRel
<1> HIDE DEF R
<1>3. PICK m \in S : \A k \in S : ~ (<<k, m>> \in R) BY <1>1, WFMin
<1>4. m \in Nat /\ \A k \in S : k \in Nat /\ ~(k < m) BY <1>2, <1>3
<1>5. \A k \in S : m <= k BY <1>4
<1> QED BY <1>3, <1>5

\* The last fixes of such a sequence.
LEMMA TimelyEnd ==
  ASSUME NEW q, Timely(q), NEW m \in 1 .. Len(q)
  PROVE  LET r == SubSeq(q, m, Len(q))
         IN  /\ Timely(r) /\ Len(r) = Len(q) - m + 1
             /\ r[1] = q[m] /\ Motion!Last(r) = Motion!Last(q)
<1> DEFINE r == SubSeq(q, m, Len(q))
<1>1. /\ Len(q) \in Nat /\ DOMAIN q = 1 .. Len(q)
      /\ \A i \in 1 .. Len(q) : q[i] \in Motion!Fixes
  BY TimelyParts
<1>2. \A i \in m .. Len(q) : q[i] \in Motion!Fixes BY <1>1
<1>3. /\ r \in Seq(Motion!Fixes) /\ Len(r) = Len(q) - m + 1
      /\ \A i \in 1 .. Len(q) - m + 1 : r[i] = q[m + i - 1]
  BY <1>1, <1>2, SubSeqProperties
<1>4. DOMAIN r = 1 .. Len(q) - m + 1 BY <1>3, LenProperties
<1> HIDE DEF r
<1>5. r # <<>> BY <1>1, <1>3, EmptySeq
<1>6. r[1] = q[m]
  <2>1. 1 \in 1 .. Len(q) - m + 1 /\ m + 1 - 1 = m BY <1>1
  <2>2. r[1] = q[m + 1 - 1] BY <1>3, <2>1
  <2> QED BY <2>1, <2>2
<1>7. Motion!Last(r) = Motion!Last(q)
  <2>1. r[Len(q) - m + 1] = q[m + (Len(q) - m + 1) - 1] BY <1>1, <1>3
  <2>2. m + (Len(q) - m + 1) - 1 = Len(q) BY <1>1
  <2> QED BY <1>3, <2>1, <2>2 DEF Motion!Last
<1>8. ASSUME NEW i \in DOMAIN r, NEW j \in DOMAIN r, i < j PROVE r[i].at < r[j].at
  <2>1. m + i - 1 \in DOMAIN q /\ m + j - 1 \in DOMAIN q /\ m + i - 1 < m + j - 1
    BY <1>1, <1>4, <1>8
  <2>2. r[i] = q[m + i - 1] /\ r[j] = q[m + j - 1] BY <1>3, <1>4
  <2> QED BY <2>1, <2>2 DEF Timely
<1>9. Timely(r) BY <1>3, <1>5, <1>8 DEF Timely
<1> QED BY <1>3, <1>6, <1>7, <1>9 DEF r

\* A fix more, in its place or not at all.
LEMMA FixAdded ==
  ASSUME NEW q, q = <<>> \/ Timely(q), NEW x \in Motion!Fixes
  PROVE  LET r == Motion!Extended(q, x)
         IN  Timely(r) /\ (q # <<>> => Motion!Last(q).at <= Motion!Last(r).at)
<1> DEFINE r == Motion!Extended(q, x)
<1>0. x.at \in Nat BY DEF Motion!Fixes
<1>1. CASE q = <<>>
  <2>1. DOMAIN q = {} BY <1>1
  <2>2. r = Append(<<>>, x) BY <1>1, <2>1 DEF Motion!Extended
  <2>3. r = <<x>> BY <2>2
  <2>4. <<x>> \in Seq(Motion!Fixes) /\ <<x>> # <<>> /\ DOMAIN <<x>> = 1 .. 1 OBVIOUS
  <2>5. Timely(<<x>>) BY <2>4 DEF Timely
  <2> QED BY <1>1, <2>3, <2>5
<1>2. CASE q # <<>> /\ \E i \in DOMAIN q : q[i].at = x.at
  <2> DEFINE s == [i \in DOMAIN q |-> IF q[i].at = x.at THEN x ELSE q[i]]
  <2>0. Timely(q) BY <1>2
  <2>1. r = s BY <1>2 DEF Motion!Extended
  <2>2. /\ Len(q) \in Nat /\ Len(q) > 0 /\ DOMAIN q = 1 .. Len(q)
        /\ \A i \in 1 .. Len(q) : q[i] \in Motion!Fixes
    BY <2>0, TimelyParts
  <2>3. DOMAIN s = 1 .. Len(q) /\ \A i \in 1 .. Len(q) : s[i] \in Motion!Fixes /\ s[i].at = q[i].at
    BY <2>2
  <2>4. s \in Seq(Motion!Fixes) /\ Len(s) = Len(q)
    <3>1. s = [i \in 1 .. Len(q) |-> s[i]] BY <2>3
    <3> HIDE DEF s
    <3> QED BY <2>2, <2>3, <3>1
  <2> HIDE DEF s
  <2>5. s # <<>> BY <2>2, <2>4
  <2>6. \A i, j \in DOMAIN s : i < j => s[i].at < s[j].at BY <2>0, <2>2, <2>3 DEF Timely
  <2>7. Timely(s) BY <2>4, <2>5, <2>6 DEF Timely
  <2>8. Len(q) \in 1 .. Len(q) BY <2>2
  <2>9. s[Len(q)].at = q[Len(q)].at /\ q[Len(q)].at \in Nat
    BY <2>3, <2>8, <2>2 DEF Motion!Fixes
  <2> QED BY <2>1, <2>4, <2>7, <2>9 DEF Motion!Last
<1>3. CASE q # <<>> /\ ~(\E i \in DOMAIN q : q[i].at = x.at) /\ x.at < Motion!Last(q).at
  <2>1. r = q BY <1>3 DEF Motion!Extended
  <2>2. Motion!Last(q).at \in Nat BY <1>3, TimelyParts DEF Motion!Last
  <2> QED BY <1>3, <2>1, <2>2
<1>4. CASE q # <<>> /\ ~(\E i \in DOMAIN q : q[i].at = x.at) /\ ~(x.at < Motion!Last(q).at)
  <2> DEFINE s == Append(q, x)
  <2>0. Timely(q) BY <1>4
  <2>1. r = s BY <1>4 DEF Motion!Extended
  <2>2. /\ Len(q) \in Nat /\ Len(q) > 0 /\ DOMAIN q = 1 .. Len(q) /\ q \in Seq(Motion!Fixes)
        /\ \A i \in 1 .. Len(q) : q[i].at \in Nat /\ q[i].at <= q[Len(q)].at
    BY <2>0, TimelyParts DEF Timely
  <2>3. /\ s \in Seq(Motion!Fixes) /\ Len(s) = Len(q) + 1
        /\ \A i \in 1 .. Len(q) : s[i] = q[i]
        /\ s[Len(q) + 1] = x
    BY <2>2, AppendProperties
  <2>4. DOMAIN s = 1 .. Len(q) + 1 BY <2>3, LenProperties
  <2> HIDE DEF s
  <2>5. Len(q) \in DOMAIN q /\ q[Len(q)].at < x.at
    <3>1. Len(q) \in DOMAIN q BY <2>2
    <3>2. q[Len(q)].at # x.at /\ ~(x.at < q[Len(q)].at) BY <1>4, <3>1 DEF Motion!Last
    <3> QED BY <1>0, <2>2, <3>1, <3>2
  <2>6. ASSUME NEW i \in DOMAIN s, NEW j \in DOMAIN s, i < j PROVE s[i].at < s[j].at
    <3>1. i \in 1 .. Len(q) /\ i \in DOMAIN q /\ s[i] = q[i] BY <2>2, <2>3, <2>4, <2>6
    <3>2. CASE j = Len(q) + 1
      <4>1. s[j] = x /\ q[i].at \in Nat /\ q[i].at <= q[Len(q)].at BY <2>2, <2>3, <3>1, <3>2
      <4>2. q[Len(q)].at \in Nat BY <2>2, <2>5
      <4> QED BY <1>0, <2>5, <3>1, <4>1, <4>2
    <3>3. CASE j \in 1 .. Len(q)
      <4>1. s[j] = q[j] /\ j \in DOMAIN q BY <2>2, <2>3, <3>3
      <4> QED BY <2>0, <2>6, <3>1, <4>1 DEF Timely
    <3> QED BY <2>2, <2>4, <3>2, <3>3
  <2>7. s # <<>> BY <2>2, <2>3
  <2>8. Timely(s) BY <2>3, <2>6, <2>7 DEF Timely
  <2>9. Motion!Last(q).at <= Motion!Last(s).at
    BY <1>0, <2>2, <2>3, <2>5 DEF Motion!Last
  <2> QED BY <2>1, <2>8, <2>9
<1> QED BY <1>1, <1>2, <1>3, <1>4

\* The history after a fix.
LEMMA HistoryAfter ==
  ASSUME NEW q, q = <<>> \/ Timely(q), NEW x \in Motion!Fixes
  PROVE  LET r == Motion!Added(q, x)
         IN  /\ Timely(r) /\ Motion!InOrder(r) /\ Len(r) <= MaxFixes
             /\ q # <<>> => Motion!Last(q).at <= Motion!Last(r).at
<1> DEFINE u == Motion!Extended(q, x)
           ages == Motion!InAge(u)
           m == CHOOSE i \in ages : \A j \in ages : i <= j
           v == Motion!Recent(u)
           n == IF Len(v) > MaxFixes THEN Len(v) - MaxFixes + 1 ELSE 1
           r == Motion!Added(q, x)
<1>1. Timely(u) /\ (q # <<>> => Motion!Last(q).at <= Motion!Last(u).at)
  BY FixAdded
<1> HIDE DEF u
<1>2. /\ Len(u) \in Nat /\ Len(u) > 0 /\ DOMAIN u = 1 .. Len(u)
      /\ \A i \in 1 .. Len(u) : u[i].at \in Nat
  BY <1>1, TimelyParts
<1>3. Motion!Last(u).at \in Nat BY <1>2 DEF Motion!Last
<1>4. m \in 1 .. Len(u) /\ u[m].at >= Motion!Last(u).at - MaxHistoryAge
  <2>1. ages \subseteq Nat /\ Len(u) \in ages
    BY <1>2, MotionLimits DEF Motion!InAge, Motion!Last
  <2>2. \E i \in ages : \A j \in ages : i <= j BY <2>1, Lowest
  <2> HIDE DEF ages
  <2>3. m \in ages BY <2>2
  <2> QED BY <1>2, <2>3 DEF ages, Motion!InAge
<1>5. v = SubSeq(u, m, Len(u)) BY DEF Motion!Recent
<1> HIDE DEF m, v
<1>6. Timely(v) /\ v[1] = u[m] /\ Motion!Last(v) = Motion!Last(u)
  BY <1>1, <1>4, <1>5, TimelyEnd
<1>7. /\ Len(v) \in Nat /\ Len(v) > 0 /\ DOMAIN v = 1 .. Len(v)
      /\ \A i \in 1 .. Len(v) : v[i].at \in Nat
  BY <1>6, TimelyParts
<1>8. n \in 1 .. Len(v) BY <1>7, MotionLimits
<1>9. r = SubSeq(v, n, Len(v)) BY DEF Motion!Added, Motion!Bounded, u, v
<1>10. Len(v) - n + 1 <= MaxFixes BY <1>7, MotionLimits
<1> HIDE DEF n, r
<1>11. Timely(r) /\ Len(r) = Len(v) - n + 1 /\ r[1] = v[n] /\ Motion!Last(r) = Motion!Last(v)
  BY <1>6, <1>8, <1>9, TimelyEnd
<1>12. v[n].at >= v[1].at
  <2>1. CASE n = 1 BY <1>7, <2>1
  <2>2. CASE n > 1
    <3>1. 1 \in DOMAIN v /\ n \in DOMAIN v BY <1>7, <1>8
    <3>2. v[1].at < v[n].at BY <1>6, <2>2, <3>1 DEF Timely
    <3> QED BY <1>7, <3>1, <3>2
  <2> QED BY <1>8, <2>1, <2>2
<1>13. r[1].at >= Motion!Last(r).at - MaxHistoryAge
  <2>1. r[1].at = v[n].at /\ v[1].at = u[m].at /\ Motion!Last(r).at = Motion!Last(u).at
    BY <1>6, <1>11
  <2>2. v[n].at \in Nat /\ v[1].at \in Nat BY <1>7, <1>8
  <2> QED BY <1>3, <1>4, <1>12, <2>1, <2>2, MotionLimits
<1>14. Motion!InOrder(r) BY <1>11, <1>13 DEF Timely, Motion!InOrder
<1> QED BY <1>1, <1>6, <1>10, <1>11, <1>14 DEF r

\* Between two fixes, less than half the circle apart, the way is the shorter one.
LEMMA BetweenFixes ==
  ASSUME NEW x \in Motion!Fixes, NEW y \in Motion!Fixes, NEW at \in Nat,
         x.at < at, at < y.at, 2 * (y.at - x.at) < Circle
  PROVE  Motion!Between(x, y, at) = Motion!Truth(at)
<1> DEFINE gap == y.at - x.at
           way == Motion!ShorterWay(x.pos, y.pos)
<1>1. /\ x.at \in Nat /\ y.at \in Nat /\ Circle \in Nat /\ Circle > 0
      /\ x.pos = x.at % Circle /\ y.pos = y.at % Circle
  BY MotionLimits DEF Motion!Fixes, Motion!Truth
<1>2. gap \in Nat /\ gap > 0 /\ 2 * gap < Circle /\ -Circle < 2 * gap
      /\ x.at + gap = y.at /\ x.at \in Int /\ gap \in Int
  BY <1>1
<1>3. way = gap
  <2>1. way = ((((x.at + gap) % Circle) - (x.at % Circle) + Circle \div 2) % Circle) - Circle \div 2
    <3> HIDE DEF gap
    <3> QED BY <1>1, <1>2 DEF Motion!ShorterWay
  <2> HIDE DEF gap, way
  <2> QED BY <1>1, <1>2, <2>1, ShorterIs
<1>4. (gap * (at - x.at)) \div gap = at - x.at
  <2>1. at - x.at \in Int BY <1>1
  <2> HIDE DEF gap
  <2> QED BY <1>2, <2>1, Shares
<1>5. Motion!Between(x, y, at) = (x.pos + (way * (at - x.at)) \div gap) % Circle
  BY DEF Motion!Between
<1> HIDE DEF way, gap
<1>6. Motion!Between(x, y, at) = ((x.at % Circle) + (at - x.at)) % Circle
  BY <1>1, <1>3, <1>4, <1>5
<1>7. ((x.at % Circle) + (at - x.at)) % Circle = (x.at + (at - x.at)) % Circle
  <2>1. x.at \in Int /\ at - x.at \in Int BY <1>1
  <2> QED BY <2>1, OnwardFrom, Zenon
<1>8. x.at + (at - x.at) = at BY <1>1
<1> QED BY <1>6, <1>7, <1>8 DEF Motion!Truth

\* What the history answers is where the aircraft was, or is if it flies on, and
\* not further ahead than the limit.
LEMMA ResolvedFollows ==
  ASSUME NEW q, Timely(q), Motion!InOrder(q), NEW at \in Nat,
         Motion!Usable(Motion!Resolved(q, at))
  PROVE  LET r == Motion!Resolved(q, at)
         IN  /\ r.pos \in Int /\ r.steady \in BOOLEAN
             /\ at <= Motion!Last(q).at + PredictionLimit
             /\ r.steady => r.pos = Motion!Truth(at)
<1> DEFINE exact == {i \in DOMAIN q : q[i].at = at}
           gaps == {i \in 1 .. Len(q) - 1 : q[i].at < at /\ at < q[i + 1].at}
           r == Motion!Resolved(q, at)
<1>1. /\ Len(q) \in Nat /\ Len(q) > 0 /\ DOMAIN q = 1 .. Len(q)
      /\ \A i \in 1 .. Len(q) : q[i] \in Motion!Fixes /\ q[i].at \in Nat
      /\ \A i \in 1 .. Len(q) : q[i].at <= q[Len(q)].at
      /\ q # <<>>
  BY TimelyParts DEF Timely
<1>2. Motion!Last(q) = q[Len(q)] /\ q[Len(q)].at \in Nat /\ PredictionLimit \in Nat
  BY <1>1, MotionLimits DEF Motion!Last
<1>3. \A n \in Int : Motion!Truth(n) \in Int
  <2>1. \A n \in Int : n % Circle \in Int BY MotionLimits
  <2> QED BY <2>1 DEF Motion!Truth
<1>4. CASE exact # {}
  <2> DEFINE i == CHOOSE i \in exact : TRUE
  <2>1. i \in 1 .. Len(q) /\ q[i].at = at BY <1>1, <1>4
  <2>2. r = [state |-> "measured", pos |-> q[i].pos, fixed |-> q[i].at, steady |-> TRUE]
    BY <1>1, <1>4 DEF Motion!Resolved
  <2> HIDE DEF i
  <2>3. q[i].pos = Motion!Truth(at) BY <1>1, <2>1 DEF Motion!Fixes
  <2>4. at <= Motion!Last(q).at + PredictionLimit BY <1>1, <1>2, <2>1
  <2> QED BY <1>3, <2>2, <2>3, <2>4
<1>5. CASE exact = {} /\ gaps # {}
  <2> DEFINE i == CHOOSE i \in gaps : TRUE
  <2>1. i \in 1 .. Len(q) - 1 /\ q[i].at < at /\ at < q[i + 1].at BY <1>5
  <2>2. r = [state |-> "interpolated", pos |-> Motion!Between(q[i], q[i + 1], at),
             fixed |-> q[i + 1].at, steady |-> TRUE]
    BY <1>1, <1>5 DEF Motion!Resolved
  <2> HIDE DEF i
  <2>3. i \in 1 .. Len(q) /\ i + 1 \in 1 .. Len(q) /\ 1 \in 1 .. Len(q) BY <1>1, <2>1
  <2>4. 2 * (q[i + 1].at - q[i].at) < Circle
    <3>1. q[1].at >= q[Len(q)].at - MaxHistoryAge BY <1>1, <1>2 DEF Motion!InOrder
    <3>2. q[i + 1].at <= q[Len(q)].at BY <1>1, <2>3
    <3>3. q[1].at <= q[i].at
      <4>1. CASE i = 1 BY <1>1, <2>3, <4>1
      <4>2. CASE i > 1
        <5>1. q[1].at < q[i].at BY <1>1, <2>3, <4>2 DEF Timely
        <5> QED BY <1>1, <2>3, <5>1
      <4> QED BY <2>3, <4>1, <4>2
    <3>4. q[1].at \in Nat /\ q[i].at \in Nat /\ q[i + 1].at \in Nat BY <1>1, <2>3
    <3>5. \A m, n, k, u \in Nat : m >= u - MaxHistoryAge /\ n <= u /\ m <= k => 2 * (n - k) < Circle
      BY MotionLimits
    <3> QED BY <1>2, <3>1, <3>2, <3>3, <3>4, <3>5
  <2>5. Motion!Between(q[i], q[i + 1], at) = Motion!Truth(at)
    BY <1>1, <2>1, <2>3, <2>4, BetweenFixes
  <2>6. at <= Motion!Last(q).at + PredictionLimit
    <3>1. q[i + 1].at \in Nat /\ q[i + 1].at <= q[Len(q)].at BY <1>1, <2>3
    <3> QED BY <1>2, <2>1, <3>1
  <2> QED BY <1>3, <2>2, <2>5, <2>6
<1>6. CASE exact = {} /\ gaps = {} /\ ~(at < q[1].at)
  <2> DEFINE l == q[Len(q)]
  <2>1. r = Motion!Predicts(q, at) BY <1>1, <1>6 DEF Motion!Resolved
  <2>2. ~(at > l.at + PredictionLimit)
    <3> SUFFICES ASSUME at > l.at + PredictionLimit PROVE FALSE
      OBVIOUS
    <3>1. r = [state |-> "stale"] BY <1>2, <2>1 DEF Motion!Predicts
    <3> QED BY <3>1 DEF Motion!Usable
  <2>3. r = [state |-> "extrapolated", pos |-> Motion!Ahead(l, at), fixed |-> l.at,
             steady |-> l.known]
    BY <1>2, <2>1, <2>2 DEF Motion!Predicts
  <2>4. l \in Motion!Fixes /\ l.at \in Nat /\ l.known \in BOOLEAN /\ l.pos \in Int
        /\ l.pos = l.at % Circle
    BY <1>1, <1>2 DEF Motion!Fixes, Motion!Truth
  <2> HIDE DEF l
  <2>5. (l.pos + (at - l.at)) % Circle = at % Circle
    <3>1. at - l.at \in Int /\ l.at + (at - l.at) = at BY <2>4
    <3>2. ((l.at % Circle) + (at - l.at)) % Circle = (l.at + (at - l.at)) % Circle
      <4>1. l.at \in Int BY <2>4
      <4> QED BY <3>1, <4>1, OnwardFrom, Zenon
    <3> QED BY <2>4, <3>1, <3>2
  <2>6. Motion!Ahead(l, at) \in Int /\ (l.known => Motion!Ahead(l, at) = Motion!Truth(at))
    BY <1>3, <2>4, <2>5 DEF Motion!Ahead, Motion!Onward, Motion!Truth
  <2>7. at <= Motion!Last(q).at + PredictionLimit BY <1>2, <2>2, <2>4 DEF l
  <2> QED BY <2>3, <2>4, <2>6, <2>7
<1>7. CASE exact = {} /\ gaps = {} /\ at < q[1].at
  <2>1. r = Motion!Nowhere BY <1>1, <1>7 DEF Motion!Resolved
  <2> QED BY <2>1 DEF Motion!Usable, Motion!Nowhere
<1> QED BY <1>4, <1>5, <1>6, <1>7

LEMMA NoMarkerFollows == Motion!NoMarker \in Motion!Contacts /\ Motion!Follows(Motion!NoMarker)
<1>1. <<>> \in Seq(Int) /\ DOMAIN <<>> = {} BY EmptySeq
<1> QED BY <1>1 DEF Motion!NoMarker, Motion!Contacts, Motion!Follows

\* So a contact follows the aircraft for as long as it was predicted.
LEMMA ContactFollows ==
  ASSUME NEW q, Timely(q), Motion!InOrder(q), NEW at \in Nat
  PROVE  LET r == Motion!Contact(q, at)
         IN  /\ r \in Motion!Contacts /\ Motion!Follows(r) /\ r.from <= at
             /\ r = Motion!NoMarker \/ r.track # <<>>
<1> DEFINE r == Motion!Contact(q, at)
           reach == Motion!Reach(q, at)
           ends == {s \in 1 .. Projected : ~Motion!Usable(Motion!Resolved(q, at + s))}
<1>1. Projected \in Nat /\ Motion!Last(q).at \in Nat
  BY MotionLimits, TimelyParts DEF Motion!Last
<1>2. CASE ~Motion!Usable(Motion!Resolved(q, at))
  <2>1. r = Motion!NoMarker BY <1>2 DEF Motion!Contact
  <2>2. r.from = 0 BY <2>1 DEF Motion!NoMarker
  <2> QED BY <2>1, <2>2, NoMarkerFollows
<1>3. CASE Motion!Usable(Motion!Resolved(q, at))
  <2>1. reach \in Nat /\ \A s \in 1 .. reach : Motion!Usable(Motion!Resolved(q, at + s))
    <3>1. CASE ends = {}
      <4>1. reach = Projected BY <3>1 DEF Motion!Reach
      <4> QED BY <1>1, <3>1, <4>1
    <3>2. CASE ends # {}
      <4> DEFINE s == CHOOSE s \in ends : \A u \in ends : s <= u
      <4>1. ends \subseteq Nat OBVIOUS
      <4>2. \E u \in ends : \A w \in ends : u <= w
        <5> HIDE DEF ends
        <5> QED BY <3>2, <4>1, Lowest
      <4>3. s \in ends /\ \A u \in ends : s <= u
        <5> HIDE DEF ends
        <5> QED BY <4>2
      <4>4. reach = s - 1 BY <3>2 DEF Motion!Reach
      <4> HIDE DEF s
      <4>5. s \in 1 .. Projected BY <4>3
      <4>6. ASSUME NEW u \in 1 .. reach PROVE u \in 1 .. Projected /\ u \notin ends
        <5>1. u \in 1 .. Projected /\ u < s BY <1>1, <4>4, <4>5, <4>6
        <5> HIDE DEF ends
        <5> QED BY <4>3, <4>5, <5>1
      <4>7. reach \in Nat BY <1>1, <4>4, <4>5
      <4> QED BY <4>6, <4>7
    <3> QED BY <3>1, <3>2
  <2> HIDE DEF reach
  <2>2. ASSUME NEW i \in 0 .. reach
        PROVE  Motion!Usable(Motion!Resolved(q, at + i)) /\ at + i \in Nat
    <3>1. CASE i = 0 
      <4>1. at + i = at BY <3>1
      <4> QED BY <1>3, <4>1
    <3>2. CASE i \in 1 .. reach BY <2>1, <3>2
    <3> QED BY <2>1, <3>1, <3>2
  <2>3. ASSUME NEW i \in 0 .. reach
        PROVE  /\ Motion!Resolved(q, at + i).pos \in Int
               /\ Motion!Resolved(q, at + i).steady \in BOOLEAN
               /\ at + i <= Motion!Last(q).at + PredictionLimit
               /\ Motion!Resolved(q, at + i).steady =>
                    Motion!Resolved(q, at + i).pos = Motion!Truth(at + i)
    BY <2>2, ResolvedFollows
  <2> DEFINE track == [i \in 1 .. reach + 1 |-> Motion!Resolved(q, at + i - 1).pos]
             steady == \A i \in 0 .. reach : Motion!Resolved(q, at + i).steady
  <2>4. r = [track |-> track, from |-> at, started |-> 0, fixed |-> Motion!Last(q).at,
             steady |-> steady, drawn |-> 0]
    BY <1>3 DEF Motion!Contact, reach
  <2>5. ASSUME NEW i \in 1 .. reach + 1
        PROVE  /\ track[i] = Motion!Resolved(q, at + i - 1).pos
               /\ track[i] \in Int
               /\ at + i - 1 <= Motion!Last(q).at + PredictionLimit
               /\ steady => track[i] = Motion!Truth(at + i - 1)
    <3> DEFINE k == i - 1
    <3>1. k \in 0 .. reach /\ at + k = at + i - 1 BY <2>1
    <3>2. track[i] = Motion!Resolved(q, at + i - 1).pos OBVIOUS
    <3>3. steady => Motion!Resolved(q, at + k).steady BY <3>1
    <3> HIDE DEF track, k, steady
    <3> QED BY <2>3, <3>1, <3>2, <3>3
  <2>6. steady \in BOOLEAN OBVIOUS
  <2>7. track \in Seq(Int) /\ DOMAIN track = 1 .. reach + 1 /\ Len(track) = reach + 1
    <3>1. track = [i \in 1 .. reach + 1 |-> track[i]] OBVIOUS
    <3>2. reach + 1 \in Nat /\ DOMAIN track = 1 .. reach + 1 BY <2>1
    <3>3. \A i \in 1 .. reach + 1 : track[i] \in Int BY <2>5
    <3> HIDE DEF track
    <3> QED BY <3>1, <3>2, <3>3
  <2> HIDE DEF track, steady, r
  <2>8. track # <<>> BY <2>1, <2>7
  <2>9. r \in Motion!Contacts BY <1>1, <2>4, <2>6, <2>7 DEF Motion!Contacts
  <2>10. Motion!Follows(r) BY <2>4, <2>5, <2>7 DEF Motion!Follows
  <2> QED BY <2>4, <2>8, <2>9, <2>10 DEF r
<1> QED BY <1>2, <1>3

LEMMA MotionInit == Motion!Init => Motion!MotionInv
<1> SUFFICES ASSUME Motion!Init PROVE Motion!MotionInv
  OBVIOUS
<1>1. \A S : <<>> \in Seq(S) /\ DOMAIN <<>> = {} /\ Len(<<>>) = 0 BY EmptySeq
<1>2. Motion!InOrder(<<>>) BY <1>1 DEF Motion!InOrder
<1>3. Motion!NoMarker.from = 0 /\ Motion!NoMarker.started = 0 /\ Motion!NoMarker.drawn = 0
      /\ Motion!NoMarker.track = <<>>
  BY DEF Motion!NoMarker
<1>4. a = 0 /\ b = <<>> /\ c = <<>> /\ d = Motion!NoMarker BY DEF Motion!Init
<1> QED BY <1>1, <1>2, <1>3, <1>4, NoMarkerFollows, MotionLimits DEF Motion!MotionInv

LEMMA TimelyHistory ==
  ASSUME Motion!MotionInv
  PROVE  b = <<>> \/ Timely(b)
BY DEF Motion!MotionInv, Motion!InOrder, Timely

LEMMA MotionStep ==
  ASSUME Motion!MotionInv, [Motion!Next]_(Motion!vars)
  PROVE  Motion!MotionInv'
<1>0. /\ a \in Nat /\ Motion!InOrder(b) /\ Len(b) <= MaxFixes
      /\ c \in Seq(Motion!Contacts)
      /\ \A i \in DOMAIN c : Motion!Follows(c[i]) /\ c[i].from <= a
      /\ \A i \in DOMAIN c : c[i] = Motion!NoMarker \/ c[i].track # <<>>
      /\ d \in Motion!Contacts /\ Motion!Follows(d) /\ d.from <= d.started /\ d.started <= a
      /\ d = Motion!NoMarker \/ d.track # <<>>
      /\ d.drawn <= Len(d.track) /\ d.drawn <= a - d.started + 1
  BY DEF Motion!MotionInv
<1>z. \A S : <<>> \in Seq(S) /\ DOMAIN <<>> = {} /\ Len(<<>>) = 0 BY EmptySeq
<1>n. Motion!NoMarker.from = 0 /\ Motion!NoMarker.started = 0 /\ Motion!NoMarker.drawn = 0
      /\ Motion!NoMarker.track = <<>>
  BY DEF Motion!NoMarker
<1>t. d.started \in Nat /\ d.drawn \in Nat /\ d.from \in Nat /\ Len(d.track) \in Nat
      /\ (d.track # <<>> => Len(d.track) >= 1)
  <2>1. d.track \in Seq(Int) BY <1>0 DEF Motion!Contacts
  <2>2. Len(d.track) \in Nat /\ (d.track # <<>> => Len(d.track) # 0)
    BY <2>1, LenProperties, EmptySeq
  <2> QED BY <1>0, <2>2 DEF Motion!Contacts
<1>o. ASSUME NEW x \in Motion!Contacts
      PROVE  <<x>> \in Seq(Motion!Contacts) /\ DOMAIN <<x>> = 1 .. 1 /\ <<x>>[1] = x
  OBVIOUS
<1>1. CASE Motion!SnapshotArrives
  <2>1. UNCHANGED <<a, d>> BY <1>1 DEF Motion!SnapshotArrives
  <2>2. CASE c' = <<Motion!NoMarker>> /\ UNCHANGED b
    <3>1. c' \in Seq(Motion!Contacts) /\ DOMAIN c' = 1 .. 1 /\ c'[1] = Motion!NoMarker
      BY <1>o, <2>2, NoMarkerFollows
    <3>2. \A i \in DOMAIN c' : c'[i] = Motion!NoMarker BY <3>1
    <3> QED BY <1>0, <1>n, <2>1, <2>2, <3>1, <3>2, NoMarkerFollows
            DEF Motion!MotionInv, Motion!InOrder, Motion!Follows
  <2>3. ASSUME NEW at \in a - MaxSeen .. a + MaxSkew, NEW known \in BOOLEAN, at >= 0,
               b' = Motion!Added(b, Motion!Fix(at, known)), c' = <<Motion!Contact(b', a)>>
        PROVE  Motion!MotionInv'
    <3> DEFINE x == Motion!Fix(at, known)
               r == Motion!Contact(b', a)
    <3>1. at \in Nat BY <1>0, <2>3, MotionLimits
    <3>2. x \in Motion!Fixes
      <4>1. at % Circle \in Int BY <3>1, MotionLimits
      <4> QED BY <3>1, <4>1 DEF Motion!Fix, Motion!Fixes, Motion!Truth
    <3> HIDE DEF x
    <3>3. Timely(b') /\ Motion!InOrder(b') /\ Len(b') <= MaxFixes
      BY <2>3, <3>2, TimelyHistory, HistoryAfter DEF x
    <3>4. /\ r \in Motion!Contacts /\ Motion!Follows(r) /\ r.from <= a
          /\ r = Motion!NoMarker \/ r.track # <<>>
      BY <1>0, <3>3, ContactFollows
    <3> HIDE DEF r
    <3>5. c' = <<r>> BY <2>3 DEF r
    <3>6. c' \in Seq(Motion!Contacts) /\ DOMAIN c' = 1 .. 1 /\ c'[1] = r
      BY <1>o, <3>4, <3>5
    <3>7. \A i \in DOMAIN c' : c'[i] = r BY <3>6
    <3> QED BY <1>0, <2>1, <3>3, <3>4, <3>6, <3>7
            DEF Motion!MotionInv, Motion!InOrder, Motion!Follows
  <2> QED BY <1>1, <2>2, <2>3 DEF Motion!SnapshotArrives
<1>2. CASE Motion!Applied
  <2> DEFINE x == c[1]
  <2>1. c # <<>> /\ c' = <<>> /\ UNCHANGED <<a, b>>
    BY <1>2 DEF Motion!Applied
  <2>2. 1 \in DOMAIN c
    <3>1. Len(c) \in Nat /\ DOMAIN c = 1 .. Len(c) /\ Len(c) # 0
      BY <1>0, <2>1, LenProperties, EmptySeq
    <3> QED BY <3>1
  <2>3. /\ x \in Motion!Contacts /\ Motion!Follows(x) /\ x.from <= a
        /\ x = Motion!NoMarker \/ x.track # <<>>
    BY <1>0, <2>2, ElementOfSeq, LenProperties
  <2>4. UNCHANGED d
        \/ (x # Motion!NoMarker
            /\ \E n \in {0, 1} : d' = [x EXCEPT !.started = a, !.drawn = n])
    BY <1>2 DEF Motion!Applied, Motion!DrawnAfresh
  <2> HIDE DEF x
  <2>5. ASSUME NEW n \in {0, 1}, x # Motion!NoMarker, d' = [x EXCEPT !.started = a, !.drawn = n]
        PROVE  Motion!MotionInv'
    <3> DEFINE u == [x EXCEPT !.started = a, !.drawn = n]
    <3>1. /\ u \in Motion!Contacts /\ u.track = x.track /\ u.from = x.from
          /\ u.fixed = x.fixed /\ u.steady = x.steady /\ u.started = a /\ u.drawn = n
      <4> DEFINE w == [x EXCEPT !.started = a]
      <4>1. /\ w \in Motion!Contacts /\ w.track = x.track /\ w.from = x.from
            /\ w.fixed = x.fixed /\ w.steady = x.steady /\ w.started = a
        BY <1>0, <2>3 DEF Motion!Contacts
      <4>2. u = [w EXCEPT !.drawn = n] OBVIOUS
      <4> HIDE DEF w, u
      <4>3. u \in Motion!Contacts /\ u.track = w.track /\ u.from = w.from
            /\ u.fixed = w.fixed /\ u.steady = w.steady /\ u.started = w.started /\ u.drawn = n
        BY <4>1, <4>2 DEF Motion!Contacts
      <4> QED BY <4>1, <4>3
    <3>2. Motion!Follows(u) BY <2>3, <3>1 DEF Motion!Follows
    <3>3. Len(u.track) \in Nat /\ Len(u.track) >= 1 /\ u.track # <<>>
      <4>1. x.track # <<>> /\ x.track \in Seq(Int) BY <2>3, <2>5 DEF Motion!Contacts
      <4> QED BY <3>1, <4>1, LenProperties, EmptySeq
    <3>4. d' = u BY <2>5
    <3> HIDE DEF u
    <3>5. /\ d' \in Motion!Contacts /\ Motion!Follows(d') /\ d'.from <= d'.started
          /\ d'.started <= a /\ d'.track # <<>>
          /\ d'.drawn <= Len(d'.track) /\ d'.drawn <= a - d'.started + 1
      BY <1>0, <2>3, <2>5, <3>1, <3>2, <3>3, <3>4
    <3> QED BY <1>0, <1>z, <2>1, <3>5 DEF Motion!MotionInv, Motion!InOrder, Motion!Follows
  <2>6. CASE UNCHANGED d
    BY <1>0, <1>z, <2>1, <2>6 DEF Motion!MotionInv, Motion!InOrder, Motion!Follows
  <2> QED BY <2>4, <2>5, <2>6
<1>3. CASE Motion!PlaceChanged
  <2>1. b' = <<>> /\ d' = Motion!NoMarker /\ c' = <<>> /\ UNCHANGED a
    BY <1>3 DEF Motion!PlaceChanged
  <2>2. Motion!InOrder(<<>>) BY <1>z DEF Motion!InOrder
  <2> QED BY <1>0, <1>z, <1>n, <2>1, <2>2, NoMarkerFollows, MotionLimits
          DEF Motion!MotionInv, Motion!InOrder, Motion!Follows
<1>4. CASE Motion!Tick
  <2>1. a' = a + 1 /\ UNCHANGED <<b, c, d>> BY <1>4 DEF Motion!Tick
  <2>2. \A i \in DOMAIN c : c[i].from \in Nat
    <3>1. \A i \in DOMAIN c : c[i] \in Motion!Contacts BY <1>0, ElementOfSeq, LenProperties
    <3> QED BY <3>1 DEF Motion!Contacts
  <2>4. \A i \in DOMAIN c : c[i].from <= a' BY <1>0, <2>1, <2>2
  <2>5. d.started <= a' /\ a' \in Nat /\ d.drawn <= a' - d.started + 1 BY <1>0, <1>t, <2>1
  <2> QED BY <1>0, <2>1, <2>4, <2>5 DEF Motion!MotionInv, Motion!InOrder, Motion!Follows
<1>5. ASSUME NEW n \in Nat, UNCHANGED <<a, b, c>>, d' = [d EXCEPT !.drawn = n],
             n <= Len(d.track), n <= a - d.started + 1
      PROVE  Motion!MotionInv'
  <2> DEFINE u == [d EXCEPT !.drawn = n]
  <2>1. /\ u \in Motion!Contacts /\ u.track = d.track /\ u.from = d.from /\ u.fixed = d.fixed
        /\ u.steady = d.steady /\ u.started = d.started /\ u.drawn = n
    BY <1>0 DEF Motion!Contacts
  <2>2. Motion!Follows(u) BY <1>0, <2>1 DEF Motion!Follows
  <2>3. u = Motion!NoMarker \/ u.track # <<>>
    <3>1. CASE d = Motion!NoMarker
      <4>1. n = 0 BY <1>5, <1>n, <1>z, <3>1
      <4> QED BY <3>1, <4>1 DEF Motion!NoMarker
    <3> QED BY <1>0, <2>1, <3>1
  <2>4. d' = u BY <1>5
  <2> HIDE DEF u
  <2>5. /\ d' \in Motion!Contacts /\ Motion!Follows(d') /\ d'.from <= d'.started
        /\ d'.started <= a /\ (d' = Motion!NoMarker \/ d'.track # <<>>)
        /\ d'.drawn <= Len(d'.track) /\ d'.drawn <= a - d'.started + 1
    BY <1>0, <1>5, <2>1, <2>2, <2>3, <2>4
  <2> QED BY <1>0, <1>5, <2>5 DEF Motion!MotionInv, Motion!InOrder, Motion!Follows
<1>6. CASE Motion!Redrawn
  <2>1. PICK n \in {0, 1} : d' = [d EXCEPT !.drawn = n]
    BY <1>6 DEF Motion!Redrawn, Motion!DrawnAfresh
  <2>2. d # Motion!NoMarker /\ UNCHANGED <<a, b, c>> BY <1>6 DEF Motion!Redrawn
  <2>3. n \in Nat /\ n <= Len(d.track) /\ n <= a - d.started + 1 BY <1>0, <1>t, <2>2
  <2> QED BY <1>5, <2>1, <2>2, <2>3
<1>7. CASE Motion!Animated
  <2> DEFINE n == Motion!Reached(d)
  <2>1. d.drawn # 0 /\ UNCHANGED <<a, b, c>> /\ d' = [d EXCEPT !.drawn = n]
    BY <1>7 DEF Motion!Animated
  <2>2. Len(d.track) >= 1 BY <1>0, <1>n, <1>t, <2>1
  <2>3. n \in Nat /\ n <= Len(d.track) /\ n <= a - d.started + 1
    BY <1>0, <1>t, <2>2 DEF Motion!Reached
  <2> HIDE DEF n
  <2> QED BY <1>5, <2>1, <2>3
<1>8. CASE UNCHANGED Motion!vars
  BY <1>0, <1>8 DEF Motion!vars, Motion!MotionInv, Motion!InOrder, Motion!Follows
<1> QED BY <1>1, <1>2, <1>3, <1>4, <1>6, <1>7, <1>8 DEF Motion!Next

\* So the marker is where the aircraft was or is.
LEMMA MarkerFollows == Motion!MotionInv => Motion!MarkerOnItsWay
<1> SUFFICES ASSUME Motion!MotionInv, d.drawn # 0
             PROVE  LET instant == d.from + d.drawn - 1
                    IN  /\ d.steady => Motion!Drawn(d) = Motion!Truth(instant)
                        /\ instant <= a
                        /\ instant <= d.fixed + PredictionLimit
  BY DEF Motion!MarkerOnItsWay
<1> DEFINE n == d.drawn
<1>1. /\ a \in Nat /\ d.from \in Nat /\ d.started \in Nat /\ d.track \in Seq(Int)
      /\ Motion!Follows(d) /\ d.from <= d.started /\ d.started <= a /\ n \in Nat
      /\ n <= Len(d.track) /\ n <= a - d.started + 1
  BY DEF Motion!MotionInv, Motion!Contacts
<1>2. Len(d.track) \in Nat /\ DOMAIN d.track = 1 .. Len(d.track)
  BY <1>1, LenProperties
<1>3. n # 0 OBVIOUS
<1> HIDE DEF n
<1>4. n \in DOMAIN d.track BY <1>1, <1>2, <1>3
<1>5. d.from + n - 1 <= a BY <1>1
<1>6. Motion!Drawn(d) = d.track[n] BY DEF Motion!Drawn, n
<1>7. /\ d.from + n - 1 <= d.fixed + PredictionLimit
      /\ d.steady => d.track[n] = Motion!Truth(d.from + n - 1)
  BY <1>1, <1>4 DEF Motion!Follows
<1> QED BY <1>5, <1>6, <1>7 DEF n

\* The newest fix is never forgotten for an older one.
LEMMA FixesAdvance ==
  ASSUME Motion!MotionInv, Motion!MotionInv', Motion!Next
  PROVE  Motion!HistoryAdvances
<1>1. b' = <<>> \/ Timely(b')
  BY DEF Motion!MotionInv, Motion!InOrder, Timely
<1>2. ASSUME b' # <<>> PROVE Len(b') <= MaxFixes /\ b'[1].at >= Motion!Last(b').at - MaxHistoryAge
  BY <1>2 DEF Motion!MotionInv, Motion!InOrder
<1>3. ASSUME NEW i \in 1 .. Len(b') - 1 PROVE b'[i].at < b'[i + 1].at
  <2>1. b' # <<>>
    <3> SUFFICES ASSUME b' = <<>> PROVE FALSE
      OBVIOUS
    <3>1. Len(b') = 0 BY EmptySeq
    <3> QED BY <1>3, <3>1
  <2>2. Timely(b') BY <1>1, <2>1
  <2>3. Len(b') \in Nat /\ DOMAIN b' = 1 .. Len(b')
    BY <2>2, LenProperties DEF Timely
  <2>4. i \in DOMAIN b' /\ i + 1 \in DOMAIN b' /\ i < i + 1 BY <1>3, <2>3
  <2> QED BY <2>2, <2>4 DEF Timely
<1>4. ASSUME b' # <<>>, b # <<>> PROVE Motion!Last(b').at >= Motion!Last(b).at
  <2>0. Timely(b) BY <1>4, TimelyHistory
  <2>1. Motion!Last(b).at \in Nat BY <2>0, TimelyParts DEF Motion!Last
  <2>2. CASE UNCHANGED b BY <2>1, <2>2
  <2>3. ASSUME NEW at \in a - MaxSeen .. a + MaxSkew, NEW known \in BOOLEAN, at >= 0,
               b' = Motion!Added(b, Motion!Fix(at, known))
        PROVE  Motion!Last(b').at >= Motion!Last(b).at
    <3>1. at \in Nat BY <2>3, MotionLimits DEF Motion!MotionInv
    <3>2. Motion!Fix(at, known) \in Motion!Fixes
      <4>1. at % Circle \in Int BY <3>1, MotionLimits
      <4> QED BY <3>1, <4>1 DEF Motion!Fix, Motion!Fixes, Motion!Truth
    <3>3. Motion!Last(b).at <= Motion!Last(b').at
      BY <1>4, <2>0, <2>3, <3>2, HistoryAfter
    <3>4. Motion!Last(b').at \in Nat BY <1>1, <1>4, TimelyParts DEF Motion!Last
    <3> QED BY <2>1, <3>3, <3>4
  <2>4. UNCHANGED b \/ b' = <<>>
        \/ \E at \in a - MaxSeen .. a + MaxSkew, known \in BOOLEAN :
             at >= 0 /\ b' = Motion!Added(b, Motion!Fix(at, known))
    BY DEF Motion!Next, Motion!SnapshotArrives, Motion!Applied, Motion!PlaceChanged, Motion!Redrawn,
           Motion!Animated, Motion!Tick
  <2> QED BY <1>4, <2>2, <2>3, <2>4
<1> QED BY <1>2, <1>3, <1>4 DEF Motion!HistoryAdvances

\* A thread that fetches found nothing that counts, and time does not make it count.
MissesStand == \A t \in Threads : c[t].pc \in {"fetching", "owners"} => ~Lookup!Counts(c[t].found)

LEMMA MissesKept ==
  ASSUME Lookup!LookupInv, MissesStand, [Lookup!Next]_(Lookup!vars)
  PROVE  MissesStand'
<1>0. c \in [Threads -> Lookup!Calls] /\ e \in Nat
  BY DEF Lookup!LookupInv, Lookup!TypeOK
<1>1. ASSUME NEW t \in Threads, NEW r, c' = [c EXCEPT ![t] = r], UNCHANGED e,
             r.pc \in {"fetching", "owners"} => ~Lookup!Counts(r.found)
      PROVE  MissesStand'
  <2>1. \A u \in Threads : c'[u] = IF u = t THEN r ELSE c[u] BY <1>0, <1>1
  <2> QED BY <1>1, <2>1 DEF MissesStand, Lookup!Counts
<1>2. ASSUME NEW t \in Threads, NEW k \in Keys, Lookup!Look(t, k) PROVE MissesStand'
  <2> DEFINE x == Lookup!Entry(b, k)
             call == [Lookup!Resting EXCEPT !.key = k, !.asked = e, !.found = x]
             r == IF Lookup!Counts(x)
                    THEN [call EXCEPT !.pc = "done", !.value = x.value, !.answered = "cache"]
                    ELSE [call EXCEPT !.pc = "fetching"]
  <2>1. c' = [c EXCEPT ![t] = r] /\ UNCHANGED e BY <1>2 DEF Lookup!Look
  <2> HIDE DEF x
  <2>2. r.pc \in {"fetching", "owners"} => ~Lookup!Counts(r.found) BY DEF Lookup!Resting
  <2> HIDE DEF r
  <2> QED BY <1>1, <2>1, <2>2
<1>3. ASSUME NEW t \in Threads, NEW r \in Lookup!Calls, UNCHANGED e, c' = [c EXCEPT ![t] = r],
             r.found = c[t].found, c[t].pc \in {"fetching", "owners"}
      PROVE  MissesStand'
  BY <1>1, <1>3 DEF MissesStand
<1>4. ASSUME NEW t \in Threads, Lookup!OwnersRead(t) PROVE MissesStand'
  <2> DEFINE r == [c[t] EXCEPT !.owners = d]
  <2>1. r \in Lookup!Calls /\ r.found = c[t].found
    BY <1>0 DEF Lookup!Calls, Lookup!LookupInv, Lookup!TypeOK
  <2>2. c' = [c EXCEPT ![t] = r] /\ UNCHANGED e /\ c[t].pc = "fetching"
    BY <1>0, <1>4 DEF Lookup!OwnersRead
  <2> HIDE DEF r
  <2> QED BY <1>3, <2>1, <2>2
<1>5. ASSUME NEW t \in Threads, Lookup!OwnersAsked(t) PROVE MissesStand'
  <2> DEFINE r == [c[t] EXCEPT !.pc = "owners"]
  <2>1. r \in Lookup!Calls /\ r.found = c[t].found BY <1>0 DEF Lookup!Calls
  <2>2. c' = [c EXCEPT ![t] = r] /\ UNCHANGED e /\ c[t].pc = "fetching"
    BY <1>0, <1>5 DEF Lookup!OwnersAsked
  <2> HIDE DEF r
  <2> QED BY <1>3, <2>1, <2>2
<1>6. ASSUME NEW t \in Threads, NEW got \in {"table", "nothing"}, Lookup!OwnersArrive(t, got)
      PROVE  MissesStand'
  <2> DEFINE r == [c[t] EXCEPT !.pc = "fetching", !.owners = d']
  <2>0. d' \in {"unset", "table", "nothing"}
    BY <1>6 DEF Lookup!OwnersArrive, Lookup!LookupInv, Lookup!TypeOK
  <2>1. r \in Lookup!Calls /\ r.found = c[t].found BY <1>0, <2>0 DEF Lookup!Calls
  <2>2. c' = [c EXCEPT ![t] = r] /\ UNCHANGED e /\ c[t].pc = "owners"
    BY <1>0, <1>6 DEF Lookup!OwnersArrive
  <2> HIDE DEF r
  <2> QED BY <1>3, <2>1, <2>2
<1>7. ASSUME NEW t \in Threads, NEW value \in {"fact", "nothing", "error"},
             Lookup!Fetched(t, value)
      PROVE  MissesStand'
  <2> DEFINE Over(v) == [Lookup!Resting EXCEPT !.pc = "done", !.value = v, !.owners = c[t].owners]
  <2>1. UNCHANGED e /\ \E v : c' = [c EXCEPT ![t] = Over(v)]
    BY <1>7 DEF Lookup!Fetched, Lookup!Ended
  <2>2. \A v : Over(v).pc = "done" BY DEF Lookup!Resting
  <2> HIDE DEF Over
  <2> QED BY <1>1, <2>1, <2>2
<1>8. ASSUME NEW t \in Threads, Lookup!Return(t) PROVE MissesStand'
  <2>1. Lookup!Resting.pc = "idle" BY DEF Lookup!Resting
  <2>2. c' = [c EXCEPT ![t] = Lookup!Resting] /\ UNCHANGED e BY <1>8 DEF Lookup!Return
  <2> QED BY <1>1, <2>1, <2>2
<1>9. CASE Lookup!Tick
  <2>1. c' = c /\ e' = e + 1 BY <1>9 DEF Lookup!Tick
  <2>2. \A t \in Threads : c[t].found.until \in Nat
    BY <1>0 DEF Lookup!Calls, Lookup!Entries, Lookup!NoEntry
  <2>3. \A t \in Threads : ~Lookup!Counts(c[t].found) => ~Lookup!Counts(c[t].found)'
    BY <1>0, <2>1, <2>2 DEF Lookup!Counts
  <2> QED BY <2>1, <2>3 DEF MissesStand
<1>10. CASE UNCHANGED Lookup!vars
  BY <1>10 DEF Lookup!vars, MissesStand, Lookup!Counts
<1> QED BY <1>2, <1>4, <1>5, <1>6, <1>7, <1>8, <1>9, <1>10 DEF Lookup!Next

\* A lookup that ends late never replaces an entry that was there when it began and
\* still counts (aircraft_routes.py and the others), and the history of an aircraft
\* stays in order and never forgets its newest fix for an older one
\* (AircraftMotionHistory.add), for any number of threads, keys and fixes.
THEOREM NewerIsKept == Spec => NewerKept
<1> DEFINE Inv == /\ slice = "lookup" => Lookup!LookupInv /\ MissesStand
                  /\ slice = "motion" => Motion!MotionInv
           Good == /\ slice = "lookup" => Lookup!FreshNotReplaced
                   /\ slice = "motion" => Motion!HistoryAdvances
<1>1. Init => Inv
  <2>1. Lookup!Init => MissesStand BY DEF Lookup!Init, MissesStand, Lookup!Resting
  <2> QED BY <2>1, LookupInit, MotionInit DEF Init
<1>2. Inv /\ [Next]_vars => Inv'
  <2> SUFFICES ASSUME Inv, [Next]_vars PROVE Inv'
    OBVIOUS
  <2>1. CASE slice' = "lookup"
    <3>1. slice = "lookup" /\ [Lookup!Next]_(Lookup!vars)
      BY <2>1 DEF Next, vars, Lookup!vars
    <3> QED BY <2>1, <3>1, LookupStep, MissesKept
  <2>2. CASE slice' = "motion"
    <3>1. slice = "motion" /\ [Motion!Next]_(Motion!vars)
      BY <2>2 DEF Next, vars, Motion!vars
    <3> QED BY <2>2, <3>1, MotionStep
  <2> QED BY <2>1, <2>2
<1>3. Inv /\ Inv' /\ [Next]_vars => [Good]_vars
  <2> SUFFICES ASSUME Inv, Inv', Next PROVE Good
    OBVIOUS
  <2>1. CASE slice = "lookup"
    BY <2>1 DEF MissesStand, Lookup!FreshNotReplaced
  <2>2. CASE slice = "motion"
    <3>1. Motion!Next /\ slice' = "motion" BY <2>2 DEF Next
    <3> QED BY <2>2, <3>1, FixesAdvance
  <2> QED BY <2>1, <2>2
<1> QED BY <1>1, <1>2, <1>3, PTL DEF Spec, NewerKept

(***************************************************************************)
(* The satellites between two refreshes: SatelliteTracks.                  *)
(***************************************************************************)
LEMMA TrackLimits ==
  /\ Round \in Nat /\ Round > 0 /\ Half \in Nat /\ Step \in Nat /\ Step > 0
  /\ Duration \in Nat /\ Duration > 0 /\ MaxLag \in Nat
  /\ \A s \in Routes : /\ StartsAt[s] \in Int /\ Rate[s] \in Int
                       /\ 2 * Rate[s] * Step < Round /\ -Round < 2 * Rate[s] * Step
BY TracksAssumption DEF Tracks!TracksAssumption

\* A prediction begins at once, ends with its duration, and its points are at most
\* a step apart.
LEMMA OffsetsInSteps ==
  /\ Tracks!Offsets \in Seq(Nat) /\ Len(Tracks!Offsets) \in Nat /\ Len(Tracks!Offsets) > 1
  /\ DOMAIN Tracks!Offsets = 1 .. Len(Tracks!Offsets)
  /\ Tracks!Offsets[1] = 0 /\ Tracks!Offsets[Len(Tracks!Offsets)] = Duration
  /\ \A i \in 1 .. Len(Tracks!Offsets) : Tracks!Offsets[i] \in 0 .. Duration
  /\ \A i \in 1 .. Len(Tracks!Offsets) - 1 :
       /\ Tracks!Offsets[i] < Tracks!Offsets[i + 1]
       /\ Tracks!Offsets[i + 1] - Tracks!Offsets[i] <= Step
<1> DEFINE n == Duration \div Step
           rest == Duration % Step
           even == [i \in 1 .. n + 1 |-> (i - 1) * Step]
           odd == IF rest = 0 THEN <<>> ELSE <<Duration>>
           o == Tracks!Offsets
<1>1. /\ n \in Nat /\ rest \in 0 .. Step - 1 /\ Duration = Step * n + rest
      /\ Step \in Nat /\ Step > 0 /\ Duration \in Nat /\ Duration > 0
  BY TrackLimits
<1>2. o = even \o odd BY DEF Tracks!Offsets
<1> HIDE DEF n, rest, o
<1>3. \A i \in 1 .. n + 1 : (i - 1) * Step \in 0 .. Duration
  <2> SUFFICES ASSUME NEW i \in 1 .. n + 1 PROVE (i - 1) * Step \in 0 .. Duration
    OBVIOUS
  <2> DEFINE k == i - 1
  <2>1. k \in Nat /\ n - k \in Nat BY <1>1
  <2> HIDE DEF k
  <2>2. k * Step \in Nat /\ (n - k) * Step \in Nat BY <1>1, <2>1
  <2>3. k * Step + (n - k) * Step = Step * n BY <1>1, <2>1
  <2>4. Step * n \in Nat BY <1>1
  <2>5. k * Step \in 0 .. Duration BY <1>1, <2>2, <2>3, <2>4
  <2> QED BY <2>5 DEF k
<1>4. even \in Seq(Nat) /\ Len(even) = n + 1 /\ \A i \in 1 .. n + 1 : even[i] = (i - 1) * Step
  <2>1. \A i \in 1 .. n + 1 : (i - 1) * Step \in Nat BY <1>1, <1>3
  <2>2. n + 1 \in Nat BY <1>1
  <2> QED BY <2>1, <2>2
<1> HIDE DEF even
<1>5. ASSUME NEW i \in 1 .. n
      PROVE  (i - 1) * Step < i * Step /\ i * Step - (i - 1) * Step = Step
  <2>1. i * Step = (i - 1) * Step + Step /\ (i - 1) * Step \in Int BY <1>1
  <2> QED BY <1>1, <2>1
<1>6. CASE rest = 0
  <2>1. odd = <<>> BY <1>6
  <2>2. o = even BY <1>2, <1>4, <2>1, ConcatEmptySeq
  <2>3. n > 0 /\ n * Step = Duration BY <1>1, <1>6
  <2>4. DOMAIN o = 1 .. n + 1 BY <1>4, <2>2, LenProperties
  <2>5. o[1] = 0 BY <1>1, <1>4, <2>2
  <2>6. o[n + 1] = Duration
    <3>1. o[n + 1] = (n + 1 - 1) * Step /\ n + 1 - 1 = n BY <1>1, <1>4, <2>2
    <3> QED BY <2>3, <3>1
  <2>7. \A i \in 1 .. n + 1 : o[i] \in 0 .. Duration BY <1>3, <1>4, <2>2
  <2>8. \A i \in 1 .. n : o[i] < o[i + 1] /\ o[i + 1] - o[i] <= Step
    <3> SUFFICES ASSUME NEW i \in 1 .. n PROVE o[i] < o[i + 1] /\ o[i + 1] - o[i] <= Step
      OBVIOUS
    <3>1. o[i] = (i - 1) * Step /\ o[i + 1] = (i + 1 - 1) * Step /\ i + 1 - 1 = i
      BY <1>1, <1>4, <2>2
    <3> QED BY <1>1, <1>5, <3>1
  <2> HIDE DEF odd
  <2>9. Len(o) = n + 1 /\ o \in Seq(Nat) BY <1>4, <2>2
  <2>10. Len(o) - 1 = n /\ n + 1 \in Nat /\ n + 1 > 1 BY <1>1, <2>3, <2>9
  <2> QED BY <2>4, <2>5, <2>6, <2>7, <2>8, <2>9, <2>10 DEF o
<1>7. CASE rest # 0
  <2>1. odd = <<Duration>> /\ odd \in Seq(Nat) /\ Len(odd) = 1 /\ odd[1] = Duration
    BY <1>1, <1>7
  <2> HIDE DEF odd
  <2>2. /\ o \in Seq(Nat) /\ Len(o) = n + 2
        /\ \A i \in 1 .. n + 2 : o[i] = IF i <= n + 1 THEN even[i] ELSE odd[i - (n + 1)]
    <3>1. Len(even) + Len(odd) = n + 2 BY <1>1, <1>4, <2>1
    <3> QED BY <1>2, <1>4, <2>1, <3>1, ConcatProperties
  <2>3. DOMAIN o = 1 .. n + 2 BY <2>2, LenProperties
  <2>4. \A i \in 1 .. n + 1 : o[i] = (i - 1) * Step BY <1>1, <1>4, <2>2
  <2>5. o[n + 2] = Duration BY <1>1, <2>1, <2>2
  <2>6. o[1] = 0 BY <1>1, <2>4
  <2>7. \A i \in 1 .. n + 2 : o[i] \in 0 .. Duration BY <1>1, <1>3, <2>4, <2>5
  <2>8. \A i \in 1 .. n + 1 : o[i] < o[i + 1] /\ o[i + 1] - o[i] <= Step
    <3> SUFFICES ASSUME NEW i \in 1 .. n + 1 PROVE o[i] < o[i + 1] /\ o[i + 1] - o[i] <= Step
      OBVIOUS
    <3>1. CASE i \in 1 .. n
      <4>1. o[i] = (i - 1) * Step /\ o[i + 1] = (i + 1 - 1) * Step /\ i + 1 - 1 = i
        BY <1>1, <2>4, <3>1
      <4> QED BY <1>1, <1>5, <3>1, <4>1
    <3>2. CASE i = n + 1
      <4>1. o[i] = Step * n
        <5>1. o[i] = (n + 1 - 1) * Step /\ n + 1 - 1 = n BY <1>1, <2>4, <3>2
        <5> QED BY <1>1, <5>1
      <4>2. o[i + 1] = Duration BY <1>1, <2>5, <3>2
      <4>3. Step * n \in Nat BY <1>1
      <4> QED BY <1>1, <1>7, <4>1, <4>2, <4>3
    <3> QED BY <1>1, <3>1, <3>2
  <2>9. Len(o) - 1 = n + 1 /\ n + 2 \in Nat /\ n + 2 > 1 BY <1>1, <2>2
  <2> QED BY <2>2, <2>3, <2>5, <2>6, <2>7, <2>8, <2>9 DEF o
<1> QED BY <1>6, <1>7

\* The points of a track.
LEMMA TrackPoints ==
  ASSUME NEW sc, NEW s \in sc.tracked
  PROVE  LET track == Tracks!Track(sc, s)
         IN  /\ DOMAIN track = 1 .. Len(Tracks!Offsets) /\ Len(track) = Len(Tracks!Offsets)
             /\ \A i \in 1 .. Len(Tracks!Offsets) :
                  /\ track[i].after = Tracks!Offsets[i]
                  /\ track[i].az = Tracks!Truth(s, sc.predicted + Tracks!Offsets[i])
<1> DEFINE track == Tracks!Track(sc, s)
<1>1. track = [i \in 1 .. Len(Tracks!Offsets) |->
                 [after |-> Tracks!Offsets[i],
                  az |-> Tracks!Truth(s, sc.predicted + Tracks!Offsets[i])]]
  BY OffsetsInSteps DEF Tracks!Track
<1>2. Len(Tracks!Offsets) \in Nat BY OffsetsInSteps
<1> HIDE DEF track
<1>3. DOMAIN track = 1 .. Len(Tracks!Offsets) /\ Len(track) = Len(Tracks!Offsets)
  BY <1>1, <1>2
<1>4. \A i \in 1 .. Len(Tracks!Offsets) :
        /\ track[i].after = Tracks!Offsets[i]
        /\ track[i].az = Tracks!Truth(s, sc.predicted + Tracks!Offsets[i])
  BY <1>1
<1> QED BY <1>3, <1>4 DEF track

\* Between two points of a track, which are at most a step apart, a satellite goes on
\* from the first.
LEMMA BetweenPoints ==
  ASSUME NEW s \in Routes, NEW from \in Nat, NEW gap \in 1 .. Step, NEW k \in Nat
  PROVE  (Tracks!Truth(s, from)
            + (Tracks!SignedDifference(Tracks!Truth(s, from + gap), Tracks!Truth(s, from)) * k) \div gap)
              % Round = Tracks!Truth(s, from + k)
<1> DEFINE n == StartsAt[s] + Rate[s] * from
           way == Rate[s] * gap
           further == Rate[s] * k
<1>1. Round \in Nat /\ Round > 0 /\ Step \in Nat /\ StartsAt[s] \in Int /\ Rate[s] \in Int
  BY TrackLimits
<1>2. n \in Int /\ way \in Int /\ further \in Int BY <1>1
<1>3. 2 * way < Round /\ -Round < 2 * way
  <2> DEFINE most == Rate[s] * Step
             rest == Rate[s] * (Step - gap)
  <2>1. most \in Int /\ 2 * most < Round /\ -Round < 2 * most
    <3>1. 2 * Rate[s] * Step < Round /\ -Round < 2 * Rate[s] * Step BY TrackLimits
    <3>2. 2 * Rate[s] * Step = 2 * (Rate[s] * Step) /\ Rate[s] * Step \in Int BY <1>1
    <3> QED BY <3>1, <3>2
  <2>2. most = way + rest /\ rest \in Int BY <1>1
  <2>3. Step - gap \in Nat /\ gap \in Nat BY <1>1
  <2>4. (Rate[s] >= 0 => way >= 0 /\ rest >= 0) /\ (Rate[s] <= 0 => way <= 0 /\ rest <= 0)
    <3>1. \A m \in Int, u \in Nat : (m >= 0 => m * u >= 0) /\ (m <= 0 => m * u <= 0) OBVIOUS
    <3> QED BY <1>1, <2>3, <3>1
  <2> HIDE DEF way, most, rest
  <2>5. CASE Rate[s] >= 0 BY <1>1, <1>2, <2>1, <2>2, <2>4, <2>5
  <2>6. CASE Rate[s] <= 0 BY <1>1, <1>2, <2>1, <2>2, <2>4, <2>6
  <2> QED BY <1>1, <2>5, <2>6
<1>4. /\ Tracks!Truth(s, from) = n % Round
      /\ Tracks!Truth(s, from + gap) = (n + way) % Round
      /\ Tracks!Truth(s, from + k) = (n + further) % Round
  <2>1. StartsAt[s] + Rate[s] * (from + gap) = n + way BY <1>1
  <2>2. StartsAt[s] + Rate[s] * (from + k) = n + further BY <1>1
  <2> QED BY <2>1, <2>2 DEF Tracks!Truth
<1>5. (way * k) \div gap = further
  <2>1. way * k = gap * further BY <1>1
  <2>2. gap \in Nat /\ gap > 0 BY <1>1
  <2> HIDE DEF way, further
  <2> QED BY <1>2, <2>1, <2>2, Shares
<1> HIDE DEF n, way, further
<1>6. Tracks!SignedDifference((n + way) % Round, n % Round) = way
  BY <1>1, <1>2, <1>3, ShorterIs DEF Tracks!SignedDifference
<1>7. ((n % Round) + further) % Round = (n + further) % Round
  BY <1>1, <1>2, TurnedBy
<1> QED BY <1>4, <1>5, <1>6, <1>7

\* On its track a satellite is where it will be, until the prediction ends.
LEMMA InterpolatedTruth ==
  ASSUME NEW sc, NEW s \in sc.tracked, s \in Routes, sc.predicted \in Nat, NEW elapsed \in Nat
  PROVE  \E t \in 0 .. Duration :
           /\ t <= elapsed
           /\ Tracks!Interpolated(Tracks!Track(sc, s), elapsed) = Tracks!Truth(s, sc.predicted + t)
<1> DEFINE track == Tracks!Track(sc, s)
           o == Tracks!Offsets
           n == Len(o)
           r == Tracks!Interpolated(track, elapsed)
           next == CHOOSE j \in 2 .. n :
                     elapsed <= track[j].after /\ \A i \in 2 .. j - 1 : track[i].after < elapsed
<1>1. /\ n \in Nat /\ n > 1 /\ o[1] = 0 /\ o[n] = Duration /\ Duration \in Nat
      /\ \A i \in 1 .. n : o[i] \in 0 .. Duration
      /\ \A i \in 1 .. n - 1 : o[i] < o[i + 1] /\ o[i + 1] - o[i] <= Step
  BY OffsetsInSteps, TrackLimits
<1>2. /\ Len(track) = n
      /\ \A i \in 1 .. n : track[i].after = o[i] /\ track[i].az = Tracks!Truth(s, sc.predicted + o[i])
  BY TrackPoints
<1>3. r = IF elapsed <= track[1].after THEN track[1].az
          ELSE IF elapsed >= track[n].after THEN track[n].az
          ELSE (track[next - 1].az
                  + (Tracks!SignedDifference(track[next].az, track[next - 1].az)
                       * (elapsed - track[next - 1].after))
                    \div (track[next].after - track[next - 1].after)) % Round
  BY <1>2 DEF Tracks!Interpolated
<1> HIDE DEF track, o, n, r
<1>4. 1 \in 1 .. n /\ n \in 1 .. n BY <1>1
<1>5. CASE elapsed <= track[1].after
  <2>1. r = Tracks!Truth(s, sc.predicted + o[1]) BY <1>2, <1>3, <1>4, <1>5
  <2>2. o[1] \in 0 .. Duration /\ o[1] <= elapsed BY <1>1
  <2> QED BY <2>1, <2>2 DEF r, track
<1>6. CASE ~(elapsed <= track[1].after) /\ elapsed >= track[n].after
  <2>1. r = Tracks!Truth(s, sc.predicted + o[n]) BY <1>2, <1>3, <1>4, <1>6
  <2>2. o[n] \in 0 .. Duration /\ o[n] <= elapsed BY <1>1, <1>2, <1>4, <1>6
  <2> QED BY <2>1, <2>2 DEF r, track
<1>7. CASE ~(elapsed <= track[1].after) /\ ~(elapsed >= track[n].after)
  <2>0. 0 < elapsed /\ elapsed < Duration /\ \A i \in 1 .. n : track[i].after \in Nat
    <3>1. track[1].after = 0 /\ track[n].after = Duration BY <1>1, <1>2, <1>4
    <3>2. \A i \in 1 .. n : track[i].after \in Nat BY <1>1, <1>2
    <3> QED BY <1>1, <1>7, <3>1, <3>2
  <2>1. \E j \in 2 .. n :
          elapsed <= track[j].after /\ \A i \in 2 .. j - 1 : track[i].after < elapsed
    <3> DEFINE ends == {j \in 2 .. n : elapsed <= track[j].after}
    <3>1. ends \subseteq Nat /\ n \in ends BY <1>1, <1>2, <1>4, <2>0
    <3>2. PICK j \in ends : \A i \in ends : j <= i
      <4> HIDE DEF ends
      <4> QED BY <3>1, Lowest
    <3>3. j \in 2 .. n /\ elapsed <= track[j].after OBVIOUS
    <3>4. ASSUME NEW i \in 2 .. j - 1 PROVE track[i].after < elapsed
      <4>1. i \in 2 .. n /\ i \in 1 .. n /\ ~(j <= i) BY <1>1, <3>3, <3>4
      <4>2. i \notin ends BY <3>2, <4>1
      <4> QED BY <2>0, <4>1, <4>2
    <3> QED BY <3>3, <3>4
  <2>2. /\ next \in 2 .. n /\ elapsed <= track[next].after
        /\ \A i \in 2 .. next - 1 : track[i].after < elapsed
    BY <2>1
  <2> HIDE DEF next
  <2> DEFINE i == next - 1
             gap == o[next] - o[i]
             k == elapsed - o[i]
  <2>3. i \in 1 .. n - 1 /\ next = i + 1 /\ next \in 1 .. n /\ i \in 1 .. n
    BY <1>1, <2>2
  <2>4. r = (track[i].az + (Tracks!SignedDifference(track[next].az, track[i].az)
                              * (elapsed - track[i].after))
                    \div (track[next].after - track[i].after)) % Round
    BY <1>3, <1>7 DEF next
  <2>5. track[i].after < elapsed
    <3>1. CASE i = 1 BY <1>1, <1>2, <1>4, <2>0, <3>1
    <3>2. CASE i > 1
      <4>1. i \in 2 .. next - 1 BY <1>1, <2>2, <3>2
      <4> QED BY <2>2, <4>1
    <3> QED BY <2>3, <3>1, <3>2
  <2> HIDE DEF i
  <2>6. /\ o[i] \in 0 .. Duration /\ o[next] \in 0 .. Duration /\ o[i] < o[next]
        /\ o[next] - o[i] <= Step /\ Step \in Nat
    BY <1>1, <2>3, TrackLimits
  <2>7. gap \in 1 .. Step /\ k \in Nat /\ o[i] + gap = o[next] /\ o[i] + k = elapsed
    BY <1>2, <2>3, <2>5, <2>6
  <2> DEFINE from == sc.predicted + o[i]
  <2>8. from \in Nat /\ from + gap = sc.predicted + o[next] /\ from + k = sc.predicted + elapsed
    BY <2>6, <2>7
  <2>9. /\ track[i].az = Tracks!Truth(s, from) /\ track[next].az = Tracks!Truth(s, from + gap)
        /\ elapsed - track[i].after = k /\ track[next].after - track[i].after = gap
    <3> HIDE DEF from, gap
    <3>1. from = sc.predicted + o[i] /\ gap = o[next] - o[i] BY DEF from, gap
    <3> QED BY <1>2, <2>3, <2>8, <3>1
  <2> HIDE DEF from, gap, k
  <2>10. r = Tracks!Truth(s, from + k)
    <3>1. (Tracks!Truth(s, from)
             + (Tracks!SignedDifference(Tracks!Truth(s, from + gap), Tracks!Truth(s, from)) * k)
                 \div gap) % Round = Tracks!Truth(s, from + k)
      BY <2>7, <2>8, BetweenPoints
    <3> QED BY <2>4, <2>9, <3>1
  <2>11. elapsed \in 0 .. Duration BY <1>1, <2>0
  <2> QED BY <2>8, <2>10, <2>11 DEF r, track
<1> QED BY <1>5, <1>6, <1>7

LEMMA PointsCount == ASSUME NEW S PROVE Tracks!Cardinality(S) = Cardinality(S)
BY Zenon DEF Tracks!Cardinality, Cardinality

\* A path goes where the satellite will be.
LEMMA RemainingTruth ==
  ASSUME NEW sc, NEW s \in sc.tracked, s \in Routes, sc.predicted \in Nat, NEW elapsed \in Nat
  PROVE  LET points == Tracks!Remaining(Tracks!Track(sc, s), elapsed)
         IN  /\ 1 \in DOMAIN points
             /\ points[1] = Tracks!Interpolated(Tracks!Track(sc, s), elapsed)
             /\ \A i \in DOMAIN points :
                  \E t \in 0 .. Duration : points[i] = Tracks!Truth(s, sc.predicted + t)
<1> DEFINE track == Tracks!Track(sc, s)
           o == Tracks!Offsets
           n == Len(o)
           gone == {i \in DOMAIN track : track[i].after <= elapsed}
           passed == Tracks!Passed(track, elapsed)
           points == Tracks!Remaining(track, elapsed)
<1>1. n \in Nat /\ \A i \in 1 .. n : o[i] \in 0 .. Duration BY OffsetsInSteps
<1>2. /\ DOMAIN track = 1 .. n /\ Len(track) = n
      /\ \A i \in 1 .. n : track[i].az = Tracks!Truth(s, sc.predicted + o[i])
  BY TrackPoints
<1>3. passed \in 0 .. n
  <2>1. IsFiniteSet(1 .. n) /\ Cardinality(1 .. n) = n
    <3> HIDE DEF n
    <3>1. n \in Int /\ 1 \in Int BY <1>1
    <3>2. IsFiniteSet(1 .. n) /\ Cardinality(1 .. n) = IF 1 > n THEN 0 ELSE n - 1 + 1
      BY <3>1, FS_Interval, Zenon
    <3> QED BY <1>1, <3>2
  <2>2. gone \subseteq 1 .. n BY <1>2
  <2>0. passed = Cardinality(gone) BY PointsCount DEF Tracks!Passed
  <2> HIDE DEF gone, passed
  <2>3. IsFiniteSet(gone) /\ Cardinality(gone) <= n BY <2>1, <2>2, FS_Subset
  <2>4. Cardinality(gone) \in Nat BY <2>3, FS_CardinalityType
  <2> QED BY <1>1, <2>0, <2>3, <2>4
<1>4. points = [i \in 1 .. n - passed + 1 |->
                  IF i = 1 THEN Tracks!Interpolated(track, elapsed) ELSE track[passed + i - 1].az]
  <2>1. points = [i \in 1 .. Len(track) - passed + 1 |->
                    IF i = 1 THEN Tracks!Interpolated(track, elapsed) ELSE track[passed + i - 1].az]
    BY DEF Tracks!Remaining
  <2> HIDE DEF track, o, n, gone, passed, points
  <2> QED BY <1>2, <2>1
<1> HIDE DEF track, o, n, passed, points
<1>5. 1 \in DOMAIN points /\ points[1] = Tracks!Interpolated(track, elapsed)
  BY <1>1, <1>3, <1>4
<1>6. ASSUME NEW i \in DOMAIN points
      PROVE  \E t \in 0 .. Duration : points[i] = Tracks!Truth(s, sc.predicted + t)
  <2>1. CASE i = 1
    <3>1. \E t \in 0 .. Duration :
            Tracks!Interpolated(track, elapsed) = Tracks!Truth(s, sc.predicted + t)
      BY InterpolatedTruth DEF track
    <3> QED BY <1>5, <2>1, <3>1
  <2>2. CASE i # 1
    <3> DEFINE j == passed + i - 1
    <3>1. i \in 1 .. n - passed + 1 BY <1>4, <1>6
    <3>2. points[i] = track[j].az BY <1>4, <2>2, <3>1
    <3>3. j \in 1 .. n BY <1>1, <1>3, <2>2, <3>1
    <3> HIDE DEF j
    <3> QED BY <1>1, <1>2, <3>2, <3>3
  <2> QED BY <2>1, <2>2
<1> QED BY <1>5, <1>6 DEF points, track

LEMMA TracksParts ==
  Tracks!TracksInv =>
    /\ a \in Nat /\ g \in Nat /\ g <= a
    /\ b.sats \subseteq Routes /\ b.tracked \subseteq Routes
    /\ b.at \in Nat /\ b.predicted \in Nat /\ b.started \in Nat
    /\ b.at <= b.predicted /\ b.predicted <= b.started /\ b.started <= a
    /\ DOMAIN e \subseteq c /\ c \subseteq b.sats
BY DEF Tracks!TracksInv, Tracks!Scenes, Tracks!MarkersWereThere

LEMMA TracksInit == Tracks!Init => Tracks!TracksInv
<1> SUFFICES ASSUME Tracks!Init PROVE Tracks!TracksInv
  OBVIOUS
<1>1. /\ a = 1 /\ b = Tracks!NoScene /\ c = {} /\ g = 0
      /\ e = Tracks!Nothing /\ f = Tracks!Nothing /\ DOMAIN Tracks!Nothing = {}
  BY DEF Tracks!Init, Tracks!Nothing
<1>2. /\ b \in Tracks!Scenes /\ b.at = 0 /\ b.predicted = 0 /\ b.started = 0 /\ b.sats = {}
      /\ b.tracked = {}
  BY <1>1 DEF Tracks!NoScene, Tracks!Scenes
<1> QED BY <1>1, <1>2 DEF Tracks!TracksInv, Tracks!MarkersWereThere

\* A redraw puts the markers back where the scene has them and removes the paths.
LEMMA RedrawKeeps ==
  ASSUME Tracks!TracksInv, UNCHANGED <<a, g>>, b' \in Tracks!Scenes,
         b'.at <= b'.predicted, b'.predicted <= b'.started, b'.started <= a,
         c' \subseteq b'.sats, Tracks!Redrawn(b', c', d')
  PROVE  Tracks!TracksInv'
<1>1. a \in Nat /\ g \in Nat /\ g <= a BY TracksParts
<1>2. DOMAIN f' = {} BY DEF Tracks!Redrawn, Tracks!Nothing
<1>3. /\ DOMAIN e' \subseteq c'
      /\ \A s \in DOMAIN e' : e'[s] = Tracks!Truth(s, b'.at)
  BY DEF Tracks!Redrawn, Tracks!Placed
<1>4. b'.at \in b'.at .. a
  BY <1>1 DEF Tracks!Scenes
<1>5. Tracks!MarkersWereThere'
  BY <1>3, <1>4 DEF Tracks!MarkersWereThere, Tracks!Truth
<1> QED BY <1>1, <1>2, <1>5 DEF Tracks!TracksInv, Tracks!Scenes

LEMMA ShowKeeps ==
  ASSUME Tracks!TracksInv, NEW sc \in Tracks!Scenes, NEW w, Tracks!Show(sc, w),
         sc.at <= sc.predicted, sc.predicted <= sc.started, sc.started <= a
  PROVE  Tracks!TracksInv'
<1>1. /\ b' = sc /\ d' = w /\ c' = Tracks!Rebuilt(sc, w) /\ UNCHANGED <<a, g>>
      /\ Tracks!Redrawn(sc, Tracks!Rebuilt(sc, w), w)
  BY DEF Tracks!Show
<1>2. c' \subseteq sc.sats BY <1>1 DEF Tracks!Rebuilt
<1>3. Tracks!Redrawn(b', c', d') BY <1>1
<1> QED BY <1>1, <1>2, <1>3, RedrawKeeps

\* Where the satellite is on its track after a time it has been.
LEMMA AlongTrack ==
  ASSUME Tracks!TracksInv, NEW s \in b.tracked, NEW at \in Nat, b.started <= at, at <= a
  PROVE  LET az == Tracks!Interpolated(Tracks!Track(b, s), at - b.started)
         IN  /\ \E t \in 0 .. Duration : az = Tracks!Truth(s, b.predicted + t)
             /\ \E t \in b.at .. a : az = Tracks!Truth(s, t)
<1> DEFINE az == Tracks!Interpolated(Tracks!Track(b, s), at - b.started)
<1>1. /\ a \in Nat /\ b.at \in Nat /\ b.predicted \in Nat /\ b.started \in Nat
      /\ b.at <= b.predicted /\ b.predicted <= b.started /\ s \in Routes
  BY TracksParts
<1>2. at - b.started \in Nat BY <1>1
<1>3. PICK t \in 0 .. Duration : t <= at - b.started /\ az = Tracks!Truth(s, b.predicted + t)
  BY <1>1, <1>2, InterpolatedTruth
<1>4. b.predicted + t \in b.at .. a BY <1>1, <1>3, TrackLimits
<1> QED BY <1>3, <1>4

\* A frame moves the markers that are free to move to where the paths it draws begin.
LEMMA FrameKeeps ==
  ASSUME Tracks!TracksInv, Tracks!Frame
  PROVE  Tracks!TracksInv'
<1> DEFINE elapsed == a - b.started
           To(s) == Tracks!Interpolated(Tracks!Track(b, s), elapsed)
           moving == IF d.all /\ d.selected # Tracks!NoSat THEN c \cap {d.selected} ELSE c
           moves == {s \in moving \cap b.tracked \cap DOMAIN e : Tracks!Visible(To(s), d)}
<1>1. /\ UNCHANGED <<a, b, c, d>>
      /\ e' = [s \in DOMAIN e |-> IF s \in moves THEN To(s) ELSE e[s]]
      /\ IF a > g THEN f' = Tracks!PathsAt(elapsed) /\ g' = a ELSE UNCHANGED <<f, g>>
  BY DEF Tracks!Frame
<1>2. /\ a \in Nat /\ g \in Nat /\ g <= a /\ b.started \in Nat /\ b.started <= a
      /\ b.predicted \in Nat /\ b.tracked \subseteq Routes
      /\ elapsed \in Nat
  BY TracksParts
<1>3. /\ DOMAIN e' = DOMAIN e
      /\ \A s \in DOMAIN e : e'[s] = IF s \in moves THEN To(s) ELSE e[s]
  BY <1>1
<1>4. Tracks!MarkersWereThere'
  <2>1. ASSUME NEW s \in DOMAIN e PROVE \E t \in b.at .. a : e'[s] = Tracks!Truth(s, t)
    <3>1. CASE s \in moves
      <4>1. s \in b.tracked BY <3>1
      <4>2. \E t \in b.at .. a : To(s) = Tracks!Truth(s, t) BY <1>2, <4>1, AlongTrack
      <4> QED BY <1>3, <3>1, <4>2
    <3>2. CASE s \notin moves
      <4> HIDE DEF moves
      <4> QED BY <1>3, <3>2 DEF Tracks!TracksInv, Tracks!MarkersWereThere
    <3> QED BY <3>1, <3>2
  <2> HIDE DEF moves, To
  <2>2. DOMAIN e \subseteq c /\ c \subseteq b.sats BY TracksParts
  <2> QED BY <1>1, <1>3, <2>1, <2>2 DEF Tracks!MarkersWereThere
<1>5. ASSUME NEW s \in b.tracked PROVE Tracks!Remaining(Tracks!Track(b, s), elapsed)[1] = To(s)
  <2>1. s \in Routes BY <1>2
  <2> QED BY <1>2, <2>1, RemainingTruth
<1>6. ASSUME NEW s \in c \cap b.tracked, s \in DOMAIN e, Tracks!Visible(To(s), d), Tracks!MayMove(s)
      PROVE  e'[s] = To(s)
  <2>1. s \in moving BY <1>6 DEF Tracks!MayMove
  <2>2. s \in moves BY <1>6, <2>1
  <2> QED BY <1>3, <1>6, <2>2
<1>7. g' \in Nat /\ g' <= a /\ g' = a
  BY <1>1, <1>2
<1>8. ASSUME NEW s
      PROVE  /\ Tracks!PathOf(s)' = Tracks!Remaining(Tracks!Track(b, s), elapsed)
             /\ Tracks!OnLine(Tracks!PathOf(s))' =
                  Tracks!OnLine(Tracks!Remaining(Tracks!Track(b, s), elapsed))
             /\ Tracks!MayMove(s)' <=> Tracks!MayMove(s)
  <2>1. Tracks!PathOf(s)' = Tracks!Remaining(Tracks!Track(b, s), elapsed)
    BY <1>1, <1>7 DEF Tracks!PathOf
  <2>2. Tracks!OnLine(Tracks!PathOf(s))' =
          Tracks!OnLine(Tracks!Remaining(Tracks!Track(b, s), elapsed))
    BY <1>1, <2>1 DEF Tracks!OnLine
  <2>3. Tracks!MayMove(s)' <=> Tracks!MayMove(s) BY <1>1 DEF Tracks!MayMove
  <2> QED BY <2>1, <2>2, <2>3
<1>9. ASSUME NEW s \in DOMAIN f'
      PROVE  /\ s \in c \cap b.tracked
             /\ f'[s] = Tracks!OnLine(Tracks!Remaining(Tracks!Track(b, s), elapsed))
  <2>1. CASE a > g
    <3>1. f' = [x \in {y \in c : Len(Tracks!Track(b, y)) >= 2} |->
                  Tracks!OnLine(Tracks!Remaining(Tracks!Track(b, x), elapsed))]
      BY <1>1, <2>1 DEF Tracks!PathsAt
    <3>2. s \in c /\ Len(Tracks!Track(b, s)) >= 2 BY <1>9, <3>1
    <3>3. s \in b.tracked
      <4>1. CASE s \notin b.tracked
        <5>1. Tracks!Track(b, s) = <<>> BY <4>1 DEF Tracks!Track
        <5> QED BY <3>2, <5>1
      <4> QED BY <4>1
    <3> HIDE DEF elapsed
    <3> QED BY <1>9, <3>1, <3>2, <3>3
  <2>2. CASE ~(a > g)
    <3>1. f' = f /\ g = a BY <1>1, <1>2, <2>2
    <3>2. s \in c \cap b.tracked /\ f[s] = Tracks!OnLine(Tracks!PathOf(s))
      BY <1>9, <3>1 DEF Tracks!TracksInv
    <3>3. Tracks!PathOf(s) = Tracks!Remaining(Tracks!Track(b, s), elapsed)
      BY <3>1 DEF Tracks!PathOf
    <3> QED BY <3>1, <3>2, <3>3
  <2> QED BY <2>1, <2>2
<1> HIDE DEF To, moves, elapsed
<1>10. ASSUME NEW s \in DOMAIN f'
       PROVE  /\ s \in c' \cap b'.tracked /\ b'.started <= g'
              /\ f'[s] = Tracks!OnLine(Tracks!PathOf(s))'
              /\ s \in DOMAIN e' /\ Tracks!Visible(Tracks!PathOf(s)'[1], d') /\ Tracks!MayMove(s)'
                   => e'[s] = Tracks!PathOf(s)'[1]
  <2>1. s \in c \cap b.tracked /\ f'[s] = Tracks!OnLine(Tracks!PathOf(s))' BY <1>8, <1>9
  <2>2. Tracks!PathOf(s)'[1] = To(s) BY <1>5, <1>8, <2>1
  <2>3. s \in DOMAIN e' /\ Tracks!Visible(To(s), d) /\ Tracks!MayMove(s) => e'[s] = To(s)
    BY <1>3, <1>6, <2>1
  <2> QED BY <1>1, <1>2, <1>7, <1>8, <2>1, <2>2, <2>3
<1>11. /\ a' \in Nat /\ g' \in Nat /\ g' <= a' /\ b' \in Tracks!Scenes
       /\ b'.at <= b'.predicted /\ b'.predicted <= b'.started /\ b'.started <= a'
  BY <1>1, <1>2, <1>7 DEF Tracks!TracksInv, Tracks!Scenes
<1> QED BY <1>4, <1>10, <1>11 DEF Tracks!TracksInv

LEMMA TracksStep == Tracks!TracksInv /\ [Tracks!Next]_(Tracks!vars) => Tracks!TracksInv'
<1> SUFFICES ASSUME Tracks!TracksInv, [Tracks!Next]_(Tracks!vars) PROVE Tracks!TracksInv'
  OBVIOUS
<1>1. /\ a \in Nat /\ g \in Nat /\ g <= a /\ b \in Tracks!Scenes
      /\ b.at \in Nat /\ b.predicted \in Nat /\ b.started \in Nat
      /\ b.at <= b.predicted /\ b.predicted <= b.started /\ b.started <= a
      /\ c \subseteq b.sats /\ MaxLag \in Nat
  BY TracksParts, TrackLimits DEF Tracks!TracksInv
<1>2. CASE UNCHANGED Tracks!vars
  <2>1. UNCHANGED <<a, b, c, d, e, f, g>> BY <1>2 DEF Tracks!vars
  <2>2. \A s : Tracks!OnLine(Tracks!PathOf(s))' = Tracks!OnLine(Tracks!PathOf(s))
    BY <2>1 DEF Tracks!OnLine, Tracks!PathOf
  <2>3. Tracks!MarkersWereThere' BY <2>1 DEF Tracks!TracksInv, Tracks!MarkersWereThere, Tracks!Truth
  <2> QED BY <2>1, <2>2, <2>3 DEF Tracks!TracksInv, Tracks!PathOf, Tracks!MayMove, Tracks!Scenes
<1>3. ASSUME NEW sats \in SUBSET Routes, NEW at \in a - MaxLag .. a, NEW predicted \in a - MaxLag .. a,
             NEW tracked \in SUBSET sats, at >= 0, at <= predicted,
             Tracks!SetSatellites(sats, tracked, at, predicted)
      PROVE  Tracks!TracksInv'
  <2> DEFINE sc == [sats |-> sats, tracked |-> tracked, at |-> at, predicted |-> predicted,
                    started |-> a]
             w == IF d.selected \in sats THEN d ELSE [d EXCEPT !.selected = Tracks!NoSat]
  <2>1. UNCHANGED Tracks!vars \/ Tracks!Show(sc, w) BY <1>3 DEF Tracks!SetSatellites
  <2>2. CASE Tracks!Show(sc, w)
    <3>1. at \in Nat /\ predicted \in Nat /\ predicted <= a BY <1>1, <1>3
    <3>2. sc \in Tracks!Scenes /\ sc.at <= sc.predicted /\ sc.predicted <= sc.started /\ sc.started <= a
      BY <1>1, <1>3, <3>1 DEF Tracks!Scenes
    <3> HIDE DEF sc, w
    <3> QED BY <2>2, <3>2, ShowKeeps
  <2> QED BY <1>2, <2>1, <2>2
<1>4. ASSUME NEW facing, Tracks!LookAt(facing) PROVE Tracks!TracksInv'
  BY <1>1, <1>4, ShowKeeps DEF Tracks!LookAt
<1>5. ASSUME NEW all, Tracks!ShowAll(all) PROVE Tracks!TracksInv'
  BY <1>1, <1>5, ShowKeeps DEF Tracks!ShowAll
<1>6. ASSUME NEW s, Tracks!SelectNorad(s) PROVE Tracks!TracksInv'
  BY <1>1, <1>6, ShowKeeps DEF Tracks!SelectNorad
<1>7. ASSUME NEW s, Tracks!Click(s) PROVE Tracks!TracksInv'
  <2>1. UNCHANGED <<a, b, c, g>> /\ Tracks!Redrawn(b', c', d') BY <1>7 DEF Tracks!Click
  <2> QED BY <1>1, <2>1, RedrawKeeps
<1>8. CASE Tracks!LayerChanged
  <2>1. UNCHANGED <<a, b, c, d, g>> /\ Tracks!Redrawn(b', c', d') BY <1>8 DEF Tracks!LayerChanged
  <2> QED BY <1>1, <2>1, RedrawKeeps
<1>9. CASE Tracks!Frame BY <1>9, FrameKeeps
<1>10. CASE Tracks!Tick
  <2>1. a' = a + 1 /\ UNCHANGED <<b, c, d, e, f, g>> BY <1>10 DEF Tracks!Tick
  <2>2. Tracks!MarkersWereThere'
    <3>1. \A t \in b.at .. a : t \in b.at .. a + 1 BY <1>1
    <3> QED BY <2>1, <3>1 DEF Tracks!TracksInv, Tracks!MarkersWereThere, Tracks!Truth
  <2>3. a' \in Nat /\ g' <= a' /\ b'.started <= a' BY <1>1, <2>1
  <2>4. \A s : Tracks!OnLine(Tracks!PathOf(s))' = Tracks!OnLine(Tracks!PathOf(s))
    BY <2>1 DEF Tracks!OnLine, Tracks!PathOf
  <2> QED BY <2>1, <2>2, <2>3, <2>4 DEF Tracks!TracksInv, Tracks!PathOf, Tracks!MayMove, Tracks!Scenes
<1> QED BY <1>2, <1>3, <1>4, <1>5, <1>6, <1>7, <1>8, <1>9, <1>10 DEF Tracks!Next

\* What the satellites' invariant says of what is drawn.
LEMMA PathsAreOfMarkers == Tracks!TracksInv => Tracks!MarkersWereThere /\ Tracks!PathsBeginAtMarkers
<1> SUFFICES ASSUME Tracks!TracksInv
             PROVE  Tracks!MarkersWereThere /\ Tracks!PathsBeginAtMarkers
  OBVIOUS
<1>1. /\ a \in Nat /\ g \in Nat /\ b.predicted \in Nat /\ b.started \in Nat
      /\ b.tracked \subseteq Routes
  BY TracksParts
<1>2. ASSUME NEW s \in DOMAIN f
      PROVE  /\ s \in DOMAIN e /\ 1 \in DOMAIN f[s] /\ Tracks!MayMove(s) => f[s][1] = e[s]
             /\ \A i \in DOMAIN f[s] :
                  \E t \in 0 .. Duration : f[s][i] = Tracks!Truth(s, b.predicted + t)
  <2> DEFINE points == Tracks!PathOf(s)
  <2>1. /\ s \in b.tracked /\ b.started <= g /\ f[s] = Tracks!OnLine(points)
        /\ s \in DOMAIN e /\ Tracks!Visible(points[1], d) /\ Tracks!MayMove(s) => e[s] = points[1]
    BY <1>2 DEF Tracks!TracksInv
  <2>2. \A i \in DOMAIN points : \E t \in 0 .. Duration : points[i] = Tracks!Truth(s, b.predicted + t)
    <3>1. g - b.started \in Nat /\ s \in Routes BY <1>1, <2>1
    <3> QED BY <1>1, <2>1, <3>1, RemainingTruth DEF Tracks!PathOf
  <2> HIDE DEF points
  <2>3. /\ \A i \in DOMAIN f[s] : i \in DOMAIN points /\ f[s][i] = points[i]
        /\ 1 \in DOMAIN f[s] => Tracks!Visible(points[1], d)
    BY <2>1 DEF Tracks!OnLine
  <2> QED BY <2>1, <2>2, <2>3
<1> QED BY <1>2 DEF Tracks!TracksInv, Tracks!PathsBeginAtMarkers, Tracks!MayMove

\* No marker of the views runs ahead of what it stands for: an aircraft that flies
\* steadily is drawn where it was or is, no further than the limit past one of its
\* fixes, and a satellite where it was at a time since its positions were computed, at
\* the beginning of its path; over the north, at the ends of a track, and whatever
\* fixes and redraws come between two frames (AircraftMotionHistory.resolve,
\* _animate_aircraft, interpolated_satellite_position, _animation_tick). It rests on an
\* aircraft going less than half way round in the age of a history, and a satellite in
\* a step of its prediction.
THEOREM MarkersStayBehind == Spec => []MarkerOnItsWay
<1> DEFINE Inv == /\ slice = "motion" => Motion!MotionInv
                  /\ slice = "tracks" => Tracks!TracksInv
<1>1. Init => Inv BY MotionInit, TracksInit DEF Init
<1>2. Inv /\ [Next]_vars => Inv'
  <2> SUFFICES ASSUME Inv, [Next]_vars PROVE Inv'
    OBVIOUS
  <2>1. slice' = slice BY DEF Next, vars
  <2>2. CASE slice = "motion"
    <3>1. [Motion!Next]_(Motion!vars) BY <2>2 DEF Next, vars, Motion!vars
    <3> QED BY <2>1, <2>2, <3>1, MotionStep
  <2>3. CASE slice = "tracks"
    <3>1. [Tracks!Next]_(Tracks!vars) BY <2>3 DEF Next, vars, Tracks!vars
    <3> QED BY <2>1, <2>3, <3>1, TracksStep
  <2> QED BY <2>1, <2>2, <2>3
<1>3. Inv => MarkerOnItsWay BY MarkerFollows, PathsAreOfMarkers DEF MarkerOnItsWay
<1> QED BY <1>1, <1>2, <1>3, PTL DEF Spec

(***************************************************************************)
(* Request telemetry: ObservabilityStore.                                  *)
(***************************************************************************)
LEMMA StoreLimits ==
  TicksPerSecond \in Nat /\ TicksPerSecond > 0 /\ Window \in Nat /\ MaxSamples \in Nat
BY StoreAssumption DEF Store!StoreAssumption

LEMMA StoreCount == ASSUME NEW S PROVE Store!Cardinality(S) = Cardinality(S)
BY Zenon DEF Store!Cardinality, Cardinality

LEMMA SecondsAdvance ==
  ASSUME NEW from \in Nat, NEW to \in Nat
  PROVE  Store!Second(from) \in Nat /\ (from <= to => Store!Second(from) <= Store!Second(to))
<1> DEFINE n == TicksPerSecond
           p == from \div n
           q == to \div n
<1>1. /\ n \in Nat /\ n > 0 /\ p \in Nat /\ q \in Nat
      /\ n * p <= from /\ from < n * p + n /\ n * q <= to /\ to < n * q + n
  BY StoreLimits
<1>2. ASSUME from <= to, p > q PROVE FALSE
  <2>1. PICK k \in Nat : p = q + 1 + k
    <3>1. p - q - 1 \in Nat /\ p = q + 1 + (p - q - 1) BY <1>1, <1>2
    <3> QED BY <3>1
  <2> HIDE DEF n, p, q
  <2>2. n * p = n * q + n + n * k /\ n * k \in Nat /\ n * q \in Nat BY <1>1, <2>1
  <2> QED BY <1>1, <1>2, <2>2
<1> QED BY <1>1, <1>2 DEF Store!Second

\* What is added up over a set of groups is the number of all their members.
Within(I, group, S) == {i \in I : group[i] \in S}

LEMMA Tallied ==
  ASSUME NEW field, NEW I, IsFiniteSet(I), NEW group, IsFiniteSet(Store!Counted),
         \A x \in Store!Counted : c[x][field] = Cardinality(Within(I, group, {x}))
  PROVE  Store!Total(field) = Cardinality(Within(I, group, Store!Counted))
<1> DEFINE S == Store!Counted
           one(T) == CHOOSE x \in T : TRUE
           In(T) == Within(I, group, T)
           size == [T \in SUBSET S |-> Cardinality(In(T))]
           sum == CHOOSE it : it = [T \in SUBSET S |->
                                      IF T = {} THEN 0 ELSE it[T \ {one(T)}] + c[one(T)][field]]
<1>1. Store!Total(field) = sum[S]
  BY DEF Store!Total, Store!FoldFunctionOnSet, Store!MapThenFoldSet
<1> HIDE DEF S
<1>2. \A T : T # {} => one(T) \in T
  OBVIOUS
<1> HIDE DEF one
<1> USE DEF Within
<1>3. \A T : IsFiniteSet(In(T)) /\ Cardinality(In(T)) \in Nat
  <2> SUFFICES ASSUME NEW T PROVE IsFiniteSet(In(T)) /\ Cardinality(In(T)) \in Nat
    OBVIOUS
  <2>1. In(T) \subseteq I OBVIOUS
  <2> HIDE DEF In
  <2>2. IsFiniteSet(In(T)) BY <2>1, FS_Subset
  <2> QED BY <2>2, FS_CardinalityType
<1>4. In({}) = {} OBVIOUS
<1>5. ASSUME NEW T \in SUBSET S, T # {}
      PROVE  Cardinality(In(T)) = Cardinality(In(T \ {one(T)})) + c[one(T)][field]
  <2> DEFINE x == one(T)
  <2>1. x \in T /\ x \in S BY <1>2, <1>5
  <2>2. c[x][field] = Cardinality(In({x}))
    <3> HIDE DEF x, Within
    <3> QED BY <2>1 DEF S
  <2>3. In(T) = In(T \ {x}) \cup In({x}) /\ In(T \ {x}) \cap In({x}) = {} BY <2>1
  <2> HIDE DEF x, In
  <2>4. Cardinality(In(T \ {x}) \cup In({x})) =
          Cardinality(In(T \ {x})) + Cardinality(In({x})) - Cardinality(In(T \ {x}) \cap In({x}))
    BY <1>3, FS_Union
  <2>5. Cardinality({}) = 0 BY FS_EmptySet
  <2>6. Cardinality(In(T)) = Cardinality(In(T \ {x})) + Cardinality(In({x}))
    <3>1. Cardinality(In(T)) = Cardinality(In(T \ {x}) \cup In({x})) BY <2>3
    <3>2. Cardinality(In(T \ {x}) \cap In({x})) = 0 BY <2>3, <2>5
    <3> QED BY <1>3, <2>4, <3>1, <3>2
  <2>7. Cardinality(In(T)) = Cardinality(In(T \ {x})) + c[x][field] BY <2>2, <2>6
  <2> QED BY <2>7 DEF x
<1>6. size = [T \in SUBSET S |->
                IF T = {} THEN 0 ELSE size[T \ {one(T)}] + c[one(T)][field]]
  <2> HIDE DEF In
  <2>1. Cardinality({}) = 0 BY FS_EmptySet
  <2>2. \A T \in SUBSET S : size[T] = Cardinality(In(T)) OBVIOUS
  <2>3. ASSUME NEW T \in SUBSET S
        PROVE  Cardinality(In(T)) = IF T = {} THEN 0 ELSE size[T \ {one(T)}] + c[one(T)][field]
    <3>1. CASE T = {} BY <1>4, <2>1, <3>1
    <3>2. CASE T # {}
      <4>1. T \ {one(T)} \in SUBSET S OBVIOUS
      <4>2. size[T \ {one(T)}] = Cardinality(In(T \ {one(T)})) BY <2>2, <4>1
      <4> HIDE DEF size
      <4> QED BY <1>5, <3>2, <4>2
    <3> QED BY <3>1, <3>2
  <2> QED BY <2>3
<1>7. sum = [T \in SUBSET S |-> IF T = {} THEN 0 ELSE sum[T \ {one(T)}] + c[one(T)][field]]
  <2> HIDE DEF size
  <2>1. \E it : it = [T \in SUBSET S |-> IF T = {} THEN 0 ELSE it[T \ {one(T)}] + c[one(T)][field]]
    BY <1>6
  <2> QED BY <2>1, Zenon
<1> HIDE DEF sum, In, Within
<1>8. \A T \in SUBSET S : sum[T] = Cardinality(In(T))
  <2> DEFINE wrong == {T \in SUBSET S : sum[T] # Cardinality(In(T))}
             sizes == {Cardinality(T) : T \in wrong}
  <2> SUFFICES ASSUME wrong # {} PROVE FALSE
    OBVIOUS
  <2>1. \A T \in SUBSET S : IsFiniteSet(T) /\ Cardinality(T) \in Nat
    BY FS_Subset, FS_CardinalityType DEF S
  <2>2. sizes \subseteq Nat /\ sizes # {} BY <2>1
  <2>3. PICK m \in sizes : \A k \in sizes : m <= k
    <3> HIDE DEF sizes
    <3> QED BY <2>2, Lowest
  <2>4. PICK T \in wrong : Cardinality(T) = m BY <2>3
  <2>5. T \in SUBSET S /\ sum[T] # Cardinality(In(T)) OBVIOUS
  <2>6. CASE T = {}
    <3>1. sum[T] = 0 BY <1>7, <2>5, <2>6
    <3>2. Cardinality(In(T)) = 0 BY <1>4, <2>6, FS_EmptySet
    <3> QED BY <2>5, <3>1, <3>2
  <2>7. CASE T # {}
    <3> DEFINE U == T \ {one(T)}
    <3>1. U \in SUBSET S /\ one(T) \in T BY <1>2, <2>5, <2>7
    <3>2. Cardinality(U) = Cardinality(T) - 1 BY <2>1, <2>5, <3>1, FS_RemoveElement
    <3>3. U \notin wrong
      <4>1. SUFFICES ASSUME Cardinality(U) \in sizes PROVE FALSE
        BY <3>1
      <4>2. m <= Cardinality(U) /\ m \in Nat BY <2>2, <2>3, <4>1
      <4> QED BY <2>4, <3>2, <4>2
    <3>4. sum[U] = Cardinality(In(U)) BY <3>1, <3>3
    <3>5. sum[T] = sum[U] + c[one(T)][field] BY <1>7, <2>5, <2>7
    <3>6. Cardinality(In(T)) = Cardinality(In(U)) + c[one(T)][field] BY <1>5, <2>5, <2>7
    <3> QED BY <2>5, <3>4, <3>5, <3>6
  <2> QED BY <2>6, <2>7
<1> QED BY <1>1, <1>8 DEF In, S

\* The requests of a second, and the errors among them, are finitely many.
LEMMA RequestsCounted ==
  ASSUME Store!StoreInv
  PROVE  /\ DOMAIN e = 1 .. Len(e) /\ Len(e) \in Nat
         /\ \A i \in DOMAIN e : e[i].at \in Nat /\ Store!Second(e[i].at) \in Nat
         /\ \A S \in SUBSET DOMAIN e : IsFiniteSet(S) /\ Cardinality(S) \in Nat
<1>1. e \in Seq([at : Nat, error : BOOLEAN]) BY DEF Store!StoreInv
<1>2. DOMAIN e = 1 .. Len(e) /\ Len(e) \in Nat BY <1>1
<1>3. \A i \in DOMAIN e : e[i].at \in Nat
  <2>1. \A i \in DOMAIN e : e[i] \in [at : Nat, error : BOOLEAN] BY <1>1, <1>2, ElementOfSeq
  <2> QED BY <2>1
<1>4. \A i \in DOMAIN e : Store!Second(e[i].at) \in Nat BY <1>3, SecondsAdvance
<1>5. IsFiniteSet(DOMAIN e)
  <2>1. IsFiniteSet(1 .. Len(e)) BY <1>2, FS_Interval
  <2> QED BY <1>2, <2>1
<1>6. \A S \in SUBSET DOMAIN e : IsFiniteSet(S) /\ Cardinality(S) \in Nat
  BY <1>5, FS_Subset, FS_CardinalityType
<1> QED BY <1>2, <1>3, <1>4, <1>6

LEMMA StoreInit == Store!Init => Store!StoreInv
<1> SUFFICES ASSUME Store!Init PROVE Store!StoreInv
  OBVIOUS
<1>1. a = 0 /\ b = <<>> /\ DOMAIN c = {} /\ d = None /\ e = <<>> BY DEF Store!Init
<1>2. DOMAIN e = {} /\ e \in Seq([at : Nat, error : BOOLEAN]) /\ b \in Seq(Nat) BY <1>1
<1> QED BY <1>1, <1>2 DEF Store!StoreInv

\* Recording a request: its second has one request more, other seconds keep theirs,
\* and the purge drops the seconds that are out of the window of this one.
LEMMA RecordKeeps ==
  ASSUME Store!StoreInv, NEW isError \in BOOLEAN, Store!Record(isError)
  PROVE  Store!StoreInv'
<1> DEFINE n == Len(e)
           now == Store!Second(a)
           old == IF now \in DOMAIN c THEN c[now] ELSE [requests |-> 0, errors |-> 0]
           new == [requests |-> old.requests + 1,
                   errors |-> old.errors + IF isError THEN 1 ELSE 0]
           kept == {x \in DOMAIN c \cup {now} : Store!KeptBucket(x)}
           request == [at |-> a, error |-> isError]
<1>1. /\ b' = Store!Sampled(Append(b, a)) /\ e' = Append(e, request) /\ UNCHANGED <<a, d>>
      /\ c' = [x \in kept |-> IF x = now THEN new ELSE c[x]]
  BY DEF Store!Record
<1>2. /\ a \in Nat /\ (d # None => d \in Nat) /\ b \in Seq(Nat)
      /\ e \in Seq([at : Nat, error : BOOLEAN])
      /\ \A i, j \in DOMAIN e : i <= j => e[i].at <= e[j].at
      /\ \A i \in DOMAIN e : e[i].at <= a
      /\ DOMAIN c = {Store!Second(e[i].at) : i \in IF e = <<>> THEN {} ELSE Store!InWindow(e[Len(e)].at)}
      /\ \A x \in DOMAIN c : c[x] = [requests |-> Store!Cardinality(Store!OfSecond(x)),
                                     errors |-> Store!Cardinality(Store!Errors(Store!OfSecond(x)))]
  BY DEF Store!StoreInv
<1>3. /\ n \in Nat /\ DOMAIN e = 1 .. n
      /\ \A i \in 1 .. n : e[i].at \in Nat /\ Store!Second(e[i].at) \in Nat
      /\ \A S \in SUBSET DOMAIN e : IsFiniteSet(S) /\ Cardinality(S) \in Nat
  BY RequestsCounted
<1>4. now \in Nat /\ Window \in Nat BY <1>2, SecondsAdvance, StoreLimits
<1>5. request \in [at : Nat, error : BOOLEAN] BY <1>2
<1> HIDE DEF request
<1>6. /\ e' \in Seq([at : Nat, error : BOOLEAN]) /\ Len(e') = n + 1 /\ DOMAIN e' = 1 .. n + 1
      /\ \A i \in 1 .. n : e'[i] = e[i]
      /\ e'[n + 1] = request
  BY <1>1, <1>2, <1>3, <1>5, AppendProperties
<1>7. request.at = a /\ request.error = isError BY DEF request
<1>8. b' \in Seq(Nat)
  <2>1. Append(b, a) \in Seq(Nat) /\ Append(b, a) # <<>> BY <1>2, AppendProperties
  <2>2. Tail(Append(b, a)) \in Seq(Nat) BY <2>1, HeadTailProperties
  <2> QED BY <1>1, <2>1, <2>2 DEF Store!Sampled
<1>9. \A i, j \in DOMAIN e' : i <= j => e'[i].at <= e'[j].at
  <2> SUFFICES ASSUME NEW i \in 1 .. n + 1, NEW j \in 1 .. n + 1, i <= j
               PROVE  e'[i].at <= e'[j].at
    BY <1>6
  <2>1. CASE j <= n
    <3>1. i \in 1 .. n /\ j \in 1 .. n BY <1>3, <2>1
    <3> QED BY <1>2, <1>3, <1>6, <3>1
  <2>2. CASE j = n + 1 /\ i <= n
    <3>1. i \in 1 .. n BY <1>3, <2>2
    <3> QED BY <1>2, <1>3, <1>6, <1>7, <2>2, <3>1
  <2>3. CASE j = n + 1 /\ i = n + 1 BY <1>2, <1>6, <1>7, <2>3
  <2> QED BY <1>3, <2>1, <2>2, <2>3
<1>10. \A i \in DOMAIN e' : e'[i].at <= a'
  <2> SUFFICES ASSUME NEW i \in 1 .. n + 1 PROVE e'[i].at <= a
    BY <1>1, <1>6
  <2>1. CASE i \in 1 .. n BY <1>2, <1>3, <1>6, <2>1
  <2>2. CASE i = n + 1 BY <1>2, <1>6, <1>7, <2>2
  <2> QED BY <1>3, <2>1, <2>2
\* A request of the log in the window of this one was in the window of the last.
<1>11. ASSUME NEW i \in 1 .. n, now <= Store!Second(e[i].at) + Window
       PROVE  Store!Second(e[i].at) \in DOMAIN c
  <2>1. n \in 1 .. n /\ e # <<>> BY <1>3
  <2>2. e[n].at \in Nat /\ e[n].at <= a BY <1>2, <1>3, <2>1
  <2>3. Store!Second(e[n].at) <= now /\ Store!Second(e[n].at) \in Nat BY <1>2, <2>2, SecondsAdvance
  <2>4. Store!Second(e[n].at) <= Store!Second(e[i].at) + Window BY <1>3, <1>4, <1>11, <2>3
  <2>5. i \in Store!InWindow(e[Len(e)].at) BY <1>3, <2>4 DEF Store!InWindow
  <2> HIDE DEF now
  <2> QED BY <1>2, <2>1, <2>5
<1>12. DOMAIN c' = {Store!Second(e'[i].at) : i \in IF e' = <<>> THEN {} ELSE Store!InWindow(e[Len(e)].at)'}
  <2> DEFINE inside == {i \in 1 .. n + 1 : now <= Store!Second(e'[i].at) + Window}
  <2>1. e' # <<>>
    <3>1. Len(e') > 0 BY <1>3, <1>6
    <3> QED BY <3>1
  <2>2. Store!InWindow(e[Len(e)].at)' = inside
    <3>1. e[Len(e)].at' = a BY <1>6, <1>7
    <3>2. Store!InWindow(e[Len(e)].at)' = {i \in DOMAIN e' : Store!Second(e[Len(e)].at') <= Store!Second(e'[i].at) + Window}
      BY DEF Store!InWindow
    <3> QED BY <1>6, <3>1, <3>2
  <2>3. DOMAIN c' = kept BY <1>1
  <2>4. ASSUME NEW x \in kept PROVE \E i \in inside : x = Store!Second(e'[i].at)
    <3>1. CASE x = now
      <4>1. n + 1 \in inside BY <1>3, <1>4, <1>6, <1>7
      <4> QED BY <1>6, <1>7, <3>1, <4>1
    <3>2. CASE x # now
      <4>1. x \in DOMAIN c /\ now <= x + Window BY <2>4, <3>2 DEF Store!KeptBucket
      <4>2. e # <<>> BY <1>2, <4>1
      <4>3. PICK i \in Store!InWindow(e[Len(e)].at) : x = Store!Second(e[i].at) BY <1>2, <4>1, <4>2
      <4>4. i \in 1 .. n BY <1>3 DEF Store!InWindow
      <4>5. i \in 1 .. n + 1 /\ e'[i] = e[i] BY <1>3, <1>6, <4>4
      <4> QED BY <4>1, <4>3, <4>5
    <3> QED BY <3>1, <3>2
  <2>5. ASSUME NEW i \in inside PROVE Store!Second(e'[i].at) \in kept
    <3>1. CASE i = n + 1
      <4>1. Store!Second(e'[i].at) = now BY <1>6, <1>7, <3>1
      <4> QED BY <1>4, <4>1 DEF Store!KeptBucket
    <3>2. CASE i # n + 1
      <4>1. i \in 1 .. n BY <1>3, <3>2
      <4>2. e'[i] = e[i] /\ now <= Store!Second(e[i].at) + Window BY <1>6, <2>5, <4>1
      <4>3. Store!Second(e[i].at) \in DOMAIN c BY <1>11, <4>1, <4>2
      <4> QED BY <4>2, <4>3 DEF Store!KeptBucket
    <3> QED BY <3>1, <3>2
  <2> HIDE DEF kept, inside
  <2> QED BY <2>1, <2>2, <2>3, <2>4, <2>5
\* The requests of a second after this one.
<1>13. ASSUME NEW x
       PROVE  /\ Store!OfSecond(x) \in SUBSET DOMAIN e /\ Store!Errors(Store!OfSecond(x)) \in SUBSET DOMAIN e
              /\ n + 1 \notin Store!OfSecond(x)
              /\ Store!OfSecond(x)' = IF x = now THEN Store!OfSecond(x) \cup {n + 1} ELSE Store!OfSecond(x)
              /\ Store!Errors(Store!OfSecond(x))' =
                   IF x = now /\ isError THEN Store!Errors(Store!OfSecond(x)) \cup {n + 1}
                   ELSE Store!Errors(Store!OfSecond(x))
  <2>1. Store!OfSecond(x) = {i \in 1 .. n : Store!Second(e[i].at) = x} BY <1>3 DEF Store!OfSecond
  <2>2. Store!OfSecond(x)' = {i \in 1 .. n + 1 : Store!Second(e'[i].at) = x} BY <1>6 DEF Store!OfSecond
  <2>3. 1 .. n + 1 = 1 .. n \cup {n + 1} /\ n + 1 \notin 1 .. n BY <1>3
  <2>4. Store!Second(e'[n + 1].at) = now /\ e'[n + 1].error = isError BY <1>6, <1>7
  <2> HIDE DEF now
  <2>5. Store!OfSecond(x)' = IF x = now THEN Store!OfSecond(x) \cup {n + 1} ELSE Store!OfSecond(x)
    BY <1>6, <2>1, <2>2, <2>3, <2>4
  <2>6. Store!Errors(Store!OfSecond(x)) = {i \in Store!OfSecond(x) : e[i].error} BY DEF Store!Errors
  <2>7. Store!Errors(Store!OfSecond(x))' = {i \in Store!OfSecond(x)' : e'[i].error} BY DEF Store!Errors
  <2>8. Store!OfSecond(x) \subseteq 1 .. n BY <2>1
  <2>9. Store!Errors(Store!OfSecond(x))' =
          IF x = now /\ isError THEN Store!Errors(Store!OfSecond(x)) \cup {n + 1}
          ELSE Store!Errors(Store!OfSecond(x))
    BY <1>6, <2>3, <2>4, <2>5, <2>6, <2>7, <2>8
  <2> QED BY <1>3, <2>3, <2>5, <2>6, <2>8, <2>9
<1>14. ASSUME NEW x \in DOMAIN c'
       PROVE  c'[x] = [requests |-> Cardinality(Store!OfSecond(x)'),
                       errors |-> Cardinality(Store!Errors(Store!OfSecond(x))')]
  <2> DEFINE all == Store!OfSecond(x)
             bad == Store!Errors(Store!OfSecond(x))
  <2>1. /\ IsFiniteSet(all) /\ Cardinality(all) \in Nat /\ IsFiniteSet(bad) /\ Cardinality(bad) \in Nat
        /\ n + 1 \notin all /\ n + 1 \notin bad
    BY <1>3, <1>13 DEF Store!Errors
  <2>2. x \in DOMAIN c => c[x] = [requests |-> Cardinality(all), errors |-> Cardinality(bad)]
    BY <1>2, StoreCount
  <2>3. CASE x # now
    <3>1. x \in DOMAIN c /\ c'[x] = c[x] BY <1>1, <1>14, <2>3
    <3>2. all' = all /\ bad' = bad BY <1>13, <2>3
    <3> QED BY <2>2, <3>1, <3>2
  <2>4. CASE x = now
    <3>1. c'[x] = new BY <1>1, <1>14, <2>4
    <3>2. old.requests = Cardinality(all) /\ old.errors = Cardinality(bad)
      <4>1. CASE x \in DOMAIN c BY <2>2, <2>4, <4>1
      <4>2. CASE x \notin DOMAIN c
        <5>1. all = {}
          <6>1. ASSUME NEW i \in all PROVE FALSE
            <7>1. i \in 1 .. n /\ Store!Second(e[i].at) = now BY <1>3, <2>4 DEF Store!OfSecond
            <7>2. Store!Second(e[i].at) \in DOMAIN c BY <1>4, <1>11, <7>1
            <7> QED BY <2>4, <4>2, <7>1, <7>2
          <6> QED BY <6>1
        <5>2. bad = {} BY <5>1 DEF Store!Errors
        <5>3. old = [requests |-> 0, errors |-> 0] BY <2>4, <4>2
        <5> HIDE DEF all, bad, old
        <5> QED BY <5>1, <5>2, <5>3, FS_EmptySet
      <4> QED BY <4>1, <4>2
    <3>3. all' = all \cup {n + 1} /\ bad' = IF isError THEN bad \cup {n + 1} ELSE bad
      BY <1>13, <2>4
    <3> HIDE DEF all, bad
    <3>4. Cardinality(all') = Cardinality(all) + 1 BY <2>1, <3>3, FS_AddElement
    <3>5. Cardinality(bad') = Cardinality(bad) + IF isError THEN 1 ELSE 0
      <4>1. Cardinality(bad \cup {n + 1}) = Cardinality(bad) + 1 BY <2>1, FS_AddElement
      <4> QED BY <2>1, <3>3, <4>1
    <3>6. c'[x] = [requests |-> Cardinality(all'), errors |-> Cardinality(bad')]
      BY <3>1, <3>2, <3>4, <3>5
    <3> QED BY <3>6 DEF all, bad
  <2> QED BY <2>3, <2>4
<1>15. \A x \in DOMAIN c' : c'[x] = [requests |-> Store!Cardinality(Store!OfSecond(x)'),
                                     errors |-> Store!Cardinality(Store!Errors(Store!OfSecond(x))')]
  BY <1>14, StoreCount
<1>16. a' \in Nat /\ (d' # None => d' \in Nat) BY <1>1, <1>2
<1> QED BY <1>6, <1>8, <1>9, <1>10, <1>12, <1>15, <1>16 DEF Store!StoreInv

LEMMA StoreStep == Store!StoreInv /\ [Store!Next]_(Store!vars) => Store!StoreInv'
<1> SUFFICES ASSUME Store!StoreInv, [Store!Next]_(Store!vars) PROVE Store!StoreInv'
  OBVIOUS
<1>1. ASSUME UNCHANGED <<b, c, e>>, a' \in Nat, d' # None => d' \in Nat,
             \A i \in DOMAIN e : e[i].at <= a'
      PROVE  Store!StoreInv'
  <2>1. /\ \A x : Store!OfSecond(x)' = Store!OfSecond(x)
        /\ \A x : Store!Errors(Store!OfSecond(x))' = Store!Errors(Store!OfSecond(x))
        /\ Store!InWindow(e[Len(e)].at)' = Store!InWindow(e[Len(e)].at)
    BY <1>1 DEF Store!OfSecond, Store!Errors, Store!InWindow
  <2> QED BY <1>1, <2>1 DEF Store!StoreInv
<1>2. a \in Nat /\ (d # None => d \in Nat) /\ \A i \in DOMAIN e : e[i].at \in Nat /\ e[i].at <= a
  BY RequestsCounted DEF Store!StoreInv
<1>3. CASE UNCHANGED Store!vars
  <2>1. UNCHANGED <<a, b, c, d, e>> BY <1>3 DEF Store!vars
  <2> QED BY <1>1, <1>2, <2>1
<1>4. ASSUME NEW isError \in BOOLEAN, Store!Record(isError) PROVE Store!StoreInv'
  BY <1>4, RecordKeeps
<1>5. CASE Store!Ask
  <2>1. d' = a /\ UNCHANGED <<a, b, c, e>> BY <1>5 DEF Store!Ask
  <2> QED BY <1>1, <1>2, <2>1
<1>6. CASE Store!Summarise
  <2>1. d' = None /\ UNCHANGED <<a, b, c, e>> BY <1>6 DEF Store!Summarise
  <2> QED BY <1>1, <1>2, <2>1
<1>7. CASE Store!Tick
  <2>1. a' = a + 1 /\ UNCHANGED <<b, c, d, e>> BY <1>7 DEF Store!Tick
  <2>2. a' \in Nat /\ \A i \in DOMAIN e : e[i].at <= a' BY <1>2, <2>1
  <2> QED BY <1>1, <1>2, <2>1, <2>2
<1> QED BY <1>3, <1>4, <1>5, <1>6, <1>7 DEF Store!Next

\* The buckets a report counts are the seconds of what is reportable.
LEMMA ReportCounts ==
  Store!StoreInv => Store!ReportCountsLog /\ Store!UnflaggedIsComplete
<1> SUFFICES ASSUME Store!StoreInv, d # None, e # <<>>
             PROVE  /\ Store!Total("requests") = Store!Cardinality(Store!Reportable)
                    /\ Store!Total("errors") = Store!Cardinality({i \in Store!Reportable : e[i].error})
                    /\ ~Store!Truncated =>
                         Store!SampledSince >=
                           Store!Cardinality({i \in Store!Reportable :
                                                d <= e[i].at + Window * TicksPerSecond})
  BY DEF Store!ReportCountsLog, Store!UnflaggedIsComplete
<1> DEFINE n == Len(e)
           group == [i \in DOMAIN e |-> Store!Second(e[i].at)]
           S == Store!Counted
           all == DOMAIN e
           bad == {i \in DOMAIN e : e[i].error}
<1>1. /\ n \in Nat /\ DOMAIN e = 1 .. n /\ n \in DOMAIN e
      /\ \A i \in DOMAIN e : e[i].at \in Nat /\ group[i] \in Nat
      /\ \A T \in SUBSET DOMAIN e : IsFiniteSet(T) /\ Cardinality(T) \in Nat
  <2>1. n \in Nat /\ DOMAIN e = 1 .. n BY RequestsCounted
  <2>2. n \in DOMAIN e BY <2>1
  <2> QED BY <2>1, <2>2, RequestsCounted
<1>2. /\ a \in Nat /\ d \in Nat /\ b \in Seq(Nat) /\ Window \in Nat
      /\ \A i \in DOMAIN e : e[i].at <= a
      /\ DOMAIN c = {group[i] : i \in Store!InWindow(e[n].at)}
      /\ \A x \in DOMAIN c : c[x] = [requests |-> Cardinality(Store!OfSecond(x)),
                                     errors |-> Cardinality(Store!Errors(Store!OfSecond(x)))]
  <2>1. /\ DOMAIN c = {Store!Second(e[i].at) : i \in Store!InWindow(e[n].at)}
        /\ \A x \in DOMAIN c : c[x] = [requests |-> Store!Cardinality(Store!OfSecond(x)),
                                       errors |-> Store!Cardinality(Store!Errors(Store!OfSecond(x)))]
    BY DEF Store!StoreInv
  <2>2. \A i \in Store!InWindow(e[n].at) : group[i] = Store!Second(e[i].at) BY DEF Store!InWindow
  <2> HIDE DEF group
  <2>3. DOMAIN c = {group[i] : i \in Store!InWindow(e[n].at)} BY <2>1, <2>2
  <2> QED BY <2>1, <2>3, StoreLimits, StoreCount DEF Store!StoreInv
<1>3. IsFiniteSet(S)
  <2>1. \A x \in DOMAIN c : x \in Nat /\ x <= Store!Second(a)
    <3> SUFFICES ASSUME NEW i \in Store!InWindow(e[n].at)
                 PROVE  group[i] \in Nat /\ group[i] <= Store!Second(a)
      BY <1>2
    <3>1. i \in DOMAIN e BY DEF Store!InWindow
    <3>2. e[i].at \in Nat /\ e[i].at <= a BY <1>1, <1>2, <3>1
    <3> QED BY <1>1, <1>2, <3>1, <3>2, SecondsAdvance
  <2>2. Store!Second(a) \in Nat BY <1>2, SecondsAdvance
  <2>3. S \in SUBSET Nat /\ \A x \in S : x <= Store!Second(a) BY <2>1 DEF Store!Counted
  <2> HIDE DEF S
  <2> QED BY <2>2, <2>3, FS_BoundedSetOfNaturals
<1>4. Store!Reportable = Within(all, group, S)
  <2>1. Store!Reportable = {i \in DOMAIN e : /\ Store!Second(d) <= group[i] + Window
                                             /\ Store!Second(e[n].at) <= group[i] + Window}
    BY DEF Store!Reportable, Store!InWindow
  <2>2. \A x : x \in S <=> x \in DOMAIN c /\ Store!Second(d) <= x + Window
    BY DEF Store!Counted
  <2>3. ASSUME NEW i \in DOMAIN e
        PROVE  group[i] \in DOMAIN c <=> Store!Second(e[n].at) <= group[i] + Window
    <3>1. ASSUME Store!Second(e[n].at) <= group[i] + Window PROVE group[i] \in DOMAIN c
      <4>1. i \in Store!InWindow(e[n].at) BY <3>1 DEF Store!InWindow
      <4> HIDE DEF group
      <4> QED BY <1>2, <4>1
    <3>2. ASSUME group[i] \in DOMAIN c PROVE Store!Second(e[n].at) <= group[i] + Window
      <4>1. PICK j \in Store!InWindow(e[n].at) : group[i] = group[j] BY <1>2, <3>2
      <4>2. Store!Second(e[n].at) <= group[j] + Window BY <4>1 DEF Store!InWindow
      <4> HIDE DEF group
      <4> QED BY <4>1, <4>2
    <3> QED BY <3>1, <3>2
  <2> HIDE DEF S, group
  <2> QED BY <2>1, <2>2, <2>3 DEF Within
<1>5. /\ \A x \in S : c[x]["requests"] = Cardinality(Within(all, group, {x}))
      /\ \A x \in S : c[x]["errors"] = Cardinality(Within(bad, group, {x}))
  <2> SUFFICES ASSUME NEW x \in S
               PROVE  /\ c[x]["requests"] = Cardinality(Within(all, group, {x}))
                      /\ c[x]["errors"] = Cardinality(Within(bad, group, {x}))
    OBVIOUS
  <2>1. x \in DOMAIN c BY DEF Store!Counted
  <2>2. Store!OfSecond(x) = Within(all, group, {x}) BY DEF Store!OfSecond, Within
  <2>3. Store!Errors(Store!OfSecond(x)) = Within(bad, group, {x})
    BY DEF Store!OfSecond, Store!Errors, Within
  <2> HIDE DEF all, bad, group, S
  <2>4. c[x] = [requests |-> Cardinality(Within(all, group, {x})),
                errors |-> Cardinality(Within(bad, group, {x}))]
    BY <1>2, <2>1, <2>2, <2>3
  <2> QED BY <2>4
<1>6. IsFiniteSet(all) /\ IsFiniteSet(bad) BY <1>1
<1>7. Within(bad, group, S) = {i \in Store!Reportable : e[i].error} BY <1>4 DEF Within
<1> HIDE DEF group, all, bad
<1>8. /\ Store!Total("requests") = Cardinality(Store!Reportable)
      /\ Store!Total("errors") = Cardinality({i \in Store!Reportable : e[i].error})
  <2>1. Store!Total("requests") = Cardinality(Within(all, group, S))
    BY <1>3, <1>5, <1>6, Tallied
  <2>2. Store!Total("errors") = Cardinality(Within(bad, group, S))
    BY <1>3, <1>5, <1>6, Tallied
  <2> QED BY <1>4, <1>7, <2>1, <2>2
<1>9. ASSUME ~Store!Truncated
      PROVE  Store!SampledSince >=
               Cardinality({i \in Store!Reportable : d <= e[i].at + Window * TicksPerSecond})
  <2> DEFINE part == {i \in Store!Reportable : d <= e[i].at + Window * TicksPerSecond}
  <2>1. Store!SampledSince \in Nat
    <3> DEFINE recent == {i \in DOMAIN b : d <= b[i] + Window * TicksPerSecond}
    <3>1. IsFiniteSet(1 .. Len(b)) BY <1>2, FS_Interval
    <3>2. recent \subseteq 1 .. Len(b) BY <1>2
    <3>3. Store!SampledSince = Cardinality(recent) BY StoreCount DEF Store!SampledSince
    <3> HIDE DEF recent
    <3> QED BY <3>1, <3>2, <3>3, FS_Subset, FS_CardinalityType
  <2>2. part \subseteq Store!Reportable OBVIOUS
  <2>3. Store!Reportable \subseteq DOMAIN e BY DEF Store!Reportable, Store!InWindow
  <2> HIDE DEF part
  <2>4. Cardinality(part) <= Cardinality(Store!Reportable) BY <1>1, <2>2, <2>3, FS_Subset
  <2>5. Cardinality(part) \in Nat /\ Cardinality(Store!Reportable) \in Nat BY <1>1, <2>2, <2>3
  <2>6. ~(Cardinality(Store!Reportable) > Store!SampledSince) BY <1>8, <1>9 DEF Store!Truncated
  <2>7. Store!SampledSince >= Cardinality(part) BY <2>1, <2>4, <2>5, <2>6
  <2> QED BY <2>7 DEF part
<1> QED BY <1>8, <1>9, StoreCount

\* However requests end between the clock reading of a report and its copy, and
\* however the clock goes on, a report counts exactly the recorded requests, and the
\* errors among them, of its window and of that of the last request before it: the
\* purge and the limit on samples lose nothing of them, and a report whose percentiles
\* miss one of them says so (record_request, snapshot). For every window, resolution
\* of the clock and limit on samples.
THEOREM ReportsCount == Spec => []ReportCountsLog
<1> DEFINE Inv == slice = "store" => Store!StoreInv
<1>1. Init => Inv BY StoreInit DEF Init
<1>2. Inv /\ [Next]_vars => Inv'
  <2> SUFFICES ASSUME Inv, [Next]_vars, slice' = "store" PROVE Store!StoreInv'
    OBVIOUS
  <2>1. slice = "store" /\ [Store!Next]_(Store!vars)
    BY DEF Next, vars, Store!vars
  <2> QED BY <2>1, StoreStep
<1>3. Inv => ReportCountsLog BY ReportCounts DEF ReportCountsLog
<1> QED BY <1>1, <1>2, <1>3, PTL DEF Spec

(***************************************************************************)
(* The shared region: SharedRegion.                                        *)
(***************************************************************************)
\* The centre of a cell is among the coordinates, no further than half a cell from
\* any place of it, the two ends of the range included.
LEMMA CentreNear ==
  ASSUME NEW most \in Nat \ {0}, most % Cell = 0, NEW v \in -most .. most
  PROVE  /\ Region!BoundedCentre(v, most) \in -most .. most
         /\ 2 * Region!Apart(Region!BoundedCentre(v, most), v) <= Cell
<1> DEFINE q == v \div Cell
           k == most \div Cell
           half == Cell \div 2
<1>1. Cell \in Nat \ {0} /\ 2 * half = Cell /\ half \in Nat \ {0}
  BY RegionAssumption DEF Region!RegionAssumption
<1>2. q \in Int /\ Cell * q <= v /\ v < Cell * q + Cell
  BY <1>1
<1>3. k \in Int /\ most = Cell * k
  BY <1>1
<1> HIDE DEF q, k, half
<1>4. half <= most
  <2>1. k >= 1 BY <1>1, <1>3
  <2>2. Cell * k >= Cell BY <1>1, <1>3, <2>1
  <2> QED BY <1>1, <1>3, <2>2
<1>5. Region!BoundedCentre(v, most) = Region!Lowest(most - half, Region!Highest(half - most, Cell * q + half))
  BY <1>1, <1>2 DEF Region!BoundedCentre, Region!RegionCentre, q, half
<1>6. Cell * q + half > most - half => v = most
  <2> SUFFICES ASSUME Cell * q + Cell > Cell * k PROVE v = most
    BY <1>1, <1>2, <1>3
  <2>1. q + 1 > k
    <3> SUFFICES ASSUME q + 1 <= k PROVE FALSE BY <1>2, <1>3
    <3>1. Cell * (q + 1) <= Cell * k BY <1>1, <1>2, <1>3
    <3> QED BY <3>1, <1>1, <1>2, <1>3
  <2>2. Cell * q >= Cell * k BY <1>1, <1>2, <1>3, <2>1
  <2> QED BY <2>2, <1>1, <1>2, <1>3
<1>7. ~(Cell * q + half < half - most)
  <2> SUFFICES ASSUME Cell * q < Cell * (-k) PROVE FALSE
    BY <1>1, <1>2, <1>3
  <2>1. q < -k
    <3> SUFFICES ASSUME q >= -k PROVE FALSE BY <1>2, <1>3
    <3>1. Cell * q >= Cell * (-k) BY <1>1, <1>2, <1>3
    <3> QED BY <3>1, <1>1, <1>2, <1>3
  <2>2. Cell * (q + 1) <= Cell * (-k) BY <1>1, <1>2, <1>3, <2>1
  <2> QED BY <2>2, <1>1, <1>2, <1>3
<1> DEFINE mid == Cell * q + half
<1>8. mid \in Int /\ mid - half <= v /\ v < mid + half
  BY <1>1, <1>2
<1> HIDE DEF mid
<1>9. CASE mid <= most - half
  <2>1. Region!BoundedCentre(v, most) = mid
    BY <1>1, <1>4, <1>5, <1>7, <1>8, <1>9 DEF Region!Lowest, Region!Highest, mid
  <2> QED BY <2>1, <1>1, <1>4, <1>7, <1>8, <1>9 DEF Region!Apart, Region!Highest, mid
<1>10. CASE mid > most - half
  <2>1. v = most BY <1>6, <1>10 DEF mid
  <2>2. Region!BoundedCentre(v, most) = most - half
    BY <1>1, <1>4, <1>5, <1>7, <1>8, <1>10 DEF Region!Lowest, Region!Highest, mid
  <2> QED BY <2>1, <2>2, <1>1, <1>4 DEF Region!Apart, Region!Highest
<1> QED BY <1>8, <1>9, <1>10, <1>1

\* A request for more kilometres is for no fewer miles.
LEMMA EffectiveGrows ==
  ASSUME NEW r \in Nat, NEW s \in Nat, r <= s
  PROVE  /\ Region!EffectiveRadius(r) \in Nat /\ Region!EffectiveRadius(s) \in Nat
         /\ Region!EffectiveRadius(r) <= Region!EffectiveRadius(s)
<1> DEFINE wr == r \div Mile
           ws == s \div Mile
           er == r % Mile
           es == s % Mile
           Used(x) == Region!Highest(1, Region!Lowest(MostMiles, Region!Nearest(x)))
<1>1. Mile \in Nat \ {0} /\ MostMiles \in Nat \ {0} BY RegionAssumption DEF Region!RegionAssumption
<1>2. /\ wr \in Nat /\ er \in 0 .. Mile - 1 /\ r = Mile * wr + er
      /\ ws \in Nat /\ es \in 0 .. Mile - 1 /\ s = Mile * ws + es
  BY <1>1
<1>3. /\ Region!Nearest(r) = IF 2 * er > Mile \/ (2 * er = Mile /\ wr % 2 = 1) THEN wr + 1 ELSE wr
      /\ Region!Nearest(s) = IF 2 * es > Mile \/ (2 * es = Mile /\ ws % 2 = 1) THEN ws + 1 ELSE ws
  BY DEF Region!Nearest
<1> HIDE DEF wr, ws, er, es
<1>4. Region!Nearest(r) <= Region!Nearest(s) /\ Region!Nearest(r) \in Nat /\ Region!Nearest(s) \in Nat
  <2>1. CASE wr = ws
    <3>1. er <= es BY <1>1, <1>2, <2>1
    <3> QED BY <3>1, <1>1, <1>2, <1>3, <2>1
  <2>2. CASE wr < ws
    BY <1>2, <1>3, <2>2
  <2>3. ~(wr > ws)
    <3> SUFFICES ASSUME ws + 1 <= wr PROVE FALSE BY <1>2
    <3>1. Mile * (ws + 1) <= Mile * wr BY <1>1, <1>2
    <3>2. Mile * (ws + 1) = Mile * ws + Mile BY <1>1, <1>2
    <3> QED BY <3>1, <3>2, <1>1, <1>2
  <2> QED BY <2>1, <2>2, <2>3, <1>2
<1>5. Used(r) \in Nat /\ Used(s) \in Nat /\ Used(r) <= Used(s)
  BY <1>1, <1>4 DEF Region!Lowest, Region!Highest
<1> HIDE DEF Used
<1>6. Mile * Used(r) \in Nat /\ Mile * Used(s) \in Nat /\ Mile * Used(r) <= Mile * Used(s)
  BY <1>1, <1>5
<1> QED BY <1>6 DEF Region!EffectiveRadius, Used

\* The way by a third place is no shorter, the antimeridian included.
LEMMA Triangle ==
  ASSUME NEW x \in Region!Places, NEW y \in Region!Places, NEW z \in Region!Places
  PROVE  /\ Region!Distance(x, z) \in Int /\ Region!Distance(x, y) \in Int /\ Region!Distance(y, z) \in Int
         /\ Region!Distance(x, z) <= Region!Distance(x, y) + Region!Distance(y, z)
<1>1. East \in Nat BY RegionAssumption DEF Region!RegionAssumption
<1>2. /\ x.lat \in Int /\ y.lat \in Int /\ z.lat \in Int
      /\ x.lon \in -East .. East /\ y.lon \in -East .. East /\ z.lon \in -East .. East
  BY RegionAssumption DEF Region!Places, Region!RegionAssumption
<1> DEFINE Closed(u, v) == Region!Lowest(Region!Apart(u, v), 2 * East - Region!Apart(u, v))
<1>3. ASSUME NEW u \in Int, NEW v \in Int, NEW w \in Int
      PROVE  /\ Region!Apart(u, w) \in Nat /\ Region!Apart(u, v) \in Nat /\ Region!Apart(v, w) \in Nat
             /\ Region!Apart(u, w) <= Region!Apart(u, v) + Region!Apart(v, w)
  BY DEF Region!Apart, Region!Highest
<1>4. ASSUME NEW u \in -East .. East, NEW v \in -East .. East, NEW w \in -East .. East
      PROVE  /\ Closed(u, w) \in Int /\ Closed(u, v) \in Int /\ Closed(v, w) \in Int
             /\ Closed(u, w) <= Closed(u, v) + Closed(v, w)
  BY <1>1, SMTT(60) DEF Region!Apart, Region!Lowest, Region!Highest
<1>5. /\ Region!Apart(x.lat, z.lat) \in Nat /\ Region!Apart(x.lat, y.lat) \in Nat
      /\ Region!Apart(y.lat, z.lat) \in Nat
      /\ Region!Apart(x.lat, z.lat) <= Region!Apart(x.lat, y.lat) + Region!Apart(y.lat, z.lat)
  BY <1>2, <1>3
<1>6. /\ Closed(x.lon, z.lon) \in Int /\ Closed(x.lon, y.lon) \in Int /\ Closed(y.lon, z.lon) \in Int
      /\ Closed(x.lon, z.lon) <= Closed(x.lon, y.lon) + Closed(y.lon, z.lon)
  BY <1>2, <1>4
<1>7. /\ Region!Distance(x, z) = Region!Apart(x.lat, z.lat) + Closed(x.lon, z.lon)
      /\ Region!Distance(x, y) = Region!Apart(x.lat, y.lat) + Closed(x.lon, y.lon)
      /\ Region!Distance(y, z) = Region!Apart(y.lat, z.lat) + Closed(y.lon, z.lon)
  BY DEF Region!Distance
<1> HIDE DEF Closed
<1> QED BY <1>5, <1>6, <1>7

\* Wherever an observer stands and whatever radius it asks for, the request of its
\* shared cell, cut to its own circle, gives exactly the aircraft that a request of
\* its own would, and asks for a place on Earth (_provider_request_scope,
\* slice_snapshot_radius).  For every size of cell, mile, and radius for which the
\* widest circle around a centre holds the shared one of every place in the cell.
THEOREM RegionServesAll == \A request \in Region!Requests : Region!SharingLosesNothing(request)
<1> SUFFICES ASSUME NEW request \in Region!Requests PROVE Region!SharingLosesNothing(request) OBVIOUS
<1>1. request.at \in Region!Places /\ request.radius \in Nat /\ RegionRadius \in Nat /\ SharedRadius \in Nat
  BY RegionAssumption DEF Region!Requests, Region!RegionAssumption
<1>2. CASE request.radius > SharedRadius
  <2>1. Region!Scope(request) = [at |-> request.at, radius |-> request.radius, shared |-> FALSE]
    BY <1>1, <1>2 DEF Region!Scope
  <2> QED BY <2>1, <1>1 DEF Region!SharingLosesNothing, Region!Contacts
<1>3. CASE request.radius <= SharedRadius
  <2> DEFINE centre == [lat |-> Region!BoundedCentre(request.at.lat, North),
                        lon |-> Region!BoundedCentre(request.at.lon, East)]
  <2>1. Region!Scope(request) = [at |-> centre, radius |-> RegionRadius, shared |-> TRUE]
    BY <1>3 DEF Region!Scope
  <2>2. /\ Region!BoundedCentre(request.at.lat, North) \in -North .. North
        /\ 2 * Region!Apart(Region!BoundedCentre(request.at.lat, North), request.at.lat) <= Cell
    BY <1>1, CentreNear, RegionAssumption DEF Region!Places, Region!RegionAssumption
  <2>3. /\ Region!BoundedCentre(request.at.lon, East) \in -East .. East
        /\ 2 * Region!Apart(Region!BoundedCentre(request.at.lon, East), request.at.lon) <= Cell
    BY <1>1, CentreNear, RegionAssumption DEF Region!Places, Region!RegionAssumption
  <2>4. centre \in Region!Places BY <2>2, <2>3 DEF Region!Places
  <2>5. Region!Distance(centre, request.at) <= Cell
    <3>1. /\ centre.lat = Region!BoundedCentre(request.at.lat, North)
          /\ centre.lon = Region!BoundedCentre(request.at.lon, East)
      OBVIOUS
    <3>2. centre.lat \in Int /\ centre.lon \in Int /\ request.at.lat \in Int /\ request.at.lon \in Int
      BY <2>4, <1>1 DEF Region!Places
    <3> HIDE DEF centre
    <3>3. 2 * Region!Apart(centre.lat, request.at.lat) <= Cell /\ 2 * Region!Apart(centre.lon, request.at.lon) <= Cell
      BY <2>2, <2>3, <3>1
    <3> QED BY <3>2, <3>3, RegionAssumption DEF Region!Distance, Region!Lowest, Region!RegionAssumption, Region!Apart, Region!Highest
  <2> HIDE DEF centre
  <2>6. Region!EffectiveRadius(request.radius) + Cell <= Region!EffectiveRadius(RegionRadius)
    <3>1. /\ Region!EffectiveRadius(request.radius) \in Nat /\ Region!EffectiveRadius(SharedRadius) \in Nat
          /\ Region!EffectiveRadius(request.radius) <= Region!EffectiveRadius(SharedRadius)
      BY <1>1, <1>3, EffectiveGrows
    <3>2. Region!EffectiveRadius(RegionRadius) \in Nat BY <1>1, EffectiveGrows
    <3> QED BY <3>1, <3>2, RegionAssumption DEF Region!RegionAssumption
  <2>7. Region!EffectiveRadius(request.radius) \in Nat /\ Region!EffectiveRadius(RegionRadius) \in Nat
    BY <1>1, EffectiveGrows
  <2>8. ASSUME NEW p \in Region!Places, Region!Distance(request.at, p) <= Region!EffectiveRadius(request.radius)
        PROVE  Region!Distance(centre, p) <= Region!EffectiveRadius(RegionRadius)
    <3>1. /\ Region!Distance(centre, p) \in Int /\ Region!Distance(request.at, p) \in Int
          /\ Region!Distance(centre, request.at) \in Int
          /\ Region!Distance(centre, p) <= Region!Distance(centre, request.at) + Region!Distance(request.at, p)
      BY Triangle, <1>1, <2>4
    <3> QED BY <3>1, <2>5, <2>6, <2>7, <2>8, RegionAssumption DEF Region!RegionAssumption
  <2>9. Region!Contacts(request, Region!Places)
          = {p \in {s \in Region!Places : Region!Distance(centre, s) <= Region!EffectiveRadius(RegionRadius)} :
               Region!Distance(request.at, p) <= Region!EffectiveRadius(request.radius)}
    BY <2>1 DEF Region!Contacts, Region!SliceOfSnapshot, Region!Provided
  <2>10. Region!Provided(request.at, request.radius, Region!Places)
          = {p \in Region!Places : Region!Distance(request.at, p) <= Region!EffectiveRadius(request.radius)}
    BY DEF Region!Provided
  <2>11. Region!Contacts(request, Region!Places) = Region!Provided(request.at, request.radius, Region!Places)
    BY <2>8, <2>9, <2>10
  <2>12. Region!Scope(request).at \in Region!Places BY <2>1, <2>4
  <2> QED BY <2>11, <2>12 DEF Region!SharingLosesNothing
<1> QED BY <1>1, <1>2, <1>3
===============================================================================
