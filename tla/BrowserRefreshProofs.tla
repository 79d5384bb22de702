------------------------- MODULE BrowserRefreshProofs -------------------------
(***************************************************************************)
(* Proofs about BrowserRefresh for every set of places: a saved place is   *)
(* not forgotten, and no late answer is drawn over a newer place.          *)
(*                                                                         *)
(* SaveNotForgotten speaks of a page that shows, and a page is hidden and  *)
(* revealed between the save and its rerun.  BInv therefore says where a   *)
(* saved place can be owed without a rerun at all: in a hidden page with   *)
(* no refresh in flight, which revealing it will refresh.                  *)
(***************************************************************************)
EXTENDS BrowserRefresh, TLAPS

Group == [place: Places, current: BOOLEAN, fresh: BOOLEAN, enhanced: BOOLEAN,
          pending: SUBSET {"sky", "aircraft"}]

Poll == [place: Places, current: BOOLEAN, fresh: BOOLEAN, grouped: BOOLEAN]

Somewhere == Places \cup {None}

TypeOK ==
  /\ form \in Somewhere
  /\ hidden \in BOOLEAN /\ rerun \in BOOLEAN /\ owed \in BOOLEAN
  /\ group \in Group \cup {None}
  /\ sat \in Poll \cup {None}
  /\ fast \in Somewhere /\ radar \in Somewhere
  /\ drawn \in [Layers -> Somewhere]
  /\ frame \in [place: Somewhere, due: BOOLEAN]

\* The generation tells an outdated request from the present one.
GenerationTells ==
  /\ group # None /\ group.current => group.fresh
  /\ sat # None /\ sat.current => sat.fresh

OwedInHiding == owed /\ ~rerun => hidden /\ group = None

BInv == TypeOK /\ GenerationTells /\ OwedInHiding

\* What starts, ages and settles is a request again.
LEMMA RequestTypes ==
  /\ \A p \in Places, b \in BOOLEAN :
       /\ NewGroup(p, b) \in Group /\ NewGroup(p, b).fresh
       /\ NewPoll(p, b) \in Poll /\ NewPoll(p, b).fresh
  /\ \A g \in Group : Outdated(g) \in Group \cup {None} /\ (g # None => ~Outdated(g).current)
  /\ \A s \in Poll : Outdated(s) \in Poll \cup {None} /\ (s # None => ~Outdated(s).current)
  /\ Outdated(None) = None
BY DEF NewGroup, NewPoll, Outdated, Group, Poll

\* The page is loaded.
LEMMA InitB == Init => BInv
<1> SUFFICES ASSUME Init PROVE BInv
  OBVIOUS
<1>1. group \in Group \cup {None} /\ (group # None => group.fresh)
  BY RequestTypes DEF Init
<1>2. sat \in Poll \cup {None} /\ (sat # None => sat.fresh)
  BY RequestTypes DEF Init
<1>3. TypeOK BY <1>1, <1>2 DEF Init, TypeOK, Somewhere
<1> QED BY <1>1, <1>2, <1>3 DEF Init, BInv, GenerationTells, OwedInHiding

\* A refresh that is due starts with the place in the form.
LEMMA RefreshKeeps ==
  ASSUME BInv, Refresh
  PROVE  /\ group' \in Group \cup {None} /\ sat' \in Poll \cup {None} /\ owed' \in BOOLEAN
         /\ GenerationTells'
         /\ group = None => ~owed'
         /\ group # None => owed' = owed
<1>t. TypeOK /\ GenerationTells BY DEF BInv
<1>1. CASE group # None \/ form = None
  BY <1>t, <1>1 DEF Refresh, TypeOK, GenerationTells
<1>2. CASE group = None /\ form # None
  <2>1. form \in Places BY <1>t, <1>2 DEF TypeOK, Somewhere
  <2>2. group' = NewGroup(form, TRUE) /\ ~owed'
        /\ sat' = (IF sat = None THEN NewPoll(form, TRUE) ELSE Outdated(sat))
    BY <1>2 DEF Refresh
  <2>3. group' \in Group /\ group'.fresh BY <2>1, <2>2, RequestTypes
  <2>4. sat' \in Poll \cup {None} /\ (sat' # None /\ sat'.current => sat'.fresh)
    BY <1>t, <2>1, <2>2, RequestTypes DEF TypeOK
  <2> QED BY <1>2, <2>2, <2>3, <2>4 DEF Refresh, GenerationTells
<1> QED BY <1>1, <1>2

\* A part that ends leaves the refresh with its generation, or ends it.
LEMMA PartKeeps ==
  ASSUME BInv, NEW part, PartEnds(part)
  PROVE  /\ group' \in Group \cup {None}
         /\ GenerationTells'
         /\ OwedInHiding'
         /\ UNCHANGED <<form, hidden, sat, fast, rerun, owed>>
<1>t. TypeOK /\ GenerationTells /\ OwedInHiding BY DEF BInv
<1> DEFINE g == [group EXCEPT !.pending = @ \ {part}]
<1>1. group # None /\ group \in Group /\ group' = Settled(g, sat)
      /\ UNCHANGED <<form, hidden, sat, fast, rerun, owed>>
  BY <1>t DEF PartEnds, TypeOK
<1>2. g \in Group /\ g.current = group.current /\ g.fresh = group.fresh
  BY <1>1 DEF Group
<1>3. group' \in {g, None} BY <1>1 DEF Settled
<1> HIDE DEF g
<1>4. GenerationTells' BY <1>t, <1>1, <1>2, <1>3 DEF GenerationTells
<1>5. OwedInHiding' BY <1>t, <1>1 DEF OwedInHiding
<1> QED BY <1>1, <1>2, <1>3, <1>4, <1>5

LEMMA SatelliteKeeps ==
  ASSUME BInv, SatelliteEnds
  PROVE  /\ group' \in Group \cup {None} /\ sat' = None
         /\ GenerationTells'
         /\ OwedInHiding'
         /\ UNCHANGED <<form, hidden, fast, rerun, frame, radar, owed>>
<1>t. TypeOK /\ GenerationTells /\ OwedInHiding BY DEF BInv
<1>1. group' \in {group, None} /\ sat' = None
      /\ UNCHANGED <<form, hidden, fast, rerun, frame, radar, owed>>
  BY DEF SatelliteEnds, Settled
<1> QED BY <1>t, <1>1 DEF TypeOK, GenerationTells, OwedInHiding

LEMMA StepB == BInv /\ [Next]_vars => BInv'
<1> SUFFICES ASSUME BInv, [Next]_vars PROVE BInv'
  OBVIOUS
<1>t. TypeOK /\ GenerationTells /\ OwedInHiding BY DEF BInv
<1>1. ASSUME NEW p \in Places \cup {None}, Edit(p) PROVE BInv'
  BY <1>t, <1>1 DEF Edit, BInv, TypeOK, Somewhere, GenerationTells, OwedInHiding
<1>2. CASE Save
  <2>1. form \in Places BY <1>t, <1>2 DEF Save, TypeOK, Somewhere
  <2>2. UNCHANGED <<form, hidden, fast, drawn, radar>>
        /\ frame' = [place |-> None, due |-> TRUE]
    BY <1>2 DEF Save
  <2>3. CASE group = None
    <3>1. group' = NewGroup(form, TRUE) /\ ~owed' /\ rerun' = rerun /\ owed' \in BOOLEAN
          /\ sat' = (IF sat = None THEN NewPoll(form, TRUE) ELSE Outdated(sat))
      BY <1>2, <2>3 DEF Save
    <3>2. group' \in Group /\ group'.fresh BY <2>1, <3>1, RequestTypes
    <3>3. sat' \in Poll \cup {None} /\ (sat' # None /\ sat'.current => sat'.fresh)
      BY <1>t, <2>1, <3>1, RequestTypes DEF TypeOK
    <3> QED BY <1>t, <2>2, <3>1, <3>2, <3>3
        DEF BInv, TypeOK, Somewhere, GenerationTells, OwedInHiding
  <2>4. CASE group # None
    <3>1. group' = Outdated(group) /\ sat' = Outdated(sat) /\ rerun' = TRUE /\ owed' = TRUE
      BY <1>2, <2>4 DEF Save
    <3>2. group' \in Group \cup {None} /\ ~group'.current
      BY <1>t, <2>4, <3>1, RequestTypes DEF TypeOK
    <3>3. sat' \in Poll \cup {None} /\ (sat' # None => ~sat'.current)
      BY <1>t, <3>1, RequestTypes DEF TypeOK
    <3> QED BY <1>t, <2>2, <3>1, <3>2, <3>3
        DEF BInv, TypeOK, Somewhere, GenerationTells, OwedInHiding
  <2> QED BY <2>3, <2>4
<1>3. CASE Hide
  BY <1>t, <1>3 DEF Hide, BInv, TypeOK, GenerationTells, OwedInHiding
<1>4. CASE Reveal
  <2>1. fast' \in Somewhere BY <1>t, <1>4 DEF Reveal, PollAircraft, TypeOK
  <2> QED BY <1>t, <1>4, <2>1, RefreshKeeps DEF Reveal, BInv, TypeOK, OwedInHiding
<1>5. CASE Look
  BY <1>t, <1>5 DEF Look, Layers, BInv, TypeOK, GenerationTells, OwedInHiding
<1>6. CASE MinuteTimer
  BY <1>t, <1>6, RefreshKeeps DEF MinuteTimer, BInv, TypeOK, OwedInHiding
<1>7. CASE SatelliteTimer
  <2>1. form \in Places BY <1>t, <1>7 DEF SatelliteTimer, TypeOK, Somewhere
  <2>2. sat' \in Poll /\ sat'.fresh BY <1>7, <2>1, RequestTypes DEF SatelliteTimer
  <2> QED BY <1>t, <1>7, <2>2 DEF SatelliteTimer, BInv, TypeOK, GenerationTells, OwedInHiding
<1>8. CASE AircraftTimer
  BY <1>t, <1>8 DEF AircraftTimer, PollAircraft, BInv, TypeOK, GenerationTells, OwedInHiding
<1>9. CASE Rerun
  <2>1. CASE hidden
    BY <1>t, <1>9, <2>1 DEF Rerun, BInv, TypeOK, GenerationTells, OwedInHiding
  <2>2. CASE ~hidden
    BY <1>t, <1>9, <2>2, RefreshKeeps DEF Rerun, BInv, TypeOK, OwedInHiding
  <2> QED BY <2>1, <2>2
<1>10. CASE SkyAnswers \/ SkyDropped
  <2>1. PartEnds("sky") /\ UNCHANGED radar BY <1>10 DEF SkyAnswers, SkyDropped
  <2>2. group # None /\ group \in Group BY <1>t, <2>1 DEF PartEnds, TypeOK
  <2>3. drawn' \in [Layers -> Somewhere] /\ frame' \in [place: Somewhere, due: BOOLEAN]
    <3>1. group.place \in Somewhere BY <2>2 DEF Group, Somewhere
    <3>2. drawn' = drawn \/ drawn' = [drawn EXCEPT !["sky"] = group.place]
      BY <1>10 DEF SkyAnswers, SkyDropped
    <3>3. frame' = frame \/ frame' = [place |-> group.place, due |-> FALSE]
      BY <1>10 DEF SkyAnswers, SkyDropped
    <3>4. drawn' \in [Layers -> Somewhere] BY <1>t, <3>1, <3>2 DEF TypeOK
    <3>5. frame \in [place: Somewhere, due: BOOLEAN] BY <1>t DEF TypeOK
    <3>6. [place |-> group.place, due |-> FALSE] \in [place: Somewhere, due: BOOLEAN]
      BY <3>1
    <3>7. frame' \in [place: Somewhere, due: BOOLEAN] BY <3>3, <3>5, <3>6
    <3> QED BY <3>4, <3>7
  <2> QED BY <1>t, <2>1, <2>3, PartKeeps DEF BInv, TypeOK
<1>11. CASE AircraftAnswers \/ AircraftFails
  <2>1. PartEnds("aircraft") /\ UNCHANGED frame BY <1>11 DEF AircraftAnswers, AircraftFails
  <2>2. group # None /\ group \in Group BY <1>t, <2>1 DEF PartEnds, TypeOK
  <2>3. drawn' \in [Layers -> Somewhere] /\ radar' \in Somewhere
    BY <1>t, <1>11, <2>2 DEF AircraftAnswers, AircraftFails, TypeOK, Somewhere, Group
  <2> QED BY <1>t, <2>1, <2>3, PartKeeps DEF BInv, TypeOK
<1>12. CASE FastAnswers \/ FastFails
  <2>1. drawn' \in [Layers -> Somewhere] /\ radar' \in Somewhere /\ fast' = None
    BY <1>t, <1>12 DEF FastAnswers, FastFails, FastEnds, TypeOK
  <2> QED BY <1>t, <1>12, <2>1
      DEF FastAnswers, FastFails, FastEnds, BInv, TypeOK, Somewhere, GenerationTells, OwedInHiding
<1>13. CASE SatellitesAnswer \/ SatellitesDropped
  <2>1. SatelliteEnds BY <1>13 DEF SatellitesAnswer, SatellitesDropped
  <2>2. drawn' \in [Layers -> Somewhere]
    BY <1>t, <1>13 DEF SatellitesAnswer, SatellitesDropped, SatelliteEnds, TypeOK, Somewhere, Poll
  <2> QED BY <1>t, <2>1, <2>2, SatelliteKeeps DEF BInv, TypeOK
<1>14. CASE UNCHANGED vars
  BY <1>t, <1>14 DEF vars, BInv, TypeOK, GenerationTells, OwedInHiding
<1> QED
  BY <1>1, <1>2, <1>3, <1>4, <1>5, <1>6, <1>7, <1>8, <1>9, <1>10, <1>11, <1>12, <1>13, <1>14
  DEF Next, Timer, Arrival

\* A place saved while a refresh is in flight has a rerun waiting for as long as
\* the page shows, whatever is hidden, revealed, saved again or answered meanwhile.
THEOREM SavesAreRemembered == Spec => []SaveNotForgotten
<1>1. BInv => SaveNotForgotten BY DEF BInv, OwedInHiding, SaveNotForgotten
<1> QED BY <1>1, InitB, StepB, PTL DEF Spec

\* What one step may draw.
PaintsTheNew ==
  /\ drawn'["sky"] # drawn["sky"] => group.fresh
  /\ drawn'["satellites"] # drawn["satellites"] => sat.fresh
  /\ drawn'["aircraft"] # drawn["aircraft"] =>
       drawn'["aircraft"] = form \/ (group # None /\ group.fresh)

LEMMA StepPaints == BInv /\ [Next]_vars => PaintsTheNew \/ UNCHANGED vars
<1> SUFFICES ASSUME BInv, [Next]_vars PROVE PaintsTheNew \/ UNCHANGED vars
  OBVIOUS
<1>t. drawn \in [Layers -> Somewhere] /\ GenerationTells BY DEF BInv, TypeOK
<1>1. CASE SkyAnswers
  <2>1. group # None /\ group.current /\ drawn' = [drawn EXCEPT !["sky"] = group.place]
    BY <1>1 DEF SkyAnswers, PartEnds
  <2> QED BY <1>t, <2>1 DEF GenerationTells, PaintsTheNew, Layers
<1>2. CASE AircraftAnswers
  <2>1. group # None
        /\ drawn' = IF group.current THEN [drawn EXCEPT !["aircraft"] = group.place] ELSE drawn
    BY <1>2 DEF AircraftAnswers, PartEnds
  <2> QED BY <1>t, <2>1 DEF GenerationTells, PaintsTheNew, Layers
<1>3. CASE FastAnswers
  BY <1>t, <1>3 DEF FastAnswers, PaintsTheNew, Layers
<1>4. CASE SatellitesAnswer
  <2>1. sat # None /\ sat.current /\ drawn' = [drawn EXCEPT !["satellites"] = sat.place]
    BY <1>4 DEF SatellitesAnswer, SatelliteEnds
  <2> QED BY <1>t, <2>1 DEF GenerationTells, PaintsTheNew, Layers
<1>5. CASE UNCHANGED drawn BY <1>5 DEF PaintsTheNew
<1> QED
  BY <1>1, <1>2, <1>3, <1>4, <1>5
  DEF Next, Timer, Arrival, Edit, Save, Hide, Reveal, Look, MinuteTimer, SatelliteTimer,
      AircraftTimer, Rerun, SkyDropped, AircraftFails, FastFails, SatellitesDropped

\* No step draws the answer of a request that a save or a refresh has outdated,
\* except for an aircraft answer for the place in the form.
THEOREM OldAnswersAreNotDrawn == Spec => NoOldPaint
<1>1. BInv /\ [Next]_vars =>
        [/\ drawn'["sky"] # drawn["sky"] => group.fresh
         /\ drawn'["satellites"] # drawn["satellites"] => sat.fresh
         /\ drawn'["aircraft"] # drawn["aircraft"] =>
              drawn'["aircraft"] = form \/ (group # None /\ group.fresh)]_vars
  BY StepPaints DEF PaintsTheNew
<1> QED BY <1>1, InitB, StepB, PTL DEF Spec, NoOldPaint

==============================================================================
