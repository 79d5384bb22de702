--------------------------- MODULE DesktopProofs ---------------------------
(***************************************************************************)
(* Proofs about the panels of MCDesktop for every set of names, places,    *)
(* satellites and aircraft, any number of profiles and any interleaving of *)
(* the user, the timers and the workers.                                   *)
(***************************************************************************)
EXTENDS MCDesktop, SequenceTheorems, WellFoundedInduction, TLAPS

(***************************************************************************)
(* The places.                                                             *)
(***************************************************************************)
LEMMA NoPlaceIsNone ==
  NoName \notin Names /\ NoPlace \notin Profile /\ NoPlace.name = NoName
BY PlacesAssumption DEF NoPlace, Profile

LEMMA Least ==
  ASSUME NEW S, S \subseteq Nat, S # {}
  PROVE  FirstOf(S) \in S
<1>0. IsWellFoundedOn(OpToRel(<, Nat), Nat) BY NatLessThanWellFounded
<1> DEFINE R == OpToRel(<, Nat)
<1>1. IsWellFoundedOn(R, Nat) BY <1>0
<1>2. \A x, y \in Nat : x < y => <<x, y>> \in R BY DEF OpToRel
<1> HIDE DEF R
<1>3. PICK m \in S : \A y \in S : ~ (<<y, m>> \in R) BY <1>1, WFMin
<1>4. m \in Nat /\ \A y \in S : y \in Nat /\ ~(y < m) BY <1>2, <1>3
<1>5. \A y \in S : m <= y BY <1>4
<1> QED BY <1>3, <1>5 DEF FirstOf

\* A name that is in the list has a place, and only such a name.
LEMMA FoundPlace ==
  ASSUME NEW ps \in Seq(Profile), NEW n
  PROVE  /\ Positions(ps, n) # {} =>
              /\ FirstOf(Positions(ps, n)) \in DOMAIN ps
              /\ Find(ps, n) \in Profile /\ Find(ps, n) # NoPlace /\ n \in Names
         /\ Positions(ps, n) = {} => Find(ps, n) = NoPlace
<1>1. DOMAIN ps \subseteq Nat /\ \A x \in DOMAIN ps : ps[x] \in Profile
  BY ElementOfSeq, LenProperties
<1>2. CASE Positions(ps, n) # {}
  <2>1. FirstOf(Positions(ps, n)) \in Positions(ps, n)
    BY <1>1, <1>2, Least DEF Positions
  <2>2. PICK x \in DOMAIN ps : x = FirstOf(Positions(ps, n)) /\ ps[x].name = n
    BY <2>1 DEF Positions
  <2>3. Find(ps, n) = ps[x] BY <1>2, <2>2 DEF Find
  <2>4. ps[x] \in Profile BY <1>1
  <2>5. ps[x].name \in Names BY <2>4 DEF Profile
  <2> QED BY <1>2, <2>2, <2>3, <2>4, <2>5, NoPlaceIsNone
<1>3. CASE Positions(ps, n) = {} BY <1>3 DEF Find
<1> QED BY <1>2, <1>3

LEMMA HereIsNamed ==
  ASSUME NEW ps \in Seq(Profile), NEW n, Find(ps, n) # NoPlace
  PROVE  n # NoName
BY FoundPlace, NoPlaceIsNone

LEMMA SavedIsList ==
  ASSUME NEW ps \in Seq(Profile), NEW row \in 0 .. Len(ps), NEW p \in Profile
  PROVE  /\ SavedList(ps, row, p) \in Seq(Profile)
         /\ Positions(SavedList(ps, row, p), p.name) # {}
<1>1. DOMAIN ps = 1 .. Len(ps) /\ Len(ps) \in Nat BY LenProperties
<1>2. \A x \in DOMAIN ps :
        /\ [ps EXCEPT ![x] = p] \in Seq(Profile)
        /\ Positions([ps EXCEPT ![x] = p], p.name) # {}
  <2> SUFFICES ASSUME NEW x \in DOMAIN ps
               PROVE  /\ [ps EXCEPT ![x] = p] \in Seq(Profile)
                      /\ Positions([ps EXCEPT ![x] = p], p.name) # {}
    OBVIOUS
  <2>1. [ps EXCEPT ![x] = p] \in Seq(Profile) BY <1>1, ExceptSeq
  <2>2. x \in DOMAIN [ps EXCEPT ![x] = p] /\ [ps EXCEPT ![x] = p][x] = p OBVIOUS
  <2> QED BY <2>1, <2>2 DEF Positions
<1>3. CASE row # 0
  <2>1. row \in DOMAIN ps BY <1>1, <1>3
  <2>2. SavedList(ps, row, p) = [ps EXCEPT ![row] = p] BY <1>3 DEF SavedList
  <2> QED BY <1>2, <2>1, <2>2
<1>4. CASE row = 0 /\ Positions(ps, p.name) # {}
  BY <1>2, <1>4, FoundPlace DEF SavedList
<1>5. CASE row = 0 /\ Positions(ps, p.name) = {}
  <2>1. SavedList(ps, row, p) = Append(ps, p) BY <1>5 DEF SavedList
  <2>2. /\ Append(ps, p) \in Seq(Profile) /\ Len(ps) + 1 \in DOMAIN Append(ps, p)
        /\ Append(ps, p)[Len(ps) + 1] = p
    BY <1>1, AppendProperties, LenProperties
  <2> HIDE <1>5
  <2>3. Positions(Append(ps, p), p.name) # {} BY <2>2 DEF Positions
  <2> QED BY <2>1, <2>2, <2>3
<1> QED BY <1>3, <1>4, <1>5

LEMMA RemovedIsList ==
  ASSUME NEW ps \in Seq(Profile), NEW row \in 0 .. Len(ps), row # 0
  PROVE  RemovedList(ps, row) \in Seq(Profile)
<1>1. DOMAIN ps = 1 .. Len(ps) /\ Len(ps) \in Nat /\ \A x \in 1 .. Len(ps) : ps[x] \in Profile
  BY LenProperties, ElementOfSeq
<1>2. Len(ps) - 1 \in Nat BY <1>1
<1>3. RemovedList(ps, row) \in [1 .. Len(ps) - 1 -> Profile] BY <1>1 DEF RemovedList
<1> QED BY <1>2, <1>3, SeqDef

LEMMA ReselectedIsThere ==
  ASSUME NEW ps \in Seq(Profile), NEW n, Reselect(ps, n) # NoName
  PROVE  Positions(ps, Reselect(ps, n)) # {}
<1>1. CASE Positions(ps, n) # {} BY <1>1 DEF Reselect
<1>2. CASE Positions(ps, n) = {}
  <2>1. ps # <<>> /\ Reselect(ps, n) = ps[1].name BY <1>2 DEF Reselect
  <2>2. 1 \in DOMAIN ps BY <2>1, EmptySeq, LenProperties
  <2> QED BY <2>1, <2>2 DEF Positions
<1> QED BY <1>1, <1>2

\* A name that is in the list still is after a row was saved, unless that row had it.
LEMMA SavedKeepsName ==
  ASSUME NEW ps \in Seq(Profile), NEW row \in 0 .. Len(ps), NEW p \in Profile, NEW n,
         Positions(ps, n) # {}, row = 0 \/ n # ps[row].name
  PROVE  Positions(SavedList(ps, row, p), n) # {}
<1>1. DOMAIN ps = 1 .. Len(ps) /\ Len(ps) \in Nat BY LenProperties
<1>2. PICK x \in DOMAIN ps : ps[x].name = n BY DEF Positions
<1>3. CASE row # 0
  <2>1. x # row /\ SavedList(ps, row, p) = [ps EXCEPT ![row] = p] BY <1>2, <1>3 DEF SavedList
  <2>2. x \in DOMAIN [ps EXCEPT ![row] = p] /\ [ps EXCEPT ![row] = p][x] = ps[x] BY <2>1
  <2> QED BY <1>2, <2>1, <2>2 DEF Positions
<1>4. CASE row = 0 /\ Positions(ps, p.name) # {}
  <2> DEFINE y == FirstOf(Positions(ps, p.name))
             qs == [ps EXCEPT ![y] = p]
  <2>1. y \in DOMAIN ps BY <1>4, FoundPlace
  <2>20. Positions(ps, p.name) \subseteq Nat BY <1>1 DEF Positions
  <2>2. y \in Positions(ps, p.name) BY <1>4, <2>20, Least
  <2>3. SavedList(ps, row, p) = qs BY <1>4 DEF SavedList
  <2>4. ps[y].name = p.name BY <2>2 DEF Positions
  <2> HIDE DEF y
  <2>5. x \in DOMAIN qs /\ (qs[x] = ps[x] \/ (x = y /\ qs[x] = p)) BY <2>1
  <2>6. qs[x].name = n BY <1>2, <2>4, <2>5
  <2> HIDE DEF qs
  <2> QED BY <2>3, <2>5, <2>6 DEF Positions
<1>5. CASE row = 0 /\ Positions(ps, p.name) = {}
  <2>1. SavedList(ps, row, p) = Append(ps, p) BY <1>5 DEF SavedList
  <2>2. x \in DOMAIN Append(ps, p) /\ Append(ps, p)[x] = ps[x]
    BY <1>1, <1>2, AppendProperties, LenProperties
  <2> HIDE <1>5
  <2>3. Positions(Append(ps, p), n) # {} BY <1>2, <2>2 DEF Positions
  <2> QED BY <2>1, <2>3
<1> QED BY <1>3, <1>4, <1>5

LEMMA SavedNameIsThere ==
  ASSUME NEW ps \in Seq(Profile), NEW row \in 0 .. Len(ps), NEW p \in Profile, NEW n,
         n # NoName => Positions(ps, n) # {}
  PROVE  Positions(SavedList(ps, row, p), SavedName(ps, n, row, p)) # {}
<1>1. CASE n = NoName \/ (row # 0 /\ n = ps[row].name)
  <2>1. SavedName(ps, n, row, p) = p.name BY <1>1 DEF SavedName
  <2> QED BY <2>1, SavedIsList
<1>2. CASE ~(n = NoName \/ (row # 0 /\ n = ps[row].name))
  <2>1. SavedName(ps, n, row, p) = n BY <1>2 DEF SavedName
  <2> QED BY <1>2, <2>1, SavedKeepsName
<1> QED BY <1>1, <1>2

LEMMA RemovedNameIsThere ==
  ASSUME NEW ps \in Seq(Profile), NEW row \in 0 .. Len(ps), row # 0, NEW n,
         n # NoName => Positions(ps, n) # {}, RemovedName(ps, n, row) # NoName
  PROVE  Positions(RemovedList(ps, row), RemovedName(ps, n, row)) # {}
<1> DEFINE rest == RemovedList(ps, row)
<1>1. DOMAIN ps = 1 .. Len(ps) /\ Len(ps) \in Nat BY LenProperties
<1>2. rest \in Seq(Profile) BY RemovedIsList
<1>3. DOMAIN rest = 1 .. Len(ps) - 1
      /\ \A x \in DOMAIN rest : rest[x] = IF x < row THEN ps[x] ELSE ps[x + 1]
  BY DEF RemovedList
<1>4. CASE n = ps[row].name
  <2>1. rest # <<>> /\ RemovedName(ps, n, row) = rest[1].name BY <1>4 DEF RemovedName
  <2> HIDE DEF rest
  <2>2. 1 \in DOMAIN rest BY <1>2, <2>1, EmptySeq, LenProperties
  <2> QED BY <2>1, <2>2 DEF Positions, rest
<1>5. CASE n # ps[row].name
  <2>1. RemovedName(ps, n, row) = n BY <1>5 DEF RemovedName
  <2>2. PICK x \in DOMAIN ps : ps[x].name = n BY <2>1 DEF Positions
  <2>3. x # row BY <1>5, <2>2
  <2> HIDE DEF rest
  <2>4. CASE x < row
    <3>1. x \in DOMAIN rest /\ rest[x] = ps[x] BY <1>1, <1>3, <2>4
    <3> QED BY <2>1, <2>2, <3>1 DEF Positions, rest
  <2>5. CASE x > row
    <3>1. x - 1 \in DOMAIN rest /\ rest[x - 1] = ps[x] BY <1>1, <1>3, <2>5
    <3> QED BY <2>1, <2>2, <3>1 DEF Positions, rest
  <2> QED BY <1>1, <2>3, <2>4, <2>5
<1> QED BY <1>4, <1>5

\* What the user may do to the places, stored or not.
PlaceEvent ==
  \E ok \in BOOLEAN :
    \/ \E n \in Names : Choose(n, ok)
    \/ \E row \in Rows, p \in Profile : Save(row, p, ok) \/ Use(row, p, ok)
    \/ \E row \in Rows : Delete(row, ok)

LEMMA PlacesKept ==
  ASSUME PlacesInv, PlaceEvent
  PROVE  PlacesInv'
<1>1. profiles \in Seq(Profile) /\ (selected # NoName => Positions(profiles, selected) # {})
  BY DEF PlacesInv
<1>2. PICK ok \in BOOLEAN :
        \/ \E n \in Names : Choose(n, ok)
        \/ \E row \in Rows, p \in Profile : Save(row, p, ok) \/ Use(row, p, ok)
        \/ \E row \in Rows : Delete(row, ok)
  BY DEF PlaceEvent
<1>3. Stored(ok) BY <1>2 DEF Choose, Save, Use, Delete
<1>4. saved' \in {"always", "again", "not"} BY <1>3 DEF Stored
<1>5. SUFFICES profiles' \in Seq(Profile) /\ (selected' # NoName => Positions(profiles', selected') # {})
  BY <1>4 DEF PlacesInv, Positions
<1>6. CASE \E n \in Names : Choose(n, ok)
  BY <1>1, <1>6 DEF Choose
<1>7. CASE \E row \in Rows, p \in Profile : Save(row, p, ok) \/ Use(row, p, ok)
  <2>1. PICK row \in Rows, p \in Profile : Save(row, p, ok) \/ Use(row, p, ok) BY <1>7
  <2>2. /\ SavedList(profiles, row, p) \in Seq(Profile)
        /\ Positions(SavedList(profiles, row, p), p.name) # {}
        /\ Positions(SavedList(profiles, row, p), SavedName(profiles, selected, row, p)) # {}
    BY <1>1, SavedIsList, SavedNameIsThere DEF Rows
  <2>3. profiles' = SavedList(profiles, row, p) BY <2>1 DEF Save, Use
  <2>4. \/ selected' = p.name
        \/ selected' = SavedName(profiles, selected, row, p)
        \/ selected' = Reselect(profiles', SavedName(profiles, selected, row, p))
    BY <2>1 DEF Save, Use
  <2>5. profiles' \in Seq(Profile) BY <2>2, <2>3
  <2>6. selected' # NoName => Positions(profiles', selected') # {}
    BY <2>2, <2>3, <2>4, <2>5, ReselectedIsThere
  <2> QED BY <2>5, <2>6
<1>8. CASE \E row \in Rows : Delete(row, ok)
  <2>1. PICK row \in Rows : Delete(row, ok) BY <1>8
  <2> DEFINE n == RemovedName(profiles, selected, row)
  <2>2. /\ profiles' = RemovedList(profiles, row) /\ row # 0
        /\ selected' = n \/ selected' = Reselect(profiles', n)
    BY <2>1 DEF Delete
  <2>3. profiles' \in Seq(Profile) BY <1>1, <2>2, RemovedIsList DEF Rows
  <2>4. n # NoName => Positions(profiles', n) # {}
    BY <1>1, <2>2, RemovedNameIsThere DEF Rows
  <2> HIDE DEF n
  <2>5. selected' # NoName => Positions(profiles', selected') # {}
    BY <2>2, <2>3, <2>4, ReselectedIsThere
  <2> QED BY <2>3, <2>5
<1> QED BY <1>2, <1>6, <1>7, <1>8

(***************************************************************************)
(* The layers of a place: PlaceLayers.                                     *)
(***************************************************************************)
LEMMA LayersPlaces ==
  /\ \A ps, n : Layers!Find(ps, n) = Find(ps, n)
  /\ Layers!NoPlace = NoPlace /\ Layers!NoName = NoName
  /\ Layers!Here = Find(profiles, selected) /\ Layers!Here' = Find(profiles', selected')
  /\ Layers!PlacesInv = PlacesInv /\ Layers!PlacesInv' = PlacesInv'
  /\ (Layers!Told <=> Told) /\ (Layers!Told' <=> Told')
<1>1. /\ \A ps, n : Layers!Find(ps, n) = Find(ps, n)
      /\ Layers!NoPlace = NoPlace /\ Layers!NoName = NoName
  BY DEF Layers!Find, Layers!Positions, Layers!FirstOf, Layers!NoPlace, Layers!NoName,
         Find, Positions, FirstOf, NoPlace, NoName
<1>2. Layers!Here = Find(profiles, selected) /\ Layers!Here' = Find(profiles', selected')
  BY <1>1 DEF Layers!Here
<1>3. Layers!PlacesInv = PlacesInv /\ Layers!PlacesInv' = PlacesInv'
  BY DEF Layers!PlacesInv, Layers!Profile, Layers!Positions, Layers!NoName,
         PlacesInv, Profile, Positions, NoName
<1>4. (Layers!Told <=> Told) /\ (Layers!Told' <=> Told') BY DEF Layers!Told, Told
<1> QED BY <1>1, <1>2, <1>3, <1>4

\* What holds of the terrain wherever the user goes, and what a place h of the
\* name n asks of it.
TerrainTyped(t) ==
  /\ DOMAIN t = {"busy", "pending", "flight", "done", "horizon"} /\ t.busy \in BOOLEAN
  /\ \A p, q \in t.flight : p = q
  /\ t.horizon \in {NoPlace, t.done}
TerrainServes(t, h, n) ==
  /\ t.done \in {NoPlace, h}
  /\ h # NoPlace /\ t.done # h => t.busy /\ (h \in t.flight \/ t.pending = n)

LEMMA TerrainEnsured ==
  ASSUME NEW t, TerrainTyped(t), NEW ps, NEW n, NEW force \in BOOLEAN
  PROVE  LET r == Layers!EnsureTerrain(t, ps, n, force)
         IN  /\ TerrainTyped(r) /\ r.done = t.done /\ r.horizon = t.horizon
             /\ Find(ps, n) # NoPlace =>
                  \/ ~force /\ r.done = Find(ps, n)
                  \/ r.busy /\ (Find(ps, n) \in r.flight \/ r.pending = n)
<1> DEFINE r == Layers!EnsureTerrain(t, ps, n, force)
           h == Find(ps, n)
<1>0. Layers!Find(ps, n) = h /\ Layers!NoPlace = NoPlace /\ Layers!NoName = NoName
  BY LayersPlaces
<1>1. CASE h = NoPlace \/ (~force /\ t.done = h)
  <2>1. r = t BY <1>0, <1>1 DEF Layers!EnsureTerrain
  <2> QED BY <1>1, <2>1
<1>2. CASE ~(h = NoPlace \/ (~force /\ t.done = h)) /\ t.busy
  <2>1. r = [t EXCEPT !.pending = n] BY <1>0, <1>2 DEF Layers!EnsureTerrain
  <2>2. /\ DOMAIN r = DOMAIN t /\ r.busy = t.busy /\ r.pending = n /\ r.flight = t.flight
        /\ r.done = t.done /\ r.horizon = t.horizon
    BY <2>1 DEF TerrainTyped
  <2> HIDE DEF r
  <2> QED BY <1>2, <2>2 DEF TerrainTyped, r
<1>3. CASE ~(h = NoPlace \/ (~force /\ t.done = h)) /\ ~t.busy
  <2>1. r = [t EXCEPT !.busy = TRUE, !.pending = NoName, !.flight = {h}]
    BY <1>0, <1>3 DEF Layers!EnsureTerrain
  <2>2. /\ DOMAIN r = DOMAIN t /\ r.busy = TRUE /\ r.flight = {h}
        /\ r.done = t.done /\ r.horizon = t.horizon
    BY <2>1 DEF TerrainTyped
  <2> HIDE DEF r
  <2> QED BY <1>3, <2>2 DEF TerrainTyped, r
<1> QED BY <1>1, <1>2, <1>3

\* A change of place: whatever the terrain was doing, it comes to serve the new one.
LEMMA TerrainFollows ==
  ASSUME NEW t, TerrainTyped(t), NEW ps, NEW n
  PROVE  LET r == Layers!TerrainMoved(t, ps, n)
         IN  TerrainTyped(r) /\ TerrainServes(r, Find(ps, n), n)
<1> DEFINE s == Layers!DropTerrain(t, ps, n)
           r == Layers!EnsureTerrain(s, ps, n, FALSE)
           h == Find(ps, n)
<1>0. Layers!Find(ps, n) = h /\ Layers!NoPlace = NoPlace BY LayersPlaces
<1>1. /\ DOMAIN s = DOMAIN t /\ s.busy = t.busy /\ s.flight = t.flight
      /\ (s.done = t.done /\ s.horizon = t.horizon /\ t.done = h)
           \/ (s.done = NoPlace /\ s.horizon = NoPlace)
  BY <1>0 DEF Layers!DropTerrain, TerrainTyped
<1> HIDE DEF s, r
<1>2. TerrainTyped(s) /\ s.done \in {NoPlace, h}
  BY <1>1 DEF TerrainTyped
<1>3. /\ TerrainTyped(r) /\ r.done = s.done
      /\ h # NoPlace => (r.done = h \/ (r.busy /\ (h \in r.flight \/ r.pending = n)))
  BY <1>2, TerrainEnsured DEF r
<1>4. Layers!TerrainMoved(t, ps, n) = r BY DEF Layers!TerrainMoved, s, r
<1> HIDE DEF h
<1> QED BY <1>2, <1>3, <1>4 DEF TerrainServes, h

\* What the end of a thread leaves of the terrain, before the next one starts.
TerrainLanded(k, t, p, h) ==
  /\ DOMAIN k = DOMAIN t /\ k.pending = t.pending /\ k.flight = {} /\ k.busy = FALSE
  /\ p = h => k.done = h /\ k.horizon \in {NoPlace, h}
  /\ p # h => k.done = t.done /\ k.horizon = t.horizon

\* A thread ends: what was asked for meanwhile is started.
LEMMA TerrainGoesOn ==
  ASSUME NEW ps \in Seq(Profile), NEW n, NEW t, TerrainTyped(t),
         NEW p \in t.flight, NEW k, TerrainLanded(k, t, p, Find(ps, n))
  PROVE  LET r == Layers!PendingTerrain(k, ps, n)
         IN  /\ TerrainTyped(r)
             /\ TerrainServes(t, Find(ps, n), n) => TerrainServes(r, Find(ps, n), n)
<1> DEFINE h == Find(ps, n)
           m == [k EXCEPT !.pending = NoName]
           r == Layers!PendingTerrain(k, ps, n)
<1>1. /\ DOMAIN k = DOMAIN t /\ k.pending = t.pending /\ k.flight = {} /\ k.busy = FALSE
      /\ p = h => k.done = h /\ k.horizon \in {NoPlace, h}
      /\ p # h => k.done = t.done /\ k.horizon = t.horizon
  BY DEF TerrainLanded
<1>2. /\ DOMAIN m = DOMAIN t /\ m.pending = NoName /\ m.flight = {} /\ m.busy = FALSE
      /\ m.done = k.done /\ m.horizon = k.horizon
  BY <1>1 DEF TerrainTyped
<1>3. r = IF k.pending # NoName /\ k.pending = n THEN Layers!EnsureTerrain(m, ps, n, TRUE) ELSE m
  BY LayersPlaces DEF Layers!PendingTerrain
<1>4. h # NoPlace => n # NoName BY HereIsNamed
<1> HIDE DEF h, m, r
<1>5. TerrainTyped(m)
  <2>1. p = h => TerrainTyped(m) BY <1>1, <1>2 DEF TerrainTyped
  <2>2. p # h => TerrainTyped(m) BY <1>1, <1>2 DEF TerrainTyped
  <2> QED BY <2>1, <2>2
<1>6. CASE k.pending # NoName /\ k.pending = n
  <2>1. r = Layers!EnsureTerrain(m, ps, n, TRUE) BY <1>3, <1>6
  <2>2. /\ TerrainTyped(r) /\ r.done = m.done
        /\ h # NoPlace => r.busy /\ (h \in r.flight \/ r.pending = n)
    BY <1>5, <2>1, TerrainEnsured DEF h
  <2>3. TerrainServes(t, h, n) => m.done \in {NoPlace, h}
    BY <1>1, <1>2 DEF TerrainServes
  <2> QED BY <2>2, <2>3 DEF TerrainServes, r, h
<1>7. CASE ~(k.pending # NoName /\ k.pending = n)
  <2>1. r = m BY <1>3, <1>7
  <2>2. t.flight = {p} BY DEF TerrainTyped
  <2>3. TerrainServes(t, h, n) /\ h # NoPlace => m.done = h
    BY <1>1, <1>2, <1>4, <1>7, <2>2 DEF TerrainServes
  <2>4. TerrainServes(t, h, n) => m.done \in {NoPlace, h}
    BY <1>1, <1>2 DEF TerrainServes
  <2> QED BY <1>5, <2>1, <2>3, <2>4 DEF TerrainServes, r, h
<1> QED BY <1>6, <1>7

\* The invariant, in terms of the above.
LEMMA LayersParts ==
  /\ Layers!LayersInv <=>
       /\ PlacesInv /\ TerrainTyped(b)
       /\ Told => TerrainServes(b, Find(profiles, selected), selected)
       /\ DOMAIN a = {"busy", "pending", "flight", "shown", "fresh"}
       /\ Told => a.shown \in {NoPlace, Find(profiles, selected)}
  /\ Layers!LayersInv' <=>
       /\ PlacesInv' /\ TerrainTyped(b')
       /\ Told' => TerrainServes(b', Find(profiles', selected'), selected')
       /\ DOMAIN a' = {"busy", "pending", "flight", "shown", "fresh"}
       /\ Told' => a'.shown \in {NoPlace, Find(profiles', selected')}
<1> USE LayersPlaces DEF Layers!LayersInv, Layers!LayersOfPlace, Layers!TerrainUnderWay,
        TerrainTyped, TerrainServes
<1>1. Layers!LayersInv <=>
        /\ PlacesInv /\ TerrainTyped(b)
        /\ Told => TerrainServes(b, Find(profiles, selected), selected)
        /\ DOMAIN a = {"busy", "pending", "flight", "shown", "fresh"}
        /\ Told => a.shown \in {NoPlace, Find(profiles, selected)}
  OBVIOUS
<1>2. Layers!LayersInv' <=>
        /\ PlacesInv' /\ TerrainTyped(b')
        /\ Told' => TerrainServes(b', Find(profiles', selected'), selected')
        /\ DOMAIN a' = {"busy", "pending", "flight", "shown", "fresh"}
        /\ Told' => a'.shown \in {NoPlace, Find(profiles', selected')}
  OBVIOUS
<1> QED BY <1>1, <1>2

StarsTyped(s) == DOMAIN s = {"busy", "pending", "flight", "shown", "fresh"}

LEMMA StarsKept ==
  ASSUME NEW s, StarsTyped(s), NEW ps, NEW n, NEW force \in BOOLEAN
  PROVE  /\ StarsTyped(Layers!EnsureStars(s, ps, n, force))
         /\ Layers!EnsureStars(s, ps, n, force).shown = s.shown
         /\ StarsTyped(Layers!PendingStars(s, ps, n))
         /\ Layers!PendingStars(s, ps, n).shown = s.shown
         /\ StarsTyped(Layers!DropStars(s, ps, n))
         /\ Layers!DropStars(s, ps, n).shown \in {NoPlace, Find(ps, n)}
<1>1. \A t, q : StarsTyped(t) =>
        /\ StarsTyped(Layers!EnsureStars(t, ps, n, q))
        /\ Layers!EnsureStars(t, ps, n, q).shown = t.shown
  <2> TAKE t, q
  <2> HAVE StarsTyped(t)
  <2>1. Layers!EnsureStars(t, ps, n, q) \in
          {t, [t EXCEPT !.pending = n],
           [t EXCEPT !.busy = TRUE, !.pending = Layers!NoName, !.flight = {Layers!Find(ps, n)}]}
    BY DEF Layers!EnsureStars
  <2> QED BY <2>1 DEF StarsTyped
<1>2. /\ StarsTyped(Layers!PendingStars(s, ps, n))
      /\ Layers!PendingStars(s, ps, n).shown = s.shown
  <2> DEFINE idle == [s EXCEPT !.pending = Layers!NoName]
  <2>1. StarsTyped(idle) /\ idle.shown = s.shown BY DEF StarsTyped
  <2>2. Layers!PendingStars(s, ps, n) \in {idle, Layers!EnsureStars(idle, ps, n, TRUE)}
    BY DEF Layers!PendingStars
  <2> HIDE DEF idle
  <2> QED BY <1>1, <2>1, <2>2
<1>3. /\ StarsTyped(Layers!DropStars(s, ps, n))
      /\ Layers!DropStars(s, ps, n).shown \in {NoPlace, Find(ps, n)}
  BY LayersPlaces DEF Layers!DropStars, StarsTyped
<1> QED BY <1>1, <1>2, <1>3

\* A change of place.
LEMMA LayersMoved ==
  ASSUME Layers!LayersInv, PlacesInv', NEW s, StarsTyped(s), NEW t, TerrainTyped(t),
         a' = Layers!DropStars(s, profiles', selected'),
         b' = Layers!TerrainMoved(t, profiles', selected')
  PROVE  Layers!LayersInv'
<1>1. TerrainTyped(b') /\ TerrainServes(b', Find(profiles', selected'), selected')
  BY TerrainFollows
<1>2. StarsTyped(a') /\ a'.shown \in {NoPlace, Find(profiles', selected')} BY StarsKept
<1> QED BY <1>1, <1>2, LayersParts DEF StarsTyped

\* A change the layers hear nothing of, or not all.
LEMMA LayersUntold ==
  ASSUME PlacesInv', saved' = "not", StarsTyped(a'), TerrainTyped(b')
  PROVE  Layers!LayersInv'
<1>1. ~Told' BY DEF Told
<1> QED BY <1>1, LayersParts DEF StarsTyped

\* A step that leaves the places alone.
LEMMA LayersStay ==
  ASSUME Layers!LayersInv, UNCHANGED <<profiles, selected, saved>>,
         StarsTyped(a'), a'.shown \in {a.shown, Find(profiles, selected)},
         TerrainTyped(b'),
         TerrainServes(b, Find(profiles, selected), selected) =>
           TerrainServes(b', Find(profiles, selected), selected)
  PROVE  Layers!LayersInv'
<1>1. PlacesInv' BY LayersParts DEF PlacesInv, Positions
<1>2. /\ Find(profiles', selected') = Find(profiles, selected) /\ selected' = selected
      /\ Told' <=> Told
  BY DEF Told
<1> QED BY <1>1, <1>2, LayersParts DEF StarsTyped

LEMMA LayersEvents ==
  /\ \A n, ok : Layers!Choose(n, ok) <=> Choose(n, ok)
  /\ \A row, p, ok : Layers!Save(row, p, ok) <=> Save(row, p, ok)
  /\ \A row, p, ok : Layers!Use(row, p, ok) <=> Use(row, p, ok)
  /\ \A row, ok : Layers!Delete(row, ok) <=> Delete(row, ok)
  /\ Layers!Rows = Rows /\ Layers!Profile = Profile
BY DEF Layers!Choose, Layers!Save, Layers!Use, Layers!Delete, Layers!Rows, Layers!Profile,
       Layers!MaySave, Layers!SavedList, Layers!SavedName, Layers!RemovedList,
       Layers!RemovedName, Layers!Reselect, Layers!Positions, Layers!FirstOf, Layers!NoName,
       Layers!Stored,
       Choose, Save, Use, Delete, Rows, Profile, MaySave, SavedList, SavedName, RemovedList,
       RemovedName, Reselect, Positions, FirstOf, NoName, Stored

LEMMA LayersChanged ==
  ASSUME Layers!LayersInv, NEW ok \in BOOLEAN, Layers!Event(ok)
  PROVE  PlacesInv' /\ (~ok => saved' = "not")
<1>1. \/ \E n \in Names : Choose(n, ok)
      \/ \E row \in Rows, p \in Profile : Save(row, p, ok)
      \/ \E row \in Rows : Delete(row, ok)
  BY LayersEvents DEF Layers!Event
<1>2. PlaceEvent BY <1>1 DEF PlaceEvent
<1>3. Stored(ok) BY <1>1 DEF Choose, Save, Delete
<1> QED BY <1>2, <1>3, LayersParts, PlacesKept DEF Stored

LEMMA LayersStep ==
  ASSUME Layers!LayersInv, Layers!Next
  PROVE  Layers!LayersInv'
<1> USE DEF StarsTyped
<1>0. /\ PlacesInv /\ TerrainTyped(b) /\ StarsTyped(a) /\ profiles \in Seq(Profile)
  BY LayersParts DEF PlacesInv
<1> DEFINE h == Find(profiles, selected)
<1>1. CASE Layers!ChangeHere
  <2>1. PlacesInv' BY <1>1, LayersChanged DEF Layers!ChangeHere
  <2>2. Layers!Moved BY <1>1 DEF Layers!ChangeHere
  <2> QED BY <1>0, <2>1, <2>2, LayersMoved DEF Layers!Moved
<1>2. CASE Layers!ChangeUntold
  <2>1. PlacesInv' /\ saved' = "not"
    BY <1>2, LayersChanged DEF Layers!ChangeUntold, Layers!ChangedUntold
  <2>2. UNCHANGED <<a, b>> BY <1>2 DEF Layers!ChangeUntold
  <2> QED BY <1>0, <2>1, <2>2, LayersUntold
<1>20. ASSUME NEW ok \in BOOLEAN, Layers!UseHere(ok)
       PROVE  Layers!LayersInv'
  <2>0. PICK row \in Rows, p \in Profile :
          /\ Use(row, p, ok)
          /\ \E between :
               LET s == Layers!DropStars(a, profiles', between)
                   t == Layers!TerrainMoved(b, profiles', between)
               IN  /\ a' = IF ok THEN Layers!DropStars(s, profiles', selected') ELSE s
                   /\ b' = IF ok THEN Layers!TerrainMoved(t, profiles', selected') ELSE t
    BY <1>20, LayersEvents DEF Layers!UseHere
  <2>1. PICK between :
          LET s == Layers!DropStars(a, profiles', between)
              t == Layers!TerrainMoved(b, profiles', between)
          IN  /\ a' = IF ok THEN Layers!DropStars(s, profiles', selected') ELSE s
              /\ b' = IF ok THEN Layers!TerrainMoved(t, profiles', selected') ELSE t
    BY <2>0
  <2>2. PlacesInv' BY <1>0, <2>0, PlacesKept DEF PlaceEvent
  <2> DEFINE s == Layers!DropStars(a, profiles', between)
             t == Layers!TerrainMoved(b, profiles', between)
  <2>3. StarsTyped(s) /\ TerrainTyped(t)
    BY <1>0, StarsKept, TerrainFollows
  <2>4. CASE ok
    <3>1. /\ a' = Layers!DropStars(s, profiles', selected')
          /\ b' = Layers!TerrainMoved(t, profiles', selected')
      BY <2>1, <2>4
    <3> HIDE DEF s, t
    <3> QED BY <1>0, <2>2, <2>3, <3>1, LayersMoved
  <2>5. CASE ~ok
    <3>1. a' = s /\ b' = t BY <2>1, <2>5
    <3>2. saved' = "not" BY <2>0, <2>5 DEF Use, Stored
    <3> HIDE DEF s, t
    <3> QED BY <2>2, <2>3, <3>1, <3>2, LayersUntold
  <2> QED BY <2>4, <2>5
<1>3. CASE Layers!ToggleStars \/ Layers!SkyApplied
  <2>1. /\ UNCHANGED <<profiles, selected, saved>>
        /\ a' = Layers!EnsureStars(a, profiles, selected, FALSE)
        /\ b' \in {b, Layers!EnsureTerrain(b, profiles, selected, FALSE)}
    BY <1>3 DEF Layers!ToggleStars, Layers!SkyApplied, Layers!places
  <2>2. StarsTyped(a') /\ a'.shown = a.shown BY <1>0, <2>1, StarsKept
  <2> DEFINE r == Layers!EnsureTerrain(b, profiles, selected, FALSE)
  <2>3. /\ TerrainTyped(r) /\ r.done = b.done /\ r.horizon = b.horizon
        /\ h # NoPlace =>
             (r.done = h \/ (r.busy /\ (h \in r.flight \/ r.pending = selected)))
    BY <1>0, TerrainEnsured
  <2>4. b' \in {b, r} BY <2>1
  <2> HIDE DEF h, r
  <2>5. TerrainTyped(b') /\ (TerrainServes(b, h, selected) => TerrainServes(b', h, selected))
    BY <1>0, <2>3, <2>4 DEF TerrainServes, h
  <2> QED BY <2>1, <2>2, <2>5, LayersStay DEF h
<1>4. CASE Layers!StarsAge
  <2>1. /\ UNCHANGED <<profiles, selected, saved, b>>
        /\ StarsTyped(a') /\ a'.shown = a.shown
    BY <1>0, <1>4 DEF Layers!StarsAge, Layers!places
  <2> QED BY <1>0, <2>1, LayersStay
<1>5. CASE Layers!PackImported
  <2> DEFINE t == [b EXCEPT !.done = NoPlace, !.horizon = NoPlace]
             r == Layers!EnsureTerrain(t, profiles, selected, TRUE)
  <2>1. UNCHANGED <<profiles, selected, saved, a>> /\ b' = r
    BY <1>5, LayersPlaces DEF Layers!PackImported, Layers!places
  <2>2. TerrainTyped(t) /\ t.done = NoPlace BY <1>0 DEF TerrainTyped
  <2> HIDE DEF t
  <2>3. /\ TerrainTyped(r) /\ r.done = t.done
        /\ h # NoPlace => r.busy /\ (h \in r.flight \/ r.pending = selected)
    BY <2>2, TerrainEnsured
  <2> HIDE DEF r, h
  <2>4. TerrainTyped(b') /\ TerrainServes(b', h, selected)
    BY <1>0, <2>1, <2>2, <2>3 DEF TerrainServes, h
  <2> QED BY <1>0, <2>1, <2>4, LayersStay DEF h
<1>6. ASSUME NEW ok \in BOOLEAN, Layers!StarsLoaded(ok)
      PROVE  Layers!LayersInv'
  <2>1. PICK p \in a.flight :
          LET idle == [a EXCEPT !.busy = FALSE, !.flight = {}]
              kept == IF ok /\ p = h THEN [idle EXCEPT !.shown = p, !.fresh = TRUE] ELSE idle
          IN  a' = Layers!PendingStars(kept, profiles, selected)
    BY <1>6, LayersPlaces DEF Layers!StarsLoaded
  <2> DEFINE idle == [a EXCEPT !.busy = FALSE, !.flight = {}]
             kept == IF ok /\ p = h THEN [idle EXCEPT !.shown = p, !.fresh = TRUE] ELSE idle
  <2>2. a' = Layers!PendingStars(kept, profiles, selected) BY <2>1
  <2>3. UNCHANGED <<profiles, selected, saved, b>> BY <1>6 DEF Layers!StarsLoaded, Layers!places
  <2>4. StarsTyped(kept) /\ kept.shown \in {a.shown, h} BY <1>0
  <2> HIDE DEF kept, h
  <2>5. StarsTyped(a') /\ a'.shown = kept.shown BY <2>2, <2>4, StarsKept
  <2> QED BY <1>0, <2>3, <2>4, <2>5, LayersStay DEF h
<1>7. ASSUME NEW ok \in BOOLEAN, Layers!TerrainLoaded(ok)
      PROVE  Layers!LayersInv'
  <2>1. PICK p \in b.flight :
          b' = LET idle == [b EXCEPT !.busy = FALSE, !.flight = {}]
                   kept == IF p = h
                             THEN [idle EXCEPT !.done = p, !.horizon = IF ok THEN p ELSE NoPlace]
                             ELSE idle
               IN  Layers!PendingTerrain(kept, profiles, selected)
    BY <1>7, LayersPlaces DEF Layers!TerrainLoaded
  <2>2. UNCHANGED <<profiles, selected, saved, a>> BY <1>7 DEF Layers!TerrainLoaded, Layers!places
  <2> DEFINE idle == [b EXCEPT !.busy = FALSE, !.flight = {}]
             k == IF p = h THEN [idle EXCEPT !.done = p, !.horizon = IF ok THEN p ELSE NoPlace]
                  ELSE idle
             r == Layers!PendingTerrain(k, profiles, selected)
  <2>3. b' = r BY <2>1
  <2>30. TerrainLanded(k, b, p, h) BY <1>0 DEF TerrainTyped, TerrainLanded
  <2> HIDE DEF k
  <2>4. TerrainTyped(r) /\ (TerrainServes(b, h, selected) => TerrainServes(r, h, selected))
    BY <1>0, <2>30, TerrainGoesOn
  <2> HIDE DEF r
  <2>5. TerrainTyped(b') /\ (TerrainServes(b, h, selected) => TerrainServes(b', h, selected))
    BY <2>3, <2>4
  <2> QED BY <1>0, <2>2, <2>5, LayersStay
<1> QED BY <1>1, <1>2, <1>20, <1>3, <1>4, <1>5, <1>6, <1>7 DEF Layers!Next, Layers!Change, Layers!Arrive

(***************************************************************************)
(* The satellites' refresh: SkyRefresh.                                    *)
(***************************************************************************)
LEMMA SkyPlaces ==
  /\ \A ps, n : Sky!Find(ps, n) = Find(ps, n)
  /\ Sky!NoPlace = NoPlace /\ Sky!NoName = NoName
  /\ Sky!PlacesInv = PlacesInv /\ Sky!PlacesInv' = PlacesInv'
<1>1. /\ \A ps, n : Sky!Find(ps, n) = Find(ps, n)
      /\ Sky!NoPlace = NoPlace /\ Sky!NoName = NoName
  BY DEF Sky!Find, Sky!Positions, Sky!FirstOf, Sky!NoPlace, Sky!NoName,
         Find, Positions, FirstOf, NoPlace, NoName
<1>2. Sky!PlacesInv = PlacesInv /\ Sky!PlacesInv' = PlacesInv'
  BY DEF Sky!PlacesInv, Sky!Profile, Sky!Positions, Sky!NoName,
         PlacesInv, Profile, Positions, NoName
<1> QED BY <1>1, <1>2

SkyTyped(s) ==
  /\ DOMAIN s = {"busy", "timer", "flight", "shown", "some"}
  /\ s.busy \in BOOLEAN /\ s.timer \in BOOLEAN
TracksTyped(t) ==
  /\ DOMAIN t = {"gen", "busy", "pending", "flight"} /\ t.busy \in BOOLEAN
  /\ t.pending # Sky!NoTrack => t.busy

LEMMA SkyParts ==
  /\ Sky!SkyInv <=> PlacesInv /\ SkyTyped(a) /\ TracksTyped(b)
  /\ Sky!SkyInv' <=> PlacesInv' /\ SkyTyped(a') /\ TracksTyped(b')
<1>1. Sky!SkyInv <=> PlacesInv /\ SkyTyped(a) /\ TracksTyped(b)
  BY SkyPlaces DEF Sky!SkyInv, Sky!NoStrandedTracks, SkyTyped, TracksTyped
<1>2. Sky!SkyInv' <=> PlacesInv' /\ SkyTyped(a') /\ TracksTyped(b')
  BY SkyPlaces DEF Sky!SkyInv, Sky!NoStrandedTracks, SkyTyped, TracksTyped
<1> QED BY <1>1, <1>2

\* A refresh starts where a place is selected, and is never undone.
LEMMA RefreshStarts ==
  ASSUME NEW s, SkyTyped(s), NEW ps, NEW n
  PROVE  LET r == Sky!RefreshData(s, ps, n)
         IN  /\ SkyTyped(r)
             /\ s.busy \/ s.timer => r.busy \/ r.timer
             /\ Find(ps, n) # NoPlace => r.busy
<1> DEFINE r == Sky!RefreshData(s, ps, n)
<1>1. CASE s.busy \/ Find(ps, n) = NoPlace
  <2>1. r = s BY <1>1, SkyPlaces DEF Sky!RefreshData
  <2> HIDE DEF r
  <2>2. /\ SkyTyped(r)
        /\ s.busy \/ s.timer => r.busy \/ r.timer
        /\ Find(ps, n) # NoPlace => r.busy
    BY <1>1, <2>1
  <2> QED BY <2>2 DEF r
<1>2. CASE ~(s.busy \/ Find(ps, n) = NoPlace)
  <2>1. r = [s EXCEPT !.busy = TRUE, !.timer = FALSE, !.flight = {Find(ps, n)}]
    BY <1>2, SkyPlaces DEF Sky!RefreshData
  <2>2. SkyTyped(r) /\ r.busy BY <2>1 DEF SkyTyped
  <2> QED BY <2>2
<1> QED BY <1>1, <1>2

LEMMA TracksStart ==
  ASSUME NEW t, TracksTyped(t), NEW ps, NEW n, NEW req, NEW cand \in BOOLEAN
  PROVE  /\ TracksTyped(Sky!StartTracks(t, ps, req, cand))
         /\ TracksTyped(Sky!PendingTracks([t EXCEPT !.busy = FALSE, !.flight = {}], ps, n, cand))
<1>1. \A s, q : TracksTyped(s) => TracksTyped(Sky!StartTracks(s, ps, q, cand))
  <2> TAKE s, q
  <2> HAVE TracksTyped(s)
  <2> DEFINE r == Sky!StartTracks(s, ps, q, cand)
  <2>1. \/ r = s
        \/ s.busy /\ r = [s EXCEPT !.pending = q]
        \/ \E fl : r = [s EXCEPT !.busy = TRUE, !.pending = Sky!NoTrack, !.flight = fl]
    BY DEF Sky!StartTracks
  <2> HIDE DEF r
  <2>2. TracksTyped(r) BY <2>1 DEF TracksTyped
  <2> QED BY <2>2 DEF r
<1>2. TracksTyped(Sky!PendingTracks([t EXCEPT !.busy = FALSE, !.flight = {}], ps, n, cand))
  <2> DEFINE ended == [t EXCEPT !.busy = FALSE, !.flight = {}]
             idle == [ended EXCEPT !.pending = Sky!NoTrack]
  <2>1. TracksTyped(idle) BY DEF TracksTyped
  <2>2. \/ Sky!PendingTracks(ended, ps, n, cand) = idle
        \/ \E q : Sky!PendingTracks(ended, ps, n, cand) = Sky!StartTracks(idle, ps, q, cand)
    BY DEF Sky!PendingTracks
  <2> HIDE DEF idle
  <2> QED BY <1>1, <2>1, <2>2
<1> QED BY <1>1, <1>2

LEMMA SkyEvents ==
  /\ \A n, ok : Sky!Choose(n, ok) <=> Choose(n, ok)
  /\ \A row, p, ok : Sky!Save(row, p, ok) <=> Save(row, p, ok)
  /\ \A row, p, ok : Sky!Use(row, p, ok) <=> Use(row, p, ok)
  /\ \A row, ok : Sky!Delete(row, ok) <=> Delete(row, ok)
  /\ Sky!Rows = Rows /\ Sky!Profile = Profile
BY DEF Sky!Choose, Sky!Save, Sky!Use, Sky!Delete, Sky!Rows, Sky!Profile,
       Sky!MaySave, Sky!SavedList, Sky!SavedName, Sky!RemovedList,
       Sky!RemovedName, Sky!Reselect, Sky!Positions, Sky!FirstOf, Sky!NoName, Sky!Stored,
       Choose, Save, Use, Delete, Rows, Profile, MaySave, SavedList, SavedName, RemovedList,
       RemovedName, Reselect, Positions, FirstOf, NoName, Stored

\* A load ends: with the timer set, or with the next load of the place selected.
LEMMA SkyRefreshStep ==
  ASSUME Sky!SkyInv, Sky!Next
  PROVE  Sky!SkyInv' /\ Sky!KeepsRefreshing
<1>0. /\ PlacesInv /\ SkyTyped(a) /\ TracksTyped(b) /\ profiles \in Seq(Profile)
      /\ selected # NoName => Find(profiles, selected) # NoPlace
  BY SkyParts, FoundPlace DEF PlacesInv
<1>00. SkyTyped(Sky!Landed) /\ Sky!Landed.timer = a.timer
  BY <1>0 DEF SkyTyped, Sky!Landed
<1> DEFINE goal == /\ PlacesInv' /\ SkyTyped(a') /\ TracksTyped(b')
                   /\ (a.busy \/ a.timer) /\ selected' # NoName => a'.busy \/ a'.timer
<1>01. SUFFICES goal
  <2>1. goal => Sky!SkyInv' BY SkyParts
  <2>2. goal => Sky!KeepsRefreshing BY SkyPlaces DEF Sky!KeepsRefreshing
  <2> QED BY <2>1, <2>2
<1>02. ASSUME UNCHANGED <<profiles, selected, saved>>
      PROVE  PlacesInv'
  BY <1>0, <1>02 DEF PlacesInv, Positions
<1>1. CASE Sky!Change
  <2>1. PlaceEvent /\ UNCHANGED b
    BY <1>1, SkyEvents
    DEF Sky!Change, Sky!ChooseSky, Sky!SaveSky, Sky!UseSky, Sky!DeleteSky, Sky!SkyUntold,
        Sky!ChangedUntold, Sky!Event, PlaceEvent
  <2>2. a' \in {a, Sky!RefreshData(a, profiles', selected')}
    BY <1>1 DEF Sky!Change, Sky!ChooseSky, Sky!SaveSky, Sky!UseSky, Sky!DeleteSky, Sky!SkyUntold
  <2>3. SkyTyped(a') /\ (a.busy \/ a.timer => a'.busy \/ a'.timer)
    BY <1>0, <2>2, RefreshStarts
  <2> QED BY <1>0, <2>1, <2>3, PlacesKept
<1>2. CASE Sky!RefreshPressed
  <2>1. UNCHANGED <<profiles, selected, saved, b>> /\ a' = Sky!RefreshData(a, profiles, selected)
    BY <1>2 DEF Sky!RefreshPressed, Sky!places
  <2>2. SkyTyped(a') /\ (a.busy \/ a.timer => a'.busy \/ a'.timer)
    BY <1>0, <2>1, RefreshStarts
  <2> QED BY <1>0, <1>02, <2>1, <2>2
<1>3. CASE Sky!TimerFires
  <2> DEFINE s == [a EXCEPT !.timer = FALSE]
  <2>1. UNCHANGED <<profiles, selected, saved, b>> /\ a' = Sky!RefreshData(s, profiles, selected)
    BY <1>3 DEF Sky!TimerFires, Sky!places
  <2>2. SkyTyped(s) BY <1>0 DEF SkyTyped
  <2> HIDE DEF s
  <2>3. SkyTyped(a') /\ (Find(profiles, selected) # NoPlace => a'.busy)
    BY <2>1, <2>2, RefreshStarts
  <2> QED BY <1>0, <1>02, <2>1, <2>3
<1>4. CASE Sky!SkyOfAnother
  <2>1. UNCHANGED <<profiles, selected, saved, b>>
        /\ a' = Sky!RefreshData(Sky!Landed, profiles, selected)
    BY <1>4 DEF Sky!SkyOfAnother, Sky!places
  <2>2. SkyTyped(a') /\ (Find(profiles, selected) # NoPlace => a'.busy)
    BY <1>00, <2>1, RefreshStarts
  <2> QED BY <1>0, <1>02, <2>1, <2>2
<1>5. CASE Sky!SkyHeld \/ Sky!SkyFailed
  <2>1. UNCHANGED <<profiles, selected, saved, b>> /\ a' = [Sky!Landed EXCEPT !.timer = TRUE]
    BY <1>5 DEF Sky!SkyHeld, Sky!SkyFailed, Sky!places
  <2>2. SkyTyped(a') /\ a'.timer BY <1>00, <2>1 DEF SkyTyped
  <2> QED BY <1>0, <1>02, <2>1, <2>2
<1>6. ASSUME NEW some \in BOOLEAN, NEW sight \in BOOLEAN, NEW cand \in BOOLEAN,
             Sky!SkyApplied(some, sight, cand)
      PROVE  goal
  <2> DEFINE next == [b EXCEPT !.gen = Sky!NextGen(@)]
  <2>1. PICK p :
          /\ UNCHANGED <<profiles, selected, saved>>
          /\ a' = [Sky!Landed EXCEPT !.shown = p, !.some = some, !.timer = TRUE]
          /\ b' = Sky!StartTracks(next, profiles, [place |-> p, gen |-> next.gen], some /\ cand)
    BY <1>6 DEF Sky!SkyApplied, Sky!places
  <2>2. SkyTyped(a') /\ a'.timer BY <1>00, <2>1 DEF SkyTyped
  <2>3. TracksTyped(next) BY <1>0 DEF TracksTyped
  <2> HIDE DEF next
  <2>4. TracksTyped(b') BY <2>1, <2>3, TracksStart
  <2> QED BY <1>02, <2>1, <2>2, <2>4
<1>7. ASSUME NEW cand \in BOOLEAN,
             \/ Sky!TracksAsked(cand) \/ Sky!TracksOutdated(cand) \/ Sky!TracksFailed(cand)
             \/ \E found, sight \in BOOLEAN : Sky!TracksShown(found, sight, cand)
      PROVE  goal
  <2>1. UNCHANGED <<profiles, selected, saved, a>>
    BY <1>7 DEF Sky!TracksAsked, Sky!TracksShown, Sky!TracksOutdated, Sky!TracksFailed, Sky!places
  <2>2. \/ b' = Sky!Predicted(cand)
        \/ \E q : b' = Sky!StartTracks(b, profiles, q, cand)
    BY <1>7 DEF Sky!TracksAsked, Sky!TracksShown, Sky!TracksOutdated, Sky!TracksFailed
  <2>3. TracksTyped(b') BY <1>0, <2>2, TracksStart DEF Sky!Predicted
  <2> QED BY <1>0, <1>02, <2>1, <2>3
<1> QED BY <1>1, <1>2, <1>3, <1>4, <1>5, <1>6, <1>7
        DEF Sky!Next, Sky!Arrive, Sky!Good, Sky!TracksArrive, Sky!Found

(***************************************************************************)
(* The forecasts: ForecastPanels.                                          *)
(***************************************************************************)
\* The invariant of a panel p and a planner q of a kind k, with h the place selected
\* and t what has become of the saves.
ForecastTyped(p, q) ==
  /\ DOMAIN p = {"shown", "timer", "loads"} /\ p.timer \in BOOLEAN
  /\ DOMAIN q = {"rows", "loads"}
  /\ \A l \in p.loads : DOMAIN l = {"at", "now"} /\ l.now \in BOOLEAN
  /\ \A l \in q.loads : DOMAIN l = {"at", "of", "now"} /\ l.now \in BOOLEAN
ForecastSettled(h, k, p, q) ==
  /\ p.shown \in {Forecast!NoPlace, h}
  /\ k # "darkness" /\ h # Forecast!NoPlace /\ p.shown = h =>
       /\ \A l \in q.loads : l.now => l.at = h /\ l.of = h
       /\ (\A l \in q.loads : ~l.now) => q.rows \in {Forecast!NoRows, [at |-> h, of |-> h]}
ForecastOf(h, t, k, p, q) ==
  /\ ForecastTyped(p, q)
  /\ t = "always" => q.rows.of = q.rows.at /\ \A l \in q.loads : l.of = l.at
  /\ t # "not" =>
       /\ \A l \in p.loads : l.now => l.at = h \/ h = Forecast!NoPlace
       /\ h = Forecast!NoPlace => p.shown = Forecast!NoPlace
       /\ h # Forecast!NoPlace => p.timer
       /\ (\A l \in p.loads : ~l.now) => ForecastSettled(h, k, p, q)

LEMMA ForecastParts ==
  /\ Forecast!ForecastInv <=> ForecastOf(Forecast!Here, saved, a, b, c)
  /\ Forecast!ForecastInv' <=> ForecastOf(Forecast!Here', saved', a', b', c')
<1>1. \A S : /\ Forecast!Current(S) = {} <=> \A l \in S : ~l.now
             /\ \A l : l \in Forecast!Current(S) <=> l \in S /\ l.now
  BY DEF Forecast!Current
<1>2. Forecast!Current(b.loads)' = Forecast!Current(b'.loads)
      /\ Forecast!Current(c.loads)' = Forecast!Current(c'.loads)
  BY DEF Forecast!Current
<1> USE DEF Forecast!ForecastInv, Forecast!PlannerCoherent, Forecast!RowsFollow,
            Forecast!PanelFollowsPlace, Forecast!Told, ForecastOf, ForecastTyped, ForecastSettled
<1>3. Forecast!ForecastInv <=> ForecastOf(Forecast!Here, saved, a, b, c)
  BY <1>1
<1>4. Forecast!ForecastInv' <=> ForecastOf(Forecast!Here', saved', a', b', c')
  BY <1>1, <1>2
<1> QED BY <1>3, <1>4

LEMMA ForecastHere ==
  /\ UNCHANGED <<profiles, selected>> => Forecast!Here' = Forecast!Here
  /\ Forecast!Here' = Forecast!Find(profiles', selected')
  /\ Forecast!Here = Forecast!Find(profiles, selected)
<1>1. /\ Forecast!Here' = Forecast!Find(profiles', selected')
      /\ Forecast!Here = Forecast!Find(profiles, selected)
  BY DEF Forecast!Here
<1>2. UNCHANGED <<profiles, selected>> => Forecast!Here' = Forecast!Here
  BY DEF Forecast!Here
<1> QED BY <1>1, <1>2

LEMMA ForecastFrame ==
  ASSUME Forecast!ForecastInv, UNCHANGED <<profiles, selected, saved, a, b, c>>
  PROVE  Forecast!ForecastInv'
BY ForecastParts, ForecastHere

\* The places the module finds are of profiles, or the one that stands for none.
LEMMA ForecastPlace ==
  /\ Forecast!NoPlace \notin Forecast!Profile
  /\ \A l \in Forecast!Load : l.at # Forecast!NoPlace /\ DOMAIN l = {"at", "now"} /\ l.now \in BOOLEAN
<1>1. Forecast!NoPlace.name \notin Names
  BY PlacesAssumption DEF Forecast!NoPlace, Forecast!NoName, NoName
<1>2. Forecast!NoPlace \notin Forecast!Profile BY <1>1 DEF Forecast!Profile
<1>3. \A l \in Forecast!Load :
        l.at \in Forecast!Profile /\ DOMAIN l = {"at", "now"} /\ l.now \in BOOLEAN
  BY DEF Forecast!Load
<1> QED BY <1>2, <1>3

LEMMA ForecastSuperseded ==
  ASSUME NEW p, NEW q, ForecastTyped(p, q)
  PROVE  /\ \A l \in Forecast!Superseded(p.loads) : DOMAIN l = {"at", "now"} /\ l.now = FALSE
         /\ \A l \in Forecast!Superseded(q.loads) :
              DOMAIN l = {"at", "of", "now"} /\ l.now = FALSE
         /\ (\A l \in q.loads : l.of = l.at) => \A l \in Forecast!Superseded(q.loads) : l.of = l.at
BY DEF ForecastTyped, Forecast!Superseded, Forecast!Current

\* Once a refresh has seen the places as they are now, it does not matter which
\* ones were there before; if it has not, nothing is claimed.
LEMMA ForecastRefreshed ==
  ASSUME Forecast!ForecastInv, NEW n, b' = Forecast!Refreshed(profiles', n), UNCHANGED <<a, c>>,
         n = selected' \/ saved' = "not", saved' = "always" => saved = "always"
  PROVE  Forecast!ForecastInv'
<1> DEFINE here == Forecast!Find(profiles', n)
           load == [at |-> here, now |-> TRUE]
<1>1. ForecastOf(Forecast!Here, saved, a, b, c) BY ForecastParts
<1>2. ForecastTyped(b, c) BY <1>1 DEF ForecastOf
<1>3. CASE here = Forecast!NoPlace
  <2>1. /\ DOMAIN b' = DOMAIN b /\ b'.shown = Forecast!NoPlace /\ b'.timer = FALSE
        /\ b'.loads = b.loads
    BY <1>2, <1>3 DEF Forecast!Refreshed, ForecastTyped
  <2> HIDE DEF here
  <2>2. saved' # "not" => Forecast!Here' = Forecast!NoPlace BY <1>3, ForecastHere DEF here
  <2>3. ForecastTyped(b', c') BY <1>2, <2>1 DEF ForecastTyped
  <2> QED BY <1>1, <2>1, <2>2, <2>3, ForecastParts DEF ForecastOf, ForecastSettled
<1>4. CASE here # Forecast!NoPlace
  <2>1. /\ DOMAIN b' = DOMAIN b /\ b'.timer = TRUE /\ b'.shown = b.shown
        /\ b'.loads = Forecast!Superseded(b.loads) \cup {load}
    BY <1>2, <1>4 DEF Forecast!Refreshed, ForecastTyped
  <2>2. DOMAIN load = {"at", "now"} /\ load.now = TRUE /\ load.at = here OBVIOUS
  <2>3. saved' # "not" => Forecast!Here' = here BY ForecastHere
  <2> HIDE DEF here, load
  <2>4. /\ \A l \in b'.loads : DOMAIN l = {"at", "now"} /\ l.now \in BOOLEAN
        /\ \A l \in b'.loads : l.now => l.at = here
        /\ load \in b'.loads
    BY <1>2, <2>1, <2>2, ForecastSuperseded
  <2>5. ForecastTyped(b', c') BY <1>2, <2>1, <2>4 DEF ForecastTyped
  <2>6. ~ \A l \in b'.loads : ~l.now BY <2>2, <2>4
  <2> QED BY <1>1, <1>4, <2>1, <2>3, <2>4, <2>5, <2>6, ForecastParts DEF ForecastOf
<1> QED BY <1>3, <1>4

\* What a change of place makes of the saves.
LEMMA ForecastSaved ==
  ASSUME NEW ok \in BOOLEAN, Forecast!Stored(ok)
  PROVE  /\ saved' = "always" => saved = "always"
         /\ ~ok => saved' = "not"
BY DEF Forecast!Stored

\* What became of a load of the panel: it was dropped, shown, or has failed; and if
\* it counted and was not a failure the planner was started from it.
LEMMA ForecastArrived ==
  ASSUME Forecast!ForecastInv, NEW l \in b.loads, l.at # Forecast!NoPlace,
         UNCHANGED <<profiles, selected, saved, a>>,
         DOMAIN b' = DOMAIN b, b'.timer = b.timer, b'.loads = b.loads \ {l},
         \/ b'.shown = Forecast!NoPlace /\ l.now /\ c' = c
         \/ b'.shown = b.shown /\ ~l.now /\ c' = c
         \/ b'.shown = b.shown /\ l.now /\ l.at # Forecast!Here
              /\ (c' = c \/ c' = Forecast!Planned(l.at))
         \/ b'.shown = l.at /\ l.at = Forecast!Here /\ l.now
              /\ ((a = "darkness" /\ c' = c) \/ c' = Forecast!Planned(l.at))
  PROVE  Forecast!ForecastInv'
<1> DEFINE h == Forecast!Here
           m == [at |-> h, of |-> l.at, now |-> TRUE]
<1>1. ForecastOf(h, saved, a, b, c) /\ ForecastTyped(b, c) BY ForecastParts DEF ForecastOf
<1>2. Forecast!Here' = h BY ForecastHere
<1>3. SUFFICES ForecastOf(h, saved, a, b', c') BY <1>2, ForecastParts
<1>5. CASE c' = c
  <2>1. ForecastTyped(b', c') BY <1>1, <1>5 DEF ForecastTyped
  <2>2. saved # "not" => (h = Forecast!NoPlace => b'.shown = Forecast!NoPlace)
    BY <1>1 DEF ForecastOf
  <2>3. saved # "not" => ((\A k \in b'.loads : ~k.now) => ForecastSettled(h, a, b', c'))
    <3> SUFFICES ASSUME saved # "not", \A k \in b'.loads : ~k.now
                 PROVE  ForecastSettled(h, a, b', c')
      OBVIOUS
    <3>1. CASE b'.shown = Forecast!NoPlace BY <3>1 DEF ForecastSettled
    <3>2. CASE b'.shown = b.shown /\ ~l.now
      <4>1. \A k \in b.loads : ~k.now BY <3>2
      <4> QED BY <1>1, <1>5, <3>2, <4>1 DEF ForecastOf, ForecastSettled
    <3>3. CASE b'.shown = b.shown /\ l.now /\ l.at # h
      <4>1. h = Forecast!NoPlace BY <1>1, <3>3 DEF ForecastOf
      <4> QED BY <2>2, <4>1 DEF ForecastSettled
    <3>4. CASE b'.shown = l.at /\ l.at = h /\ a = "darkness"
      BY <3>4 DEF ForecastSettled
    <3>5. CASE b'.shown = l.at /\ l.at = h /\ l.now /\ c' = Forecast!Planned(l.at) /\ a # "darkness"
      \* A planner that is started is not left as it was.
      <4>1. c' = [c EXCEPT !.loads = Forecast!Superseded(@) \cup {m}]
        BY <3>5 DEF Forecast!Planned
      <4>2. c'.loads = Forecast!Superseded(c.loads) \cup {m} BY <1>1, <4>1 DEF ForecastTyped
      <4>3. m.now = TRUE /\ m.at = h /\ m.of = h BY <3>5
      <4> HIDE DEF m
      <4>4. \A k \in c'.loads : k.now => k = m BY <1>1, <4>2, ForecastSuperseded
      <4>5. m \in c'.loads BY <4>2
      <4> QED BY <3>5, <4>3, <4>4, <4>5 DEF ForecastSettled
    <3> QED BY <3>1, <3>2, <3>3, <3>4, <3>5
  <2> HIDE DEF h
  <2> QED BY <1>1, <1>5, <2>1, <2>2, <2>3 DEF ForecastOf
<1>6. CASE l.now /\ c' = Forecast!Planned(l.at) /\ h = Forecast!NoPlace
  <2>1. DOMAIN c' = DOMAIN c /\ c'.rows = Forecast!NoRows /\ c'.loads = c.loads
    BY <1>1, <1>6 DEF Forecast!Planned, ForecastTyped
  <2>2. ForecastTyped(b', c') BY <1>1, <2>1 DEF ForecastTyped
  <2>3. c'.rows.of = c'.rows.at BY <2>1 DEF Forecast!NoRows
  <2>4. saved # "not" => b'.shown = Forecast!NoPlace BY <1>1, <1>6 DEF ForecastOf
  <2> HIDE DEF h
  <2> QED BY <1>1, <1>6, <2>1, <2>2, <2>3, <2>4 DEF ForecastOf, ForecastSettled
<1>7. CASE l.now /\ c' = Forecast!Planned(l.at) /\ h # Forecast!NoPlace
  <2>1. saved # "not" => l.at = h BY <1>1, <1>7 DEF ForecastOf
  <2>2. /\ DOMAIN c' = DOMAIN c /\ c'.rows = c.rows
        /\ c'.loads = Forecast!Superseded(c.loads) \cup {m}
    BY <1>1, <1>7 DEF Forecast!Planned, ForecastTyped
  <2>3. DOMAIN m = {"at", "of", "now"} /\ m.now = TRUE /\ m.at = h /\ m.of = l.at OBVIOUS
  <2> HIDE DEF m, h
  <2>4. /\ \A k \in c'.loads : DOMAIN k = {"at", "of", "now"} /\ k.now \in BOOLEAN
        /\ \A k \in c'.loads : k.now => k = m
        /\ m \in c'.loads
    BY <1>1, <2>2, <2>3, ForecastSuperseded
  <2>5. saved = "always" => \A k \in c'.loads : k.of = k.at
    <3>1. saved = "always" => \A k \in c.loads : k.of = k.at BY <1>1 DEF ForecastOf
    <3> QED BY <1>1, <2>1, <2>2, <2>3, <3>1, ForecastSuperseded
  <2>6. ForecastTyped(b', c') BY <1>1, <2>2, <2>4 DEF ForecastTyped
  <2>7. saved # "not" => b'.shown \in {Forecast!NoPlace, h} /\ b'.timer
    BY <1>1, <1>7, <2>1 DEF ForecastOf, h
  <2>8. saved # "not" => ForecastSettled(h, a, b', c')
    BY <2>1, <2>3, <2>4, <2>7 DEF ForecastSettled
  <2> QED BY <1>1, <1>7, <2>2, <2>5, <2>6, <2>7, <2>8 DEF ForecastOf
<1> QED BY <1>5, <1>6, <1>7

\* What became of a calculation of the planner.
LEMMA ForecastCalculated ==
  ASSUME Forecast!ForecastInv, UNCHANGED <<profiles, selected, saved, a, b>>, NEW l \in c.loads,
         DOMAIN c' = DOMAIN c, c'.loads = c.loads \ {l},
         \/ c'.rows = c.rows /\ (~l.now \/ l.at # Forecast!Here)
         \/ c'.rows = [at |-> l.at, of |-> l.of] /\ l.now /\ l.at = Forecast!Here
         \/ c'.rows = Forecast!NoRows
  PROVE  Forecast!ForecastInv'
<1> DEFINE h == Forecast!Here
<1>1. ForecastOf(h, saved, a, b, c) /\ ForecastTyped(b, c) BY ForecastParts DEF ForecastOf
<1>2. Forecast!Here' = h BY ForecastHere
<1>3. SUFFICES ForecastOf(h, saved, a, b, c') BY <1>2, ForecastParts
<1>4. ForecastTyped(b, c') BY <1>1 DEF ForecastTyped
<1>5. saved = "always" => c'.rows.of = c'.rows.at /\ \A k \in c'.loads : k.of = k.at
  BY <1>1 DEF ForecastOf, Forecast!NoRows
<1> HIDE DEF h
<1>6. ForecastSettled(h, a, b, c) => ForecastSettled(h, a, b, c')
  <2> SUFFICES ASSUME ForecastSettled(h, a, b, c), a # "darkness", h # Forecast!NoPlace, b.shown = h
               PROVE  /\ \A k \in c'.loads : k.now => k.at = h /\ k.of = h
                      /\ (\A k \in c'.loads : ~k.now) =>
                           c'.rows \in {Forecast!NoRows, [at |-> h, of |-> h]}
    BY DEF ForecastSettled
  <2>1. \A k \in c.loads : k.now => k.at = h /\ k.of = h BY DEF ForecastSettled
  <2>2. l.now \in BOOLEAN BY <1>1 DEF ForecastTyped
  <2>3. CASE c'.rows = c.rows /\ ~l.now
    <3>1. (\A k \in c'.loads : ~k.now) => \A k \in c.loads : ~k.now BY <2>3
    <3> QED BY <2>1, <2>3, <3>1 DEF ForecastSettled
  <2>4. CASE c'.rows = c.rows /\ l.now /\ l.at # h BY <2>1, <2>4
  <2>5. CASE c'.rows = [at |-> l.at, of |-> l.of] /\ l.now
    <3>1. l.at = h /\ l.of = h BY <2>1, <2>5
    <3> QED BY <2>1, <2>5, <3>1
  <2>6. CASE c'.rows = Forecast!NoRows BY <2>1, <2>6
  <2> QED BY <2>2, <2>3, <2>4, <2>5, <2>6 DEF h
<1> QED BY <1>1, <1>4, <1>5, <1>6 DEF ForecastOf

LEMMA ForecastStep ==
  ASSUME Forecast!ForecastInv, Forecast!Next
  PROVE  Forecast!ForecastInv'
<1>0. ForecastTyped(b, c) BY ForecastParts DEF ForecastOf
<1>1. CASE Forecast!ChangeHere
  <2>1. /\ Forecast!Stored(TRUE)
        /\ b' = Forecast!Refreshed(profiles', selected') /\ UNCHANGED <<a, c>>
    BY <1>1 DEF Forecast!ChangeHere, Forecast!Moved, Forecast!Changed, Forecast!Event,
                Forecast!Choose, Forecast!Save, Forecast!Use, Forecast!Delete
  <2> QED BY <2>1, ForecastSaved, ForecastRefreshed
<1>2. CASE Forecast!ChangeUntold
  <2>1. Forecast!Stored(FALSE) /\ UNCHANGED <<a, c>>
    BY <1>2 DEF Forecast!ChangeUntold, Forecast!ChangedUntold, Forecast!Event,
                Forecast!Choose, Forecast!Save, Forecast!Use, Forecast!Delete
  <2>2. saved' = "not" BY <2>1, ForecastSaved
  <2>3. b' = b \/ \E n : b' = Forecast!Refreshed(profiles', n)
    BY <1>2 DEF Forecast!ChangeUntold
  <2>4. CASE b' = b
    BY <2>1, <2>2, <2>4, ForecastParts DEF ForecastOf
  <2> QED BY <2>1, <2>2, <2>3, <2>4, ForecastRefreshed
<1>3. CASE Forecast!RefreshAgain
  <2>1. /\ b' = Forecast!Refreshed(profiles, selected)
        /\ profiles' = profiles /\ selected' = selected /\ saved' = saved /\ c' = c /\ a' = a
    BY <1>3 DEF Forecast!RefreshAgain, Forecast!places
  <2>2. b' = Forecast!Refreshed(profiles', selected') BY <2>1
  <2> QED BY <2>1, <2>2, ForecastRefreshed
<1>4. ASSUME NEW l \in Forecast!Load,
             \/ Forecast!DarknessApplied(l) \/ Forecast!WeatherApplied(l) \/ Forecast!PanelFailed(l)
      PROVE  Forecast!ForecastInv'
  <2>1. l \in b.loads /\ UNCHANGED <<profiles, selected, saved, a>> /\ l.at # Forecast!NoPlace
    BY <1>4, ForecastPlace
    DEF Forecast!DarknessApplied, Forecast!WeatherApplied, Forecast!PanelFailed, Forecast!places
  <2>2. l.now \in BOOLEAN BY <2>1, <1>0 DEF ForecastTyped
  <2> DEFINE dropped == Forecast!Arrived(l)
             shown == [dropped EXCEPT !.shown = l.at]
             failed == [dropped EXCEPT !.shown = Forecast!NoPlace]
  <2>3. \/ b' = failed /\ l.now /\ c' = c
        \/ b' = dropped /\ ~l.now /\ c' = c
        \/ b' = dropped /\ l.now /\ l.at # Forecast!Here /\ (c' = c \/ c' = Forecast!Planned(l.at))
        \/ b' = shown /\ l.at = Forecast!Here /\ l.now
             /\ ((a = "darkness" /\ c' = c) \/ c' = Forecast!Planned(l.at))
    <3> HIDE DEF dropped
    <3> USE <2>2 DEF Forecast!Outdated, dropped
    <3>1. CASE Forecast!DarknessApplied(l) BY <3>1 DEF Forecast!DarknessApplied
    <3>2. CASE Forecast!WeatherApplied(l) BY <3>2 DEF Forecast!WeatherApplied
    <3>3. CASE Forecast!PanelFailed(l) BY <3>3 DEF Forecast!PanelFailed
    <3> QED BY <1>4, <3>1, <3>2, <3>3
  <2>4. /\ DOMAIN dropped = DOMAIN b /\ dropped.timer = b.timer /\ dropped.loads = b.loads \ {l}
        /\ dropped.shown = b.shown
        /\ DOMAIN shown = DOMAIN b /\ shown.timer = b.timer /\ shown.loads = b.loads \ {l}
        /\ shown.shown = l.at
        /\ DOMAIN failed = DOMAIN b /\ failed.timer = b.timer /\ failed.loads = b.loads \ {l}
        /\ failed.shown = Forecast!NoPlace
    BY <1>0 DEF Forecast!Arrived, ForecastTyped
  <2> HIDE DEF dropped, shown, failed
  <2>5. /\ DOMAIN b' = DOMAIN b /\ b'.timer = b.timer /\ b'.loads = b.loads \ {l}
        /\ \/ b'.shown = Forecast!NoPlace /\ l.now /\ c' = c
           \/ b'.shown = b.shown /\ ~l.now /\ c' = c
           \/ b'.shown = b.shown /\ l.now /\ l.at # Forecast!Here
                /\ (c' = c \/ c' = Forecast!Planned(l.at))
           \/ b'.shown = l.at /\ l.at = Forecast!Here /\ l.now
                /\ ((a = "darkness" /\ c' = c) \/ c' = Forecast!Planned(l.at))
    BY <2>3, <2>4
  <2> QED BY <2>1, <2>5, ForecastArrived
<1>5. ASSUME NEW l \in Forecast!RowLoad,
             \/ Forecast!RowsCalculated(l) \/ Forecast!CalculationFails(l)
      PROVE  Forecast!ForecastInv'
  <2>1. l \in c.loads /\ UNCHANGED <<profiles, selected, saved, a, b>>
    BY <1>5 DEF Forecast!RowsCalculated, Forecast!CalculationFails, Forecast!places
  <2>2. l.now \in BOOLEAN BY <2>1, <1>0 DEF ForecastTyped
  <2> DEFINE dropped == Forecast!Calculated(l)
             shown == [dropped EXCEPT !.rows = [at |-> l.at, of |-> l.of]]
             failed == [dropped EXCEPT !.rows = Forecast!NoRows]
  <2>3. \/ c' = dropped /\ (~l.now \/ l.at # Forecast!Here)
        \/ c' = shown /\ l.now /\ l.at = Forecast!Here
        \/ c' = failed
    <3> HIDE DEF dropped
    <3> USE <2>2 DEF Forecast!Outdated, dropped
    <3>1. CASE Forecast!RowsCalculated(l) BY <3>1 DEF Forecast!RowsCalculated
    <3>2. CASE Forecast!CalculationFails(l) BY <3>2 DEF Forecast!CalculationFails
    <3> QED BY <1>5, <3>1, <3>2
  <2>4. /\ DOMAIN dropped = DOMAIN c /\ dropped.loads = c.loads \ {l} /\ dropped.rows = c.rows
        /\ DOMAIN shown = DOMAIN c /\ shown.loads = c.loads \ {l}
        /\ shown.rows = [at |-> l.at, of |-> l.of]
        /\ DOMAIN failed = DOMAIN c /\ failed.loads = c.loads \ {l} /\ failed.rows = Forecast!NoRows
    BY <1>0 DEF Forecast!Calculated, ForecastTyped
  <2> HIDE DEF dropped, shown, failed
  <2>5. /\ DOMAIN c' = DOMAIN c /\ c'.loads = c.loads \ {l}
        /\ \/ c'.rows = c.rows /\ (~l.now \/ l.at # Forecast!Here)
           \/ c'.rows = [at |-> l.at, of |-> l.of] /\ l.now /\ l.at = Forecast!Here
           \/ c'.rows = Forecast!NoRows
    BY <2>3, <2>4
  <2> QED BY <2>1, <2>5, ForecastCalculated
<1> QED BY <1>1, <1>2, <1>3, <1>4, <1>5 DEF Forecast!Next, Forecast!PanelEnds, Forecast!PlanEnds

(***************************************************************************)
(* The weather map: WeatherMapPanel.                                       *)
(***************************************************************************)
LEMMA MapHere ==
  /\ UNCHANGED <<profiles, selected>> => Map!Here' = Map!Here
  /\ Map!Here' = Map!Find(profiles', selected')
  /\ Map!Here = Map!Find(profiles, selected)
<1>1. Map!Here' = Map!Find(profiles', selected') /\ Map!Here = Map!Find(profiles, selected)
  BY DEF Map!Here
<1>2. UNCHANGED <<profiles, selected>> => Map!Here' = Map!Here
  BY DEF Map!Here
<1> QED BY <1>1, <1>2

LEMMA MapFrame ==
  ASSUME Map!MapInv, UNCHANGED <<profiles, selected, saved, a, b>>
  PROVE  Map!MapInv'
BY MapHere DEF Map!MapInv, Map!PlaybackAlive, Map!CaptionTrue, Map!Current, Map!Told

\* The invariant, of the state after a step.
LEMMA MapParts ==
  Map!MapInv' <=>
    /\ DOMAIN a' = {"shown", "source", "cramped", "caption", "loads"}
    /\ \A l \in a'.loads : DOMAIN l = {"at", "now", "future"} /\ l.now \in BOOLEAN
    /\ DOMAIN b' = {"idle", "playing", "job", "index"}
    /\ b'.playing \in BOOLEAN /\ b'.job \in BOOLEAN
    /\ b'.job => b'.playing
    /\ saved' # "not" =>
         /\ b'.playing /\ Map!Here' # Map!NoPlace => b'.job \/ \E l \in a'.loads : l.now
         /\ a'.caption \in {"observed", "forecast"} =>
              a'.source = Map!Here' /\ (a'.shown = Map!Here' \/ a'.cramped)
BY DEF Map!MapInv, Map!PlaybackAlive, Map!CaptionTrue, Map!Current, Map!Told

MapPlay(p) ==
  /\ DOMAIN p = {"idle", "playing", "job", "index"}
  /\ p.playing \in BOOLEAN /\ p.job \in BOOLEAN
  /\ p.job => p.playing

LEMMA MapScheduled ==
  ASSUME NEW p, MapPlay(p)
  PROVE  LET q == Map!Scheduled(p)
         IN  MapPlay(q) /\ q.playing = p.playing /\ (q.playing => q.job)
BY DEF Map!Scheduled, MapPlay

\* A refresh for the places as they are now, whatever becomes of the playback; or
\* for others, when nothing is claimed.
LEMMA MapRefreshed ==
  ASSUME Map!MapInv, NEW k, NEW n, Map!Refresh(profiles', n, k), n = selected' \/ saved' = "not",
         MapPlay(b')
  PROVE  Map!MapInv'
<1> DEFINE here == Map!Find(profiles', n)
<1>0. saved' # "not" => here = Map!Here' BY MapHere
<1>1. \A l \in Map!Superseded(a.loads) : DOMAIN l = {"at", "now", "future"} /\ l.now = FALSE
  BY DEF Map!MapInv, Map!Superseded, Map!Current
<1>2. CASE here = Map!NoPlace
  <2>1. /\ DOMAIN a' = DOMAIN a /\ a'.caption = "no place"
        /\ a'.loads = Map!Superseded(a.loads)
    BY <1>2 DEF Map!Refresh, Map!Emptied, Map!MapInv
  <2> HIDE DEF here
  <2> QED BY <1>0, <1>1, <1>2, <2>1, MapParts DEF Map!MapInv, MapPlay
<1>3. CASE here # Map!NoPlace
  <2> DEFINE load == [at |-> here, now |-> TRUE, future |-> k]
  <2>1. /\ DOMAIN a' = DOMAIN a /\ a'.caption = "loading"
        /\ a'.loads = Map!Superseded(a.loads) \cup {load}
    BY <1>3 DEF Map!Refresh, Map!Requested, Map!MapInv
  <2>2. DOMAIN load = {"at", "now", "future"} /\ load.now = TRUE OBVIOUS
  <2> HIDE DEF load, here
  <2>3. /\ \A l \in a'.loads : DOMAIN l = {"at", "now", "future"} /\ l.now \in BOOLEAN
        /\ \E l \in a'.loads : l.now
    BY <1>1, <2>1, <2>2
  <2> QED BY <2>1, <2>3, MapParts DEF Map!MapInv, MapPlay
<1> QED BY <1>2, <1>3

\* A picture is drawn, or cannot be: what is kept of it does not change.
LEMMA MapDrawn ==
  ASSUME NEW m, DOMAIN m = {"shown", "source", "cramped", "caption", "loads"}, NEW k \in BOOLEAN
  PROVE  LET r == Map!Drawn(m, k)
         IN  /\ DOMAIN r = DOMAIN m /\ r.source = m.source /\ r.caption = m.caption
             /\ r.loads = m.loads
             /\ r.shown = m.source \/ r.cramped
BY DEF Map!Drawn

LEMMA MapStep ==
  ASSUME Map!MapInv, Map!Next
  PROVE  Map!MapInv'
<1>1. MapPlay(b) BY DEF Map!MapInv, Map!PlaybackAlive, MapPlay
<1>10. DOMAIN a = {"shown", "source", "cramped", "caption", "loads"} BY DEF Map!MapInv
<1>2. CASE Map!ChangeHere
  BY <1>1, <1>2, MapRefreshed DEF Map!ChangeHere
<1>20. CASE Map!ChangeUntold
  <2>1. Map!Stored(FALSE) /\ b' = b
    BY <1>20 DEF Map!ChangeUntold, Map!ChangedUntold, Map!Event, Map!Choose, Map!Save, Map!Use,
                 Map!Delete
  <2>2. saved' = "not" BY <2>1 DEF Map!Stored
  <2>3. a' = a \/ \E n : Map!Refresh(profiles', n, c)
    BY <1>20 DEF Map!ChangeUntold
  <2>4. CASE a' = a BY <2>1, <2>2, <2>4, MapParts DEF Map!MapInv, Map!PlaybackAlive
  <2> QED BY <1>1, <2>1, <2>2, <2>3, <2>4, MapRefreshed
<1>3. CASE Map!RefreshAsked
  BY <1>1, <1>3, MapRefreshed DEF Map!RefreshAsked, Map!places
<1>4. CASE Map!PlaybackStarts
  <2> DEFINE started == [b EXCEPT !.idle = FALSE, !.playing = TRUE]
             still == [b EXCEPT !.idle = FALSE]
  <2>1. /\ UNCHANGED <<profiles, selected, saved, a>> /\ Map!Here' = Map!Here
        /\ b' = still \/ b' = Map!Scheduled(started)
    BY <1>4, MapHere DEF Map!PlaybackStarts, Map!places
  <2>2. /\ MapPlay(still) /\ still.playing = b.playing /\ still.job = b.job
        /\ MapPlay(started)
    BY <1>1 DEF MapPlay
  <2> HIDE DEF started, still
  <2>3. MapPlay(b') /\ ((b'.playing = b.playing /\ b'.job = b.job) \/ (b'.playing => b'.job))
    BY <2>1, <2>2, MapScheduled
  <2> QED BY <2>1, <2>3, MapParts
          DEF Map!MapInv, Map!PlaybackAlive, Map!CaptionTrue, Map!Current, Map!Told, MapPlay
<1>5. CASE Map!Tick
  <2>1. MapPlay(b')
    BY <1>1, <1>5 DEF Map!Tick, MapPlay
  <2>2. Map!Refresh(profiles', selected', FALSE) BY <1>5 DEF Map!Tick, Map!places
  <2> QED BY <2>1, <2>2, MapRefreshed
<1>6. CASE \E k \in BOOLEAN : Map!MapTimeSelected(k)
  <2> DEFINE off == [b EXCEPT !.playing = FALSE, !.job = FALSE]
             over == [off EXCEPT !.index = 0, !.playing = TRUE]
  <2>1. /\ \E k \in BOOLEAN : Map!Refresh(profiles', selected', k)
        /\ b' = off \/ b' = Map!Scheduled(over)
    BY <1>6 DEF Map!MapTimeSelected, Map!places
  <2>2. MapPlay(off) /\ MapPlay(over) BY <1>1 DEF MapPlay
  <2> HIDE DEF off, over
  <2>3. MapPlay(b') BY <2>1, <2>2, MapScheduled
  <2> QED BY <2>1, <2>3, MapRefreshed
<1>7. CASE Map!Resized
  <2>1. PICK k \in BOOLEAN :
          /\ UNCHANGED <<profiles, selected, saved, b>> /\ Map!Here' = Map!Here
          /\ a' = Map!Drawn(a, k)
    BY <1>7, MapHere DEF Map!Resized, Map!places
  <2>2. /\ DOMAIN a' = DOMAIN a /\ a'.source = a.source
        /\ a'.caption = a.caption /\ a'.loads = a.loads
        /\ a'.shown = a.source \/ a'.cramped
    BY <1>10, <2>1, MapDrawn
  <2> QED BY <2>1, <2>2, MapParts
          DEF Map!MapInv, Map!PlaybackAlive, Map!CaptionTrue, Map!Current, Map!Told
<1>8. ASSUME NEW l \in Map!Load, Map!Applied(l) \/ Map!Failed(l)
      PROVE  Map!MapInv'
  <2>1. /\ UNCHANGED <<profiles, selected, saved>> /\ Map!Here' = Map!Here
        /\ b' = Map!Scheduled(b) /\ l \in a.loads /\ l.now
    BY <1>8, MapHere DEF Map!Applied, Map!Failed, Map!places
  <2>2. MapPlay(b') /\ (b'.playing => b'.job) BY <1>1, <2>1, MapScheduled
  <2> DEFINE text == IF l.future THEN "forecast" ELSE "observed"
             kept == [Map!Rendered(l) EXCEPT !.source = l.at, !.caption = text]
  <2>3. \/ l.at = Map!Here /\ \E k \in BOOLEAN : a' = Map!Drawn(kept, k)
        \/ a' = Map!Rendered(l)
        \/ a' = [Map!Rendered(l) EXCEPT !.caption = "unavailable"]
    BY <1>8 DEF Map!Applied, Map!Failed
  <2>4. /\ DOMAIN kept = DOMAIN a /\ kept.source = l.at /\ kept.loads = a.loads \ {l}
    BY <1>10 DEF Map!Rendered
  <2> HIDE DEF kept
  <2>5. /\ DOMAIN a' = DOMAIN a /\ a'.loads = a.loads \ {l}
        /\ \/ a'.source = Map!Here /\ (a'.shown = Map!Here \/ a'.cramped)
           \/ a'.caption = a.caption /\ a'.source = a.source /\ a'.shown = a.shown
                /\ a'.cramped = a.cramped
           \/ a'.caption = "unavailable"
    <3>1. CASE l.at = Map!Here /\ \E k \in BOOLEAN : a' = Map!Drawn(kept, k)
      BY <1>10, <2>4, <3>1, MapDrawn
    <3>2. CASE a' = Map!Rendered(l) BY <1>10, <3>2 DEF Map!Rendered
    <3>3. CASE a' = [Map!Rendered(l) EXCEPT !.caption = "unavailable"]
      BY <1>10, <3>3 DEF Map!Rendered
    <3> QED BY <2>3, <3>1, <3>2, <3>3
  <2> QED BY <2>1, <2>2, <2>5, MapParts DEF Map!MapInv, Map!CaptionTrue, Map!Told, MapPlay
<1>9. ASSUME NEW l \in Map!Load, Map!Dropped(l)
      PROVE  Map!MapInv'
  <2>1. /\ UNCHANGED <<profiles, selected, saved, b>> /\ Map!Here' = Map!Here /\ ~l.now
        /\ DOMAIN a' = DOMAIN a /\ a'.source = a.source /\ a'.shown = a.shown
        /\ a'.cramped = a.cramped /\ a'.caption = a.caption /\ a'.loads = a.loads \ {l}
    BY <1>9, MapHere DEF Map!Dropped, Map!Rendered, Map!places, Map!MapInv
  <2> QED BY <2>1, MapParts
          DEF Map!MapInv, Map!PlaybackAlive, Map!CaptionTrue, Map!Current, Map!Told
<1> QED BY <1>2, <1>20, <1>3, <1>4, <1>5, <1>6, <1>7, <1>8, <1>9 DEF Map!Next

(***************************************************************************)
(* The aircraft: AircraftPanel.                                            *)
(***************************************************************************)
AirLoad(l) ==
  /\ DOMAIN l = {"at", "now", "stage", "got"} /\ l.now \in BOOLEAN
  /\ l.got.live => l.got.of = l.at

\* The worker, without a promise that somebody asks again.
AirWorker(x) ==
  /\ DOMAIN x = {"busy", "job", "stray", "loads"}
  /\ x.busy \in BOOLEAN /\ x.job \in BOOLEAN /\ x.stray \in BOOLEAN
  /\ \A l \in x.loads : AirLoad(l)
  /\ x.busy <=> x.loads # {}
  /\ \A l, k \in x.loads : l = k

AirAlive(x) ==
  /\ AirWorker(x)
  /\ x.busy \/ x.job \/ x.stray
  /\ (\E l \in x.loads : ~l.now) => x.job \/ x.stray

LEMMA AircraftInvOf ==
  /\ Aircraft!AircraftInv <=> AirAlive(a)
  /\ Aircraft!AircraftInv' <=> AirAlive(a')
BY DEF Aircraft!AircraftInv, Aircraft!AircraftRefreshAlive, AirAlive, AirWorker, AirLoad

LEMMA AirTimed ==
  ASSUME NEW x, AirWorker(x)
  PROVE  AirAlive(Aircraft!Timed(x))
<1> DEFINE y == Aircraft!Timed(x)
<1>1. /\ DOMAIN y = DOMAIN x /\ y.busy = x.busy /\ y.job = TRUE /\ y.stray = (x.stray \/ x.job)
      /\ y.loads = x.loads
  BY DEF Aircraft!Timed, AirWorker
<1> HIDE DEF y
<1>2. y.stray \in BOOLEAN BY <1>1
<1>3. AirWorker(y) BY <1>1, <1>2 DEF AirWorker
<1>4. AirAlive(y) BY <1>1, <1>3 DEF AirAlive
<1> QED BY <1>4 DEF y

LEMMA AirRefreshed ==
  ASSUME NEW x, AirWorker(x), NEW ps, NEW n
  PROVE  AirAlive(Aircraft!Refresh(x, ps, n))
<1> DEFINE free == [x EXCEPT !.job = FALSE]
           load == Aircraft!Asking(Aircraft!Find(ps, n))
           busy == [free EXCEPT !.busy = TRUE, !.loads = @ \cup {load}]
<1>1. /\ DOMAIN free = DOMAIN x /\ free.busy = x.busy /\ free.job = FALSE /\ free.stray = x.stray
      /\ free.loads = x.loads
  BY DEF AirWorker
<1>2. AirWorker(free)
  <2> HIDE DEF free
  <2> QED BY <1>1 DEF AirWorker
<1>3. CASE Aircraft!Refresh(x, ps, n) = Aircraft!Timed(free)
  <2> HIDE DEF free
  <2> QED BY <1>2, <1>3, AirTimed
<1>4. CASE ~x.busy /\ Aircraft!Refresh(x, ps, n) = busy
  <2>1. /\ DOMAIN busy = DOMAIN x /\ busy.busy = TRUE /\ busy.job = FALSE /\ busy.stray = x.stray
        /\ busy.loads = {load}
    <3> HIDE DEF load
    <3>1. x.loads = {} BY <1>4 DEF AirWorker
    <3> QED BY <1>1, <3>1 DEF AirWorker
  <2>2. AirLoad(load) /\ load.now
    BY DEF AirLoad, Aircraft!Asking, Aircraft!NoContacts
  <2> HIDE DEF busy, load
  <2>3. AirAlive(busy) BY <2>1, <2>2 DEF AirAlive, AirWorker
  <2> QED BY <1>4, <2>3
<1>5. Aircraft!Refresh(x, ps, n) = Aircraft!Timed(free)
      \/ (~x.busy /\ Aircraft!Refresh(x, ps, n) = busy)
  BY <1>1 DEF Aircraft!Refresh
<1> QED BY <1>3, <1>4, <1>5

\* One of the worker's answers takes the place of the load.
LEMMA AirAnswered ==
  ASSUME AirAlive(a), NEW l \in a.loads, NEW m, AirLoad(m), m.now = l.now, Aircraft!Answer(l, m)
  PROVE  AirAlive(a') /\ UNCHANGED b
<1>1. a' = [a EXCEPT !.loads = (@ \ {l}) \cup {m}] /\ UNCHANGED b
  BY DEF Aircraft!Answer
<1>2. /\ DOMAIN a' = DOMAIN a /\ a'.busy = a.busy /\ a'.job = a.job /\ a'.stray = a.stray
      /\ a'.loads = {m}
  BY <1>1 DEF AirAlive, AirWorker
<1> QED BY <1>1, <1>2 DEF AirAlive, AirWorker

LEMMA AirLanded ==
  ASSUME AirAlive(a), NEW l \in a.loads
  PROVE  /\ AirWorker(Aircraft!Landed(l))
         /\ ~l.now => AirAlive(Aircraft!Landed(l))
<1> DEFINE y == Aircraft!Landed(l)
<1>1. /\ DOMAIN y = DOMAIN a /\ y.busy = FALSE /\ y.job = a.job /\ y.stray = a.stray
      /\ y.loads = {}
  BY DEF Aircraft!Landed, AirAlive, AirWorker
<1> HIDE DEF y
<1>2. AirWorker(y) BY <1>1 DEF AirAlive, AirWorker
<1>3. ~l.now => AirAlive(y) BY <1>1, <1>2 DEF AirAlive
<1> QED BY <1>2, <1>3 DEF y

LEMMA AircraftStep ==
  ASSUME Aircraft!AircraftInv, Aircraft!Next
  PROVE  Aircraft!AircraftInv' /\ Aircraft!ShownLiveHere
<1> USE AircraftInvOf
<1>0. AirAlive(a) /\ AirWorker(a) BY DEF AirAlive
<1>1. Aircraft!NoContacts.live = FALSE BY DEF Aircraft!NoContacts
<1>2. ASSUME NEW x, AirWorker(x), Aircraft!RefreshNow(x)
      PROVE  AirAlive(a') /\ Aircraft!ShownLiveHere
  BY <1>1, <1>2, AirRefreshed DEF Aircraft!RefreshNow, Aircraft!Shown, Aircraft!ShownLiveHere
<1>3. ASSUME NEW x, NEW y \in BOOLEAN, NEW z \in BOOLEAN,
             x = [a EXCEPT !.job = y] \/ x = [a EXCEPT !.stray = z]
      PROVE  AirWorker(x)
  <2>1. /\ DOMAIN x = DOMAIN a /\ x.busy = a.busy /\ x.loads = a.loads
        /\ x.job \in BOOLEAN /\ x.stray \in BOOLEAN
    BY <1>0, <1>3 DEF AirWorker
  <2> QED BY <1>0, <2>1 DEF AirWorker
<1>4. CASE Aircraft!Choosing
  <2> DEFINE x == [a EXCEPT !.loads = {[l EXCEPT !.now = FALSE] : l \in @}]
  <2>1. a' = Aircraft!Refresh(x, profiles', selected') /\ b' = Aircraft!NoContacts
    BY <1>4 DEF Aircraft!Choosing
  <2>2. /\ DOMAIN x = DOMAIN a /\ x.busy = a.busy /\ x.job = a.job /\ x.stray = a.stray
        /\ x.loads = {[l EXCEPT !.now = FALSE] : l \in a.loads}
    BY <1>0 DEF AirWorker
  <2> HIDE DEF x
  <2>3. \A l \in a.loads : AirLoad([l EXCEPT !.now = FALSE])
    BY <1>0 DEF AirWorker, AirLoad
  <2>4. /\ \A l \in x.loads : AirLoad(l)
        /\ x.loads = {} <=> a.loads = {}
        /\ \A l, k \in x.loads : l = k
    <3>1. \A l, k \in a.loads : l = k BY <1>0 DEF AirWorker
    <3> QED BY <2>2, <2>3, <3>1
  <2>5. AirWorker(x) BY <1>0, <2>2, <2>4 DEF AirWorker
  <2> QED BY <1>1, <2>1, <2>5, AirRefreshed DEF Aircraft!ShownLiveHere
<1>5. CASE Aircraft!Editing \/ Aircraft!LastGoodAges
  BY <1>5 DEF Aircraft!Editing, Aircraft!LastGoodAges, Aircraft!ShownLiveHere
<1>6. CASE Aircraft!TimerFires BY <1>2, <1>3, <1>6 DEF Aircraft!TimerFires
<1>7. CASE Aircraft!StrayFires BY <1>2, <1>3, <1>7 DEF Aircraft!StrayFires
<1>8. ASSUME NEW l \in a.loads,
             \/ Aircraft!SourceAnswers(l) \/ Aircraft!SourceUnavailable(l) \/ Aircraft!SourceRaises(l)
      PROVE  AirAlive(a') /\ Aircraft!ShownLiveHere
  <2>1. AirLoad(l) BY <1>0 DEF AirWorker
  <2>2. ASSUME NEW m, AirLoad(m), m.now = l.now, Aircraft!Answer(l, m)
        PROVE  AirAlive(a') /\ Aircraft!ShownLiveHere
    BY <1>0, <2>2, AirAnswered DEF Aircraft!ShownLiveHere
  <2>3. ASSUME NEW got, got.live => got.of = l.at
        PROVE  /\ AirLoad(Aircraft!Posted(l, got)) /\ Aircraft!Posted(l, got).now = l.now
    BY <2>1, <2>3 DEF Aircraft!Posted, AirLoad
  <2>4. CASE Aircraft!SourceAnswers(l)
    <3>1. PICK got \in {Aircraft!NoContacts, [of |-> l.at, live |-> TRUE]} :
            Aircraft!Answer(l, Aircraft!Posted(l, got))
      BY <2>4 DEF Aircraft!SourceAnswers
    <3>2. got.live => got.of = l.at BY <1>1
    <3> QED BY <2>2, <2>3, <3>1, <3>2
  <2>5. CASE Aircraft!SourceUnavailable(l)
    <3>1. PICK got \in {Aircraft!NoContacts, [of |-> c, live |-> FALSE]} :
            Aircraft!Answer(l, Aircraft!Posted(l, got))
      BY <2>5 DEF Aircraft!SourceUnavailable
    <3>2. got.live => got.of = l.at BY <1>1
    <3> QED BY <2>2, <2>3, <3>1, <3>2
  <2>6. CASE Aircraft!SourceRaises(l)
    <3>1. AirLoad([l EXCEPT !.stage = "failed"]) /\ [l EXCEPT !.stage = "failed"].now = l.now
      BY <2>1 DEF AirLoad
    <3> QED BY <2>2, <2>6, <3>1 DEF Aircraft!SourceRaises
  <2> QED BY <1>8, <2>4, <2>5, <2>6
<1>9. ASSUME NEW l \in a.loads,
             \/ Aircraft!SnapshotOfAnother(l) \/ Aircraft!SnapshotApplied(l) \/ Aircraft!RefreshFailed(l)
      PROVE  AirAlive(a') /\ Aircraft!ShownLiveHere
  <2>1. AirLoad(l) BY <1>0 DEF AirWorker
  <2>2. \/ a' = Aircraft!Timed(Aircraft!Landed(l))
        \/ ~l.now /\ a' = Aircraft!Landed(l)
    BY <1>9 DEF Aircraft!SnapshotOfAnother, Aircraft!SnapshotApplied, Aircraft!RefreshFailed
  <2>3. AirAlive(a') BY <1>0, <2>2, AirLanded, AirTimed
  <2>4. b' = b \/ (b' = l.got /\ l.at = Aircraft!Here)
    BY <1>9 DEF Aircraft!SnapshotOfAnother, Aircraft!SnapshotApplied, Aircraft!RefreshFailed,
                Aircraft!Mine
  <2> QED BY <2>1, <2>3, <2>4 DEF Aircraft!ShownLiveHere, AirLoad
<1> QED BY <1>4, <1>5, <1>6, <1>7, <1>8, <1>9 DEF Aircraft!Next

(***************************************************************************)
(* The selected satellite: SatelliteSelection.                             *)
(***************************************************************************)
LEMMA SatelliteFrame ==
  ASSUME Satellite!SelectionInv, UNCHANGED c
  PROVE  Satellite!SelectionInv'
BY DEF Satellite!SelectionInv, Satellite!DrawerOfSelection

\* The handler of a selection, whoever calls it.
LEMMA SatelliteHandled ==
  ASSUME Satellite!SelectionInv, NEW s, c' = Satellite!Handled(c, s)
  PROVE  Satellite!SelectionInv'
<1> DEFINE L == Satellite!Superseded(c.lookups)
<1>1. \A l \in L : DOMAIN l = {"about", "now"} /\ l.now = FALSE
  BY DEF Satellite!SelectionInv, Satellite!Superseded
<1>2. \/ c' = [chosen |-> Satellite!NoSat, marked |-> Satellite!NoSat, about |-> Satellite!NoSat,
               loaded |-> FALSE, lookups |-> L]
      \/ c' = [chosen |-> s, marked |-> s, about |-> s, loaded |-> FALSE,
               lookups |-> L \cup {[about |-> s, now |-> TRUE]}]
  BY DEF Satellite!Handled, Satellite!Deselected
<1> HIDE DEF L
<1>3. /\ c'.about = c'.chosen /\ c'.marked = c'.chosen
      /\ DOMAIN c' = {"chosen", "marked", "about", "loaded", "lookups"}
  BY <1>2
<1>4. \A l \in c'.lookups :
        DOMAIN l = {"about", "now"} /\ l.now \in BOOLEAN /\ (l.now => l.about = c'.chosen)
  <2> SUFFICES ASSUME NEW l \in c'.lookups
               PROVE  DOMAIN l = {"about", "now"} /\ l.now \in BOOLEAN /\ (l.now => l.about = c'.chosen)
    OBVIOUS
  <2>1. CASE l \in L BY <1>1, <2>1
  <2>2. CASE l \notin L
    <3>1. l = [about |-> s, now |-> TRUE] /\ c'.chosen = s BY <1>2, <2>2
    <3> QED BY <3>1
  <2> QED BY <2>1, <2>2
<1> QED BY <1>3, <1>4 DEF Satellite!SelectionInv, Satellite!DrawerOfSelection

LEMMA SatelliteMarked ==
  ASSUME Satellite!SelectionInv, NEW S, c' = Satellite!Marked(S)
  PROVE  Satellite!SelectionInv'
BY DEF Satellite!SelectionInv, Satellite!DrawerOfSelection, Satellite!Marked

LEMMA SatelliteStep ==
  ASSUME Satellite!SelectionInv, Satellite!Next
  PROVE  Satellite!SelectionInv'
<1>1. CASE \E s \in Sats : Satellite!Click(s)
  BY <1>1, SatelliteHandled DEF Satellite!Click
<1>2. CASE \E S \in SUBSET Sats, sight \in BOOLEAN : Satellite!SkyApplied(S, sight)
  BY <1>2, SatelliteMarked, SatelliteFrame DEF Satellite!SkyApplied
<1>3. CASE \E found, sight \in BOOLEAN : Satellite!TracksApplied(found, sight)
  BY <1>3, SatelliteHandled, SatelliteMarked, SatelliteFrame DEF Satellite!TracksApplied
<1>4. CASE Satellite!TracksDropped
  BY <1>4, SatelliteFrame DEF Satellite!TracksDropped
<1>5. CASE \E l \in Satellite!Lookup : Satellite!InfoArrives(l)
  <2>1. PICK l : /\ l \in c.lookups
                 /\ c' = IF l.now /\ c.marked = l.about
                           THEN [[c EXCEPT !.lookups = @ \ {l}] EXCEPT !.about = l.about, !.loaded = TRUE]
                           ELSE [c EXCEPT !.lookups = @ \ {l}]
    BY <1>5 DEF Satellite!InfoArrives
  <2>2. /\ DOMAIN c' = DOMAIN c /\ c'.chosen = c.chosen /\ c'.marked = c.marked
        /\ c'.lookups = c.lookups \ {l} /\ (c'.about = c.about \/ (l.now /\ c'.about = l.about))
    BY <2>1 DEF Satellite!SelectionInv
  <2> QED BY <2>1, <2>2 DEF Satellite!SelectionInv, Satellite!DrawerOfSelection
<1> QED BY <1>1, <1>2, <1>3, <1>4, <1>5 DEF Satellite!Next

(***************************************************************************)
(* The selected aircraft: AircraftDetail.                                  *)
(***************************************************************************)
\* What is said of the selected aircraft p: the record d with its texts, while the
\* lookups of L are under way.
DetailTyped(x) ==
  /\ DOMAIN x = {"about", "route", "pending", "live", "panel"} /\ x.pending \in BOOLEAN
DetailText(p, text) ==
  /\ text.route \in {Detail!NoPlane, text.of}
  /\ p # Detail!NoPlane => text.of \in {p, Detail!Elsewhere.of}
DetailOf(p, x, L) ==
  /\ DetailTyped(x)
  /\ \A l \in L : DOMAIN l = {"of", "now"} /\ l.now \in BOOLEAN
  /\ x.about = p
  /\ x.route \in {Detail!NoPlane, p}
  /\ x.pending => x.route = Detail!NoPlane /\ [of |-> p, now |-> TRUE] \in L
  /\ DetailText(p, x.live) /\ DetailText(p, x.panel)

LEMMA DetailParts ==
  /\ Detail!DetailInv <=> DetailOf(c, d, e)
  /\ Detail!DetailInv' <=> DetailOf(c', d', e')
<1> USE DEF Detail!DetailInv, Detail!RouteOfSelected, Detail!TextOfSelected, DetailOf, DetailTyped,
            DetailText
<1>1. Detail!DetailInv <=> DetailOf(c, d, e) OBVIOUS
<1>2. Detail!DetailInv' <=> DetailOf(c', d', e') OBVIOUS
<1> QED BY <1>1, <1>2

LEMMA DetailFrame ==
  ASSUME Detail!DetailInv, UNCHANGED <<c, d, e>>
  PROVE  Detail!DetailInv'
BY DetailParts

LEMMA DetailTexts ==
  ASSUME NEW p, NEW route
  PROVE  /\ Detail!Text(p, route).of = p /\ Detail!Text(p, route).route = route
         /\ \A q : DetailText(q, Detail!Elsewhere)
         /\ DetailText(Detail!NoPlane, Detail!Prompt)
<1>1. Detail!Text(p, route).of = p /\ Detail!Text(p, route).route = route
  BY DEF Detail!Text
<1>2. Detail!Elsewhere.route = Detail!NoPlane BY DEF Detail!Elsewhere, Detail!Text
<1>3. Detail!Prompt.route = Detail!NoPlane BY DEF Detail!Prompt, Detail!Text
<1> QED BY <1>1, <1>2, <1>3 DEF DetailText

\* The panel is refreshed for what is selected now: the same, or nothing.
LEMMA DetailRefreshed ==
  ASSUME NEW p, NEW x, NEW L, DetailOf(p, x, L), NEW q, q = p \/ q = Detail!NoPlane
  PROVE  LET y == Detail!Refreshed(q, x)
         IN  /\ DetailOf(q, y, L) /\ y.panel = x.panel
             /\ q # Detail!NoPlane => y.live = Detail!Text(q, x.route)
<1> DEFINE y == Detail!Refreshed(q, x)
<1>1. CASE q = Detail!NoPlane
  <2>1. /\ DOMAIN y = DOMAIN x /\ y.about = q /\ y.route = Detail!NoPlane /\ y.pending = FALSE
        /\ y.live = x.live /\ y.panel = x.panel
    BY <1>1 DEF Detail!Refreshed, DetailOf, DetailTyped
  <2> HIDE DEF y
  <2>2. DetailText(q, y.live) /\ DetailText(q, y.panel)
    BY <1>1, <2>1 DEF DetailOf, DetailText
  <2>3. DetailOf(q, y, L) BY <1>1, <2>1, <2>2 DEF DetailOf, DetailTyped
  <2> QED BY <1>1, <2>1, <2>3 DEF y
<1>2. CASE q # Detail!NoPlane /\ q = p
  <2> DEFINE text == Detail!Text(q, x.route)
  <2>1. /\ DOMAIN y = DOMAIN x /\ y.about = x.about /\ y.route = x.route /\ (y.pending <=> x.pending)
        /\ y.live = text /\ y.panel = x.panel
    BY <1>2 DEF Detail!Refreshed, DetailOf, DetailTyped
  <2>2. text.of = q /\ text.route = x.route BY DetailTexts
  <2>3. y.pending \in BOOLEAN BY <1>2 DEF Detail!Refreshed, DetailOf, DetailTyped
  <2> HIDE DEF y, text
  <2>4. DetailText(q, y.live) /\ DetailText(q, y.panel)
    BY <1>2, <2>1, <2>2 DEF DetailOf, DetailText
  <2>5. DetailOf(q, y, L) BY <1>2, <2>1, <2>3, <2>4 DEF DetailOf, DetailTyped
  <2> QED BY <2>1, <2>5 DEF y, text
<1> QED BY <1>1, <1>2

LEMMA DetailCopied ==
  ASSUME NEW p, NEW x, NEW L, DetailOf(p, x, L)
  PROVE  DetailOf(p, Detail!Copied(x), L)
<1> DEFINE y == Detail!Copied(x)
<1>1. /\ DOMAIN y = DOMAIN x /\ y.about = x.about /\ y.route = x.route /\ y.pending = x.pending
      /\ y.live = x.live /\ y.panel = x.live
  BY DEF Detail!Copied, DetailOf, DetailTyped
<1> HIDE DEF y
<1>2. DetailOf(p, y, L) BY <1>1 DEF DetailOf, DetailTyped
<1> QED BY <1>2 DEF y

\* A panel that is refreshed for what is selected now.
LEMMA DetailKept ==
  ASSUME Detail!DetailInv, c' = c \/ c' = Detail!NoPlane, d' = Detail!Refreshed(c', d), UNCHANGED e
  PROVE  Detail!DetailInv'
BY DetailParts, DetailRefreshed

\* A selection starts over: what was said of another aircraft is overwritten.
LEMMA DetailStarted ==
  ASSUME NEW x, DetailTyped(x), NEW p, x.about = p, x.route = Detail!NoPlane,
         x.live.route \in {Detail!NoPlane, x.live.of}
  PROVE  LET r == Detail!Copied(Detail!Refreshed(p, x))
         IN  /\ DetailTyped(r) /\ r.about = p /\ r.route = Detail!NoPlane
             /\ r.pending => x.pending
             /\ DetailText(p, r.live) /\ DetailText(p, r.panel)
<1> DEFINE y == Detail!Refreshed(p, x)
           r == Detail!Copied(y)
           text == Detail!Text(p, Detail!NoPlane)
<1>1. DetailText(p, text)
  <2>1. text.of = p /\ text.route = Detail!NoPlane BY DetailTexts
  <2> HIDE DEF text
  <2> QED BY <2>1 DEF DetailText
<1>2. /\ DetailTyped(y) /\ y.about = p /\ y.route = Detail!NoPlane /\ (y.pending => x.pending)
      /\ (p = Detail!NoPlane /\ y.live = x.live) \/ y.live = text
  <2>1. CASE p = Detail!NoPlane
    <3>1. /\ DOMAIN y = DOMAIN x /\ y.about = p /\ y.route = Detail!NoPlane /\ y.pending = FALSE
          /\ y.live = x.live
      BY <2>1 DEF Detail!Refreshed, DetailTyped
    <3> HIDE DEF y
    <3> QED BY <2>1, <3>1 DEF DetailTyped
  <2>2. CASE p # Detail!NoPlane
    <3>1. y = [x EXCEPT !.live = text] BY <2>2 DEF Detail!Refreshed
    <3> HIDE DEF text, y
    <3>2. /\ DOMAIN y = DOMAIN x /\ y.about = p /\ y.route = Detail!NoPlane
          /\ (y.pending <=> x.pending) /\ y.pending \in BOOLEAN /\ y.live = text
      BY <3>1 DEF DetailTyped
    <3> QED BY <3>2 DEF DetailTyped
  <2> QED BY <2>1, <2>2
<1> HIDE DEF y, text
<1>3. /\ DOMAIN r = DOMAIN y /\ r.about = y.about /\ r.route = y.route
      /\ (r.pending <=> y.pending) /\ r.pending \in BOOLEAN
      /\ r.live = y.live /\ r.panel = y.live
  BY <1>2 DEF Detail!Copied, DetailTyped
<1>4. DetailText(p, y.live) BY <1>1, <1>2 DEF DetailText
<1> HIDE DEF r
<1> QED BY <1>2, <1>3, <1>4 DEF DetailTyped, r, y

LEMMA DetailSelected ==
  ASSUME Detail!DetailInv, NEW p, Detail!Selected(p)
  PROVE  Detail!DetailInv'
<1> DEFINE started(k) == [d EXCEPT !.about = p, !.route = Detail!NoPlane, !.pending = k]
<1>1. PICK k \in BOOLEAN :
        /\ c' = p /\ d' = Detail!Copied(Detail!Refreshed(p, started(k)))
        /\ e' = Detail!Superseded \cup (IF k THEN {[of |-> p, now |-> TRUE]} ELSE {})
  BY DEF Detail!Selected
<1> DEFINE x == started(k)
<1>2. DetailOf(c, d, e) BY DetailParts
<1>3. /\ DOMAIN x = DOMAIN d /\ x.about = p /\ x.route = Detail!NoPlane /\ (x.pending <=> k)
      /\ x.pending \in BOOLEAN /\ x.live = d.live
  BY <1>2 DEF DetailOf, DetailTyped
<1>4. d' = Detail!Copied(Detail!Refreshed(p, x)) BY <1>1
<1> HIDE DEF x
<1>5. DetailTyped(x) /\ x.live.route \in {Detail!NoPlane, x.live.of}
  BY <1>2, <1>3 DEF DetailOf, DetailTyped, DetailText
<1>6. /\ DetailTyped(d') /\ d'.about = p /\ d'.route = Detail!NoPlane
      /\ d'.pending => k
      /\ DetailText(p, d'.live) /\ DetailText(p, d'.panel)
  BY <1>3, <1>4, <1>5, DetailStarted
<1>8. \A l \in Detail!Superseded : DOMAIN l = {"of", "now"} /\ l.now = FALSE
  BY <1>2 DEF DetailOf, Detail!Superseded
<1>9. \A l \in e' : DOMAIN l = {"of", "now"} /\ l.now \in BOOLEAN
  <2> SUFFICES ASSUME NEW l \in e' PROVE DOMAIN l = {"of", "now"} /\ l.now \in BOOLEAN
    OBVIOUS
  <2>1. CASE l \in Detail!Superseded BY <1>8, <2>1
  <2>2. CASE l \notin Detail!Superseded
    <3>1. l = [of |-> p, now |-> TRUE] BY <1>1, <2>2
    <3> QED BY <3>1
  <2> QED BY <2>1, <2>2
<1>10. k => [of |-> p, now |-> TRUE] \in e' BY <1>1
<1>11. DetailOf(p, d', e') BY <1>6, <1>9, <1>10 DEF DetailOf
<1> QED BY <1>1, <1>11, DetailParts

\* A lookup ends: of the selected aircraft or another, of this selection or an older one.
LEMMA DetailRoute ==
  ASSUME Detail!DetailInv, NEW l, Detail!RouteArrives(l)
  PROVE  Detail!DetailInv'
<1> DEFINE text == Detail!Text(l.of, l.of)
           found == [d EXCEPT !.about = l.of, !.route = l.of, !.pending = FALSE, !.live = text]
           x == IF l.now THEN found ELSE d
<1>1. /\ l \in e /\ e' = e \ {l} /\ c' = c
      /\ d' = IF c # l.of THEN d ELSE Detail!Refreshed(c, Detail!Copied(x))
  BY DEF Detail!RouteArrives
<1>2. DetailOf(c, d, e) BY DetailParts
<1>3. CASE c # l.of
  <2>1. l # [of |-> c, now |-> TRUE] BY <1>3
  <2>2. DetailOf(c, d, e') BY <1>1, <1>2, <2>1 DEF DetailOf
  <2> QED BY <1>1, <1>3, <2>2, DetailParts
<1>4. CASE c = l.of
  <2>1. DetailOf(c, x, e')
    <3>1. CASE l.now
      <4>1. /\ DOMAIN found = DOMAIN d /\ found.about = l.of /\ found.route = l.of
            /\ found.pending = FALSE /\ found.live = text /\ found.panel = d.panel
        BY <1>2 DEF DetailOf, DetailTyped
      <4>2. text.of = l.of /\ text.route = l.of BY DetailTexts
      <4> HIDE DEF found, text
      <4>3. DetailText(c, text) BY <1>4, <4>2 DEF DetailText
      <4>4. DetailOf(c, found, e')
        BY <1>1, <1>2, <1>4, <4>1, <4>3 DEF DetailOf, DetailTyped
      <4> QED BY <3>1, <4>4
    <3>2. CASE ~l.now
      <4>1. l # [of |-> c, now |-> TRUE] BY <3>2
      <4>2. DetailOf(c, d, e') BY <1>1, <1>2, <4>1 DEF DetailOf
      <4> QED BY <3>2, <4>2
    <3> QED BY <3>1, <3>2
  <2> HIDE DEF x
  <2>2. DetailOf(c, Detail!Copied(x), e') BY <2>1, DetailCopied
  <2>3. DetailOf(c, Detail!Refreshed(c, Detail!Copied(x)), e') BY <2>2, DetailRefreshed
  <2> QED BY <1>1, <1>4, <2>3, DetailParts
<1> QED BY <1>3, <1>4

LEMMA DetailStep ==
  ASSUME Detail!DetailInv, Detail!Next
  PROVE  Detail!DetailInv'
<1>0. DetailOf(c, d, e) BY DetailParts
<1>1. CASE \/ \E n, q \in SUBSET Planes : Detail!ContactsArrive(n, q)
           \/ \E q \in SUBSET Planes : Detail!FilterChanged(q)
           \/ Detail!ContactsHeld
           \/ Detail!PlaceGone
           \/ Detail!PanelTick
           \/ \E k \in BOOLEAN : Detail!LayerChanged(k)
  <2>1. (c' = c \/ c' = Detail!NoPlane) /\ d' = Detail!Refreshed(c', d) /\ UNCHANGED e
    BY <1>1
    DEF Detail!ContactsArrive, Detail!FilterChanged, Detail!ContactsHeld, Detail!PlaceGone,
        Detail!PanelTick, Detail!LayerChanged, Detail!SetAircraft, Detail!Remaining
  <2> QED BY <2>1, DetailKept
<1>2. CASE Detail!PlaceChosen
  <2> DEFINE y == Detail!Refreshed(Detail!NoPlane, d)
             z == [y EXCEPT !.panel = Detail!Prompt]
  <2>1. c' = Detail!NoPlane /\ d' = z /\ e' = Detail!Superseded
    BY <1>2 DEF Detail!PlaceChosen
  <2>2. \A l \in e' : DOMAIN l = {"of", "now"} /\ l.now = FALSE
    BY <1>0, <2>1 DEF DetailOf, Detail!Superseded
  <2>3. DetailOf(Detail!NoPlane, y, e) BY <1>0, DetailRefreshed
  <2>4. y.pending = FALSE BY <1>0 DEF Detail!Refreshed, DetailOf, DetailTyped
  <2> HIDE DEF y
  <2>5. /\ DOMAIN z = DOMAIN y /\ z.about = y.about /\ z.route = y.route /\ z.pending = y.pending
        /\ z.live = y.live /\ z.panel = Detail!Prompt
    BY <2>3 DEF DetailOf, DetailTyped
  <2> HIDE DEF z
  <2>6. DetailOf(Detail!NoPlane, z, e')
    BY <2>2, <2>3, <2>4, <2>5, DetailTexts DEF DetailOf, DetailTyped
  <2> QED BY <2>1, <2>6, DetailParts
<1>3. CASE \E p \in Planes : Detail!Click(p) \/ Detail!TableSelected(p)
  <2>1. PICK p \in Planes : Detail!Selected(p)
    BY <1>3 DEF Detail!Click, Detail!TableSelected
  <2> QED BY <2>1, DetailSelected
<1>4. CASE \E l \in Detail!Lookup : Detail!RouteArrives(l)
  BY <1>4, DetailRoute
<1>5. CASE \E k \in BOOLEAN : Detail!FollowSet(k)
  <2>1. c' = c /\ e' = e /\ (d' = d \/ d' = Detail!Refreshed(c', d))
    BY <1>5 DEF Detail!FollowSet
  <2> QED BY <2>1, DetailFrame, DetailKept
<1>6. CASE Detail!OtherSaid
  <2>1. c' = c /\ e' = e /\ d' = [d EXCEPT !.live = Detail!Elsewhere]
    BY <1>6 DEF Detail!OtherSaid
  <2>2. /\ DOMAIN d' = DOMAIN d /\ d'.about = d.about /\ d'.route = d.route
        /\ d'.pending = d.pending /\ d'.live = Detail!Elsewhere /\ d'.panel = d.panel
    BY <1>0, <2>1 DEF DetailOf, DetailTyped
  <2>3. DetailOf(c, d', e) BY <1>0, <2>2, DetailTexts DEF DetailOf, DetailTyped
  <2> QED BY <2>1, <2>3, DetailParts
<1> QED BY <1>1, <1>2, <1>3, <1>4, <1>5, <1>6 DEF Detail!Next

(***************************************************************************)
(* The panels together: what each rests on holds from the start and is     *)
(* kept by every step of the behaviour that chose it.                      *)
(***************************************************************************)
DesktopInv ==
  /\ slice = "layers" => Layers!LayersInv
  /\ slice = "sky" => Sky!SkyInv
  /\ slice = "forecast" => Forecast!ForecastInv
  /\ slice = "map" => Map!MapInv
  /\ slice = "aircraft" => Aircraft!AircraftInv
  /\ slice = "satellite" => Satellite!SelectionInv
  /\ slice = "detail" => Detail!DetailInv

LEMMA OnePlace ==
  ASSUME NEW p \in Profile, profiles = <<p>>, selected = p.name, saved = "always"
  PROVE  PlacesInv /\ Find(profiles, selected) = p
<1>1. profiles \in Seq(Profile) /\ DOMAIN profiles = {1} /\ profiles[1] = p OBVIOUS
<1>2. Positions(profiles, selected) = {1} BY <1>1 DEF Positions
<1>3. FirstOf({1}) = 1 BY Least
<1> QED BY <1>1, <1>2, <1>3 DEF PlacesInv, Find

LEMMA LayersInit == Layers!Init => Layers!LayersInv
<1> SUFFICES ASSUME Layers!Init PROVE Layers!LayersInv
  OBVIOUS
<1>1. PICK p \in Profile : profiles = <<p>> /\ selected = p.name /\ saved = "always"
  BY LayersEvents DEF Layers!Init
<1>2. PlacesInv BY <1>1, OnePlace
<1>3. StarsTyped(Layers!NoStars) /\ Layers!NoStars.shown = NoPlace
  BY LayersPlaces DEF StarsTyped, Layers!NoStars
<1>4. TerrainTyped(Layers!NoTerrain)
  BY LayersPlaces DEF TerrainTyped, Layers!NoTerrain
<1>5. StarsTyped(a) /\ a.shown = NoPlace BY <1>3, StarsKept DEF Layers!Init
<1>6. TerrainTyped(b) /\ TerrainServes(b, Find(profiles, selected), selected)
  BY <1>4, TerrainFollows DEF Layers!Init
<1> QED BY <1>2, <1>5, <1>6, LayersParts DEF StarsTyped

LEMMA SkyInit == Sky!Init => Sky!SkyInv
<1> SUFFICES ASSUME Sky!Init PROVE Sky!SkyInv
  OBVIOUS
<1>1. PICK p \in Profile : profiles = <<p>> /\ selected = p.name /\ saved = "always"
  BY SkyEvents DEF Sky!Init
<1>2. PlacesInv BY <1>1, OnePlace
<1>3. SkyTyped(a) BY DEF Sky!Init, SkyTyped
<1>4. TracksTyped(b) BY DEF Sky!Init, TracksTyped
<1> QED BY <1>2, <1>3, <1>4, SkyParts

LEMMA ForecastInit == Forecast!Init => Forecast!ForecastInv
<1> SUFFICES ASSUME Forecast!Init PROVE Forecast!ForecastInv
  OBVIOUS
<1>1. PICK p \in Profile :
        /\ profiles = <<p>> /\ selected = p.name /\ saved = "always"
        /\ b = [shown |-> Forecast!NoPlace, timer |-> TRUE, loads |-> {[at |-> p, now |-> TRUE]}]
  BY DEF Forecast!Init, Forecast!Profile, Profile
<1>2. Forecast!Here = p
  BY <1>1, OnePlace
  DEF Forecast!Here, Forecast!Find, Forecast!Positions, Forecast!FirstOf, Forecast!NoPlace,
      Forecast!NoName, Find, Positions, FirstOf, NoPlace, NoName
<1>3. p # Forecast!NoPlace BY ForecastPlace DEF Forecast!Profile, Profile
<1>4. c = [rows |-> Forecast!NoRows, loads |-> {}] BY DEF Forecast!Init
<1>5. Forecast!NoRows.of = Forecast!NoRows.at BY DEF Forecast!NoRows
<1>6. /\ DOMAIN b = {"shown", "timer", "loads"} /\ b.timer = TRUE
      /\ b.shown = Forecast!NoPlace /\ b.loads = {[at |-> p, now |-> TRUE]}
  BY <1>1
<1>7. \A l \in b.loads : DOMAIN l = {"at", "now"} /\ l.now = TRUE /\ l.at = p
  BY <1>6
<1>8. DOMAIN c = {"rows", "loads"} /\ c.loads = {} /\ c.rows.of = c.rows.at
  BY <1>4, <1>5
<1>9. ForecastTyped(b, c) BY <1>6, <1>7, <1>8 DEF ForecastTyped
<1> QED BY <1>2, <1>3, <1>6, <1>7, <1>8, <1>9, ForecastParts DEF ForecastOf, ForecastSettled

LEMMA MapInit == Map!Init => Map!MapInv
<1> SUFFICES ASSUME Map!Init PROVE Map!MapInv
  OBVIOUS
<1>1. PICK p \in Map!Profile :
        a = [shown |-> Map!NoPlace, source |-> Map!NoPlace, cramped |-> FALSE,
             caption |-> "loading", loads |-> {[at |-> p, now |-> TRUE, future |-> FALSE]}]
  BY DEF Map!Init
<1> DEFINE load == [at |-> p, now |-> TRUE, future |-> FALSE]
<1>2. /\ DOMAIN a = {"shown", "source", "cramped", "caption", "loads"} /\ a.caption = "loading"
      /\ a.loads = {load}
  BY <1>1
<1>3. DOMAIN load = {"at", "now", "future"} /\ load.now = TRUE OBVIOUS
<1>4. /\ DOMAIN b = {"idle", "playing", "job", "index"}
      /\ b.playing = FALSE /\ b.job = FALSE
  BY DEF Map!Init
<1> HIDE DEF load
<1> QED BY <1>2, <1>3, <1>4 DEF Map!MapInv, Map!PlaybackAlive, Map!CaptionTrue

LEMMA AircraftInit == Aircraft!Init => Aircraft!AircraftInv
<1> SUFFICES ASSUME Aircraft!Init PROVE Aircraft!AircraftInv
  OBVIOUS
<1>1. PICK p : a = [busy |-> TRUE, job |-> FALSE, stray |-> FALSE, loads |-> {Aircraft!Asking(p)}]
  BY DEF Aircraft!Init
<1>2. AirLoad(Aircraft!Asking(p)) /\ Aircraft!Asking(p).now = TRUE
  BY DEF AirLoad, Aircraft!Asking, Aircraft!NoContacts
<1> QED BY <1>1, <1>2, AircraftInvOf DEF AirAlive, AirWorker

LEMMA SatelliteInit == Satellite!Init => Satellite!SelectionInv
BY DEF Satellite!Init, Satellite!SelectionInv, Satellite!DrawerOfSelection

LEMMA DetailInit == Detail!Init => Detail!DetailInv
<1> SUFFICES ASSUME Detail!Init PROVE Detail!DetailInv
  OBVIOUS
<1>1. /\ DOMAIN d = {"about", "route", "pending", "live", "panel"}
      /\ d.about = Detail!NoPlane /\ d.route = Detail!NoPlane /\ d.pending = FALSE
      /\ d.live = Detail!Elsewhere /\ d.panel = Detail!Prompt
      /\ c = Detail!NoPlane /\ e = {}
  BY DEF Detail!Init
<1> QED BY <1>1, DetailTexts, DetailParts DEF DetailOf, DetailTyped

LEMMA DesktopInit == Init => DesktopInv
BY LayersInit, SkyInit, ForecastInit, MapInit, AircraftInit, SatelliteInit, DetailInit
DEF Init, DesktopInv

LEMMA LayersFrame ==
  ASSUME Layers!LayersInv, UNCHANGED <<profiles, selected, saved, a, b>>
  PROVE  Layers!LayersInv'
BY LayersParts DEF PlacesInv, Positions, Told

LEMMA SkyFrame ==
  ASSUME Sky!SkyInv, UNCHANGED <<profiles, selected, saved, a, b>>
  PROVE  Sky!SkyInv'
BY SkyParts DEF PlacesInv, Positions

LEMMA DesktopStep ==
  ASSUME DesktopInv, [Next]_vars
  PROVE  /\ DesktopInv'
         /\ [slice = "sky" => Sky!KeepsRefreshing]_vars
         /\ [slice = "aircraft" => Aircraft!ShownLiveHere]_vars
<1>1. slice' = slice BY DEF Next, vars
<1>2. CASE UNCHANGED vars
  BY <1>2, LayersFrame, SkyFrame, ForecastFrame, MapFrame, AircraftInvOf, SatelliteFrame,
     DetailFrame DEF DesktopInv, vars
<1>3. CASE Next
  <2>1. slice = "layers" => Layers!LayersInv' BY <1>3, LayersStep DEF Next, DesktopInv
  <2>2. slice = "sky" => Sky!SkyInv' /\ Sky!KeepsRefreshing
    BY <1>3, SkyRefreshStep DEF Next, DesktopInv
  <2>3. slice = "forecast" => Forecast!ForecastInv' BY <1>3, ForecastStep DEF Next, DesktopInv
  <2>4. slice = "map" => Map!MapInv' BY <1>3, MapStep DEF Next, DesktopInv
  <2>5. slice = "aircraft" => Aircraft!AircraftInv' /\ Aircraft!ShownLiveHere
    BY <1>3, AircraftStep DEF Next, DesktopInv
  <2>6. slice = "satellite" => Satellite!SelectionInv'
    BY <1>3, SatelliteStep DEF Next, DesktopInv
  <2>7. slice = "detail" => Detail!DetailInv' BY <1>3, DetailStep DEF Next, DesktopInv
  <2> QED BY <1>1, <2>1, <2>2, <2>3, <2>4, <2>5, <2>6, <2>7 DEF DesktopInv
<1> QED BY <1>2, <1>3

\* What is shown as the selected place's is of that place, coordinates and all,
\* whatever was edited, chosen or deleted while the threads worked, once the last
\* change has been saved: the stars, the horizon kept for the skyline, the rows of a
\* planner once they have caught up with the weather shown, the picture of the map.
THEOREM PanelsShowTheirPlace == Spec => []ShownIsOfPlace
<1>1. DesktopInv => ShownIsOfPlace
  BY DEF DesktopInv, ShownIsOfPlace, Layers!LayersInv, Forecast!ForecastInv, Map!MapInv
<1> QED BY <1>1, DesktopInit, DesktopStep, PTL DEF Spec

\* Nothing is left standing: a change of place reaches the terrain and the forecast
\* panels, the playback goes on, the aircraft keep being refreshed by one timer, and
\* a prediction that waits has one running that will start or drop it.
THEOREM NothingIsLeftStanding == Spec => []NothingStranded
<1>1. DesktopInv => NothingStranded
  BY DEF DesktopInv, NothingStranded, Layers!LayersInv, Forecast!ForecastInv, Map!MapInv,
         Aircraft!AircraftInv, Sky!SkyInv
<1> QED BY <1>1, DesktopInit, DesktopStep, PTL DEF Spec

\* The drawer is about the selected satellite; the route kept is the selected
\* aircraft's, and no text, in the summary or in the panel it is copied into, is about
\* another aircraft or gives one another's route, however late the lookups answer.
THEOREM DetailsAreOfTheSelected == Spec => []DetailOfSelected
<1>1. DesktopInv => DetailOfSelected
  BY DEF DesktopInv, DetailOfSelected, Satellite!SelectionInv, Detail!DetailInv
<1> QED BY <1>1, DesktopInit, DesktopStep, PTL DEF Spec

\* A refresh of the satellites is never lost: no event of the user, no result and
\* no failure leaves a selected place with neither a load nor a timer.
THEOREM RefreshesGoOn == Spec => RefreshNotDropped
BY DesktopInit, DesktopStep, PTL DEF Spec, RefreshNotDropped

\* Contacts shown as live were asked for at the selected place and answered for it.
THEOREM LiveContactsAreOfPlace == Spec => LiveIsOfPlace
BY DesktopInit, DesktopStep, PTL DEF Spec, LiveIsOfPlace
=============================================================================
