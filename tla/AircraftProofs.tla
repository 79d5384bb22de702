--------------------------- MODULE AircraftProofs ---------------------------
(***************************************************************************)
(* Proofs about AircraftSnapshotCache and AircraftApi for every set of     *)
(* threads and keys and every value of the durations and bounds.           *)
(***************************************************************************)
EXTENDS AircraftApi, FiniteSetTheorems, FunctionTheorems, TLAPS

(***************************************************************************)
(* The cache alone.                                                        *)
(*                                                                         *)
(* The invariants of the runs are not inductive.  IInv adds what the code  *)
(* relies on silently: an entry marked loading has a live loader of that   *)
(* key, a loader still owns its entry, what a loader carries is dated, and *)
(* a loader that found no fallback leaves none behind in the entry.        *)
(***************************************************************************)
OwnerLoads ==
  \A k \in DOMAIN entries : entries[k].owner # None =>
    /\ pc[entries[k].owner] \in Loading
    /\ key[entries[k].owner] = k

LoaderOwns == ~ClearEnabled => \A t \in Threads : pc[t] \in Loading => Owns(t)

WaiterServed == \A t \in Threads : pc[t] = "waiting" => LoadingIn(entries, key[t])

Coordination == OwnerLoads /\ LoaderOwns /\ WaiterServed

EntriesDated ==
  \A k \in DOMAIN entries : entries[k].snap # None /\ ~entries[k].fb =>
    entries[k].expires = entries[k].snap.born + Ttl

CarriedDated ==
  \A t \in Threads :
    /\ fallback[t] # None => fallback[t].ok
    /\ pc[t] = "publishing" =>
         /\ fetched[t] \in Fetched
         /\ ~fetched[t].fb => fetched[t].at = fetched[t].snap.born
         /\ ~fetched[t].snap.ok => fallback[t] = None

NothingOverlooked ==
  \A t \in Threads :
    pc[t] \in Loading /\ Owns(t) /\ fallback[t] = None =>
      entries[key[t]].good = None \/ entries[key[t]].goodExpires <= now

Dating ==
  /\ EntriesDated
  /\ CarriedDated
  /\ NothingOverlooked
  /\ HitIsFresh
  /\ LastGoodNotRenewed
  /\ UnavailableOnlyWithoutFallback

IInv == TypeOK /\ Coordination /\ Dating

(***************************************************************************)
(* Pruning and trimming only drop idle entries.                            *)
(***************************************************************************)
SubCache(es, base) ==
  /\ DOMAIN es \subseteq DOMAIN base
  /\ es = [k \in DOMAIN es |-> base[k]]
  /\ \A k \in DOMAIN base : base[k].owner # None => k \in DOMAIN es

\* _prune_locked drops idle entries and changes no other.
LEMMA PrunedSub == SubCache(Pruned, entries)
BY DEF SubCache, Pruned, Restrict, Retained

\* _trim_locked drops idle entries other than the protected one and changes no other.
LEMMA TrimmedSub ==
  ASSUME NEW es, NEW k, NEW r \in Trimmed(es, k)
  PROVE  SubCache(r, es) /\ (k \in DOMAIN es => k \in DOMAIN r)
<1> DEFINE idle == {j \in DOMAIN es \ {k} : es[j].owner = None}
<1>1. PICK V \in SUBSET idle : r = Restrict(es, DOMAIN es \ V)
  BY Zenon DEF Trimmed
<1>2. DOMAIN r = DOMAIN es \ V /\ r = [j \in DOMAIN es \ V |-> es[j]]
  BY <1>1 DEF Restrict
<1> QED BY <1>2 DEF SubCache

\* A sub-cache of a well typed cache is well typed.
LEMMA SubCacheType ==
  ASSUME NEW es, NEW r, es \in [DOMAIN es -> Entry], DOMAIN es \subseteq Keys,
         SubCache(r, es)
  PROVE  r \in [DOMAIN r -> Entry] /\ DOMAIN r \subseteq Keys
BY DEF SubCache

\* What a loader publishes has the type of an entry.
LEMMA FilledType ==
  ASSUME NEW e \in Entry, NEW f \in Fetched
  PROVE  Filled(e, f) \in Entry
BY CacheAssumption DEF Filled, Entry, Fetched

(***************************************************************************)
(* Type correctness.                                                       *)
(***************************************************************************)
LEMMA InitType == Init => TypeOK
BY DEF Init, TypeOK, Phases, Loading, Entry

LEMMA StepType == IInv /\ [Next]_vars => TypeOK'
<1> SUFFICES ASSUME IInv, [Next]_vars PROVE TypeOK'
  OBVIOUS
<1>0. TypeOK BY DEF IInv
<1>p. Pruned \in [DOMAIN Pruned -> Entry] /\ DOMAIN Pruned \subseteq Keys
  BY <1>0, PrunedSub, SubCacheType DEF TypeOK
<1>1. ASSUME NEW t \in Threads, NEW k \in Keys, Call(t, k) PROVE TypeOK'
  BY <1>0, <1>1 DEF TypeOK, Call, Phases
<1>2. ASSUME NEW t \in Threads, Hit(t) PROVE TypeOK'
  <2> DEFINE r == [snap |-> Pruned[key[t]].snap, hit |-> TRUE, fb |-> Pruned[key[t]].fb, at |-> now]
  <2>1. key[t] \in DOMAIN Pruned BY <1>2 DEF Hit, LiveIn
  <2>2. r \in Result BY <1>0, <1>p, <2>1 DEF Entry, Result, TypeOK
  <2> QED BY <1>0, <1>p, <1>2, <2>2 DEF TypeOK, Hit, Phases
<1>3. ASSUME NEW t \in Threads, Wait(t) PROVE TypeOK'
  BY <1>0, <1>p, <1>3 DEF TypeOK, Wait, Phases
<1>4. ASSUME NEW t \in Threads, BeginLoad(t) PROVE TypeOK'
  <2> DEFINE old == IF key[t] \in DOMAIN Pruned THEN Pruned[key[t]] ELSE NewEntry
             new == [snap |-> None, expires |-> 0, owner |-> t, fb |-> FALSE,
                     good |-> old.good, goodExpires |-> old.goodExpires]
  <2>0. key[t] \in Keys BY <1>0 DEF TypeOK
  <2>1. old \in Entry BY <1>p DEF NewEntry, Entry
  <2>2. new \in Entry BY <2>1 DEF Entry
  <2>3. UsableGood(Pruned, key[t]) \in Snapshot \cup {None}
    BY <1>p DEF UsableGood, Entry
  <2>4. entries' = [j \in DOMAIN Pruned \cup {key[t]} |-> IF j = key[t] THEN new ELSE Pruned[j]]
    BY <1>4 DEF BeginLoad
  <2>5. entries' \in [DOMAIN entries' -> Entry] /\ DOMAIN entries' \subseteq Keys
    <3> HIDE DEF new
    <3> QED BY <1>p, <2>0, <2>2, <2>4
  <2>6. fallback' \in [Threads -> Snapshot \cup {None}] /\ pc' \in [Threads -> Phases]
    BY <1>0, <1>4, <2>3 DEF BeginLoad, TypeOK, Phases, Loading
  <2> QED BY <1>0, <1>4, <2>5, <2>6 DEF TypeOK, BeginLoad
<1>5. ASSUME NEW t \in Threads, NEW ok \in BOOLEAN, FetchReturns(t, ok) PROVE TypeOK'
  <2> DEFINE live == [key |-> key[t], born |-> now, ok |-> ok]
             useFb == ~ok /\ fallback[t] # None
             f == [snap |-> IF useFb THEN fallback[t] ELSE live, at |-> now, fb |-> useFb]
  <2>1. live \in Snapshot BY <1>0 DEF TypeOK, Snapshot
  <2>2. f \in Fetched
    <3> HIDE DEF live
    <3> QED BY <1>0, <2>1 DEF TypeOK, Fetched
  <2>3. fetched' = [fetched EXCEPT ![t] = f] BY <1>5 DEF FetchReturns
  <2> HIDE DEF f
  <2> QED BY <1>0, <1>5, <2>2, <2>3 DEF TypeOK, FetchReturns, Phases, Loading
<1>6. ASSUME NEW t \in Threads, FetchRaises(t) PROVE TypeOK'
  BY <1>0, <1>6 DEF TypeOK, FetchRaises, Phases, Loading
<1>7. ASSUME NEW t \in Threads, Publish(t) PROVE TypeOK'
  <2> DEFINE f == fetched[t]
             full == IF Owns(t) THEN [entries EXCEPT ![key[t]] = Filled(@, f)] ELSE entries
             r == [snap |-> f.snap, hit |-> FALSE, fb |-> f.fb, at |-> f.at]
  <2>1. f \in Fetched
    BY <1>0, <1>7 DEF IInv, Dating, CarriedDated, TypeOK, Publish
  <2>2. full \in [DOMAIN full -> Entry] /\ DOMAIN full \subseteq Keys
    <3>1. CASE Owns(t)
      <4>1. key[t] \in DOMAIN entries /\ entries[key[t]] \in Entry
        BY <1>0, <3>1 DEF Owns, TypeOK
      <4>2. Filled(entries[key[t]], f) \in Entry BY <2>1, <4>1, FilledType
      <4> HIDE DEF f
      <4> QED BY <1>0, <3>1, <4>1, <4>2 DEF TypeOK
    <3>2. CASE ~Owns(t) BY <1>0, <3>2 DEF TypeOK
    <3> QED BY <3>1, <3>2
  <2>3. entries' \in Trimmed(full, key[t]) BY <1>7 DEF Publish
  <2>4. entries' \in [DOMAIN entries' -> Entry] /\ DOMAIN entries' \subseteq Keys
    <3> HIDE DEF full
    <3> QED BY <2>2, <2>3, TrimmedSub, SubCacheType
  <2>5. r \in Result BY <2>1 DEF Fetched, Result
  <2>6. result' = [result EXCEPT ![t] = r] BY <1>7 DEF Publish
  <2>7. pc' \in [Threads -> Phases]
    BY <1>0, <1>7 DEF Publish, Awakened, TypeOK, Phases
  <2> HIDE DEF r
  <2> QED BY <1>0, <1>7, <2>4, <2>5, <2>6, <2>7 DEF TypeOK, Publish
<1>8. ASSUME NEW t \in Threads, Abandon(t) PROVE TypeOK'
  <2>1. entries' \in [DOMAIN entries' -> Entry] /\ DOMAIN entries' \subseteq Keys
    <3>1. \A e \in Entry : Unloaded(e) \in Entry BY DEF Unloaded, Entry
    <3> QED BY <1>0, <1>8, <3>1 DEF Abandon, Owns, TypeOK
  <2>2. pc' \in [Threads -> Phases]
    BY <1>0, <1>8 DEF Abandon, Awakened, TypeOK, Phases
  <2>3. result' \in [Threads -> Result \cup {None}]
    BY <1>0, <1>8 DEF Abandon, TypeOK, Result
  <2> QED BY <1>0, <1>8, <2>1, <2>2, <2>3 DEF TypeOK, Abandon
<1>9. ASSUME NEW t \in Threads, Respond(t) PROVE TypeOK'
  BY <1>0, <1>9 DEF TypeOK, Respond, Phases
<1>10. CASE Clear
  <2>1. pc' \in [Threads -> Phases] BY <1>0, <1>10 DEF Clear, Awakened, TypeOK, Phases
  <2>2. entries' \in [DOMAIN entries' -> Entry] /\ DOMAIN entries' \subseteq Keys
    BY <1>10 DEF Clear
  <2> QED BY <1>0, <1>10, <2>1, <2>2 DEF TypeOK, Clear
<1>11. CASE Tick BY <1>0, <1>11 DEF TypeOK, Tick
<1>12. CASE AllServed \/ UNCHANGED vars BY <1>0, <1>12 DEF TypeOK, AllServed, vars
<1> QED
  BY <1>1, <1>2, <1>3, <1>4, <1>5, <1>6, <1>7, <1>8, <1>9, <1>10, <1>11, <1>12
  DEF Next, Step

(***************************************************************************)
(* Coordination: loading entries and loaders correspond.                   *)
(***************************************************************************)
\* A step that moves no thread into or out of a load, or to waiting, and only
\* prunes the entries keeps the correspondence.
LEMMA CoordinationFrame ==
  ASSUME IInv, SubCache(entries', entries),
         pc' \in [Threads -> Phases], key' \in [Threads -> Keys],
         \A t \in Threads : pc'[t] \in Loading <=> pc[t] \in Loading,
         \A t \in Threads : pc[t] \in Loading => key'[t] = key[t],
         \A t \in Threads : pc'[t] = "waiting" =>
           (pc[t] = "waiting" /\ key'[t] = key[t]) \/ LoadingIn(entries', key'[t])
  PROVE  Coordination'
<1> USE DEF IInv, Coordination, SubCache
<1>1. OwnerLoads' BY DEF OwnerLoads, TypeOK, Entry
<1>2. LoaderOwns' BY CacheAssumption DEF LoaderOwns, Owns
<1>3. WaiterServed' BY DEF WaiterServed, LoadingIn
<1> QED BY <1>1, <1>2, <1>3

LEMMA StepCoordination == IInv /\ TypeOK' /\ [Next]_vars => Coordination'
<1> SUFFICES ASSUME IInv, TypeOK', [Next]_vars PROVE Coordination'
  OBVIOUS
<1>t. TypeOK BY DEF IInv
<1>i. SubCache(entries, entries) BY <1>t DEF SubCache, TypeOK
<1>p. SubCache(Pruned, entries) BY PrunedSub
<1>c. Coordination BY DEF IInv
<1>n. None \notin Threads BY CacheAssumption
<1>1. ASSUME NEW t \in Threads, NEW k \in Keys, Call(t, k) PROVE Coordination'
  BY <1>t, <1>i, <1>1, CoordinationFrame DEF TypeOK, Call, Loading
<1>2. ASSUME NEW t \in Threads, Hit(t) PROVE Coordination'
  BY <1>t, <1>p, <1>2, CoordinationFrame DEF TypeOK, Hit, Loading
<1>3. ASSUME NEW t \in Threads, Wait(t) PROVE Coordination'
  BY <1>t, <1>p, <1>3, CoordinationFrame DEF TypeOK, Wait, Loading, LoadingIn
<1>4. ASSUME NEW t \in Threads, BeginLoad(t) PROVE Coordination'
  <2>1. DOMAIN entries' = DOMAIN Pruned \cup {key[t]} /\ entries'[key[t]].owner = t
    BY <1>4 DEF BeginLoad
  <2>2. \A k \in DOMAIN Pruned \ {key[t]} : entries'[k] = entries[k]
    BY <1>4, <1>p DEF BeginLoad, SubCache
  <2>3. key[t] \in DOMAIN entries => entries[key[t]].owner = None
    BY <1>4, <1>p DEF BeginLoad, LoadingIn, SubCache
  <2>4. pc' = [pc EXCEPT ![t] = "fetching"] /\ key' = key /\ pc[t] = "lookup"
    BY <1>4 DEF BeginLoad
  <2>5. OwnerLoads'
    <3> SUFFICES ASSUME NEW k \in DOMAIN entries', entries'[k].owner # None
                 PROVE  pc'[entries'[k].owner] \in Loading /\ key'[entries'[k].owner] = k
      BY DEF OwnerLoads
    <3>1. CASE k = key[t]
      BY <1>t, <2>1, <2>4, <3>1 DEF TypeOK, Loading
    <3>2. CASE k # key[t]
      <4>1. k \in DOMAIN entries /\ entries'[k] = entries[k]
        BY <1>p, <2>1, <2>2, <3>2 DEF SubCache
      <4>2. entries[k].owner \in Threads BY <1>t, <4>1 DEF TypeOK, Entry
      <4> QED BY <1>t, <1>c, <2>4, <4>1, <4>2 DEF Coordination, OwnerLoads, TypeOK, Loading
    <3> QED BY <3>1, <3>2
  <2>6. LoaderOwns'
    <3> SUFFICES ASSUME ~ClearEnabled, NEW s \in Threads, pc'[s] \in Loading
                 PROVE  key[s] \in DOMAIN entries' /\ entries'[key[s]].owner = s
      BY <2>4 DEF LoaderOwns, Owns
    <3>1. CASE s = t BY <2>1, <3>1
    <3>2. CASE s # t
      <4>1. key[s] \in DOMAIN entries /\ entries[key[s]].owner = s
        BY <1>t, <1>c, <2>4, <3>2 DEF Coordination, LoaderOwns, Owns, TypeOK
      <4>2. key[s] # key[t] BY <1>n, <2>3, <4>1
      <4> QED BY <1>n, <1>p, <2>1, <2>2, <4>1, <4>2 DEF SubCache
    <3> QED BY <3>1, <3>2
  <2>7. WaiterServed'
    <3> SUFFICES ASSUME NEW s \in Threads, pc'[s] = "waiting"
                 PROVE  key[s] \in DOMAIN entries' /\ entries'[key[s]].owner # None
      BY <2>4 DEF WaiterServed, LoadingIn
    <3>1. key[s] \in DOMAIN entries /\ entries[key[s]].owner # None
      BY <1>t, <1>c, <2>4 DEF Coordination, WaiterServed, LoadingIn, TypeOK
    <3> QED BY <1>n, <1>p, <2>1, <2>2, <3>1 DEF SubCache
  <2> QED BY <2>5, <2>6, <2>7 DEF Coordination
<1>5. ASSUME NEW t \in Threads, NEW ok \in BOOLEAN, FetchReturns(t, ok) PROVE Coordination'
  BY <1>t, <1>i, <1>5, CoordinationFrame DEF TypeOK, FetchReturns, Loading
<1>6. ASSUME NEW t \in Threads, FetchRaises(t) PROVE Coordination'
  BY <1>t, <1>i, <1>6, CoordinationFrame DEF TypeOK, FetchRaises, Loading
<1>7. ASSUME NEW t \in Threads, Publish(t) PROVE Coordination'
  <2> DEFINE full == IF Owns(t) THEN [entries EXCEPT ![key[t]] = Filled(@, fetched[t])]
                     ELSE entries
  <2>1. SubCache(entries', full) BY <1>7, TrimmedSub DEF Publish
  <2>2. DOMAIN full = DOMAIN entries BY <1>t DEF TypeOK
  <2>3. \A k \in DOMAIN entries :
          full[k].owner = IF Owns(t) /\ k = key[t] THEN None ELSE entries[k].owner
    BY <1>t DEF TypeOK, Filled
  <2> HIDE DEF full
  <2>4. key' = key /\ pc' = [Awakened EXCEPT ![t] = "done"] /\ pc[t] = "publishing"
    BY <1>7 DEF Publish
  <2> QED BY <1>t, <1>c, <1>n, <2>1, <2>2, <2>3, <2>4
      DEF Coordination, OwnerLoads, LoaderOwns, WaiterServed, LoadingIn, Owns, SubCache,
          Awakened, TypeOK, Loading, Entry
<1>8. ASSUME NEW t \in Threads, Abandon(t) PROVE Coordination'
  <2>1. DOMAIN entries' = DOMAIN entries BY <1>t, <1>8 DEF Abandon, TypeOK
  <2>2. \A k \in DOMAIN entries :
          entries'[k].owner = IF Owns(t) /\ k = key[t] THEN None ELSE entries[k].owner
    BY <1>t, <1>8 DEF Abandon, TypeOK, Unloaded
  <2>3. key' = key /\ pc' = [(IF Owns(t) THEN Awakened ELSE pc) EXCEPT ![t] = "done"]
        /\ pc[t] = "raising"
    BY <1>8 DEF Abandon
  <2> QED BY <1>t, <1>c, <1>n, <2>1, <2>2, <2>3
      DEF Coordination, OwnerLoads, LoaderOwns, WaiterServed, LoadingIn, Owns,
          Awakened, TypeOK, Loading, Entry
<1>9. ASSUME NEW t \in Threads, Respond(t) PROVE Coordination'
  BY <1>t, <1>i, <1>9, CoordinationFrame DEF TypeOK, Respond, Loading
<1>10. CASE Clear
  BY <1>t, <1>10 DEF Clear, Coordination, OwnerLoads, LoaderOwns, WaiterServed, Awakened, TypeOK
<1>11. CASE Tick BY <1>t, <1>i, <1>11, CoordinationFrame DEF TypeOK, Tick
<1>12. CASE AllServed \/ UNCHANGED vars
  BY <1>t, <1>i, <1>12, CoordinationFrame DEF TypeOK, AllServed, vars
<1> QED
  BY <1>1, <1>2, <1>3, <1>4, <1>5, <1>6, <1>7, <1>8, <1>9, <1>10, <1>11, <1>12
  DEF Next, Step

(***************************************************************************)
(* Dating: expiries are counted from the fetch that produced a snapshot.   *)
(***************************************************************************)
EntryDated(e, instant) ==
  /\ e.snap # None /\ ~e.fb => e.expires = e.snap.born + Ttl
  /\ e.good # None => e.good.ok /\ e.goodExpires = e.good.born + FallbackMaxAge
  /\ e.snap # None /\ ~e.snap.ok => e.good = None \/ e.goodExpires <= instant

\* The clauses of Dating that read one entry, gathered entry by entry.
LEMMA DatingByEntry ==
  Dating <=> /\ \A k \in DOMAIN entries : EntryDated(entries[k], now)
             /\ CarriedDated
             /\ NothingOverlooked
             /\ HitIsFresh
BY DEF Dating, EntryDated, EntriesDated, LastGoodNotRenewed, UnavailableOnlyWithoutFallback

\* A step that only prunes the entries keeps them dated.
LEMMA DatedFrame ==
  ASSUME IInv, TypeOK', SubCache(entries', entries), now' \in {now, now + 1}
  PROVE  \A k \in DOMAIN entries' : EntryDated(entries'[k], now')
<1>1. \A k \in DOMAIN entries : EntryDated(entries[k], now) BY DatingByEntry DEF IInv
<1>2. \A k \in DOMAIN entries' : k \in DOMAIN entries /\ entries'[k] = entries[k]
  BY DEF SubCache
<1> QED BY <1>1, <1>2 DEF EntryDated, IInv, TypeOK, Entry

\* What the loaders carry stays dated when no thread loads or publishes.
LEMMA CarriedFrame ==
  ASSUME IInv, TypeOK', SubCache(entries', entries), now' \in {now, now + 1},
         UNCHANGED <<fallback, fetched>>,
         \A t \in Threads : pc'[t] \in Loading => pc[t] \in Loading /\ key'[t] = key[t],
         \A t \in Threads : pc'[t] = "publishing" => pc[t] = "publishing"
  PROVE  CarriedDated' /\ NothingOverlooked'
<1>0. TypeOK /\ CarriedDated /\ NothingOverlooked BY DEF IInv, Dating
<1>1. CarriedDated' BY <1>0 DEF CarriedDated
<1>2. NothingOverlooked'
  BY <1>0 DEF NothingOverlooked, Owns, SubCache, TypeOK, Entry
<1> QED BY <1>1, <1>2

LEMMA StepDating == IInv /\ TypeOK' /\ Coordination' /\ [Next]_vars => Dating'
<1> SUFFICES ASSUME IInv, TypeOK', Coordination', [Next]_vars PROVE Dating'
  OBVIOUS
<1>t. TypeOK BY DEF IInv
<1>d. Dating BY DEF IInv
<1>e. \A k \in DOMAIN entries : EntryDated(entries[k], now) BY DatingByEntry, <1>d
<1>i. SubCache(entries, entries) BY <1>t DEF SubCache, TypeOK
<1>p. SubCache(Pruned, entries) BY PrunedSub
<1>n. None \notin Threads BY CacheAssumption
<1>q. ASSUME \A k \in DOMAIN entries' : EntryDated(entries'[k], now'),
             CarriedDated', NothingOverlooked', HitIsFresh'
      PROVE  Dating'
  BY <1>q DEF Dating, EntryDated, EntriesDated, LastGoodNotRenewed,
              UnavailableOnlyWithoutFallback
<1>1. ASSUME NEW t \in Threads, NEW k \in Keys, Call(t, k) PROVE Dating'
  <2>1. HitIsFresh' BY <1>d, <1>1 DEF Dating, HitIsFresh, Call
  <2> QED BY <1>t, <1>i, <1>1, <1>q, <2>1, DatedFrame, CarriedFrame DEF TypeOK, Call, Loading
<1>2. ASSUME NEW t \in Threads, Hit(t) PROVE Dating'
  <2>1. HitIsFresh'
    <3>1. key[t] \in DOMAIN entries /\ Pruned[key[t]] = entries[key[t]]
      BY <1>p, <1>2 DEF Hit, LiveIn, SubCache
    <3>2. entries[key[t]].snap # None /\ now < entries[key[t]].expires
      BY <1>2, <3>1 DEF Hit, LiveIn
    <3> QED BY <1>t, <1>d, <1>e, <1>2, <3>1, <3>2 DEF Dating, HitIsFresh, EntryDated, Hit, TypeOK
  <2> QED BY <1>t, <1>p, <1>2, <1>q, <2>1, DatedFrame, CarriedFrame DEF TypeOK, Hit, Loading
<1>3. ASSUME NEW t \in Threads, Wait(t) PROVE Dating'
  <2>1. HitIsFresh' BY <1>d, <1>3 DEF Dating, HitIsFresh, Wait
  <2> QED BY <1>t, <1>p, <1>3, <1>q, <2>1, DatedFrame, CarriedFrame DEF TypeOK, Wait, Loading
<1>4. ASSUME NEW t \in Threads, BeginLoad(t) PROVE Dating'
  <2> DEFINE k == key[t]
             old == IF k \in DOMAIN Pruned THEN Pruned[k] ELSE NewEntry
  <2>1. DOMAIN entries' = DOMAIN Pruned \cup {k}
        /\ entries'[k] = [snap |-> None, expires |-> 0, owner |-> t, fb |-> FALSE,
                          good |-> old.good, goodExpires |-> old.goodExpires]
    BY <1>4 DEF BeginLoad
  <2>2. \A j \in DOMAIN Pruned \ {k} : entries'[j] = entries[j] /\ j \in DOMAIN entries
    BY <1>4, <1>p DEF BeginLoad, SubCache
  <2>3. EntryDated(old, now) BY <1>e, <1>p DEF SubCache, EntryDated, NewEntry
  <2>4. now' = now /\ key' = key /\ fetched' = fetched /\ pc' = [pc EXCEPT ![t] = "fetching"]
        /\ fallback' = [fallback EXCEPT ![t] = UsableGood(Pruned, k)]
        /\ pc[t] = "lookup" /\ result' = result
    BY <1>4 DEF BeginLoad
  <2>5. \A j \in DOMAIN entries' : EntryDated(entries'[j], now')
    BY <1>e, <2>1, <2>2, <2>3, <2>4 DEF EntryDated
  <2>6. UsableGood(Pruned, k) # None =>
          k \in DOMAIN Pruned /\ UsableGood(Pruned, k) = old.good /\ old.good # None
    BY DEF UsableGood
  <2>7. CarriedDated'
    BY <1>t, <1>d, <2>3, <2>4, <2>6 DEF Dating, CarriedDated, EntryDated, TypeOK
  <2>8. NothingOverlooked'
    <3> SUFFICES ASSUME NEW s \in Threads, pc'[s] \in Loading, k \in DOMAIN entries',
                        key[s] \in DOMAIN entries', entries'[key[s]].owner = s, fallback'[s] = None
                 PROVE  entries'[key[s]].good = None \/ entries'[key[s]].goodExpires <= now
      BY <2>1, <2>4 DEF NothingOverlooked, Owns
    <3>1. CASE s = t
      <4>1. UsableGood(Pruned, k) = None BY <1>t, <2>4, <3>1 DEF TypeOK
      <4>2. old.goodExpires \in Nat
        BY <1>t, <1>p DEF SubCache, TypeOK, Entry, NewEntry
      <4>3. old.good = None \/ ~(now < old.goodExpires)
        BY <4>1 DEF UsableGood, NewEntry
      <4> QED BY <1>t, <2>1, <3>1, <4>2, <4>3 DEF TypeOK
    <3>2. CASE s # t
      <4>1. key[s] # k BY <2>1, <3>2
      <4>2. entries'[key[s]] = entries[key[s]] /\ key[s] \in DOMAIN entries
        BY <2>1, <2>2, <4>1
      <4>3. pc[s] \in Loading /\ fallback[s] = None BY <1>t, <2>4, <3>2 DEF TypeOK
      <4> QED BY <1>d, <4>2, <4>3 DEF Dating, NothingOverlooked, Owns
    <3> QED BY <3>1, <3>2
  <2>9. HitIsFresh' BY <1>d, <2>4 DEF Dating, HitIsFresh
  <2> QED BY <1>q, <2>5, <2>7, <2>8, <2>9
<1>5. ASSUME NEW t \in Threads, NEW ok \in BOOLEAN, FetchReturns(t, ok) PROVE Dating'
  <2> DEFINE live == [key |-> key[t], born |-> now, ok |-> ok]
             useFb == ~ok /\ fallback[t] # None
  <2>1. fetched' = [fetched EXCEPT ![t] =
          [snap |-> IF useFb THEN fallback[t] ELSE live, at |-> now, fb |-> useFb]]
    BY <1>5 DEF FetchReturns
  <2>2. UNCHANGED <<now, entries, key, fallback, result>>
        /\ pc' = [pc EXCEPT ![t] = "publishing"] /\ pc[t] = "fetching"
    BY <1>5 DEF FetchReturns
  <2> DEFINE f == [snap |-> IF useFb THEN fallback[t] ELSE live, at |-> now, fb |-> useFb]
  <2>3. f \in Fetched /\ (~f.fb => f.at = f.snap.born) /\ (~f.snap.ok => fallback[t] = None)
    <3>1. live \in Snapshot BY <1>t DEF TypeOK, Snapshot
    <3>2. fallback[t] \in Snapshot \cup {None} BY <1>t DEF TypeOK
    <3>3. f.fb = useFb /\ f.at = now /\ f.snap = IF useFb THEN fallback[t] ELSE live
      OBVIOUS
    <3>4. f \in Fetched
      <4> HIDE DEF live
      <4> QED BY <1>t, <3>1, <3>2 DEF TypeOK, Fetched
    <3>5. CASE useFb BY <1>d, <3>3, <3>4, <3>5 DEF Dating, CarriedDated
    <3>6. CASE ~useFb
      <4>1. f.snap = live /\ f.snap.born = now /\ f.snap.ok = ok BY <3>3, <3>6
      <4> QED BY <3>3, <3>4, <3>6, <4>1
    <3> QED BY <3>5, <3>6
  <2>4. fetched' = [fetched EXCEPT ![t] = f] BY <2>1
  <2> HIDE DEF f
  <2>5. CarriedDated'
    BY <1>t, <1>d, <2>2, <2>3, <2>4 DEF Dating, CarriedDated, TypeOK
  <2>6. NothingOverlooked'
    BY <1>t, <1>d, <2>2 DEF Dating, NothingOverlooked, Owns, TypeOK, Loading
  <2>7. \A k \in DOMAIN entries' : EntryDated(entries'[k], now')
    BY <1>e, <2>2
  <2>8. HitIsFresh' BY <1>d, <2>2 DEF Dating, HitIsFresh
  <2> QED BY <1>q, <2>5, <2>6, <2>7, <2>8
<1>6. ASSUME NEW t \in Threads, FetchRaises(t) PROVE Dating'
  <2>1. HitIsFresh' BY <1>d, <1>6 DEF Dating, HitIsFresh, FetchRaises
  <2> QED BY <1>t, <1>i, <1>6, <1>q, <2>1, DatedFrame, CarriedFrame
      DEF TypeOK, FetchRaises, Loading
<1>7. ASSUME NEW t \in Threads, Publish(t) PROVE Dating'
  <2> DEFINE f == fetched[t]
             full == IF Owns(t) THEN [entries EXCEPT ![key[t]] = Filled(@, f)] ELSE entries
             r == [snap |-> f.snap, hit |-> FALSE, fb |-> f.fb, at |-> f.at]
  <2>1. SubCache(entries', full) BY <1>7, TrimmedSub DEF Publish
  <2>2. f \in Fetched /\ (~f.fb => f.at = f.snap.born) /\ (~f.snap.ok => fallback[t] = None)
    BY <1>d, <1>7 DEF Dating, CarriedDated, Publish
  <2>3. DOMAIN full = DOMAIN entries BY <1>t DEF TypeOK
  <2>4. UNCHANGED <<now, key>> /\ pc' = [Awakened EXCEPT ![t] = "done"] /\ pc[t] = "publishing"
        /\ fetched' = [fetched EXCEPT ![t] = None]
        /\ fallback' = [fallback EXCEPT ![t] = None]
        /\ result' = [result EXCEPT ![t] = r]
    BY <1>7 DEF Publish
  <2>5. \A k \in DOMAIN full : EntryDated(full[k], now)
    <3>1. ASSUME Owns(t) PROVE EntryDated(Filled(entries[key[t]], f), now)
      <4>1. EntryDated(entries[key[t]], now) BY <1>e, <3>1 DEF Owns
      <4>2. fallback[t] = None =>
              entries[key[t]].good = None \/ entries[key[t]].goodExpires <= now
        BY <1>d, <2>4, <3>1 DEF Dating, NothingOverlooked, Loading
      <4> HIDE DEF f
      <4> QED BY <2>2, <4>1, <4>2, CacheAssumption DEF EntryDated, Filled, Fetched, Snapshot
    <3> QED BY <1>t, <1>e, <3>1 DEF TypeOK, Owns
  <2>6. \A k \in DOMAIN entries' : EntryDated(entries'[k], now')
    BY <2>1, <2>4, <2>5 DEF SubCache
  <2>7. \A s \in Threads \ {t} : pc'[s] \in Loading => pc[s] = pc'[s]
    BY <1>t, <2>4 DEF Awakened, TypeOK, Loading
  <2>8. CarriedDated'
    <3>1. \A s \in Threads \ {t} : pc'[s] = "publishing" => pc[s] = "publishing"
      BY <2>7 DEF Loading
    <3>2. pc'[t] = "done" BY <1>t, <2>4 DEF Awakened, TypeOK
    <3> HIDE DEF f
    <3> QED BY <1>t, <1>d, <2>4, <3>1, <3>2 DEF Dating, CarriedDated, TypeOK
  <2>9. NothingOverlooked'
    <3> SUFFICES ASSUME NEW s \in Threads, pc'[s] \in Loading, key[s] \in DOMAIN entries',
                        entries'[key[s]].owner = s, fallback'[s] = None
                 PROVE  entries'[key[s]].good = None \/ entries'[key[s]].goodExpires <= now
      BY <2>4 DEF NothingOverlooked, Owns
    <3>1. s # t BY <1>t, <2>4 DEF Awakened, TypeOK, Loading
    <3>2. key[s] \in DOMAIN entries /\ entries'[key[s]] = full[key[s]]
      BY <2>1, <2>3 DEF SubCache
    <3>3. full[key[s]] = entries[key[s]]
      <4>1. full[key[s]].owner = s BY <3>2
      <4>2. Filled(entries[key[t]], f).owner = None BY DEF Filled
      <4> HIDE DEF f
      <4> QED BY <1>n, <1>t, <3>2, <4>1, <4>2 DEF TypeOK
    <3>4. pc[s] \in Loading /\ fallback[s] = None BY <1>t, <2>4, <2>7, <3>1 DEF TypeOK
    <3> QED BY <1>d, <3>2, <3>3, <3>4 DEF Dating, NothingOverlooked, Owns
  <2>10. HitIsFresh'
    <3>1. r.hit = FALSE OBVIOUS
    <3> HIDE DEF r
    <3> QED BY <1>t, <1>d, <2>4, <3>1 DEF Dating, HitIsFresh, TypeOK
  <2> QED BY <1>q, <2>6, <2>8, <2>9, <2>10
<1>8. ASSUME NEW t \in Threads, Abandon(t) PROVE Dating'
  <2> DEFINE r == [snap |-> None, hit |-> FALSE, fb |-> FALSE, at |-> now]
  <2>1. UNCHANGED <<now, key, fetched>> /\ pc[t] = "raising"
        /\ pc' = [(IF Owns(t) THEN Awakened ELSE pc) EXCEPT ![t] = "done"]
        /\ fallback' = [fallback EXCEPT ![t] = None]
        /\ result' = [result EXCEPT ![t] = r]
    BY <1>8 DEF Abandon
  <2>2. DOMAIN entries' = DOMAIN entries
        /\ \A k \in DOMAIN entries :
             \/ entries'[k] = entries[k]
             \/ entries'[k] = Unloaded(entries[k]) /\ k = key[t]
    BY <1>t, <1>8 DEF Abandon, TypeOK
  <2>3. \A k \in DOMAIN entries' : EntryDated(entries'[k], now')
    BY <1>e, <2>1, <2>2 DEF EntryDated, Unloaded
  <2>4. \A s \in Threads : pc'[s] \in Loading => s # t /\ pc[s] = pc'[s]
    BY <1>t, <2>1 DEF Awakened, TypeOK, Loading
  <2>5. CarriedDated'
    BY <1>t, <1>d, <2>1, <2>4 DEF Dating, CarriedDated, TypeOK, Loading
  <2>6. NothingOverlooked'
    BY <1>t, <1>d, <1>n, <2>1, <2>2, <2>4 DEF Dating, NothingOverlooked, Owns, Unloaded, TypeOK
  <2>7. HitIsFresh'
    <3>1. r.hit = FALSE OBVIOUS
    <3> HIDE DEF r
    <3> QED BY <1>t, <1>d, <2>1, <3>1 DEF Dating, HitIsFresh, TypeOK
  <2> QED BY <1>q, <2>3, <2>5, <2>6, <2>7
<1>9. ASSUME NEW t \in Threads, Respond(t) PROVE Dating'
  <2>1. HitIsFresh' BY <1>t, <1>d, <1>9 DEF Dating, HitIsFresh, Respond, TypeOK
  <2> QED BY <1>t, <1>i, <1>9, <1>q, <2>1, DatedFrame, CarriedFrame DEF TypeOK, Respond, Loading
<1>10. CASE Clear
  <2>1. HitIsFresh' BY <1>d, <1>10 DEF Dating, HitIsFresh, Clear
  <2>2. SubCache(entries', entries) \/ entries' = [k \in {} |-> NewEntry]
    BY <1>10 DEF Clear
  <2>3. DOMAIN entries' = {} BY <1>10 DEF Clear
  <2>4. CarriedDated' BY <1>t, <1>d, <1>10 DEF Dating, CarriedDated, Clear, Awakened, TypeOK
  <2> QED BY <1>q, <2>1, <2>3, <2>4 DEF NothingOverlooked, Owns
<1>11. CASE Tick
  <2>1. HitIsFresh' BY <1>d, <1>11 DEF Dating, HitIsFresh, Tick
  <2> QED BY <1>t, <1>i, <1>11, <1>q, <2>1, DatedFrame, CarriedFrame DEF TypeOK, Tick
<1>12. CASE AllServed \/ UNCHANGED vars
  <2>1. UNCHANGED vars BY <1>12 DEF AllServed
  <2>2. HitIsFresh' BY <1>d, <2>1 DEF Dating, HitIsFresh, vars
  <2> QED BY <1>t, <1>i, <1>q, <2>1, <2>2, DatedFrame, CarriedFrame DEF TypeOK, vars
<1> QED
  BY <1>1, <1>2, <1>3, <1>4, <1>5, <1>6, <1>7, <1>8, <1>9, <1>10, <1>11, <1>12
  DEF Next, Step

(***************************************************************************)
(* The theorems.                                                           *)
(***************************************************************************)
\* The inductive invariant holds initially and is preserved by every step.
LEMMA Inductive == Spec => []IInv
<1>1. Init => IInv
  <2> SUFFICES ASSUME Init PROVE IInv
    OBVIOUS
  <2>1. TypeOK BY InitType
  <2>2. Coordination
    BY DEF Init, Coordination, OwnerLoads, LoaderOwns, WaiterServed, Loading
  <2>3. Dating
    BY DEF Init, Dating, EntriesDated, CarriedDated, NothingOverlooked, HitIsFresh,
           LastGoodNotRenewed, UnavailableOnlyWithoutFallback, Loading
  <2> QED BY <2>1, <2>2, <2>3 DEF IInv
<1>2. IInv /\ [Next]_vars => IInv'
  BY StepType, StepCoordination, StepDating DEF IInv
<1> QED BY <1>1, <1>2, PTL DEF Spec

\* Every variable keeps its type (aircraft_snapshot_cache.py, the whole class).
THEOREM TypeCorrect == Spec => []TypeOK
BY Inductive, PTL DEF IInv

\* get_or_fetch is single-flight: in a cache that is not cleared, two threads
\* never run the fetcher of one key at the same time.
THEOREM SingleFlightHolds == Spec => []SingleFlight
<1>1. IInv => SingleFlight
  BY DEF IInv, Coordination, LoaderOwns, Owns, SingleFlight
<1> QED BY <1>1, Inductive, PTL

\* A thread blocked on the Condition always has a running loader of its key,
\* whatever is pruned, trimmed, abandoned or cleared.
THEOREM NoLostWakeup == Spec => []WaiterHasLoader
<1>1. IInv => WaiterHasLoader
  BY DEF IInv, Coordination, OwnerLoads, WaiterServed, WaiterHasLoader, LoadingIn, TypeOK
<1> QED BY <1>1, Inductive, PTL

\* A hit never serves a live snapshot that is ttl_seconds old.
THEOREM HitsAreFresh == Spec => []HitIsFresh
BY Inductive, PTL DEF IInv, Dating

\* Serving the last good snapshot does not extend its window.
THEOREM WindowNotRenewed == Spec => []LastGoodNotRenewed
BY Inductive, PTL DEF IInv, Dating

\* An UNAVAILABLE answer is cached only beside no usable last good snapshot.
THEOREM FallbackNotOverlooked == Spec => []UnavailableOnlyWithoutFallback
BY Inductive, PTL DEF IInv, Dating

(***************************************************************************)
(* Refinement of SharedLoad.                                               *)
(***************************************************************************)
\* Dropping entries can only empty places of the abstract shelf.
LEMMA ShelfDecays ==
  ASSUME SubCache(entries', entries), NEW k \in Keys
  PROVE  ShelfBar'[k] \in {ShelfBar[k], None}
BY DEF SubCache, ShelfBar

\* The abstract shelf holds snapshots, before and after a step.
LEMMA ShelfType ==
  ASSUME TypeOK, TypeOK'
  PROVE  ShelfBar \in [Keys -> Snapshot \cup {None}] /\ ShelfBar' \in [Keys -> Snapshot \cup {None}]
BY DEF TypeOK, ShelfBar, Entry

\* How a step of t may move the other threads: notify_all wakes the waiters.
Undisturbed(t) ==
  \A s \in Threads \ {t} : pc'[s] = pc[s] \/ (pc[s] = "waiting" /\ pc'[s] = "lookup")

\* A step of one thread moves only that thread in the abstract state.
LEMMA PhaseMoves ==
  ASSUME NEW t \in Threads, Undisturbed(t)
  PROVE  /\ PhaseBar' = [PhaseBar EXCEPT ![t] = AbstractPhase(pc'[t])]
         /\ \A s \in Threads \ {t} : (pc'[s] = "done") <=> (pc[s] = "done")
<1>1. AbstractPhase("waiting") = AbstractPhase("lookup") BY DEF AbstractPhase, Loading
<1>2. \A s \in Threads \ {t} : AbstractPhase(pc'[s]) = AbstractPhase(pc[s])
  BY <1>1 DEF Undisturbed
<1> QED BY <1>2 DEF PhaseBar, Undisturbed

\* A step that answers nobody but t leaves the other abstract answers alone.
LEMMA AnswerMoves ==
  ASSUME TypeOK, NEW t \in Threads,
         \A s \in Threads \ {t} : (pc'[s] = "done") <=> (pc[s] = "done"),
         \A s \in Threads \ {t} : result'[s] = result[s]
  PROVE  AnswerBar' = [AnswerBar EXCEPT ![t] = IF pc'[t] = "done" THEN result'[t].snap ELSE None]
BY DEF AnswerBar

\* While a thread is not done, its abstract answer is None.
LEMMA AnswerAbsent ==
  ASSUME NEW t \in Threads, pc[t] # "done"
  PROVE  AnswerBar = [AnswerBar EXCEPT ![t] = None]
BY DEF AnswerBar

LEMMA StepRefines ==
  ASSUME ~ClearEnabled, IInv, TypeOK', [Next]_vars
  PROVE  [Shared!Next]_(Shared!vars)
<1>t. TypeOK BY DEF IInv
<1>i. SubCache(entries, entries) BY <1>t DEF SubCache, TypeOK
<1>p. SubCache(Pruned, entries) BY PrunedSub
<1>s. ShelfBar \in [Keys -> Snapshot \cup {None}] /\ ShelfBar' \in [Keys -> Snapshot \cup {None}]
  BY <1>t, ShelfType
<1>a. AbstractPhase("idle") = "idle" /\ AbstractPhase("lookup") = "asking"
      /\ AbstractPhase("waiting") = "asking" /\ AbstractPhase("done") = "done"
      /\ \A p \in Loading : AbstractPhase(p) = "loading"
  BY DEF AbstractPhase, Loading
<1>b. \A t \in Threads : PhaseBar[t] = AbstractPhase(pc[t]) BY DEF PhaseBar
<1>1. ASSUME NEW t \in Threads, NEW k \in Keys, Call(t, k) PROVE Shared!Ask(t, k)
  <2>1. PhaseBar' = [PhaseBar EXCEPT ![t] = "asking"]
        /\ \A s \in Threads \ {t} : (pc'[s] = "done") <=> (pc[s] = "done")
    <3>1. pc'[t] = "lookup" /\ Undisturbed(t) BY <1>t, <1>1 DEF Call, TypeOK, Undisturbed
    <3> QED BY <1>a, <3>1, PhaseMoves
  <2>2. AnswerBar' = AnswerBar
    BY <1>t, <1>1, <2>1, AnswerMoves, AnswerAbsent DEF Call, TypeOK
  <2> QED BY <1>a, <1>b, <1>1, <2>1, <2>2 DEF Call, Shared!Ask, ShelfBar
<1>2. ASSUME NEW t \in Threads, Hit(t) PROVE Shared!Share(t)
  <2>1. PhaseBar' = [PhaseBar EXCEPT ![t] = "done"] /\ pc'[t] = "done"
        /\ \A s \in Threads \ {t} : (pc'[s] = "done") <=> (pc[s] = "done")
    <3>1. pc'[t] = "done" /\ Undisturbed(t) BY <1>t, <1>2 DEF Hit, TypeOK, Undisturbed
    <3> QED BY <1>a, <3>1, PhaseMoves
  <2>2. key[t] \in DOMAIN Pruned /\ Pruned[key[t]].snap # None /\ entries' = Pruned
        /\ pc[t] = "lookup" /\ key' = key
    BY <1>2 DEF Hit, LiveIn
  <2>3. key[t] \in DOMAIN entries /\ Pruned[key[t]] = entries[key[t]]
    BY <1>p, <2>2 DEF SubCache
  <2>4. key[t] \in Keys BY <1>t DEF TypeOK
  <2>5. ShelfBar[key[t]] = Pruned[key[t]].snap /\ ShelfBar'[key[t]] = Pruned[key[t]].snap
    BY <2>2, <2>3, <2>4 DEF ShelfBar
  <2>6. AnswerBar' = [AnswerBar EXCEPT ![t] = Pruned[key[t]].snap]
    <3>1. result'[t].snap = Pruned[key[t]].snap
          /\ \A s \in Threads \ {t} : result'[s] = result[s]
      BY <1>t, <1>2 DEF Hit, TypeOK
    <3> QED BY <1>t, <2>1, <3>1, AnswerMoves
  <2>7. \A k \in Keys : ShelfBar'[k] \in {ShelfBar[k], None}
    BY <1>p, <2>2, ShelfDecays
  <2> QED BY <1>a, <1>b, <1>s, <2>1, <2>2, <2>5, <2>6, <2>7
      DEF Shared!Share, Shared!DecaysOutside, Shared!Shelves
<1>3. ASSUME NEW t \in Threads, Wait(t) PROVE Shared!Forget
  <2>1. PhaseBar' = [PhaseBar EXCEPT ![t] = "asking"] /\ pc'[t] = "waiting"
        /\ \A s \in Threads \ {t} : (pc'[s] = "done") <=> (pc[s] = "done")
    <3>1. pc'[t] = "waiting" /\ Undisturbed(t) BY <1>t, <1>3 DEF Wait, TypeOK, Undisturbed
    <3> QED BY <1>a, <3>1, PhaseMoves
  <2>2. PhaseBar' = PhaseBar BY <1>a, <1>b, <1>3, <2>1 DEF Wait, PhaseBar
  <2>3. AnswerBar' = AnswerBar
    BY <1>t, <1>3, <2>1, AnswerMoves, AnswerAbsent DEF Wait, TypeOK
  <2>4. \A k \in Keys : ShelfBar'[k] \in {ShelfBar[k], None}
    BY <1>p, <1>3, ShelfDecays DEF Wait
  <2> QED BY <1>3, <1>s, <2>2, <2>3, <2>4 DEF Wait, Shared!Forget, Shared!DecaysOutside, Shared!Shelves
<1>4. ASSUME NEW t \in Threads, BeginLoad(t) PROVE Shared!Start(t)
  <2>1. PhaseBar' = [PhaseBar EXCEPT ![t] = "loading"] /\ pc'[t] = "fetching"
        /\ \A s \in Threads \ {t} : (pc'[s] = "done") <=> (pc[s] = "done")
    <3>1. pc'[t] = "fetching" /\ Undisturbed(t) BY <1>t, <1>4 DEF BeginLoad, TypeOK, Undisturbed
    <3>2. AbstractPhase("fetching") = "loading" BY <1>a DEF Loading
    <3> QED BY <3>1, <3>2, PhaseMoves
  <2>2. AnswerBar' = AnswerBar
    BY <1>t, <1>4, <2>1, AnswerMoves, AnswerAbsent DEF BeginLoad, TypeOK
  <2>3. \A s \in Threads : ~(PhaseBar[s] = "loading" /\ key[s] = key[t])
    <3> SUFFICES ASSUME NEW s \in Threads, PhaseBar[s] = "loading", key[s] = key[t] PROVE FALSE
      OBVIOUS
    <3>1. pc[s] \in Loading BY <1>t, <1>b DEF AbstractPhase, TypeOK, Phases
    <3>2. key[s] \in DOMAIN entries /\ entries[key[s]].owner = s
      BY <3>1 DEF IInv, Coordination, LoaderOwns, Owns
    <3>3. s # None BY CacheAssumption
    <3> QED BY <1>p, <1>4, <3>2, <3>3 DEF SubCache, BeginLoad, LoadingIn
  <2>4. DOMAIN entries' = DOMAIN Pruned \cup {key[t]} /\ entries'[key[t]].snap = None
        /\ (\A k \in DOMAIN Pruned \ {key[t]} : entries'[k] = Pruned[k])
        /\ key' = key /\ pc[t] = "lookup"
    BY <1>4 DEF BeginLoad
  <2>5. ShelfBar'[key[t]] = None BY <1>t, <2>4 DEF ShelfBar, TypeOK
  <2>6. \A k \in Keys \ {key[t]} : ShelfBar'[k] \in {ShelfBar[k], None}
    BY <1>p, <2>4 DEF ShelfBar, SubCache
  <2>7. PhaseBar[t] = "asking" BY <1>a, <1>b, <2>4
  <2>8. Shared!DecaysOutside({key[t]})
    BY <1>s, <2>6 DEF Shared!DecaysOutside, Shared!Shelves
  <2> QED BY <2>1, <2>2, <2>3, <2>4, <2>5, <2>7, <2>8 DEF Shared!Start
<1>5. ASSUME NEW t \in Threads, pc[t] \in Loading,
             NEW p \in Loading, pc' = [pc EXCEPT ![t] = p],
             UNCHANGED <<entries, key, result>>
      PROVE  UNCHANGED Shared!vars
  <2>1. PhaseBar' = [PhaseBar EXCEPT ![t] = "loading"] /\ pc'[t] = p
        /\ \A s \in Threads \ {t} : (pc'[s] = "done") <=> (pc[s] = "done")
    <3>1. pc'[t] = p /\ Undisturbed(t) BY <1>t, <1>5 DEF TypeOK, Undisturbed
    <3> QED BY <1>a, <1>5, <3>1, PhaseMoves
  <2>2. PhaseBar' = PhaseBar BY <1>a, <1>b, <1>5, <2>1 DEF PhaseBar
  <2>3. AnswerBar' = AnswerBar
    BY <1>t, <1>5, <2>1, AnswerMoves, AnswerAbsent DEF Loading
  <2> QED BY <1>5, <2>2, <2>3 DEF Shared!vars, ShelfBar
<1>6. ASSUME NEW t \in Threads, NEW ok \in BOOLEAN, FetchReturns(t, ok) \/ FetchRaises(t)
      PROVE  UNCHANGED Shared!vars
  BY <1>5, <1>6 DEF FetchReturns, FetchRaises, Loading
<1>7. ASSUME NEW t \in Threads, Publish(t) PROVE Shared!Deliver(t)
  <2> DEFINE f == fetched[t]
             full == IF Owns(t) THEN [entries EXCEPT ![key[t]] = Filled(@, f)] ELSE entries
  <2>1. PhaseBar' = [PhaseBar EXCEPT ![t] = "done"] /\ pc'[t] = "done"
        /\ \A s \in Threads \ {t} : (pc'[s] = "done") <=> (pc[s] = "done")
    <3>1. pc'[t] = "done" /\ Undisturbed(t) BY <1>t, <1>7 DEF Publish, TypeOK, Undisturbed, Awakened
    <3> QED BY <1>a, <3>1, PhaseMoves
  <2>2. f \in Fetched BY <1>7 DEF IInv, Dating, CarriedDated, Publish
  <2>3. Owns(t) BY <1>7 DEF IInv, Coordination, LoaderOwns, Publish, Loading
  <2>4. DOMAIN full = DOMAIN entries /\ full[key[t]].snap = f.snap
        /\ \A k \in DOMAIN entries \ {key[t]} : full[k] = entries[k]
    BY <1>t, <2>3 DEF TypeOK, Owns, Filled
  <2> HIDE DEF full
  <2>5. SubCache(entries', full) /\ key[t] \in DOMAIN entries'
    BY <1>7, <2>3, <2>4, TrimmedSub DEF Publish, Owns, full
  <2>6. ShelfBar'[key[t]] = f.snap /\ f.snap # None
    BY <1>t, <2>2, <2>4, <2>5, CacheAssumption DEF ShelfBar, SubCache, Fetched, TypeOK
  <2>7. \A k \in Keys \ {key[t]} : ShelfBar'[k] \in {ShelfBar[k], None}
    BY <2>4, <2>5 DEF ShelfBar, SubCache
  <2>8. AnswerBar' = [AnswerBar EXCEPT ![t] = f.snap]
    <3>1. result'[t].snap = f.snap /\ \A s \in Threads \ {t} : result'[s] = result[s]
      BY <1>t, <1>7 DEF Publish, TypeOK
    <3> QED BY <1>t, <2>1, <3>1, AnswerMoves
  <2>9. key' = key /\ PhaseBar[t] = "loading" BY <1>a, <1>b, <1>7 DEF Publish, Loading
  <2> QED BY <1>s, <2>1, <2>6, <2>7, <2>8, <2>9
      DEF Shared!Deliver, Shared!DecaysOutside, Shared!Shelves
<1>8. ASSUME NEW t \in Threads, Abandon(t) PROVE Shared!Fail(t)
  <2>1. PhaseBar' = [PhaseBar EXCEPT ![t] = "done"] /\ pc'[t] = "done"
        /\ \A s \in Threads \ {t} : (pc'[s] = "done") <=> (pc[s] = "done")
    <3>1. pc'[t] = "done" /\ Undisturbed(t) BY <1>t, <1>8 DEF Abandon, TypeOK, Undisturbed, Awakened
    <3> QED BY <1>a, <3>1, PhaseMoves
  <2>2. AnswerBar' = [AnswerBar EXCEPT ![t] = None]
    <3>1. result'[t].snap = None /\ \A s \in Threads \ {t} : result'[s] = result[s]
      BY <1>t, <1>8 DEF Abandon, TypeOK
    <3> QED BY <1>t, <2>1, <3>1, AnswerMoves
  <2>3. DOMAIN entries' = DOMAIN entries
        /\ \A k \in DOMAIN entries : entries'[k].snap = entries[k].snap
    BY <1>t, <1>8 DEF Abandon, TypeOK, Unloaded
  <2>4. ShelfBar' = ShelfBar BY <2>3 DEF ShelfBar
  <2>5. key' = key /\ PhaseBar[t] = "loading" BY <1>a, <1>b, <1>8 DEF Abandon, Loading
  <2> QED BY <2>1, <2>2, <2>4, <2>5 DEF Shared!Fail
<1>9. ASSUME NEW t \in Threads, Respond(t) PROVE Shared!Reply(t)
  <2>1. PhaseBar' = [PhaseBar EXCEPT ![t] = "idle"] /\ pc'[t] = "idle"
        /\ \A s \in Threads \ {t} : (pc'[s] = "done") <=> (pc[s] = "done")
    <3>1. pc'[t] = "idle" /\ Undisturbed(t) BY <1>t, <1>9 DEF Respond, TypeOK, Undisturbed
    <3> QED BY <1>a, <3>1, PhaseMoves
  <2>2. AnswerBar' = [AnswerBar EXCEPT ![t] = None]
    <3>1. \A s \in Threads \ {t} : result'[s] = result[s] BY <1>t, <1>9 DEF Respond, TypeOK
    <3> QED BY <1>t, <2>1, <3>1, AnswerMoves
  <2> QED BY <1>a, <1>b, <1>9, <2>1, <2>2 DEF Respond, Shared!Reply, ShelfBar
<1>10. ~Clear BY DEF Clear
<1>11. ASSUME Tick \/ AllServed \/ UNCHANGED vars PROVE UNCHANGED Shared!vars
  BY <1>11 DEF Tick, AllServed, vars, Shared!vars, PhaseBar, ShelfBar, AnswerBar
<1> QED
  BY <1>1, <1>2, <1>3, <1>4, <1>6, <1>7, <1>8, <1>9, <1>10, <1>11
  DEF Next, Step, Shared!Next

\* A cache that is not cleared implements the abstract shared load: every step
\* of the cache is a step of SharedLoad or leaves its variables unchanged.
THEOREM RefinesSharedLoad == ASSUME ~ClearEnabled PROVE Spec => ImplementsSharedLoad
<1>1. Init => Shared!Init
  <2> SUFFICES ASSUME Init PROVE Shared!Init
    OBVIOUS
  <2>1. AbstractPhase("idle") = "idle" BY DEF AbstractPhase, Loading
  <2> QED BY <2>1 DEF Init, Shared!Init, PhaseBar, ShelfBar, AnswerBar
<1>2. IInv /\ TypeOK' /\ [Next]_vars => [Shared!Next]_(Shared!vars)
  BY StepRefines
<1> QED BY <1>1, <1>2, Inductive, TypeCorrect, PTL DEF Spec, Shared!Spec, ImplementsSharedLoad

(***************************************************************************)
(* The size of the cache.  An entry that has never been filled is being    *)
(* loaded, or was left by a load that failed and goes with the next        *)
(* lookup: there are no more of them than threads.  The others are counted *)
(* by the trimming that follows every publication.                         *)
(***************************************************************************)
Filling == {k \in DOMAIN entries : entries[k].expires = 0 /\ entries[k].goodExpires = 0}
Settled == DOMAIN entries \ Filling

Limit == IF Cardinality(Threads) < MaxEntries THEN MaxEntries ELSE Cardinality(Threads)

Sized ==
  /\ IsFiniteSet(DOMAIN entries)
  /\ Cardinality(Filling) <= Cardinality(Threads)
  /\ Cardinality(Settled) <= Limit

\* A set each of whose members has a thread of its own.
LEMMA OneThreadEach ==
  ASSUME NEW S, NEW f \in [S -> Threads], \A a, b \in S : f[a] = f[b] => a = b
  PROVE  IsFiniteSet(S) /\ Cardinality(S) <= Cardinality(Threads)
<1>1. f \in Injection(S, Threads) BY Fun_IsInj
<1> QED BY <1>1, ThreadsFinite, FS_Injection

\* _trim_locked leaves max_entries, or the loading entries and the protected one.
LEMMA TrimmedSize ==
  ASSUME NEW es, NEW k, NEW r \in Trimmed(es, k), IsFiniteSet(DOMAIN es), NEW busy,
         busy = {j \in DOMAIN es \ {k} : es[j].owner # None} \cup {k},
         IsFiniteSet(busy), Cardinality(busy) <= Cardinality(Threads)
  PROVE  IsFiniteSet(DOMAIN r) /\ Cardinality(DOMAIN r) <= Limit
<1> DEFINE idle == {j \in DOMAIN es \ {k} : es[j].owner = None}
           n == Cardinality(DOMAIN es)
           excess == IF n <= MaxEntries THEN 0 ELSE n - MaxEntries
<1>1. PICK V \in SUBSET idle :
        r = Restrict(es, DOMAIN es \ V)
        /\ (Cardinality(V) = excess \/ (Cardinality(V) < excess /\ V = idle))
  BY Zenon DEF Trimmed
<1>2. DOMAIN r = DOMAIN es \ V BY <1>1 DEF Restrict
<1>3. IsFiniteSet(DOMAIN r)
  <2>1. IsFiniteSet(DOMAIN es \ V) BY FS_Difference
  <2> QED BY <1>2, <2>1
<1>4. Cardinality(DOMAIN r) \in Nat BY <1>3, FS_CardinalityType
<1>5. n \in Nat BY FS_CardinalityType
<1>6. Cardinality(Threads) \in Nat /\ MaxEntries \in Nat
  BY FS_CardinalityType, ThreadsFinite, CacheAssumption
<1>7. CASE Cardinality(V) = excess
  <2>1. DOMAIN es \cap V = V BY <1>1
  <2>2. Cardinality(DOMAIN r) = n - Cardinality(V) BY <1>2, <2>1, FS_Difference
  <2> QED BY <1>3, <1>4, <1>5, <1>6, <1>7, <2>2 DEF Limit
<1>8. CASE V = idle
  <2>1. DOMAIN r \in SUBSET busy BY <1>2, <1>8
  <2>2. Cardinality(DOMAIN r) <= Cardinality(busy) /\ Cardinality(busy) \in Nat
    BY <2>1, FS_Subset, FS_CardinalityType
  <2> QED BY <1>3, <1>4, <1>6, <2>2 DEF Limit
<1> QED BY <1>1, <1>7, <1>8

\* A step that drops entries and fills none.
LEMMA SizedFrame ==
  ASSUME Sized, Filling' \subseteq Filling, Settled' \subseteq Settled
  PROVE  Sized'
<1>1. DOMAIN entries' = Filling' \cup Settled' /\ DOMAIN entries = Filling \cup Settled
  BY DEF Filling, Settled
<1>2. IsFiniteSet(Filling) /\ IsFiniteSet(Settled)
  BY <1>1, FS_Subset DEF Sized
<1>3. IsFiniteSet(DOMAIN entries') BY <1>1, FS_Subset DEF Sized
<1>4. Cardinality(Filling') <= Cardinality(Filling) /\ Cardinality(Settled') <= Cardinality(Settled)
      /\ Cardinality(Filling') \in Nat /\ Cardinality(Settled') \in Nat
      /\ Cardinality(Filling) \in Nat /\ Cardinality(Settled) \in Nat
  BY <1>2, FS_Subset, FS_CardinalityType
<1>5. Cardinality(Threads) \in Nat /\ Limit \in Nat
  BY ThreadsFinite, FS_CardinalityType, CacheAssumption DEF Limit
<1>6. Limit' = Limit BY DEF Limit
<1> QED BY <1>3, <1>4, <1>5, <1>6 DEF Sized

\* A step that changes neither which entries there are nor their expiries, or
\* only drops some.
LEMMA SizedKept ==
  ASSUME Sized, DOMAIN entries' \subseteq DOMAIN entries,
         \A k \in DOMAIN entries' :
           entries'[k].expires = entries[k].expires
           /\ entries'[k].goodExpires = entries[k].goodExpires
  PROVE  Sized'
BY SizedFrame DEF Filling, Settled

\* A new load: the lookup has just dropped what no thread is filling.
LEMMA BeginLoadSized ==
  ASSUME IInv, TypeOK', Coordination', Sized, NEW t \in Threads, BeginLoad(t)
  PROVE  Sized'
<1> DEFINE k == key[t]
<1>p. SubCache(Pruned, entries) BY PrunedSub
<1>1. DOMAIN entries' = DOMAIN Pruned \cup {k} /\ DOMAIN Pruned \subseteq DOMAIN entries
  BY <1>p DEF BeginLoad, SubCache
<1>2. \A j \in DOMAIN Pruned \ {k} : entries'[j] = entries[j] /\ Retained(entries[j])
  BY DEF BeginLoad, Pruned, Restrict
<1>3. entries'[k].expires = 0 /\ entries'[k].owner = t
      /\ entries'[k].goodExpires =
           IF k \in DOMAIN Pruned THEN entries[k].goodExpires ELSE 0
  BY <1>p DEF BeginLoad, NewEntry, SubCache
<1>4. Settled' \subseteq Settled BY <1>1, <1>2, <1>3 DEF Settled, Filling
<1>5. \A j \in Filling' : entries'[j].owner \in Threads
  <2> SUFFICES ASSUME NEW j \in Filling' PROVE entries'[j].owner \in Threads
    OBVIOUS
  <2>1. j \in DOMAIN entries' /\ entries'[j].expires = 0 /\ entries'[j].goodExpires = 0
    BY DEF Filling
  <2>2. CASE j = k BY <1>3, <2>2
  <2>3. CASE j # k
    <3>1. entries'[j] = entries[j] /\ Retained(entries[j]) BY <1>1, <1>2, <2>1, <2>3
    <3>2. now \in Nat /\ entries'[j] \in Entry BY <2>1 DEF IInv, TypeOK
    <3>3. entries'[j].owner # None BY <2>1, <3>1, <3>2 DEF Retained
    <3> QED BY <3>2, <3>3 DEF Entry
  <2> QED BY <2>2, <2>3
<1>6. IsFiniteSet(Filling') /\ Cardinality(Filling') <= Cardinality(Threads)
  <2> DEFINE f == [j \in Filling' |-> entries'[j].owner]
  <2>1. f \in [Filling' -> Threads] BY <1>5
  <2>2. \A j \in Filling' : key'[f[j]] = j
    BY <1>5, CacheAssumption DEF Coordination, OwnerLoads, Filling
  <2>3. \A a, b \in Filling' : f[a] = f[b] => a = b BY <2>2
  <2> HIDE DEF f
  <2> QED BY <2>1, <2>3, OneThreadEach
<1>7. IsFiniteSet(Settled) BY FS_Subset DEF Settled, Sized
<1>8. IsFiniteSet(Settled') /\ Cardinality(Settled') <= Cardinality(Settled)
  BY <1>4, <1>7, FS_Subset
<1>9. IsFiniteSet(DOMAIN entries')
  <2>1. DOMAIN entries' = Filling' \cup Settled' BY DEF Settled, Filling
  <2> QED BY <1>6, <1>8, <2>1, FS_Union
<1>10. Cardinality(Settled) \in Nat /\ Cardinality(Settled') \in Nat
  BY <1>7, <1>8, FS_CardinalityType
<1>11. Limit \in Nat /\ Limit' = Limit
  BY ThreadsFinite, FS_CardinalityType, CacheAssumption DEF Limit
<1> QED BY <1>6, <1>8, <1>9, <1>10, <1>11 DEF Sized

\* A publication: the trimming leaves no more than the limit.
LEMMA PublishSized ==
  ASSUME IInv, TypeOK', Sized, NEW t \in Threads, Publish(t)
  PROVE  Sized'
<1> DEFINE k == key[t]
           full == IF Owns(t) THEN [entries EXCEPT ![k] = Filled(@, fetched[t])] ELSE entries
           busy == {j \in DOMAIN full \ {k} : full[j].owner # None} \cup {k}
<1>t. TypeOK /\ OwnerLoads BY DEF IInv, Coordination
<1>n. None \notin Threads BY CacheAssumption
<1>1. DOMAIN full = DOMAIN entries BY <1>t DEF TypeOK
<1>2. \A j \in DOMAIN entries \ {k} : full[j] = entries[j] BY <1>t DEF TypeOK
<1>3. k \in DOMAIN entries /\ full[k] # entries[k] => full[k].expires # 0
  <2> SUFFICES ASSUME k \in DOMAIN entries, full[k] # entries[k] PROVE full[k].expires # 0
    OBVIOUS
  <2>1. full[k].expires = fetched[t].at + Ttl BY <1>t DEF TypeOK, Filled
  <2>2. fetched[t] \in Fetched BY DEF IInv, Dating, CarriedDated, Publish
  <2> HIDE DEF full
  <2> QED BY <2>1, <2>2, CacheAssumption DEF Fetched
<1>4. entries' \in Trimmed(full, k) BY DEF Publish
<1>5. IsFiniteSet(busy) /\ Cardinality(busy) <= Cardinality(Threads)
  <2> HIDE DEF full
  <2> DEFINE f == [j \in busy |-> IF j = k THEN t ELSE entries[j].owner]
  <2>1. \A j \in busy \ {k} : entries[j].owner \in Threads /\ key[entries[j].owner] = j
    BY <1>t, <1>1, <1>2 DEF TypeOK, Entry, OwnerLoads
  <2>2. f \in [busy -> Threads] BY <2>1
  <2>3. \A j \in busy : key[f[j]] = j BY <2>1
  <2>4. \A a, b \in busy : f[a] = f[b] => a = b BY <2>3
  <2> HIDE DEF f
  <2> QED BY <2>2, <2>4, OneThreadEach
<1> HIDE DEF full, busy
<1>6. IsFiniteSet(DOMAIN full) BY <1>1 DEF Sized
<1>7. busy = {j \in DOMAIN full \ {k} : full[j].owner # None} \cup {k} BY DEF busy
<1>8. IsFiniteSet(DOMAIN entries') /\ Cardinality(DOMAIN entries') <= Limit
  BY <1>4, <1>5, <1>6, <1>7, TrimmedSize
<1>9. SubCache(entries', full) BY <1>4, TrimmedSub
<1>10. Filling' \subseteq Filling
  <2> SUFFICES ASSUME NEW j \in Filling' PROVE j \in Filling
    OBVIOUS
  <2>1. j \in DOMAIN entries' /\ entries'[j].expires = 0 /\ entries'[j].goodExpires = 0
    BY DEF Filling
  <2>2. j \in DOMAIN entries /\ entries'[j] = full[j] BY <1>1, <1>9, <2>1 DEF SubCache
  <2>3. full[j] = entries[j] BY <1>2, <1>3, <2>1, <2>2
  <2> QED BY <2>1, <2>2, <2>3 DEF Filling
<1>11. IsFiniteSet(Filling) BY FS_Subset DEF Filling, Sized
<1>12. IsFiniteSet(Filling') /\ Cardinality(Filling') <= Cardinality(Filling)
  BY <1>10, <1>11, FS_Subset
<1>13. Settled' \subseteq DOMAIN entries' BY DEF Settled
<1>14. IsFiniteSet(Settled') /\ Cardinality(Settled') <= Cardinality(DOMAIN entries')
  BY <1>8, <1>13, FS_Subset
<1>15. Cardinality(Filling) \in Nat /\ Cardinality(Filling') \in Nat
  BY <1>11, <1>12, FS_CardinalityType
<1>16. Cardinality(Settled') \in Nat /\ Cardinality(DOMAIN entries') \in Nat
  BY <1>8, <1>14, FS_CardinalityType
<1>17. Cardinality(Threads) \in Nat /\ Limit \in Nat /\ Limit' = Limit
  BY ThreadsFinite, FS_CardinalityType, CacheAssumption DEF Limit
<1> QED BY <1>8, <1>12, <1>14, <1>15, <1>16, <1>17 DEF Sized

LEMMA InitSized == Init => Sized
<1> SUFFICES ASSUME Init PROVE Sized
  OBVIOUS
<1>1. DOMAIN entries = {} BY DEF Init
<1>2. Filling = {} /\ Settled = {} BY <1>1 DEF Filling, Settled
<1>3. Limit \in Nat /\ Cardinality(Threads) \in Nat
  BY ThreadsFinite, FS_CardinalityType, CacheAssumption DEF Limit
<1> QED BY <1>1, <1>2, <1>3, FS_EmptySet DEF Sized

LEMMA StepSized == IInv /\ TypeOK' /\ Coordination' /\ Sized /\ [Next]_vars => Sized'
<1> SUFFICES ASSUME IInv, TypeOK', Coordination', Sized, [Next]_vars PROVE Sized'
  OBVIOUS
<1>p. \A k \in DOMAIN Pruned : k \in DOMAIN entries /\ Pruned[k] = entries[k]
  BY PrunedSub DEF SubCache
<1>1. CASE entries' \in {entries, Pruned} BY <1>p, <1>1, SizedKept
<1>2. ASSUME NEW t \in Threads, Abandon(t) PROVE Sized'
  <2>1. DOMAIN entries' = DOMAIN entries BY <1>2 DEF Abandon, IInv, TypeOK
  <2>2. \A k \in DOMAIN entries :
          entries'[k].expires = entries[k].expires
          /\ entries'[k].goodExpires = entries[k].goodExpires
    BY <1>2 DEF Abandon, Unloaded, IInv, TypeOK
  <2> QED BY <2>1, <2>2, SizedKept
<1>3. CASE Clear BY <1>3, SizedKept DEF Clear
<1>4. ASSUME NEW t \in Threads, Step(t) PROVE Sized'
  BY <1>1, <1>2, <1>4, BeginLoadSized, PublishSized
  DEF Step, Hit, Wait, FetchReturns, FetchRaises, Respond
<1>5. CASE UNCHANGED entries BY <1>1, <1>5
<1> QED BY <1>3, <1>4, <1>5 DEF Next, Call, Tick, AllServed, vars

\* The entries never outnumber the work in progress by more than max_entries
\* allows, with clear() and failed loads at any moment.
THEOREM CacheBounded == Spec => []EntriesBounded
<1>1. Init => Sized BY InitSized
<1>2. IInv /\ IInv' /\ Sized /\ [Next]_vars => Sized' BY StepSized DEF IInv
<1>3. Sized => EntriesBounded
  <2> SUFFICES ASSUME Sized PROVE EntriesBounded
    OBVIOUS
  <2>1. DOMAIN entries = Filling \cup Settled /\ Filling \cap Settled = {}
    BY DEF Filling, Settled
  <2>2. IsFiniteSet(Filling) /\ IsFiniteSet(Settled) BY FS_Subset DEF Filling, Settled, Sized
  <2>3. Cardinality(DOMAIN entries) =
          Cardinality(Filling) + Cardinality(Settled) - Cardinality({})
    BY <2>1, <2>2, FS_Union
  <2>4. Cardinality(Filling) \in Nat /\ Cardinality(Settled) \in Nat /\ Cardinality({}) = 0
    BY <2>2, FS_CardinalityType, FS_EmptySet
  <2>5. Cardinality(Threads) \in Nat /\ Limit \in Nat
    BY ThreadsFinite, FS_CardinalityType, CacheAssumption DEF Limit
  <2> QED BY <2>3, <2>4, <2>5 DEF EntriesBounded, Sized, Limit
<1> QED BY <1>1, <1>2, <1>3, Inductive, PTL DEF Spec

(***************************************************************************)
(* The endpoint.                                                           *)
(*                                                                         *)
(* Every step of the endpoint is a step of the cache, so that the cache's  *)
(* invariant IInv holds of the endpoint as well.  That replies never go    *)
(* back needs more: what an entry keeps as its last good snapshot, and     *)
(* what a loader brings, is as new as anything answered for the key.       *)
(***************************************************************************)
Reply == [verdict : {"none", "error"}] \cup [verdict : {"omitted", "stale", "shown"}, fixed : Int]

ApiTypeOK ==
  /\ observedAt \in [Threads -> Nat]
  /\ reply \in [Threads -> Reply]
  /\ newest \in [Keys -> Nat]
  /\ floor \in [Threads -> Nat]

Usable(r) == r.snap # None /\ r.snap.ok

\* Nothing answered for k, or about to be, is newer than b.
AnsweredBy(k, b) ==
  /\ newest[k] <= b
  /\ \A t \in Threads :
       pc[t] = "done" /\ key[t] = k /\ Usable(result[t]) => result[t].snap.born <= b

ResultGiven == \A t \in Threads : pc[t] = "done" => result[t] \in Result

\* A loading entry has no live snapshot, and a live one that is usable is the last good.
LiveIsGood ==
  \A k \in DOMAIN entries :
    /\ entries[k].owner # None => entries[k].snap = None
    /\ entries[k].snap # None /\ entries[k].snap.ok => entries[k].snap = entries[k].good

\* A loader's fallback is still the last good snapshot of its entry.
FallbackIsGood ==
  \A t \in Threads : pc[t] \in Loading =>
    /\ fallback[t] # None => fallback[t] = entries[key[t]].good
    /\ pc[t] = "publishing" /\ fetched[t].fb =>
         fallback[t] # None /\ fetched[t].snap = fallback[t]

GoodIsNewest ==
  \A k \in DOMAIN entries : entries[k].good # None =>
    AnsweredBy(k, entries[k].good.born) /\ entries[k].good.born <= now

FetchedIsNewest ==
  \A t \in Threads : pc[t] = "publishing" /\ ~fetched[t].fb =>
    AnsweredBy(key[t], fetched[t].snap.born) /\ fetched[t].snap.born <= now

NothingAhead == \A k \in Keys : AnsweredBy(k, now)

FloorReached == \A t \in Threads : floor[t] <= newest[key[t]]

Order ==
  /\ ResultGiven /\ LiveIsGood /\ FallbackIsGood
  /\ GoodIsNewest /\ FetchedIsNewest /\ NothingAhead /\ FloorReached
  /\ RepliesNeverGoBack

(***************************************************************************)
(* The endpoint takes steps of the cache.                                  *)
(***************************************************************************)
LEMMA ApiImplementsCache == ApiSpec => Spec
<1>1. ApiInit => Init BY DEF ApiInit
<1>2. [ApiNext]_apiVars => [Next]_vars
  BY DEF ApiNext, apiVars, Next, Step, CacheStep, Request, Answer
<1> QED BY <1>1, <1>2, PTL DEF ApiSpec, Spec

LEMMA CacheHolds == ApiSpec => [](IInv /\ TypeOK)
BY ApiImplementsCache, Inductive, PTL DEF IInv

(***************************************************************************)
(* The order of snapshots, action by action.                               *)
(***************************************************************************)
\* A step that answers nobody, loads nothing and only prunes the entries.
LEMMA OrderFrame ==
  ASSUME ~ClearEnabled, IInv, ApiTypeOK, TypeOK', Order,
         SubCache(entries', entries), now' \in {now, now + 1},
         UNCHANGED <<fallback, newest>>,
         \A t \in Threads : pc'[t] \in Loading => pc[t] \in Loading /\ key'[t] = key[t],
         \A t \in Threads : pc'[t] = "publishing" => pc[t] = "publishing" /\ fetched'[t] = fetched[t],
         \A t \in Threads : pc'[t] = "done" =>
           pc[t] = "done" /\ key'[t] = key[t] /\ result'[t] = result[t] /\ floor'[t] = floor[t],
         \A t \in Threads : floor'[t] <= newest[key'[t]]
  PROVE  Order'
<1>t. TypeOK BY DEF IInv
<1>s. \A k \in DOMAIN entries' : k \in DOMAIN entries /\ entries'[k] = entries[k]
  BY DEF SubCache
<1>l. \A t \in Threads : pc[t] \in Loading => key[t] \in DOMAIN entries /\ key[t] \in DOMAIN entries'
  BY CacheAssumption DEF IInv, Coordination, LoaderOwns, Owns, SubCache
<1>1. ResultGiven' /\ LiveIsGood' BY <1>s DEF Order, ResultGiven, LiveIsGood
<1>2. FallbackIsGood' BY <1>s, <1>l DEF Order, FallbackIsGood, Loading
<1>3. GoodIsNewest'
  BY <1>t, <1>s DEF Order, GoodIsNewest, AnsweredBy, Usable, TypeOK, Entry, Snapshot
<1>4. FetchedIsNewest'
  BY <1>t DEF Order, FetchedIsNewest, AnsweredBy, Usable, TypeOK, Loading,
              IInv, Dating, CarriedDated, Fetched, Snapshot
<1>5. NothingAhead'
  BY <1>t DEF Order, NothingAhead, AnsweredBy, Usable, ResultGiven, Result, Snapshot,
              TypeOK, ApiTypeOK
<1>6. FloorReached' /\ RepliesNeverGoBack' BY DEF Order, FloorReached, RepliesNeverGoBack
<1> QED BY <1>1, <1>2, <1>3, <1>4, <1>5, <1>6 DEF Order

\* The loader of a key owns its entry, and no other thread loads that key.
LEMMA LoaderAlone ==
  ASSUME ~ClearEnabled, IInv, NEW t \in Threads, pc[t] \in Loading
  PROVE  /\ key[t] \in DOMAIN entries /\ entries[key[t]].owner = t /\ t # None
         /\ \A u \in Threads : pc[u] \in Loading /\ key[u] = key[t] => u = t
BY CacheAssumption DEF IInv, Coordination, LoaderOwns, Owns

LEMMA StepOrder ==
  ~ClearEnabled /\ IInv /\ TypeOK' /\ ApiTypeOK /\ Order /\ [ApiNext]_apiVars => Order'
<1> SUFFICES ASSUME ~ClearEnabled, IInv, TypeOK', ApiTypeOK, Order, [ApiNext]_apiVars
             PROVE  Order'
  OBVIOUS
<1>t. TypeOK BY DEF IInv
<1>i. SubCache(entries, entries) BY <1>t DEF SubCache, TypeOK
<1>p. SubCache(Pruned, entries) BY PrunedSub
<1>q. \A k \in DOMAIN Pruned : k \in DOMAIN entries /\ Pruned[k] = entries[k]
  BY <1>p DEF SubCache
<1>a. \A t \in Threads : pc[t] \in Loading => key[t] \in DOMAIN Pruned
  BY <1>p, LoaderAlone DEF SubCache
<1>f. FloorReached BY DEF Order
<1>1. ASSUME NEW t \in Threads, NEW k \in Keys, Request(t, k) PROVE Order'
  BY <1>t, <1>i, <1>f, <1>1, OrderFrame
  DEF TypeOK, ApiTypeOK, Request, Call, Loading, FloorReached
<1>2. ASSUME NEW t \in Threads, Hit(t), UNCHANGED <<observedAt, reply, newest, floor>> PROVE Order'
  <2> DEFINE k == key[t]
             e == entries[k]
             r == [snap |-> e.snap, hit |-> TRUE, fb |-> e.fb, at |-> now]
  <2>1. k \in DOMAIN Pruned /\ k \in DOMAIN entries /\ Pruned[k] = e /\ e.snap # None
    BY <1>2, <1>q DEF Hit, LiveIn
  <2>2. entries' = Pruned /\ result' = [result EXCEPT ![t] = r] /\ pc' = [pc EXCEPT ![t] = "done"]
        /\ pc[t] = "lookup" /\ UNCHANGED <<now, key, fallback, fetched, newest, floor>>
    BY <1>2, <2>1 DEF Hit
  <2>3. e \in Entry /\ e.snap \in Snapshot /\ r \in Result BY <1>t, <2>1 DEF TypeOK, Entry, Result
  <2>4. e.snap.ok => e.snap = e.good /\ AnsweredBy(k, e.snap.born) /\ e.snap.born <= now
    BY <2>1 DEF Order, LiveIsGood, GoodIsNewest
  <2>5. \A u \in Threads : pc[u] \in Loading => key[u] # k
    BY <2>1, LoaderAlone DEF Order, LiveIsGood
  <2>6. result'[t] = r /\ pc'[t] = "done" /\ r.snap = e.snap
        /\ \A u \in Threads \ {t} : result'[u] = result[u] /\ pc'[u] = pc[u]
    BY <1>t, <2>2 DEF TypeOK
  <2> HIDE DEF r, e
  <2>7. ResultGiven' BY <2>3, <2>6 DEF Order, ResultGiven
  <2>8. LiveIsGood' BY <1>q, <2>2 DEF Order, LiveIsGood
  <2>9. FallbackIsGood' BY <1>q, <1>a, <2>2, <2>6 DEF Order, FallbackIsGood, Loading
  <2>10. GoodIsNewest'
    BY <1>q, <2>1, <2>2, <2>3, <2>4, <2>6 DEF Order, GoodIsNewest, AnsweredBy, Usable, Snapshot, e
  <2>11. FetchedIsNewest'
    BY <2>2, <2>5, <2>6 DEF Order, FetchedIsNewest, AnsweredBy, Usable, Loading
  <2>12. NothingAhead'
    BY <2>2, <2>3, <2>4, <2>6 DEF Order, NothingAhead, AnsweredBy, Usable
  <2>13. FloorReached' BY <2>2 DEF Order, FloorReached
  <2>14. RepliesNeverGoBack'
    BY <1>t, <2>2, <2>3, <2>4, <2>6 DEF Order, RepliesNeverGoBack, FloorReached, AnsweredBy,
       TypeOK, ApiTypeOK, Snapshot
  <2> QED BY <2>7, <2>8, <2>9, <2>10, <2>11, <2>12, <2>13, <2>14 DEF Order
<1>3. ASSUME NEW t \in Threads, Wait(t), UNCHANGED <<observedAt, reply, newest, floor>> PROVE Order'
  BY <1>t, <1>p, <1>f, <1>3, OrderFrame DEF TypeOK, Wait, Loading, FloorReached
<1>4. ASSUME NEW t \in Threads, BeginLoad(t), UNCHANGED <<observedAt, reply, newest, floor>>
      PROVE  Order'
  <2> DEFINE k == key[t]
             old == IF k \in DOMAIN Pruned THEN Pruned[k] ELSE NewEntry
  <2>1. DOMAIN entries' = DOMAIN Pruned \cup {k} /\ entries'[k].owner = t
        /\ entries'[k].snap = None /\ entries'[k].good = old.good
    BY <1>4 DEF BeginLoad
  <2>2. \A j \in DOMAIN entries' \ {k} : j \in DOMAIN entries /\ entries'[j] = entries[j]
    BY <1>4, <1>q DEF BeginLoad
  <2>3. pc' = [pc EXCEPT ![t] = "fetching"] /\ pc[t] = "lookup"
        /\ fallback' = [fallback EXCEPT ![t] = UsableGood(Pruned, k)]
        /\ UNCHANGED <<now, key, fetched, result, newest, floor>>
    BY <1>4 DEF BeginLoad
  <2>4. old.good # None => k \in DOMAIN entries /\ old.good = entries[k].good
    BY <1>q DEF NewEntry
  <2>5. UsableGood(Pruned, k) # None => UsableGood(Pruned, k) = old.good
    BY DEF UsableGood
  <2>6. \A u \in Threads : pc[u] \in Loading => key[u] # k
    <3>1. k \in DOMAIN Pruned => Pruned[k].owner = None BY <1>4 DEF BeginLoad, LoadingIn
    <3> QED BY <1>a, <1>q, <3>1, LoaderAlone
  <2>7. pc'[t] = "fetching" /\ fallback'[t] = UsableGood(Pruned, k)
        /\ \A u \in Threads \ {t} : pc'[u] = pc[u] /\ fallback'[u] = fallback[u]
    BY <1>t, <2>3 DEF TypeOK
  <2> HIDE DEF old
  <2>8. ResultGiven' /\ NothingAhead' /\ FloorReached' /\ RepliesNeverGoBack'
    BY <2>3, <2>7 DEF Order, ResultGiven, NothingAhead, AnsweredBy, FloorReached, RepliesNeverGoBack
  <2>9. LiveIsGood' BY <2>1, <2>2 DEF Order, LiveIsGood
  <2>10. FallbackIsGood'
    BY <1>a, <2>1, <2>2, <2>3, <2>5, <2>6, <2>7 DEF Order, FallbackIsGood, Loading
  <2>11. GoodIsNewest'
    BY <2>1, <2>2, <2>3, <2>4, <2>7 DEF Order, GoodIsNewest, AnsweredBy
  <2>12. FetchedIsNewest' BY <2>3, <2>7 DEF Order, FetchedIsNewest, AnsweredBy
  <2> QED BY <2>8, <2>9, <2>10, <2>11, <2>12 DEF Order
<1>5. ASSUME NEW t \in Threads, NEW ok \in BOOLEAN, FetchReturns(t, ok),
             UNCHANGED <<observedAt, reply, newest, floor>>
      PROVE  Order'
  <2> DEFINE live == [key |-> key[t], born |-> now, ok |-> ok]
             useFb == ~ok /\ fallback[t] # None
             f == [snap |-> IF useFb THEN fallback[t] ELSE live, at |-> now, fb |-> useFb]
  <2>1. fetched' = [fetched EXCEPT ![t] = f] /\ pc' = [pc EXCEPT ![t] = "publishing"]
        /\ pc[t] = "fetching" /\ UNCHANGED <<now, entries, key, fallback, result, newest, floor>>
    BY <1>5 DEF FetchReturns
  <2>2. f.fb => fallback[t] # None /\ f.snap = fallback[t] OBVIOUS
  <2>3. ~f.fb => f.snap.born = now OBVIOUS
  <2>4. fetched'[t] = f /\ pc'[t] = "publishing"
        /\ \A u \in Threads \ {t} : fetched'[u] = fetched[u] /\ pc'[u] = pc[u]
    BY <1>t, <2>1 DEF TypeOK
  <2> HIDE DEF f
  <2>5. ResultGiven' /\ LiveIsGood' /\ NothingAhead' /\ GoodIsNewest' /\ FloorReached'
        /\ RepliesNeverGoBack'
    BY <2>1, <2>4 DEF Order, ResultGiven, LiveIsGood, NothingAhead, GoodIsNewest, AnsweredBy,
       FloorReached, RepliesNeverGoBack
  <2>6. FallbackIsGood' BY <2>1, <2>2, <2>4 DEF Order, FallbackIsGood, Loading
  <2>7. FetchedIsNewest'
    BY <1>t, <2>1, <2>3, <2>4 DEF Order, FetchedIsNewest, NothingAhead, AnsweredBy, TypeOK
  <2> QED BY <2>5, <2>6, <2>7 DEF Order
<1>6. ASSUME NEW t \in Threads, FetchRaises(t), UNCHANGED <<observedAt, reply, newest, floor>>
      PROVE  Order'
  BY <1>t, <1>i, <1>f, <1>6, OrderFrame DEF TypeOK, FetchRaises, Loading, FloorReached
<1>7. ASSUME NEW t \in Threads, Publish(t), UNCHANGED <<observedAt, reply, newest, floor>>
      PROVE  Order'
  <2> DEFINE k == key[t]
             f == fetched[t]
             full == IF Owns(t) THEN [entries EXCEPT ![key[t]] = Filled(@, f)] ELSE entries
             r == [snap |-> f.snap, hit |-> FALSE, fb |-> f.fb, at |-> f.at]
  <2>1. SubCache(entries', full) BY <1>7, TrimmedSub DEF Publish
  <2>2. UNCHANGED <<now, key, newest, floor>> /\ pc' = [Awakened EXCEPT ![t] = "done"]
        /\ pc[t] = "publishing" /\ fetched' = [fetched EXCEPT ![t] = None]
        /\ fallback' = [fallback EXCEPT ![t] = None] /\ result' = [result EXCEPT ![t] = r]
    BY <1>7 DEF Publish
  <2>3. pc[t] \in Loading BY <2>2 DEF Loading
  <2>4. Owns(t) /\ k \in DOMAIN entries /\ k \in Keys
    BY <1>t, <2>3, LoaderAlone DEF Owns, TypeOK
  <2>5. \A u \in Threads \ {t} : pc[u] \in Loading => key[u] # k
    BY <2>3, LoaderAlone
  <2>6. f \in Fetched /\ r \in Result
    BY <2>2 DEF IInv, Dating, CarriedDated, Fetched, Result
  <2>7. full[k] = Filled(entries[k], f) /\ DOMAIN full = DOMAIN entries
        /\ \A j \in DOMAIN entries \ {k} : full[j] = entries[j]
    BY <1>t, <2>4 DEF TypeOK
  <2>8. f.snap.ok =>
          /\ AnsweredBy(k, f.snap.born) /\ f.snap.born <= now
          /\ full[k].good = f.snap
    <3>1. CASE f.fb
      <4>1. f.snap = entries[k].good /\ entries[k].good # None
        BY <2>2, <2>3, <3>1 DEF Order, FallbackIsGood
      <4>2. full[k].good = entries[k].good BY <2>7, <3>1 DEF Filled
      <4> QED BY <2>4, <4>1, <4>2 DEF Order, GoodIsNewest
    <3>2. CASE ~f.fb
      <4>1. AnsweredBy(k, f.snap.born) /\ f.snap.born <= now
        BY <2>2, <3>2 DEF Order, FetchedIsNewest
      <4> QED BY <2>7, <3>2, <4>1 DEF Filled
    <3> QED BY <3>1, <3>2
  <2>9. full[k].snap = f.snap /\ full[k].owner = None
        /\ (~f.snap.ok => full[k].good = entries[k].good)
    BY <2>7 DEF Filled
  <2>10. pc'[t] = "done" /\ result'[t] = r /\ r.snap = f.snap /\ f.snap \in Snapshot
         /\ (\A u \in Threads \ {t} : result'[u] = result[u] /\ fetched'[u] = fetched[u]
                                      /\ fallback'[u] = fallback[u])
         /\ (\A u \in Threads \ {t} : pc'[u] = pc[u] \/ pc'[u] = "lookup")
    BY <1>t, <2>2, <2>6 DEF TypeOK, Awakened, Fetched
  <2>11. \A j \in DOMAIN entries' : j \in DOMAIN entries /\ entries'[j] = full[j]
    BY <2>1, <2>7 DEF SubCache
  <2>12. \A u \in Threads \ {t} : pc'[u] \in Loading =>
           pc'[u] = pc[u] /\ key[u] \in DOMAIN entries' /\ entries'[key[u]] = entries[key[u]]
    <3> SUFFICES ASSUME NEW u \in Threads \ {t}, pc'[u] \in Loading
                 PROVE  pc'[u] = pc[u] /\ key[u] \in DOMAIN entries'
                        /\ entries'[key[u]] = entries[key[u]]
      OBVIOUS
    <3>1. pc'[u] = pc[u] BY <2>10 DEF Loading
    <3>2. key[u] \in DOMAIN entries /\ entries[key[u]].owner # None /\ key[u] # k
      BY <2>5, <3>1, LoaderAlone
    <3> QED BY <2>1, <2>7, <2>11, <3>1, <3>2 DEF SubCache
  <2> HIDE DEF full, f, r
  <2>13. ResultGiven' BY <2>6, <2>10 DEF Order, ResultGiven
  <2>14. LiveIsGood' BY <2>7, <2>8, <2>9, <2>11 DEF Order, LiveIsGood
  <2>15. FallbackIsGood' BY <2>2, <2>10, <2>12 DEF Order, FallbackIsGood, Loading
  <2>16. GoodIsNewest'
    <3> SUFFICES ASSUME NEW j \in DOMAIN entries', entries'[j].good # None
                 PROVE  AnsweredBy(j, entries[j].good.born)' /\ entries'[j].good.born <= now'
      BY DEF GoodIsNewest
    <3>1. CASE j = k
      <4>1. entries'[j].good = full[k].good BY <2>11, <3>1
      <4>2. CASE f.snap.ok
        BY <2>2, <2>8, <2>10, <3>1, <4>1, <4>2 DEF AnsweredBy, Usable, Snapshot
      <4>3. CASE ~f.snap.ok
        <5>1. AnsweredBy(k, entries[k].good.born) /\ entries[k].good.born <= now
          BY <2>4, <2>9, <4>1, <4>3 DEF Order, GoodIsNewest
        <5> QED BY <2>2, <2>9, <2>10, <3>1, <4>1, <4>3, <5>1 DEF AnsweredBy, Usable
      <4> QED BY <4>2, <4>3
    <3>2. CASE j # k
      <4>1. entries'[j] = entries[j] /\ j \in DOMAIN entries BY <2>7, <2>11, <3>2
      <4> QED BY <2>2, <2>10, <3>2, <4>1 DEF Order, GoodIsNewest, AnsweredBy, Usable
    <3> QED BY <3>1, <3>2
  <2>17. FetchedIsNewest'
    <3> SUFFICES ASSUME NEW u \in Threads, pc'[u] = "publishing", ~fetched'[u].fb
                 PROVE  AnsweredBy(key[u], fetched[u].snap.born)' /\ fetched'[u].snap.born <= now'
      BY <2>2, <2>10 DEF FetchedIsNewest
    <3>1. u # t /\ pc[u] = "publishing" /\ key[u] # k /\ fetched'[u] = fetched[u]
      BY <2>5, <2>10 DEF Loading
    <3> QED BY <2>2, <2>10, <3>1 DEF Order, FetchedIsNewest, AnsweredBy, Usable
  <2>18. NothingAhead'
    BY <2>2, <2>8, <2>10 DEF Order, NothingAhead, AnsweredBy, Usable
  <2>19. FloorReached' BY <2>2 DEF Order, FloorReached
  <2>20. RepliesNeverGoBack'
    BY <1>t, <2>2, <2>4, <2>8, <2>10 DEF Order, RepliesNeverGoBack, FloorReached, AnsweredBy,
       TypeOK, ApiTypeOK, Snapshot
  <2> QED BY <2>13, <2>14, <2>15, <2>16, <2>17, <2>18, <2>19, <2>20 DEF Order
<1>8. ASSUME NEW t \in Threads, Abandon(t), UNCHANGED <<observedAt, reply, newest, floor>>
      PROVE  Order'
  <2>1. pc[t] = "raising" /\ pc[t] \in Loading BY <1>8 DEF Abandon, Loading
  <2>2. Owns(t) BY <2>1, LoaderAlone DEF Owns
  <2>3. pc' = [Awakened EXCEPT ![t] = "done"]
        /\ result' = [result EXCEPT ![t] = [snap |-> None, hit |-> FALSE, fb |-> FALSE, at |-> now]]
        /\ fallback' = [fallback EXCEPT ![t] = None]
        /\ UNCHANGED <<now, key, fetched, newest, floor>>
    BY <1>8, <2>2 DEF Abandon
  <2>4. DOMAIN entries' = DOMAIN entries
        /\ \A j \in DOMAIN entries :
             /\ entries'[j].snap = entries[j].snap
             /\ entries'[j].good = entries[j].good
             /\ entries'[j].owner # None => entries[j].owner # None
    BY <1>t, <1>8, <2>2 DEF Abandon, Unloaded, TypeOK
  <2>5. result'[t] \in Result /\ result'[t].snap = None /\ pc'[t] = "done"
        /\ (\A u \in Threads \ {t} : result'[u] = result[u] /\ fallback'[u] = fallback[u])
        /\ (\A u \in Threads \ {t} : pc'[u] = pc[u] \/ pc'[u] = "lookup")
    BY <1>t, <2>3 DEF TypeOK, Awakened, Result
  <2>6. ResultGiven' BY <2>5 DEF Order, ResultGiven
  <2>7. LiveIsGood' BY <2>4 DEF Order, LiveIsGood
  <2>8. FallbackIsGood'
    <3>1. \A u \in Threads \ {t} : pc'[u] \in Loading =>
            pc'[u] = pc[u] /\ entries'[key[u]].good = entries[key[u]].good
      BY <2>4, <2>5, LoaderAlone DEF Loading
    <3> QED BY <2>3, <2>5, <3>1 DEF Order, FallbackIsGood, Loading
  <2>9. GoodIsNewest' BY <2>3, <2>4, <2>5 DEF Order, GoodIsNewest, AnsweredBy, Usable
  <2>10. FetchedIsNewest' BY <2>3, <2>5 DEF Order, FetchedIsNewest, AnsweredBy, Usable
  <2>11. NothingAhead' BY <2>3, <2>5 DEF Order, NothingAhead, AnsweredBy, Usable
  <2>12. FloorReached' BY <2>3 DEF Order, FloorReached
  <2>13. RepliesNeverGoBack' BY <2>3, <2>5 DEF Order, RepliesNeverGoBack
  <2> QED BY <2>6, <2>7, <2>8, <2>9, <2>10, <2>11, <2>12, <2>13 DEF Order
<1>9. ASSUME NEW t \in Threads, NEW seen \in 0..MaxSeen, Answer(t, seen) PROVE Order'
  <2> DEFINE k == key[t]
  <2>1. pc[t] = "done" /\ pc' = [pc EXCEPT ![t] = "idle"] /\ result' = [result EXCEPT ![t] = None]
        /\ UNCHANGED <<now, entries, key, fallback, fetched, floor>>
    BY <1>9 DEF Answer, Respond
  <2>2. result[t] \in Result /\ k \in Keys BY <1>t, <2>1 DEF Order, ResultGiven, TypeOK
  <2>3. \/ newest' = newest
        \/ Usable(result[t]) /\ newest' = [newest EXCEPT ![k] =
             IF @ < result[t].snap.born THEN result[t].snap.born ELSE @]
    BY <1>9 DEF Answer, Usable
  <2>4. \A j \in Keys : newest[j] <= newest'[j]
    BY <2>2, <2>3 DEF ApiTypeOK, Usable, Result, Snapshot
  <2>5. \A j \in Keys, b \in Nat : AnsweredBy(j, b) => newest'[j] <= b
    BY <2>1, <2>2, <2>3 DEF AnsweredBy, ApiTypeOK
  <2>6. pc'[t] = "idle" /\ \A u \in Threads \ {t} : pc'[u] = pc[u] /\ result'[u] = result[u]
    BY <1>t, <2>1 DEF TypeOK
  <2>7. ResultGiven' /\ LiveIsGood' /\ FallbackIsGood' /\ RepliesNeverGoBack'
    BY <2>1, <2>6 DEF Order, ResultGiven, LiveIsGood, FallbackIsGood, RepliesNeverGoBack, Loading
  <2>8. GoodIsNewest'
    <3>1. \A j \in DOMAIN entries : j \in Keys /\ (entries[j].good # None => entries[j].good.born \in Nat)
      BY <1>t DEF TypeOK, Entry, Snapshot
    <3> QED BY <2>1, <2>5, <2>6, <3>1 DEF Order, GoodIsNewest, AnsweredBy
  <2>9. FetchedIsNewest'
    <3>1. \A u \in Threads : key[u] \in Keys /\ (pc[u] = "publishing" => fetched[u].snap.born \in Nat)
      BY <1>t DEF TypeOK, IInv, Dating, CarriedDated, Fetched, Snapshot
    <3> QED BY <2>1, <2>5, <2>6, <3>1 DEF Order, FetchedIsNewest, AnsweredBy
  <2>10. NothingAhead' BY <1>t, <2>1, <2>5, <2>6 DEF Order, NothingAhead, AnsweredBy, TypeOK
  <2>11. FloorReached'
    <3>1. \A j \in Keys : newest'[j] \in Nat
      BY <2>2, <2>3 DEF ApiTypeOK, Usable, Result, Snapshot
    <3> QED BY <1>t, <1>f, <2>1, <2>4, <3>1 DEF FloorReached, TypeOK, ApiTypeOK
  <2> QED BY <2>7, <2>8, <2>9, <2>10, <2>11 DEF Order
<1>10. CASE Tick /\ UNCHANGED <<observedAt, reply, newest, floor>>
  BY <1>t, <1>i, <1>f, <1>10, OrderFrame DEF TypeOK, Tick, FloorReached
<1>11. CASE (AllServed \/ UNCHANGED vars) /\ UNCHANGED <<observedAt, reply, newest, floor>>
  BY <1>t, <1>i, <1>f, <1>11, OrderFrame DEF TypeOK, AllServed, vars, FloorReached
<1> QED
  BY <1>1, <1>2, <1>3, <1>4, <1>5, <1>6, <1>7, <1>8, <1>9, <1>10, <1>11
  DEF ApiNext, CacheStep, apiVars

(***************************************************************************)
(* Types of what is answered.                                              *)
(***************************************************************************)
LEMMA VerdictType ==
  ASSUME NEW fixed \in Int, NEW at \in Nat
  PROVE  Verdict(fixed, at) \in {"omitted", "stale", "shown"}
BY DEF Verdict

\* What a thread answers is typed.
LEMMA AnswerGives ==
  ASSUME TypeOK, ApiTypeOK, ResultGiven, NEW t \in Threads, NEW seen \in 0..MaxSeen, Answer(t, seen)
  PROVE  /\ newest' \in [Keys -> Nat]
         /\ \E r \in Reply : reply' = [reply EXCEPT ![t] = r]
<1> DEFINE snap == result[t].snap
           fixed == PositionObservedAt(snap, seen)
<1>1. result[t] \in Result /\ key[t] \in Keys /\ observedAt[t] \in Nat
  BY DEF Answer, Respond, ResultGiven, TypeOK, ApiTypeOK
<1>2. CASE reply' = [reply EXCEPT ![t] = [verdict |-> "error"]] /\ newest' = newest
  <2>1. [verdict |-> "error"] \in Reply BY DEF Reply
  <2> QED BY <1>2, <2>1 DEF ApiTypeOK
<1>3. CASE Usable(result[t])
           /\ reply' = [reply EXCEPT ![t] = [verdict |-> Verdict(fixed, observedAt[t]), fixed |-> fixed]]
           /\ newest' = [newest EXCEPT ![key[t]] = IF @ < snap.born THEN snap.born ELSE @]
  <2>1. snap.born \in Nat /\ fixed \in Int
    BY <1>1, <1>3, ApiAssumption DEF Usable, Result, Snapshot, PositionObservedAt
  <2>2. newest' \in [Keys -> Nat] BY <1>1, <1>3, <2>1 DEF ApiTypeOK
  <2> DEFINE r == [verdict |-> Verdict(fixed, observedAt[t]), fixed |-> fixed]
  <2> HIDE DEF fixed
  <2>3. Verdict(fixed, observedAt[t]) \in {"omitted", "stale", "shown"}
    BY <1>1, <2>1, VerdictType
  <2>4. r \in Reply BY <2>1, <2>3 DEF Reply
  <2> QED BY <1>3, <2>2, <2>4
<1>4. Answer(t, seen) =>
        \/ reply' = [reply EXCEPT ![t] = [verdict |-> "error"]] /\ newest' = newest
        \/ /\ (IF snap = None THEN FALSE ELSE snap.ok)
           /\ reply' = [reply EXCEPT ![t] = [verdict |-> Verdict(fixed, observedAt[t]), fixed |-> fixed]]
           /\ newest' = [newest EXCEPT ![key[t]] = IF @ < snap.born THEN snap.born ELSE @]
  BY DEF Answer
<1>5. (IF snap = None THEN FALSE ELSE snap.ok) => Usable(result[t]) BY DEF Usable
<1> HIDE DEF fixed, snap
<1> QED BY <1>2, <1>3, <1>4, <1>5

LEMMA StepApiType ==
  TypeOK /\ ApiTypeOK /\ ResultGiven /\ [ApiNext]_apiVars => ApiTypeOK'
<1> SUFFICES ASSUME TypeOK, ApiTypeOK, ResultGiven, [ApiNext]_apiVars PROVE ApiTypeOK'
  OBVIOUS
<1>1. ASSUME NEW t \in Threads, NEW k \in Keys, Request(t, k) PROVE ApiTypeOK'
  <2>1. [verdict |-> "none"] \in Reply BY DEF Reply
  <2> QED BY <1>1, <2>1 DEF Request, TypeOK, ApiTypeOK
<1>2. ASSUME NEW t \in Threads, NEW seen \in 0..MaxSeen, Answer(t, seen) PROVE ApiTypeOK'
  BY <1>2, AnswerGives DEF Answer, ApiTypeOK
<1>3. CASE UNCHANGED <<observedAt, reply, newest, floor>> BY <1>3 DEF ApiTypeOK
<1> QED BY <1>1, <1>2, <1>3 DEF ApiNext, apiVars

(***************************************************************************)
(* The theorems.                                                           *)
(***************************************************************************)
LEMMA ApiInductive ==
  ASSUME ~ClearEnabled
  PROVE  ApiSpec => [](IInv /\ ApiTypeOK /\ Order)
<1>1. ApiInit => ApiTypeOK /\ Order
  <2> SUFFICES ASSUME ApiInit PROVE ApiTypeOK /\ Order
    OBVIOUS
  <2>1. ApiTypeOK
    <3>1. [verdict |-> "none"] \in Reply BY DEF Reply
    <3> QED BY <3>1 DEF ApiInit, ApiTypeOK
  <2>2. Order
    BY DEF ApiInit, Init, Order, ResultGiven, LiveIsGood, FallbackIsGood, GoodIsNewest,
           FetchedIsNewest, NothingAhead, AnsweredBy, FloorReached, RepliesNeverGoBack, Loading
  <2> QED BY <2>1, <2>2
<1>2. IInv /\ TypeOK /\ TypeOK' /\ ApiTypeOK /\ Order /\ [ApiNext]_apiVars
        => ApiTypeOK' /\ Order'
  BY StepOrder, StepApiType DEF Order
<1> QED BY <1>1, <1>2, CacheHolds, PTL DEF ApiSpec

\* aircraft() never answers with a snapshot older than one it answered with, for the
\* same scope, before the request arrived, as long as the cache is not cleared.
THEOREM RepliesAreOrdered == ASSUME ~ClearEnabled PROVE ApiSpec => []RepliesNeverGoBack
BY ApiInductive, PTL DEF Order
=============================================================================
