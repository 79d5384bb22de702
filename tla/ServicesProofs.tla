--------------------------- MODULE ServicesProofs ---------------------------
(***************************************************************************)
(* Proofs about the services of MCServices, for every value of the         *)
(* constants: the weather, the admission of astronomy requests, and the    *)
(* satellite catalogue.  The weather comes first and is proved of its own  *)
(* specification, WeatherService; it shares no state with the other two.   *)
(***************************************************************************)
EXTENDS MCServices, SequenceTheorems, FiniteSetTheorems, FunctionTheorems, TLAPS

(***************************************************************************)
(* The weather.  The memory cache and the provider under it are proved     *)
(* about together: a thread is in the provider exactly while it loads, a   *)
(* load holds the stripe of its observer, and, for UnmarkedNeverGoesBack,  *)
(* every unmarked forecast on its way to a caller, and every file that     *)
(* would be served as fresh, is at least as new as all that its observer   *)
(* has been given.                                                         *)
(***************************************************************************)

(***************************************************************************)
(* The inductive invariant of the weather.                                 *)
(***************************************************************************)
OwnerLoads ==
  \A k \in DOMAIN entries : entries[k].owner # None =>
    /\ pc[entries[k].owner] \in Loading
    /\ key[entries[k].owner] = k

LoaderOwns == \A t \in Threads : pc[t] \in Loading => Owns(t)

WaiterServed == \A t \in Threads : pc[t] = "waiting" => LoadingIn(entries, key[t])

\* An entry has nothing to serve while it is being loaded.
LoadingBlank == \A k \in DOMAIN entries : entries[k].owner # None => entries[k].snap = None

Coordination == OwnerLoads /\ LoaderOwns /\ WaiterServed /\ LoadingBlank

\* A thread is in the provider while it loads, and what it brings back is a snapshot.
Linked ==
  \A t \in Threads :
    /\ pc[t] = "loading" <=> stage[t] # "idle"
    /\ stage[t] # "returned" => outcome[t] = None
    /\ stage[t] \in Met!Locked => stripe[StripeOf[key[t]]] = t
    /\ pc[t] = "publishing" => loaded[t] # None

\* Nothing is dated later than now.
Dated ==
  /\ \A k \in Keys : newest[k] <= now
  /\ \A t \in Threads :
       /\ got[t] <= now
       /\ outcome[t] # None => outcome[t].born <= now
       /\ loaded[t] # None => loaded[t].born <= now
       /\ pc[t] = "done" /\ result[t].snap # None => result[t].snap.born <= now
  /\ \A k \in DOMAIN entries : entries[k].snap # None => entries[k].snap.born <= now
  /\ \A k \in DOMAIN files : files[k].mtime <= now

Unmarked(snap) == snap # None /\ ~snap.fb

\* A forecast born at b is not older than what the observer k has been given.
NotBefore(k, b) ==
  /\ newest[k] <= b
  /\ \A t \in Threads :
       pc[t] = "done" /\ key[t] = k /\ Unmarked(result[t].snap) => result[t].snap.born <= b

CachedNew ==
  \A k \in DOMAIN entries : Unmarked(entries[k].snap) => NotBefore(k, entries[k].snap.born)

LoadedNew ==
  \A t \in Threads :
    /\ stage[t] = "storing" => NotBefore(key[t], got[t])
    /\ pc[t] = "loading" /\ Unmarked(outcome[t]) => NotBefore(key[t], outcome[t].born)
    /\ pc[t] = "publishing" /\ Unmarked(loaded[t]) => NotBefore(key[t], loaded[t].born)

Usable(k) == Met!Fresh(k) /\ Met!Readable(k)

FilesNew ==
  \A k \in Keys : Usable(k) =>
    /\ NotBefore(k, files[k].mtime)
    /\ k \in DOMAIN entries /\ Unmarked(entries[k].snap) => entries[k].snap.born <= files[k].mtime
    /\ \A t \in Threads : key[t] = k =>
         /\ pc[t] = "loading" /\ Unmarked(outcome[t]) => outcome[t].born <= files[k].mtime
         /\ pc[t] = "publishing" /\ Unmarked(loaded[t]) => loaded[t].born <= files[k].mtime

Floors == \A t \in Threads : pc[t] # "idle" => floor[t] <= newest[key[t]]

Order == CachedNew /\ LoadedNew /\ FilesNew /\ Floors /\ UnmarkedNeverGoesBack

Types ==
  /\ TypeOK /\ Met!TypeOK
  /\ newest \in [Keys -> Nat]
  /\ floor \in [Threads -> Nat]
  /\ \A t \in Threads : pc[t] = "done" => result[t] \in Result

MemoryBounds == IsFiniteSet(DOMAIN entries) /\ IdleBounded /\ FallbackRetriedSoon

DiskBounds == IsFiniteSet(DOMAIN files) /\ Met!FilesBounded

Bounds == MemoryBounds /\ DiskBounds

WInv == Types /\ Coordination /\ Linked /\ Met!SingleDownload /\ Dated /\ Order /\ Bounds

(***************************************************************************)
(* What the operations on the two caches do.                               *)
(***************************************************************************)
\* es is a part of base that no loading entry is missing from.
SubCache(es, base) ==
  /\ DOMAIN es \subseteq DOMAIN base
  /\ es = [k \in DOMAIN es |-> base[k]]
  /\ \A k \in DOMAIN base : base[k].owner # None => k \in DOMAIN es

LEMMA PrunedSub == SubCache(Pruned, entries)
BY DEF SubCache, Pruned, Restrict, Retained

LEMMA TrimmedSub ==
  ASSUME NEW es, NEW k, NEW r \in Trimmed(es, k)
  PROVE  SubCache(r, es) /\ (k \in DOMAIN es => k \in DOMAIN r)
<1> DEFINE idle == {j \in DOMAIN es \ {k} : es[j].owner = None}
<1>1. PICK V \in SUBSET idle : r = Restrict(es, DOMAIN es \ V)
  BY Zenon DEF Trimmed
<1>2. DOMAIN r = DOMAIN es \ V /\ r = [j \in DOMAIN es \ V |-> es[j]]
  BY <1>1 DEF Restrict
<1> QED BY <1>2 DEF SubCache

LEMMA SubCacheType ==
  ASSUME NEW es, NEW r, es \in [DOMAIN es -> Entry], DOMAIN es \subseteq Keys,
         SubCache(r, es)
  PROVE  r \in [DOMAIN r -> Entry] /\ DOMAIN r \subseteq Keys
BY DEF SubCache

\* What a publication makes of the entries before they are trimmed.
LEMMA PublishedFull ==
  ASSUME WInv, NEW t \in Threads, Publish(t)
  PROVE  /\ loaded[t] \in Snapshot
         /\ key[t] \in DOMAIN entries /\ entries[key[t]].owner = t
         /\ SubCache(entries', [entries EXCEPT ![key[t]] = Filled(loaded[t])])
         /\ key[t] \in DOMAIN entries'
         /\ entries' \in Trimmed([entries EXCEPT ![key[t]] = Filled(loaded[t])], key[t])
<1>1. Owns(t) BY DEF WInv, Coordination, LoaderOwns, Publish, Loading
<1>2. loaded[t] \in Snapshot BY DEF WInv, Types, TypeOK, Linked, Publish
<1> DEFINE full == [entries EXCEPT ![key[t]] = Filled(loaded[t])]
<1>3. entries' \in Trimmed(full, key[t]) BY <1>1 DEF Publish
<1>4. key[t] \in DOMAIN full BY <1>1 DEF Owns
<1> HIDE DEF full
<1>5. SubCache(entries', full) /\ key[t] \in DOMAIN entries' BY <1>3, <1>4, TrimmedSub
<1> QED BY <1>1, <1>2, <1>3, <1>5 DEF Owns, full

\* The provider counts its files as everybody counts.
LEMMA SameCount == ASSUME NEW S PROVE Met!Cardinality(S) = Cardinality(S)
BY Zenon DEF Met!Cardinality, Cardinality

\* A pruned directory keeps the protected file and alters none.
LEMMA PrunedByKeeps ==
  ASSUME NEW fs, NEW k \in DOMAIN fs, NEW n, NEW r \in Met!PrunedBy(fs, k, n)
  PROVE  /\ DOMAIN r \subseteq DOMAIN fs /\ k \in DOMAIN r
         /\ r = [j \in DOMAIN r |-> fs[j]]
         /\ \E W \in SUBSET DOMAIN fs : Cardinality(W) = n /\ DOMAIN r = DOMAIN fs \ W
<1>1. PICK W \in SUBSET (DOMAIN fs \ {k}) :
        Met!Cardinality(W) = n /\ r = Met!Restrict(fs, DOMAIN fs \ W)
  BY Zenon DEF Met!PrunedBy
<1>2. DOMAIN r = DOMAIN fs \ W /\ r = [j \in DOMAIN fs \ W |-> fs[j]]
  BY <1>1 DEF Met!Restrict
<1>3. Cardinality(W) = n BY <1>1, SameCount
<1> QED BY <1>2, <1>3

\* fs is the directory after a write of k's forecast and some unlinks.
Rewritten(fs, k) ==
  /\ DOMAIN fs \subseteq DOMAIN files \cup {k} /\ k \in DOMAIN fs
  /\ fs = [j \in DOMAIN fs |-> IF j = k THEN [mtime |-> now, readable |-> TRUE] ELSE files[j]]

LEMMA PrunedRewritten ==
  ASSUME NEW k, NEW n, NEW r \in Met!PrunedBy(Met!Written(k), k, n)
  PROVE  Rewritten(r, k)
<1>1. DOMAIN Met!Written(k) = DOMAIN files \cup {k}
      /\ \A j \in DOMAIN files \cup {k} :
           Met!Written(k)[j] = IF j = k THEN [mtime |-> now, readable |-> TRUE] ELSE files[j]
  BY DEF Met!Written
<1>2. DOMAIN r \subseteq DOMAIN files \cup {k} /\ k \in DOMAIN r
      /\ r = [j \in DOMAIN r |-> Met!Written(k)[j]]
  BY <1>1, PrunedByKeeps
<1> QED BY <1>1, <1>2 DEF Rewritten

LEMMA CutShortRewritten ==
  ASSUME NEW k, Met!StoreCutShort(k)
  PROVE  Rewritten(files', k) /\ overdue'
<1>1. PICK n \in 0..(Met!Excess(Met!Written(k)) - 1) :
        files' \in Met!PrunedBy(Met!Written(k), k, n)
  BY DEF Met!StoreCutShort
<1> QED BY <1>1, PrunedRewritten DEF Met!StoreCutShort

\* A store leaves the directory as it is or writes the forecast of its observer.
LEMMA StoreFiles ==
  ASSUME NEW t \in Threads, NEW o, Met!Store(t, o)
  PROVE  files' = files \/ Rewritten(files', key[t])
<1>1. CASE files' \in Met!PrunedBy(Met!Written(key[t]), key[t], Met!Excess(Met!Written(key[t])))
  BY <1>1, PrunedRewritten
<1>2. CASE Met!StoreCutShort(key[t]) BY <1>2, CutShortRewritten
<1>3. CASE UNCHANGED files BY <1>3
<1> QED BY <1>1, <1>2, <1>3 DEF Met!Store

\* So does a restart, which may come in the middle of a store.
LEMMA RestartFiles ==
  ASSUME RestartService
  PROVE  files' = files \/ \E t \in Threads : stage[t] = "storing" /\ Rewritten(files', key[t])
<1>1. CASE UNCHANGED files BY <1>1
<1>2. ASSUME NEW t \in Threads, stage[t] = "storing", Met!StoreCutShort(key[t])
      PROVE  Rewritten(files', key[t])
  BY <1>2, CutShortRewritten
<1> QED BY <1>1, <1>2 DEF RestartService, Met!Restart

LEMMA RewrittenType ==
  ASSUME NEW fs, NEW k, Rewritten(fs, k), now \in Nat, files \in [DOMAIN files -> Met!File]
  PROVE  fs \in [DOMAIN fs -> Met!File]
<1> DEFINE new == [mtime |-> now, readable |-> TRUE]
<1>1. new \in Met!File BY DEF Met!File
<1>2. \A j \in DOMAIN fs : fs[j] = new \/ (j \in DOMAIN files /\ fs[j] = files[j])
  BY DEF Rewritten
<1>3. fs = [j \in DOMAIN fs |-> fs[j]] BY DEF Rewritten
<1> HIDE DEF new
<1> QED BY <1>1, <1>2, <1>3

(***************************************************************************)
(* Type correctness.                                                       *)
(***************************************************************************)
\* The steps of a load inside the provider.
LEMMA RunLoadTypes ==
  ASSUME WInv, NEW t \in Threads, RunLoad(t)
  PROVE  Met!TypeOK'
<1>0. Met!TypeOK /\ key' = key BY DEF WInv, Types, RunLoad, vars
<1>m. StripeOf \in [Keys -> Stripes] BY WeatherAssumption DEF Met!ProviderAssumption
<1>f. ASSUME NEW r \in Met!Snapshot \cup {None}, Met!Finish(t, r)
      PROVE  /\ stage' \in [Threads -> Met!Stages] /\ got' \in [Threads -> Nat]
             /\ outcome' \in [Threads -> Met!Snapshot \cup {None}]
             /\ stripe' \in [Stripes -> Threads \cup {None}]
  BY <1>0, <1>m, <1>f DEF Met!Finish, Met!TypeOK, Met!Stages, Met!Locked
<1>d. ASSUME NEW fb \in BOOLEAN, Met!Readable(key[t])
      PROVE  Met!FromDisk(key[t], fb) \in Met!Snapshot
  BY <1>0, <1>d DEF Met!FromDisk, Met!Snapshot, Met!Readable, Met!TypeOK, Met!File
<1>1. CASE Met!Acquire(t)
  BY <1>0, <1>m, <1>1 DEF Met!Acquire, Met!TypeOK, Met!Stages, Met!Locked
<1>2. CASE Met!Probe(t)
  <2>1. CASE Met!Fresh(key[t]) /\ Met!Readable(key[t])
    <3>1. Met!Finish(t, Met!FromDisk(key[t], FALSE)) /\ UNCHANGED <<now, files, overdue>>
      BY <1>2, <2>1 DEF Met!Probe
    <3>2. Met!FromDisk(key[t], FALSE) \in Met!Snapshot BY <1>d, <2>1
    <3> QED BY <1>0, <1>f, <3>1, <3>2 DEF Met!TypeOK
  <2>2. CASE ~(Met!Fresh(key[t]) /\ Met!Readable(key[t]))
    BY <1>0, <1>2, <2>2 DEF Met!Probe, Met!TypeOK, Met!Stages, Met!Locked
  <2> QED BY <2>1, <2>2
<1>3. ASSUME NEW o, Met!Download(t, o) PROVE Met!TypeOK'
  <2>1. UNCHANGED <<now, files, overdue>> BY <1>3 DEF Met!Download
  <2>2. CASE o \in {"parsed", "failed"}
    BY <1>0, <1>3, <2>1, <2>2 DEF Met!Download, Met!TypeOK, Met!Stages, Met!Locked
  <2>3. CASE o = "raised"
    <3>1. Met!Finish(t, None) BY <1>3, <2>3 DEF Met!Download
    <3> QED BY <1>0, <1>f, <2>1, <3>1 DEF Met!TypeOK
  <2> QED BY <1>3, <2>2, <2>3 DEF Met!Download
<1>4. ASSUME NEW o, Met!Store(t, o) PROVE Met!TypeOK'
  <2>1. Met!Finish(t, [key |-> key[t], born |-> got[t], fb |-> FALSE]) /\ UNCHANGED now
    BY <1>4 DEF Met!Store
  <2>2. [key |-> key[t], born |-> got[t], fb |-> FALSE] \in Met!Snapshot
    BY <1>0 DEF Met!Snapshot, Met!TypeOK
  <2>3. files' \in [DOMAIN files' -> Met!File]
    BY <1>0, <1>4, StoreFiles, RewrittenType DEF Met!TypeOK
  <2>4. overdue' \in BOOLEAN BY <1>0, <1>4 DEF Met!Store, Met!StoreCutShort, Met!TypeOK
  <2> QED BY <1>0, <1>f, <2>1, <2>2, <2>3, <2>4 DEF Met!TypeOK
<1>5. CASE Met!Salvage(t)
  <2>1. UNCHANGED <<now, files, overdue>>
        /\ Met!Finish(t, IF Met!Readable(key[t]) THEN Met!FromDisk(key[t], TRUE) ELSE None)
    BY <1>5 DEF Met!Salvage
  <2>2. (IF Met!Readable(key[t]) THEN Met!FromDisk(key[t], TRUE) ELSE None)
          \in Met!Snapshot \cup {None}
    BY <1>d
  <2> QED BY <1>0, <1>f, <2>1, <2>2 DEF Met!TypeOK
<1> QED BY <1>1, <1>2, <1>3, <1>4, <1>5 DEF RunLoad, Met!LoadStep

\* The state of the provider stays as it is.
ProviderRests == UNCHANGED <<key, providerVars>> /\ now' \in {now, now + 1}

LEMMA StepTypes == WInv /\ [ServiceNext]_serviceVars => Types'
<1> SUFFICES ASSUME WInv, [ServiceNext]_serviceVars PROVE Types'
  OBVIOUS
<1>0. Types /\ TypeOK /\ Met!TypeOK BY DEF WInv, Types
<1>p. Pruned \in [DOMAIN Pruned -> Entry] /\ DOMAIN Pruned \subseteq Keys
  BY <1>0, PrunedSub, SubCacheType DEF TypeOK
<1>m. ASSUME ProviderRests PROVE Met!TypeOK'
  BY <1>0, <1>m DEF ProviderRests, providerVars, Met!TypeOK
<1>1. ASSUME NEW t \in Threads, NEW k \in Keys, Request(t, k) PROVE Types'
  <2>1. TypeOK' BY <1>0, <1>1 DEF Request, Call, TypeOK, Phases
  <2>2. Met!TypeOK' BY <1>0, <2>1, <1>1 DEF Request, Call, providerVars, Met!TypeOK, TypeOK
  <2>3. newest' \in [Keys -> Nat] /\ floor' \in [Threads -> Nat]
    BY <1>0, <1>1 DEF Request, Types
  <2>4. \A s \in Threads : pc'[s] = "done" => pc[s] = "done" /\ result'[s] = result[s]
    BY <1>0, <1>1 DEF Request, Call, TypeOK
  <2> QED BY <1>0, <2>1, <2>2, <2>3, <2>4 DEF Types
<1>2. ASSUME NEW t \in Threads, StartLoad(t) PROVE Types'
  <2> DEFINE new == [snap |-> None, expires |-> 0, owner |-> t]
  <2>1. BeginLoad(t) /\ key[t] \in Keys /\ new \in Entry
    BY <1>0, <1>2 DEF StartLoad, TypeOK, Entry
  <2>2. entries' = [j \in DOMAIN Pruned \cup {key[t]} |-> IF j = key[t] THEN new ELSE Pruned[j]]
    BY <2>1 DEF BeginLoad
  <2>3. entries' \in [DOMAIN entries' -> Entry] /\ DOMAIN entries' \subseteq Keys
    <3> HIDE DEF new
    <3> QED BY <1>p, <2>1, <2>2
  <2>4. pc' = [pc EXCEPT ![t] = "loading"] /\ UNCHANGED <<now, calls, key, loaded, result>>
    BY <2>1 DEF BeginLoad
  <2>5. TypeOK' BY <1>0, <2>3, <2>4 DEF TypeOK, Phases, Loading
  <2>6. Met!TypeOK'
    BY <1>0, <1>2, <2>4 DEF StartLoad, Met!Load, Met!TypeOK, Met!Stages, Met!Locked
  <2>7. UNCHANGED answers /\ \A s \in Threads : pc'[s] = "done" => pc[s] = "done"
    BY <1>0, <1>2, <2>4 DEF StartLoad, TypeOK
  <2> QED BY <1>0, <2>4, <2>5, <2>6, <2>7 DEF Types, answers
<1>3. ASSUME NEW t \in Threads, RunLoad(t) PROVE Types'
  <2>1. Met!TypeOK' BY <1>3, RunLoadTypes
  <2>2. UNCHANGED <<vars, answers>> BY <1>3 DEF RunLoad
  <2> QED BY <1>0, <2>1, <2>2 DEF Types, TypeOK, vars, answers
<1>4. ASSUME NEW t \in Threads, EndLoad(t) PROVE Types'
  <2>1. UNCHANGED <<now, calls, entries, key, result, answers>>
        /\ (loaded' = loaded \/ loaded' = [loaded EXCEPT ![t] = outcome[t]])
        /\ \E p \in {"publishing", "raising"} : pc' = [pc EXCEPT ![t] = p]
    BY <1>4 DEF EndLoad, LoadReturns, LoadRaises
  <2>2. outcome[t] \in Snapshot \cup {None} BY <1>0 DEF Met!TypeOK, Snapshot, Met!Snapshot
  <2>3. TypeOK' BY <1>0, <2>1, <2>2 DEF TypeOK, Phases, Loading
  <2>4. Met!TypeOK'
    BY <1>0, <1>4, <2>1 DEF EndLoad, Met!Return, Met!TypeOK, Met!Stages, Met!Locked
  <2>5. \A s \in Threads : pc'[s] = "done" => pc[s] = "done"
    BY <1>0, <2>1 DEF TypeOK
  <2> QED BY <1>0, <2>1, <2>3, <2>4, <2>5 DEF Types, answers
<1>5. ASSUME NEW t \in Threads, Answer(t) PROVE Types'
  <2>1. TypeOK' BY <1>0, <1>5 DEF Answer, Respond, TypeOK, Phases
  <2>2. ProviderRests BY <1>5 DEF Answer, Respond, ProviderRests
  <2>3. result[t].snap \in Snapshot \cup {None} /\ key[t] \in Keys
    BY <1>0, <1>5 DEF Answer, Respond, Types, TypeOK, Result
  <2>4. newest' \in [Keys -> Nat] /\ floor' = floor
    BY <1>0, <1>5, <2>3 DEF Answer, Types, Snapshot
  <2>5. \A s \in Threads : pc'[s] = "done" => pc[s] = "done" /\ result'[s] = result[s]
    BY <1>0, <1>5 DEF Answer, Respond, TypeOK
  <2> QED BY <1>0, <1>m, <2>1, <2>2, <2>4, <2>5 DEF Types
<1>6. ASSUME NEW t \in Threads, Hit(t), UNCHANGED <<providerVars, answers>> PROVE Types'
  <2> DEFINE r == [snap |-> Pruned[key[t]].snap, hit |-> TRUE, at |-> now]
  <2>1. r \in Result
    <3>1. Pruned[key[t]].snap \in Snapshot BY <1>p, <1>6 DEF Hit, LiveIn, Entry
    <3> QED BY <1>0, <3>1 DEF Result, TypeOK
  <2>2. result' = [result EXCEPT ![t] = r] /\ entries' = Pruned
        /\ pc' = [pc EXCEPT ![t] = "done"] /\ UNCHANGED <<now, calls, key, loaded>>
    BY <1>6 DEF Hit
  <2> HIDE DEF r
  <2>3. TypeOK' BY <1>0, <1>p, <2>1, <2>2 DEF TypeOK, Phases
  <2>4. ProviderRests BY <1>6, <2>2 DEF ProviderRests
  <2>5. \A s \in Threads : pc'[s] = "done" => result'[s] \in Result
    BY <1>0, <2>1, <2>2 DEF Types, TypeOK
  <2> QED BY <1>0, <1>6, <1>m, <2>3, <2>4, <2>5 DEF Types, answers
<1>7. ASSUME NEW t \in Threads, Wait(t), UNCHANGED <<providerVars, answers>> PROVE Types'
  <2>1. TypeOK' BY <1>0, <1>p, <1>7 DEF Wait, TypeOK, Phases
  <2>2. ProviderRests BY <1>7 DEF Wait, ProviderRests
  <2>3. \A s \in Threads : pc'[s] = "done" => pc[s] = "done" /\ result'[s] = result[s]
    BY <1>0, <1>7 DEF Wait, TypeOK
  <2> QED BY <1>0, <1>7, <1>m, <2>1, <2>2, <2>3 DEF Types, answers
<1>8. ASSUME NEW t \in Threads, Publish(t), UNCHANGED <<providerVars, answers>> PROVE Types'
  <2> DEFINE full == [entries EXCEPT ![key[t]] = Filled(loaded[t])]
             r == [snap |-> loaded[t], hit |-> FALSE, at |-> now]
  <2>1. loaded[t] \in Snapshot /\ SubCache(entries', full) BY <1>8, PublishedFull
  <2>2. Filled(loaded[t]) \in Entry
    BY <1>0, <2>1, WeatherAssumption
    DEF Filled, Lifetime, Entry, Snapshot, TypeOK, WeatherCacheAssumption
  <2>3. full \in [DOMAIN full -> Entry] /\ DOMAIN full \subseteq Keys
    BY <1>0, <2>2 DEF TypeOK
  <2>4. entries' \in [DOMAIN entries' -> Entry] /\ DOMAIN entries' \subseteq Keys
    <3> HIDE DEF full
    <3> QED BY <2>1, <2>3, SubCacheType
  <2>5. r \in Result BY <1>0, <2>1 DEF Result, TypeOK
  <2>6. result' = [result EXCEPT ![t] = r] /\ pc' = [Awakened EXCEPT ![t] = "done"]
        /\ loaded' = [loaded EXCEPT ![t] = None] /\ UNCHANGED <<now, calls, key>>
    BY <1>8 DEF Publish
  <2> HIDE DEF r
  <2>7. pc' \in [Threads -> Phases] /\ \A s \in Threads : pc'[s] = "done" => s = t \/ pc[s] = "done"
    BY <1>0, <2>6 DEF Awakened, TypeOK, Phases
  <2>8. TypeOK' BY <1>0, <2>4, <2>5, <2>6, <2>7 DEF TypeOK
  <2>9. ProviderRests BY <1>8, <2>6 DEF ProviderRests
  <2>10. \A s \in Threads : pc'[s] = "done" => result'[s] \in Result
    BY <1>0, <2>5, <2>6, <2>7 DEF Types, TypeOK
  <2> QED BY <1>0, <1>8, <1>m, <2>8, <2>9, <2>10 DEF Types, answers
<1>9. ASSUME NEW t \in Threads, Abandon(t), UNCHANGED <<providerVars, answers>> PROVE Types'
  <2>1. DOMAIN entries' \subseteq DOMAIN entries /\ entries' = [k \in DOMAIN entries' |-> entries[k]]
    BY <1>0, <1>9 DEF Abandon, Restrict, TypeOK
  <2>2. entries' \in [DOMAIN entries' -> Entry] /\ DOMAIN entries' \subseteq Keys
    BY <1>0, <2>1 DEF TypeOK
  <2>3. result' = [result EXCEPT ![t] = [snap |-> None, hit |-> FALSE, at |-> now]]
        /\ pc' = [Awakened EXCEPT ![t] = "done"] /\ UNCHANGED <<now, calls, key, loaded>>
    BY <1>9 DEF Abandon
  <2>4. [snap |-> None, hit |-> FALSE, at |-> now] \in Result BY <1>0 DEF Result, TypeOK
  <2>5. pc' \in [Threads -> Phases] /\ \A s \in Threads : pc'[s] = "done" => s = t \/ pc[s] = "done"
    BY <1>0, <2>3 DEF Awakened, TypeOK, Phases
  <2>6. TypeOK' BY <1>0, <2>2, <2>3, <2>4, <2>5 DEF TypeOK
  <2>7. ProviderRests BY <1>9, <2>3 DEF ProviderRests
  <2>8. \A s \in Threads : pc'[s] = "done" => result'[s] \in Result
    BY <1>0, <2>3, <2>4, <2>5 DEF Types, TypeOK
  <2> QED BY <1>0, <1>9, <1>m, <2>6, <2>7, <2>8 DEF Types, answers
<1>10. CASE RestartService
  <2>1. TypeOK' BY <1>0, <1>10 DEF RestartService, Met!Restart, NoEntries, TypeOK, Phases
  <2>2. UNCHANGED <<now, key, answers>> /\ stage' = [t \in Threads |-> "idle"]
        /\ got' = [t \in Threads |-> 0] /\ outcome' = [t \in Threads |-> None]
        /\ stripe' = [s \in Stripes |-> None] /\ pc' = [t \in Threads |-> "idle"]
    BY <1>10 DEF RestartService, Met!Restart
  <2>3. files' \in [DOMAIN files' -> Met!File]
    BY <1>0, <1>10, RestartFiles, RewrittenType DEF Met!TypeOK
  <2>4. overdue' \in BOOLEAN
    BY <1>0, <1>10 DEF RestartService, Met!Restart, Met!StoreCutShort, Met!TypeOK
  <2>5. Met!TypeOK' BY <1>0, <2>2, <2>3, <2>4 DEF Met!TypeOK, Met!Stages
  <2> QED BY <1>0, <2>1, <2>2, <2>5 DEF Types, answers
<1>11. CASE SpoilFile
  <2>1. PICK k \in Keys : Met!Spoil(k) BY <1>11 DEF SpoilFile
  <2>2. files' \in [DOMAIN files' -> Met!File]
    BY <1>0, <2>1 DEF Met!Spoil, Met!Readable, Met!TypeOK, Met!File
  <2>3. UNCHANGED <<vars, stage, got, outcome, stripe, overdue, answers>>
    BY <1>11, <2>1 DEF SpoilFile, Met!Spoil, vars
  <2> QED BY <1>0, <2>2, <2>3 DEF Types, TypeOK, Met!TypeOK, vars, answers
<1>12. CASE Tick /\ UNCHANGED <<providerVars, answers>>
  BY <1>0, <1>12 DEF Tick, Types, TypeOK, Met!TypeOK, providerVars, answers
<1>13. CASE UNCHANGED serviceVars
  BY <1>0, <1>13 DEF serviceVars, vars, Types, TypeOK, Met!TypeOK, providerVars, answers
<1> QED
  BY <1>1, <1>2, <1>3, <1>4, <1>5, <1>6, <1>7, <1>8, <1>9, <1>10, <1>11, <1>12, <1>13
  DEF ServiceNext, Serve

(***************************************************************************)
(* Coordination: loading entries and loaders correspond.                   *)
(***************************************************************************)
\* A step that moves no thread into or out of a load, or to waiting, and only
\* prunes the entries keeps the correspondence.
LEMMA CoordinationFrame ==
  ASSUME WInv, Types', SubCache(entries', entries),
         \A t \in Threads : pc'[t] \in Loading <=> pc[t] \in Loading,
         \A t \in Threads : pc[t] \in Loading => key'[t] = key[t],
         \A t \in Threads : pc'[t] = "waiting" =>
           (pc[t] = "waiting" /\ key'[t] = key[t]) \/ LoadingIn(entries', key'[t])
  PROVE  Coordination'
<1>0. TypeOK /\ TypeOK' /\ Coordination BY DEF WInv, Types
<1>n. None \notin Threads BY WeatherAssumption DEF WeatherCacheAssumption
<1> USE DEF Coordination, SubCache
<1>1. OwnerLoads' BY <1>0 DEF OwnerLoads, TypeOK, Entry
<1>2. LoaderOwns' BY <1>0, <1>n DEF LoaderOwns, Owns
<1>3. WaiterServed' BY <1>0 DEF WaiterServed, LoadingIn
<1>4. LoadingBlank' BY <1>0 DEF LoadingBlank
<1> QED BY <1>1, <1>2, <1>3, <1>4

LEMMA StepCoordination == WInv /\ Types' /\ [ServiceNext]_serviceVars => Coordination'
<1> SUFFICES ASSUME WInv, Types', [ServiceNext]_serviceVars PROVE Coordination'
  OBVIOUS
<1>0. TypeOK /\ TypeOK' BY DEF WInv, Types
<1>i. SubCache(entries, entries) BY <1>0 DEF SubCache, TypeOK
<1>p. SubCache(Pruned, entries) BY PrunedSub
<1>c. Coordination BY DEF WInv
<1>n. None \notin Threads BY WeatherAssumption DEF WeatherCacheAssumption
<1>1. ASSUME NEW t \in Threads, NEW k \in Keys, Request(t, k) PROVE Coordination'
  BY <1>0, <1>i, <1>1, CoordinationFrame DEF TypeOK, Request, Call, Loading
<1>2. ASSUME NEW t \in Threads, StartLoad(t) PROVE Coordination'
  <2>0. BeginLoad(t) BY <1>2 DEF StartLoad
  <2>1. DOMAIN entries' = DOMAIN Pruned \cup {key[t]}
        /\ entries'[key[t]].owner = t /\ entries'[key[t]].snap = None
    BY <2>0 DEF BeginLoad
  <2>2. \A k \in DOMAIN Pruned \ {key[t]} : entries'[k] = entries[k]
    BY <2>0, <1>p DEF BeginLoad, SubCache
  <2>3. key[t] \in DOMAIN entries => entries[key[t]].owner = None
    BY <2>0, <1>p DEF BeginLoad, LoadingIn, SubCache
  <2>4. pc' = [pc EXCEPT ![t] = "loading"] /\ key' = key /\ pc[t] = "lookup"
    BY <2>0 DEF BeginLoad
  <2>5. OwnerLoads'
    <3> SUFFICES ASSUME NEW k \in DOMAIN entries', entries'[k].owner # None
                 PROVE  pc'[entries'[k].owner] \in Loading /\ key'[entries'[k].owner] = k
      BY DEF OwnerLoads
    <3>1. CASE k = key[t] BY <1>0, <2>1, <2>4, <3>1 DEF TypeOK, Loading
    <3>2. CASE k # key[t]
      <4>1. k \in DOMAIN entries /\ entries'[k] = entries[k]
        BY <1>p, <2>1, <2>2, <3>2 DEF SubCache
      <4>2. entries[k].owner \in Threads BY <1>0, <4>1 DEF TypeOK, Entry
      <4> QED BY <1>0, <1>c, <2>4, <4>1, <4>2 DEF Coordination, OwnerLoads, TypeOK, Loading
    <3> QED BY <3>1, <3>2
  <2>6. LoaderOwns'
    <3> SUFFICES ASSUME NEW s \in Threads, pc'[s] \in Loading
                 PROVE  key[s] \in DOMAIN entries' /\ entries'[key[s]].owner = s
      BY <2>4 DEF LoaderOwns, Owns
    <3>1. CASE s = t BY <2>1, <3>1
    <3>2. CASE s # t
      <4>1. key[s] \in DOMAIN entries /\ entries[key[s]].owner = s
        BY <1>0, <1>c, <2>4, <3>2 DEF Coordination, LoaderOwns, Owns, TypeOK
      <4>2. key[s] # key[t] BY <1>n, <2>3, <4>1
      <4> QED BY <1>n, <1>p, <2>1, <2>2, <4>1, <4>2 DEF SubCache
    <3> QED BY <3>1, <3>2
  <2>7. WaiterServed'
    <3> SUFFICES ASSUME NEW s \in Threads, pc'[s] = "waiting"
                 PROVE  key[s] \in DOMAIN entries' /\ entries'[key[s]].owner # None
      BY <2>4 DEF WaiterServed, LoadingIn
    <3>1. key[s] \in DOMAIN entries /\ entries[key[s]].owner # None
      BY <1>0, <1>c, <2>4 DEF Coordination, WaiterServed, LoadingIn, TypeOK
    <3> QED BY <1>n, <1>p, <2>1, <2>2, <3>1 DEF SubCache
  <2>8. LoadingBlank'
    BY <1>c, <1>p, <2>1, <2>2 DEF Coordination, LoadingBlank, SubCache
  <2> QED BY <2>5, <2>6, <2>7, <2>8 DEF Coordination
<1>3. ASSUME NEW t \in Threads, RunLoad(t) PROVE Coordination'
  BY <1>i, <1>3, CoordinationFrame DEF RunLoad, vars
<1>4. ASSUME NEW t \in Threads, EndLoad(t) PROVE Coordination'
  BY <1>0, <1>i, <1>4, CoordinationFrame DEF TypeOK, EndLoad, LoadReturns, LoadRaises, Loading
<1>5. ASSUME NEW t \in Threads, Answer(t) PROVE Coordination'
  BY <1>0, <1>i, <1>5, CoordinationFrame DEF TypeOK, Answer, Respond, Loading
<1>6. ASSUME NEW t \in Threads, Hit(t) PROVE Coordination'
  BY <1>0, <1>p, <1>6, CoordinationFrame DEF TypeOK, Hit, Loading
<1>7. ASSUME NEW t \in Threads, Wait(t) PROVE Coordination'
  BY <1>0, <1>p, <1>7, CoordinationFrame DEF TypeOK, Wait, Loading, LoadingIn
<1>8. ASSUME NEW t \in Threads, Publish(t) PROVE Coordination'
  <2> DEFINE full == [entries EXCEPT ![key[t]] = Filled(loaded[t])]
  <2>1. SubCache(entries', full) BY <1>8, PublishedFull
  <2>2. DOMAIN full = DOMAIN entries BY <1>0 DEF TypeOK
  <2>3. \A k \in DOMAIN entries : full[k].owner = IF k = key[t] THEN None ELSE entries[k].owner
    BY <1>0 DEF TypeOK, Filled
  <2>4. \A k \in DOMAIN entries : k # key[t] => full[k] = entries[k]
    BY <1>0 DEF TypeOK
  <2> HIDE DEF full
  <2>5. key' = key /\ pc' = [Awakened EXCEPT ![t] = "done"] /\ pc[t] = "publishing"
    BY <1>8 DEF Publish
  <2>6. OwnerLoads' /\ LoaderOwns'
    BY <1>0, <1>c, <1>n, <2>1, <2>2, <2>3, <2>5
    DEF Coordination, OwnerLoads, LoaderOwns, Owns, SubCache, Awakened, TypeOK, Loading, Entry
  <2>7. WaiterServed'
    BY <1>0, <2>5 DEF WaiterServed, Awakened, TypeOK
  <2>8. LoadingBlank'
    BY <1>c, <2>1, <2>2, <2>3, <2>4 DEF Coordination, LoadingBlank, SubCache
  <2> QED BY <2>6, <2>7, <2>8 DEF Coordination
<1>9. ASSUME NEW t \in Threads, Abandon(t) PROVE Coordination'
  <2>1. Owns(t) BY <1>c, <1>9 DEF Coordination, LoaderOwns, Abandon, Loading
  <2>2. DOMAIN entries' = DOMAIN entries \ {key[t]}
        /\ \A k \in DOMAIN entries \ {key[t]} : entries'[k] = entries[k]
    BY <1>9, <2>1 DEF Abandon, Restrict
  <2>3. key' = key /\ pc' = [Awakened EXCEPT ![t] = "done"] /\ pc[t] = "raising"
    BY <1>9 DEF Abandon
  <2>4. OwnerLoads' /\ LoaderOwns'
    BY <1>0, <1>c, <1>n, <2>1, <2>2, <2>3
    DEF Coordination, OwnerLoads, LoaderOwns, Owns, Awakened, TypeOK, Loading, Entry
  <2>5. WaiterServed' BY <1>0, <2>3 DEF WaiterServed, Awakened, TypeOK
  <2>6. LoadingBlank' BY <1>c, <2>2 DEF Coordination, LoadingBlank
  <2> QED BY <2>4, <2>5, <2>6 DEF Coordination
<1>10. CASE RestartService
  <2>1. DOMAIN entries' = {} /\ pc' = [t \in Threads |-> "idle"]
    BY <1>10 DEF RestartService, NoEntries
  <2> QED BY <2>1 DEF Coordination, OwnerLoads, LoaderOwns, WaiterServed, LoadingBlank, Loading
<1>11. CASE SpoilFile
  <2>1. UNCHANGED <<entries, pc, key>> BY <1>11 DEF SpoilFile, Met!Spoil
  <2> QED BY <1>i, <2>1, CoordinationFrame
<1>12. CASE Tick
  BY <1>i, <1>12, CoordinationFrame DEF Tick
<1>13. CASE UNCHANGED serviceVars
  BY <1>i, <1>13, CoordinationFrame DEF serviceVars, vars
<1> QED
  BY <1>1, <1>2, <1>3, <1>4, <1>5, <1>6, <1>7, <1>8, <1>9, <1>10, <1>11, <1>12, <1>13
  DEF ServiceNext, Serve

(***************************************************************************)
(* The two layers are linked: a thread is in the provider while it loads.  *)
(***************************************************************************)
\* The ways a step of a load moves it.
LEMMA RunLoadMoves ==
  ASSUME WInv, NEW t \in Threads, RunLoad(t)
  PROVE  /\ UNCHANGED <<vars, answers>> /\ stage[t] # "idle"
         /\ \/ /\ stage[t] = "acquiring" /\ stripe[StripeOf[key[t]]] = None
               /\ stage' = [stage EXCEPT ![t] = "probing"]
               /\ stripe' = [stripe EXCEPT ![StripeOf[key[t]]] = t]
               /\ UNCHANGED <<got, outcome, files, overdue>>
            \/ /\ stage[t] = "probing" /\ ~Usable(key[t])
               /\ stage' = [stage EXCEPT ![t] = "downloading"]
               /\ UNCHANGED <<got, outcome, stripe, files, overdue>>
            \/ /\ stage[t] = "downloading"
               /\ stage' = [stage EXCEPT ![t] = "storing"]
               /\ got' = [got EXCEPT ![t] = now]
               /\ UNCHANGED <<outcome, stripe, files, overdue>>
            \/ /\ stage[t] = "downloading"
               /\ stage' = [stage EXCEPT ![t] = "salvaging"]
               /\ UNCHANGED <<got, outcome, stripe, files, overdue>>
            \/ /\ stage[t] \in Met!Locked
               /\ \E r \in Snapshot \cup {None} :
                    /\ Met!Finish(t, r)
                    /\ \/ /\ UNCHANGED files /\ ~Unmarked(r)
                          /\ r # None => Met!Readable(key[t]) /\ r.born = files[key[t]].mtime
                       \/ /\ UNCHANGED files /\ stage[t] = "probing"
                          /\ Usable(key[t]) /\ r.born = files[key[t]].mtime
                       \/ /\ files' = files \/ Rewritten(files', key[t])
                          /\ stage[t] = "storing" /\ r.born = got[t]
<1>0. Met!TypeOK /\ TypeOK BY DEF WInv, Types
<1>1. UNCHANGED <<vars, answers>> BY DEF RunLoad
<1>d. ASSUME NEW fb \in BOOLEAN, Met!Readable(key[t])
      PROVE  Met!FromDisk(key[t], fb) \in Snapshot
  BY <1>0, <1>d DEF Met!FromDisk, Snapshot, Met!Readable, Met!TypeOK, Met!File, TypeOK
<1>2. CASE Met!Acquire(t) BY <1>1, <1>2 DEF Met!Acquire
<1>3. CASE Met!Probe(t)
  <2>1. CASE Usable(key[t])
    <3>1. Met!Finish(t, Met!FromDisk(key[t], FALSE)) /\ UNCHANGED files /\ stage[t] = "probing"
      BY <1>3, <2>1 DEF Met!Probe, Usable
    <3>2. Met!FromDisk(key[t], FALSE) \in Snapshot BY <1>d, <2>1 DEF Usable
    <3>3. Met!FromDisk(key[t], FALSE).born = files[key[t]].mtime BY DEF Met!FromDisk
    <3> QED BY <1>1, <2>1, <3>1, <3>2, <3>3 DEF Met!Locked
  <2>2. CASE ~Usable(key[t]) BY <1>1, <1>3, <2>2 DEF Met!Probe, Usable
  <2> QED BY <2>1, <2>2
<1>4. ASSUME NEW o \in {"parsed", "failed", "raised"}, Met!Download(t, o)
      PROVE  \/ /\ stage[t] = "downloading"
                /\ stage' = [stage EXCEPT ![t] = "storing"]
                /\ got' = [got EXCEPT ![t] = now]
                /\ UNCHANGED <<outcome, stripe, files, overdue>>
             \/ /\ stage[t] = "downloading"
                /\ stage' = [stage EXCEPT ![t] = "salvaging"]
                /\ UNCHANGED <<got, outcome, stripe, files, overdue>>
             \/ Met!Finish(t, None) /\ UNCHANGED files /\ stage[t] = "downloading"
  BY <1>4 DEF Met!Download
<1>5. ASSUME NEW o, Met!Store(t, o)
      PROVE  /\ Met!Finish(t, [key |-> key[t], born |-> got[t], fb |-> FALSE])
             /\ stage[t] = "storing" /\ (files' = files \/ Rewritten(files', key[t]))
  BY <1>5, StoreFiles DEF Met!Store
<1>6. CASE Met!Salvage(t)
  <2> DEFINE r == IF Met!Readable(key[t]) THEN Met!FromDisk(key[t], TRUE) ELSE None
  <2>1. UNCHANGED files /\ Met!Finish(t, r) /\ stage[t] = "salvaging" BY <1>6 DEF Met!Salvage
  <2>2. r \in Snapshot \cup {None} BY <1>d
  <2>3. ~Unmarked(r) /\ (r # None => Met!Readable(key[t]) /\ r.born = files[key[t]].mtime)
    BY DEF Unmarked, Met!FromDisk
  <2> HIDE DEF r
  <2> QED BY <1>1, <2>1, <2>2, <2>3 DEF Met!Locked
<1>7. [key |-> key[t], born |-> got[t], fb |-> FALSE] \in Snapshot
  BY <1>0 DEF Snapshot, TypeOK, Met!TypeOK
<1>8. ~Unmarked(None) BY DEF Unmarked
<1>9. CASE \E o \in {"parsed", "failed", "raised"} : Met!Download(t, o)
  BY <1>1, <1>4, <1>8, <1>9 DEF Met!Locked
<1>10. CASE \E o \in {"stored", "prune failed", "write failed"} : Met!Store(t, o)
  <2> DEFINE r == [key |-> key[t], born |-> got[t], fb |-> FALSE]
  <2>1. r.born = got[t] OBVIOUS
  <2>2. Met!Finish(t, r) /\ stage[t] = "storing" /\ (files' = files \/ Rewritten(files', key[t]))
    BY <1>5, <1>10
  <2> HIDE DEF r
  <2>3. r \in Snapshot BY <1>7 DEF r
  <2> QED BY <1>1, <2>1, <2>2, <2>3 DEF Met!Locked
<1> QED BY <1>2, <1>3, <1>6, <1>9, <1>10 DEF RunLoad, Met!LoadStep

\* A load that moves keeps the links of the other loads.
LEMMA RunLoadLinked ==
  ASSUME WInv, NEW t \in Threads, RunLoad(t)
  PROVE  Linked'
<1>0. TypeOK /\ Met!TypeOK /\ Linked BY DEF WInv, Types
<1>m. StripeOf \in [Keys -> Stripes] /\ None \notin Threads
  BY WeatherAssumption DEF Met!ProviderAssumption
<1>1. UNCHANGED <<pc, key, loaded>> /\ stage[t] # "idle"
  BY RunLoadMoves DEF vars
<1>2. ASSUME NEW st \in {"downloading", "storing", "salvaging"}, stage[t] \in Met!Locked,
             stage' = [stage EXCEPT ![t] = st], UNCHANGED <<outcome, stripe>>
      PROVE  Linked'
  BY <1>0, <1>1, <1>2 DEF Linked, Met!TypeOK, Met!Locked
<1>3. CASE /\ stage[t] = "acquiring" /\ stripe[StripeOf[key[t]]] = None
           /\ stage' = [stage EXCEPT ![t] = "probing"]
           /\ stripe' = [stripe EXCEPT ![StripeOf[key[t]]] = t]
           /\ UNCHANGED outcome
  BY <1>0, <1>m, <1>1, <1>3 DEF Linked, TypeOK, Met!TypeOK, Met!Locked
<1>4. ASSUME stage[t] \in Met!Locked, NEW r, Met!Finish(t, r) PROVE Linked'
  BY <1>0, <1>m, <1>1, <1>4 DEF Met!Finish, Linked, TypeOK, Met!TypeOK, Met!Locked
<1> QED BY <1>2, <1>3, <1>4, RunLoadMoves DEF Met!Locked

LEMMA StepLinked == WInv /\ Types' /\ [ServiceNext]_serviceVars => Linked'
<1> SUFFICES ASSUME WInv, Types', [ServiceNext]_serviceVars PROVE Linked'
  OBVIOUS
<1>0. TypeOK /\ TypeOK' /\ Met!TypeOK /\ Linked BY DEF WInv, Types
<1>1. ASSUME NEW t \in Threads, NEW k \in Keys, Request(t, k) PROVE Linked'
  BY <1>0, <1>1 DEF Request, Call, providerVars, Linked, TypeOK, Met!TypeOK, Met!Locked
<1>2. ASSUME NEW t \in Threads, StartLoad(t) PROVE Linked'
  BY <1>0, <1>2 DEF StartLoad, BeginLoad, Met!Load, Linked, TypeOK, Met!TypeOK, Met!Locked
<1>3. ASSUME NEW t \in Threads, RunLoad(t) PROVE Linked' BY <1>3, RunLoadLinked
<1>4. ASSUME NEW t \in Threads, EndLoad(t) PROVE Linked'
  <2>1. /\ stage[t] = "returned" /\ stage' = [stage EXCEPT ![t] = "idle"]
        /\ outcome' = [outcome EXCEPT ![t] = None] /\ UNCHANGED <<stripe, key>>
    BY <1>4 DEF EndLoad, Met!Return
  <2>2. CASE outcome[t] # None /\ LoadReturns(t, outcome[t])
    BY <1>0, <2>1, <2>2 DEF LoadReturns, Linked, TypeOK, Met!TypeOK, Met!Locked
  <2>3. CASE LoadRaises(t)
    BY <1>0, <2>1, <2>3 DEF LoadRaises, Linked, TypeOK, Met!TypeOK, Met!Locked
  <2> QED BY <1>4, <2>2, <2>3 DEF EndLoad
<1>5. ASSUME NEW t \in Threads, UNCHANGED <<providerVars, key>>, pc[t] # "loading",
             \A s \in Threads : pc'[s] = "loading" <=> pc[s] = "loading",
             \A s \in Threads : pc'[s] = "publishing" => pc[s] = "publishing" /\ loaded'[s] = loaded[s]
      PROVE  Linked'
  BY <1>0, <1>5 DEF providerVars, Linked
<1>6. ASSUME NEW t \in Threads, Answer(t) PROVE Linked'
  <2>1. pc[t] = "done" /\ pc' = [pc EXCEPT ![t] = "idle"] /\ UNCHANGED <<providerVars, key, loaded>>
    BY <1>6 DEF Answer, Respond
  <2> QED BY <1>0, <1>5, <2>1 DEF TypeOK
<1>7. ASSUME NEW t \in Threads, Hit(t) \/ Wait(t), UNCHANGED <<providerVars, answers>> PROVE Linked'
  <2>1. pc[t] = "lookup" /\ UNCHANGED <<providerVars, key, loaded>>
        /\ \E p \in {"done", "waiting"} : pc' = [pc EXCEPT ![t] = p]
    BY <1>7 DEF Hit, Wait
  <2> QED BY <1>0, <1>5, <2>1 DEF TypeOK
<1>8. ASSUME NEW t \in Threads, Publish(t) \/ Abandon(t), UNCHANGED <<providerVars, answers>>
      PROVE  Linked'
  <2>1. pc[t] \in {"publishing", "raising"} /\ UNCHANGED <<providerVars, key>>
        /\ pc' = [Awakened EXCEPT ![t] = "done"]
        /\ (loaded' = loaded \/ loaded' = [loaded EXCEPT ![t] = None])
    BY <1>8 DEF Publish, Abandon
  <2> QED BY <1>0, <1>5, <2>1 DEF TypeOK, Awakened
<1>9. CASE RestartService
  BY <1>9 DEF RestartService, Met!Restart, Linked, Met!Locked
<1>10. CASE UNCHANGED <<stage, outcome, stripe, pc, key, loaded>>
  BY <1>0, <1>10 DEF Linked
<1>11. ASSUME NEW t \in Threads, Serve(t) PROVE Linked'
  <2>1. CASE StartLoad(t) BY <1>2, <2>1
  <2>2. CASE RunLoad(t) BY <1>3, <2>2
  <2>3. CASE EndLoad(t) BY <1>4, <2>3
  <2>4. CASE Answer(t) BY <1>6, <2>4
  <2>5. CASE (Hit(t) \/ Wait(t) \/ Publish(t) \/ Abandon(t)) /\ UNCHANGED <<providerVars, answers>>
    BY <1>7, <1>8, <2>5
  <2> QED BY <1>11, <2>1, <2>2, <2>3, <2>4, <2>5 DEF Serve
<1>12. CASE SpoilFile BY <1>10, <1>12 DEF SpoilFile, Met!Spoil
<1>13. CASE Tick /\ UNCHANGED <<providerVars, answers>> BY <1>10, <1>13 DEF Tick, providerVars
<1>14. CASE UNCHANGED serviceVars BY <1>10, <1>14 DEF serviceVars, vars, providerVars
<1> QED BY <1>1, <1>9, <1>11, <1>12, <1>13, <1>14 DEF ServiceNext

(***************************************************************************)
(* The files.                                                              *)
(***************************************************************************)
\* A step leaves the file of k as it is, or spoils or removes it.
FileKept(k) ==
  k \in DOMAIN files' => /\ k \in DOMAIN files
                         /\ files'[k].mtime = files[k].mtime
                         /\ files'[k].readable => files[k].readable

\* A file is usable only while it was.
LEMMA UsableBefore ==
  ASSUME Types, NEW k, FileKept(k), now' \in {now, now + 1}, Usable(k)'
  PROVE  Usable(k) /\ k \in DOMAIN files /\ files'[k].mtime = files[k].mtime
<1>1. k \in DOMAIN files /\ files'[k].mtime = files[k].mtime /\ files[k].readable
  BY DEF FileKept, Usable, Met!Fresh, Met!Readable
<1>2. now \in Nat /\ files[k].mtime \in Nat /\ DiskMaxAge \in Nat
  BY <1>1, WeatherAssumption DEF Types, Met!TypeOK, Met!File, Met!ProviderAssumption
<1>3. now' <= files'[k].mtime + DiskMaxAge BY DEF Usable, Met!Fresh
<1> QED BY <1>1, <1>2, <1>3 DEF Usable, Met!Fresh, Met!Readable

LEMMA RewrittenKept ==
  ASSUME NEW j, Rewritten(files', j)
  PROVE  /\ \A k : k # j => FileKept(k)
         /\ files'[j].mtime = now
BY DEF Rewritten, FileKept

\* Only the store of its observer, which ends with the step, renews a file.
LEMMA StepFiles ==
  ASSUME WInv, [ServiceNext]_serviceVars, NEW k, ~FileKept(k)
  PROVE  /\ files'[k].mtime = now
         /\ \E t \in Threads : key[t] = k /\ stage[t] = "storing" /\ (RunLoad(t) \/ RestartService)
<1>0. ~(UNCHANGED files) BY DEF FileKept
<1>1. ASSUME NEW t \in Threads, Serve(t), ~RunLoad(t) PROVE FALSE
  <2>1. CASE StartLoad(t) BY <1>0, <2>1 DEF StartLoad, Met!Load
  <2>2. CASE EndLoad(t) BY <1>0, <2>2 DEF EndLoad, Met!Return
  <2>3. CASE Answer(t) BY <1>0, <2>3 DEF Answer, providerVars
  <2> QED BY <1>0, <1>1, <2>1, <2>2, <2>3 DEF Serve, providerVars
<1>2. ASSUME NEW t \in Threads, NEW j \in Keys, Request(t, j) PROVE FALSE
  BY <1>0, <1>2 DEF Request, providerVars
<1>3. ASSUME SpoilFile PROVE FALSE
  <2>1. PICK j \in Keys : Met!Spoil(j) BY <1>3 DEF SpoilFile
  <2>2. files' = [files EXCEPT ![j].readable = FALSE] /\ files \in [DOMAIN files -> Met!File]
    BY <2>1 DEF Met!Spoil, WInv, Types, Met!TypeOK
  <2>3. FileKept(k) BY <2>2 DEF FileKept, Met!File
  <2> QED BY <2>3
<1>4. ASSUME NEW t \in Threads, RunLoad(t)
      PROVE  stage[t] = "storing" /\ Rewritten(files', key[t])
  BY <1>0, <1>4, RunLoadMoves
<1>5. ASSUME RestartService
      PROVE  \E t \in Threads : stage[t] = "storing" /\ Rewritten(files', key[t])
  BY <1>0, <1>5, RestartFiles
<1>6. (\E t \in Threads : RunLoad(t)) \/ RestartService
  <2>1. ~(Tick /\ UNCHANGED <<providerVars, answers>>) /\ ~(UNCHANGED serviceVars)
    BY <1>0 DEF providerVars, serviceVars
  <2> QED BY <1>1, <1>2, <1>3, <2>1 DEF ServiceNext
<1>7. CASE RestartService
  <2>1. PICK t \in Threads : stage[t] = "storing" /\ Rewritten(files', key[t]) BY <1>5, <1>7
  <2>2. k = key[t] BY <2>1, RewrittenKept
  <2> QED BY <1>7, <2>1, <2>2, RewrittenKept
<1>8. ASSUME NEW t \in Threads, RunLoad(t)
      PROVE  files'[k].mtime = now /\ key[t] = k /\ stage[t] = "storing"
  <2>1. k = key[t] BY <1>4, <1>8, RewrittenKept
  <2> QED BY <1>4, <1>8, <2>1, RewrittenKept
<1> QED BY <1>6, <1>7, <1>8

\* The clock never goes back, and a thread in the provider keeps its observer.
LEMMA StepClock ==
  ASSUME WInv, [ServiceNext]_serviceVars
  PROVE  /\ now' \in {now, now + 1}
         /\ \A t \in Threads : pc'[t] # "lookup" => key'[t] = key[t]
<1>0. TypeOK BY DEF WInv, Types
<1>1. ASSUME NEW t \in Threads, NEW j \in Keys, Request(t, j)
      PROVE  now' = now /\ \A s \in Threads : pc'[s] # "lookup" => key'[s] = key[s]
  BY <1>0, <1>1 DEF Request, Call, TypeOK
<1>2. ASSUME NEW t \in Threads, Serve(t) PROVE now' = now /\ key' = key
  <2>1. CASE StartLoad(t) BY <2>1 DEF StartLoad, BeginLoad
  <2>2. CASE RunLoad(t) BY <2>2 DEF RunLoad, vars
  <2>3. CASE EndLoad(t) BY <2>3 DEF EndLoad, Met!Return, LoadReturns, LoadRaises
  <2>4. CASE Answer(t) BY <2>4 DEF Answer, Respond
  <2> QED BY <1>2, <2>1, <2>2, <2>3, <2>4 DEF Serve, Hit, Wait, Publish, Abandon
<1>3. CASE RestartService BY <1>3 DEF RestartService, Met!Restart
<1>4. CASE SpoilFile BY <1>4 DEF SpoilFile, Met!Spoil
<1>5. CASE Tick BY <1>5 DEF Tick
<1>6. CASE UNCHANGED serviceVars BY <1>6 DEF serviceVars, vars
<1> QED BY <1>1, <1>2, <1>3, <1>4, <1>5, <1>6 DEF ServiceNext

(***************************************************************************)
(* One download for each observer.                                         *)
(***************************************************************************)
\* How the stage of a load changes in a step.
LEMMA StepStages ==
  ASSUME WInv, [ServiceNext]_serviceVars, NEW t \in Threads,
         stage'[t] \in {"downloading", "storing"}
  PROVE  /\ ~RestartService /\ key'[t] = key[t]
         /\ \/ stage[t] = "probing" /\ ~Usable(key[t]) /\ UNCHANGED <<now, files>>
            \/ stage[t] \in {"downloading", "storing"} /\ (RunLoad(t) => UNCHANGED files)
<1>0. TypeOK /\ Met!TypeOK /\ Linked BY DEF WInv, Types
<1>1. ~RestartService BY DEF RestartService, Met!Restart
<1>2. ASSUME NEW s \in Threads, NEW j \in Keys, Request(s, j)
      PROVE  key'[t] = key[t] /\ stage' = stage /\ ~RunLoad(t)
  BY <1>0, <1>2 DEF Request, Call, providerVars, Linked, TypeOK, RunLoad, vars
<1>3. ASSUME NEW s \in Threads, Serve(s), ~RunLoad(s)
      PROVE  key' = key /\ stage'[t] = stage[t] /\ UNCHANGED files
  <2>1. CASE StartLoad(s) BY <1>0, <2>1 DEF StartLoad, BeginLoad, Met!Load, Met!TypeOK
  <2>2. CASE EndLoad(s)
    BY <1>0, <2>2 DEF EndLoad, LoadReturns, LoadRaises, Met!Return, Met!TypeOK
  <2>3. CASE Answer(s) BY <2>3 DEF Answer, Respond, providerVars
  <2> QED BY <1>3, <2>1, <2>2, <2>3 DEF Serve, Hit, Wait, Publish, Abandon, providerVars
<1>m. ASSUME RunLoad(t) PROVE stage'[t] # stage[t]
  BY <1>0, <1>m, RunLoadMoves DEF Met!Finish, Met!TypeOK, Met!Locked
<1>4. ASSUME NEW s \in Threads, RunLoad(s)
      PROVE  /\ key' = key /\ now' = now
             /\ \/ stage[t] = "probing" /\ ~Usable(key[t]) /\ UNCHANGED files
                \/ stage[t] \in {"downloading", "storing"} /\ (RunLoad(t) => UNCHANGED files)
  <2>0. UNCHANGED <<key, now>> BY <1>4, RunLoadMoves DEF vars
  <2>1. CASE s = t
    BY <1>0, <1>4, <2>0, <2>1, RunLoadMoves DEF Met!Finish, Met!TypeOK
  <2>2. CASE s # t
    <3>1. stage'[t] = stage[t] BY <1>0, <1>4, <2>2, RunLoadMoves DEF Met!Finish, Met!TypeOK
    <3> QED BY <1>m, <2>0, <3>1
  <2> QED BY <2>1, <2>2
<1>6. CASE SpoilFile
  <2>1. stage' = stage /\ key' = key BY <1>6 DEF SpoilFile, Met!Spoil
  <2> QED BY <1>1, <1>m, <2>1
<1>7. CASE Tick /\ UNCHANGED <<providerVars, answers>>
  BY <1>1, <1>7 DEF Tick, providerVars
<1>8. CASE UNCHANGED serviceVars BY <1>1, <1>8 DEF serviceVars, vars, providerVars
<1>9. ASSUME NEW s \in Threads, Serve(s)
      PROVE  /\ key'[t] = key[t]
             /\ \/ stage[t] = "probing" /\ ~Usable(key[t]) /\ UNCHANGED <<now, files>>
                \/ stage[t] \in {"downloading", "storing"} /\ (RunLoad(t) => UNCHANGED files)
  BY <1>3, <1>4, <1>9
<1> QED BY <1>1, <1>2, <1>6, <1>7, <1>8, <1>9 DEF ServiceNext

\* Loads in the same stripe exclude each other.
LEMMA OneInStripe ==
  ASSUME Linked, NEW t \in Threads, NEW s \in Threads,
         stage[t] \in Met!Locked, stage[s] \in Met!Locked, key[s] = key[t]
  PROVE  s = t
BY DEF Linked

LEMMA StepSingle ==
  WInv /\ Types' /\ Linked' /\ [ServiceNext]_serviceVars => Met!SingleDownload'
<1> SUFFICES ASSUME WInv, Types', Linked', [ServiceNext]_serviceVars,
                    NEW t \in Threads, stage'[t] \in {"downloading", "storing"}
             PROVE  /\ ~Usable(key[t])'
                    /\ \A s \in Threads \ {t} :
                         stage'[s] \in {"downloading", "storing"} => key'[s] # key'[t]
  BY DEF Met!SingleDownload, Usable
<1>0. Types /\ Met!SingleDownload /\ now' \in {now, now + 1} BY StepClock DEF WInv
<1>1. key'[t] = key[t] /\ ~RestartService BY StepStages
<1>2. ~Usable(key[t])'
  <2> SUFFICES ASSUME Usable(key[t])' PROVE FALSE
    OBVIOUS
  <2>1. CASE stage[t] = "probing" /\ ~Usable(key[t]) /\ UNCHANGED <<now, files>>
    BY <1>1, <2>1 DEF Usable, Met!Fresh, Met!Readable
  <2>2. CASE stage[t] \in {"downloading", "storing"} /\ (RunLoad(t) => UNCHANGED files)
    <3>1. ~Usable(key[t]) BY <1>0, <2>2 DEF Met!SingleDownload, Usable
    <3>2. CASE FileKept(key[t]) BY <1>0, <1>1, <3>1, <3>2, UsableBefore
    <3>3. CASE ~FileKept(key[t])
      <4>1. PICK s \in Threads : key[s] = key[t] /\ stage[s] = "storing" /\ RunLoad(s)
        BY <1>1, <3>3, StepFiles
      <4>2. s = t BY <1>0, <2>2, <4>1 DEF Met!SingleDownload
      <4>3. UNCHANGED files BY <2>2, <4>1, <4>2
      <4> QED BY <3>3, <4>3 DEF FileKept
    <3> QED BY <3>2, <3>3
  <2> QED BY <2>1, <2>2, StepStages
<1>3. ASSUME NEW s \in Threads, stage'[s] \in {"downloading", "storing"}, key'[s] = key'[t]
      PROVE  s = t
  BY <1>3 DEF Linked, Met!Locked
<1> QED BY <1>2, <1>3

(***************************************************************************)
(* Nothing is dated later than now.                                        *)
(***************************************************************************)
\* Steps that only pass dates on.
LEMMA DatedFrame ==
  ASSUME WInv, Types', now' \in {now, now + 1},
         \A k \in Keys : newest'[k] <= now,
         \A t \in Threads : got'[t] <= now,
         \A t \in Threads : outcome'[t] # None => outcome'[t].born <= now,
         \A t \in Threads : loaded'[t] # None => loaded'[t].born <= now,
         \A t \in Threads : pc'[t] = "done" /\ result'[t].snap # None => result'[t].snap.born <= now,
         \A k \in DOMAIN entries' : entries'[k].snap # None => entries'[k].snap.born <= now,
         \A k \in DOMAIN files' : files'[k].mtime <= now
  PROVE  Dated'
<1>0. Types /\ now \in Nat BY DEF WInv, Types, TypeOK
<1>1. CASE now' = now BY <1>1 DEF Dated
<1>2. CASE now' = now + 1
  <2>1. \A n \in Nat : n <= now => n <= now' BY <1>0, <1>2
  <2>2. \A s : s \in Snapshot => s.born \in Nat BY DEF Snapshot
  <2>3. \A k \in Keys : newest'[k] \in Nat BY DEF Types
  <2>4. \A t \in Threads : got'[t] \in Nat /\ (outcome'[t] # None => outcome'[t] \in Snapshot)
    BY DEF Types, Met!TypeOK, Snapshot, Met!Snapshot
  <2>5. \A t \in Threads : loaded'[t] # None => loaded'[t] \in Snapshot
    BY DEF Types, TypeOK
  <2>6. \A t \in Threads : pc'[t] = "done" /\ result'[t].snap # None => result'[t].snap \in Snapshot
    BY DEF Types, Result
  <2>7. \A k \in DOMAIN entries' : entries'[k].snap # None => entries'[k].snap \in Snapshot
    BY DEF Types, TypeOK, Entry
  <2>8. \A k \in DOMAIN files' : files'[k].mtime \in Nat
    BY DEF Types, Met!TypeOK, Met!File
  <2> QED BY <2>1, <2>2, <2>3, <2>4, <2>5, <2>6, <2>7, <2>8 DEF Dated
<1> QED BY <1>1, <1>2

LEMMA SubDated ==
  ASSUME Dated, NEW es, SubCache(es, entries), NEW k \in DOMAIN es, es[k].snap # None
  PROVE  es[k].snap.born <= now
BY DEF Dated, SubCache

LEMMA RewrittenDated ==
  ASSUME WInv, NEW fs, NEW j, Rewritten(fs, j), NEW k \in DOMAIN fs
  PROVE  fs[k].mtime <= now
<1>1. now \in Nat /\ \A i \in DOMAIN files : files[i].mtime <= now
  BY DEF WInv, Dated, Types, TypeOK
<1>2. CASE k = j BY <1>1, <1>2 DEF Rewritten
<1>3. CASE k # j BY <1>1, <1>3 DEF Rewritten
<1> QED BY <1>2, <1>3

LEMMA StepDated == WInv /\ Types' /\ [ServiceNext]_serviceVars => Dated'
<1> SUFFICES ASSUME WInv, Types', [ServiceNext]_serviceVars PROVE Dated'
  OBVIOUS
<1>0. TypeOK /\ TypeOK' /\ Met!TypeOK /\ Dated /\ newest \in [Keys -> Nat] BY DEF WInv, Types
<1>p. SubCache(Pruned, entries) BY PrunedSub
<1>1. ASSUME NEW t \in Threads, NEW k \in Keys, Request(t, k) PROVE Dated'
  BY <1>0, <1>1, DatedFrame DEF Request, Call, providerVars, Dated, TypeOK
<1>2. ASSUME NEW t \in Threads, StartLoad(t) PROVE Dated'
  <2>1. \A k \in DOMAIN entries' : entries'[k].snap # None =>
          k \in DOMAIN Pruned /\ entries'[k] = Pruned[k]
    BY <1>2 DEF StartLoad, BeginLoad
  <2>2. \A k \in DOMAIN entries' : entries'[k].snap # None => entries'[k].snap.born <= now
    BY <1>0, <1>p, <2>1, SubDated
  <2> QED
    BY <1>0, <1>2, <2>2, DatedFrame DEF StartLoad, BeginLoad, Met!Load, answers, Dated, TypeOK
<1>3. ASSUME NEW t \in Threads, RunLoad(t) PROVE Dated'
  <2>0. UNCHANGED <<vars, answers>> BY <1>3, RunLoadMoves
  <2>1. ASSUME UNCHANGED <<outcome, files>>, got' = got \/ got' = [got EXCEPT ![t] = now]
        PROVE  Dated'
    BY <1>0, <2>0, <2>1, DatedFrame DEF vars, answers, Dated, TypeOK, Met!TypeOK
  <2>2. ASSUME NEW r, Met!Finish(t, r), r # None => r.born <= now,
               \A k \in DOMAIN files' : files'[k].mtime <= now
        PROVE  Dated'
    <3>1. \A s \in Threads : got'[s] <= now
      BY <1>0, <2>2 DEF Met!Finish, Dated, TypeOK, Met!TypeOK
    <3>2. \A s \in Threads : outcome'[s] # None => outcome'[s].born <= now
      BY <1>0, <2>2 DEF Met!Finish, Dated, Met!TypeOK
    <3> QED BY <1>0, <2>0, <2>2, <3>1, <3>2, DatedFrame DEF vars, answers, Dated
  <2>3. ASSUME NEW r \in Snapshot \cup {None}, Met!Finish(t, r),
               \/ /\ UNCHANGED files /\ ~Unmarked(r)
                  /\ r # None => Met!Readable(key[t]) /\ r.born = files[key[t]].mtime
               \/ /\ UNCHANGED files /\ stage[t] = "probing"
                  /\ Usable(key[t]) /\ r.born = files[key[t]].mtime
               \/ /\ files' = files \/ Rewritten(files', key[t])
                  /\ stage[t] = "storing" /\ r.born = got[t]
        PROVE  Dated'
    <3>1. \A k \in DOMAIN files' : files'[k].mtime <= now
      BY <1>0, <2>3, RewrittenDated DEF Dated
    <3>2. r # None => r.born <= now BY <1>0, <2>3 DEF Dated, Usable, Met!Readable
    <3> QED BY <2>2, <2>3, <3>1, <3>2
  <2> QED BY <1>3, <2>1, <2>3, RunLoadMoves
<1>4. ASSUME NEW t \in Threads, EndLoad(t) PROVE Dated'
  <2>1. UNCHANGED <<now, newest, got, files, entries, result>>
        /\ outcome' = [outcome EXCEPT ![t] = None]
    BY <1>4 DEF EndLoad, Met!Return, LoadReturns, LoadRaises, answers
  <2>2. loaded' = loaded \/ loaded' = [loaded EXCEPT ![t] = outcome[t]]
    BY <1>4 DEF EndLoad, LoadReturns, LoadRaises
  <2>3. \A s \in Threads : pc'[s] = "done" => pc[s] = "done"
    BY <1>0, <1>4 DEF EndLoad, LoadReturns, LoadRaises, TypeOK
  <2> QED BY <1>0, <2>1, <2>2, <2>3, DatedFrame DEF Dated, TypeOK, Met!TypeOK
<1>5. ASSUME NEW t \in Threads, Answer(t) PROVE Dated'
  <2>1. UNCHANGED <<now, got, outcome, files, entries, loaded>>
    BY <1>5 DEF Answer, Respond, providerVars
  <2>2. \A s \in Threads : pc'[s] = "done" => pc[s] = "done" /\ result'[s] = result[s]
    BY <1>0, <1>5 DEF Answer, Respond, TypeOK
  <2>3. pc[t] = "done" BY <1>5 DEF Answer, Respond
  <2>4. \A k \in Keys : newest'[k] <= now
    BY <1>0, <1>5, <2>3 DEF Answer, Dated
  <2> QED BY <1>0, <2>1, <2>2, <2>4, DatedFrame DEF Dated
<1>6. ASSUME NEW t \in Threads, Hit(t), UNCHANGED <<providerVars, answers>> PROVE Dated'
  <2>1. UNCHANGED <<now, newest, got, outcome, files, loaded>> /\ entries' = Pruned
    BY <1>6 DEF Hit, providerVars, answers
  <2>2. key[t] \in DOMAIN Pruned /\ Pruned[key[t]].snap # None BY <1>6 DEF Hit, LiveIn
  <2>3. \A k \in DOMAIN Pruned : Pruned[k].snap # None => Pruned[k].snap.born <= now
    BY <1>0, <1>p, SubDated
  <2>4. \A s \in Threads : pc'[s] = "done" =>
          \/ s = t /\ result'[s].snap = Pruned[key[t]].snap
          \/ pc[s] = "done" /\ result'[s] = result[s]
    BY <1>0, <1>6 DEF Hit, TypeOK
  <2> QED BY <1>0, <2>1, <2>2, <2>3, <2>4, DatedFrame DEF Dated
<1>7. ASSUME NEW t \in Threads, Wait(t), UNCHANGED <<providerVars, answers>> PROVE Dated'
  <2>1. UNCHANGED <<now, newest, got, outcome, files, loaded, result>> /\ entries' = Pruned
    BY <1>7 DEF Wait, providerVars, answers
  <2>2. \A k \in DOMAIN Pruned : Pruned[k].snap # None => Pruned[k].snap.born <= now
    BY <1>0, <1>p, SubDated
  <2>3. \A s \in Threads : pc'[s] = "done" => pc[s] = "done"
    BY <1>0, <1>7 DEF Wait, TypeOK
  <2> QED BY <1>0, <2>1, <2>2, <2>3, DatedFrame DEF Dated
<1>8. ASSUME NEW t \in Threads, Publish(t), UNCHANGED <<providerVars, answers>> PROVE Dated'
  <2> DEFINE full == [entries EXCEPT ![key[t]] = Filled(loaded[t])]
  <2>1. UNCHANGED <<now, newest, got, outcome, files>> /\ loaded' = [loaded EXCEPT ![t] = None]
    BY <1>8 DEF Publish, providerVars, answers
  <2>2. SubCache(entries', full) /\ loaded[t] \in Snapshot BY <1>8, PublishedFull
  <2>3. loaded[t].born <= now
    BY <1>0, <2>2, WeatherAssumption DEF Dated, WeatherCacheAssumption
  <2>4. \A k \in DOMAIN entries : full[k].snap = IF k = key[t] THEN loaded[t] ELSE entries[k].snap
    BY <1>0 DEF TypeOK, Filled
  <2>5. DOMAIN full = DOMAIN entries OBVIOUS
  <2> HIDE DEF full
  <2>6. \A k \in DOMAIN entries' : entries'[k].snap # None => entries'[k].snap.born <= now
    BY <1>0, <2>2, <2>3, <2>4, <2>5 DEF SubCache, Dated
  <2>7. \A s \in Threads : pc'[s] = "done" =>
          \/ s = t /\ result'[s].snap = loaded[t]
          \/ pc[s] = "done" /\ result'[s] = result[s]
    BY <1>0, <1>8 DEF Publish, Awakened, TypeOK
  <2>8. \A s \in Threads : loaded'[s] # None => loaded'[s].born <= now
    BY <1>0, <2>1 DEF Dated, TypeOK
  <2> QED BY <1>0, <2>1, <2>3, <2>6, <2>7, <2>8, DatedFrame DEF Dated
<1>9. ASSUME NEW t \in Threads, Abandon(t), UNCHANGED <<providerVars, answers>> PROVE Dated'
  <2>1. UNCHANGED <<now, newest, got, outcome, files, loaded>>
    BY <1>9 DEF Abandon, providerVars, answers
  <2>2. \A k \in DOMAIN entries' : k \in DOMAIN entries /\ entries'[k] = entries[k]
    BY <1>9 DEF Abandon, Restrict
  <2>3. \A s \in Threads : pc'[s] = "done" =>
          \/ s = t /\ result'[s].snap = None
          \/ pc[s] = "done" /\ result'[s] = result[s]
    BY <1>0, <1>9 DEF Abandon, Awakened, TypeOK
  <2> QED BY <1>0, <2>1, <2>2, <2>3, DatedFrame DEF Dated
<1>10. CASE RestartService
  <2>1. \A k \in DOMAIN files' : files'[k].mtime <= now
    BY <1>0, <1>10, RestartFiles, RewrittenDated DEF Dated
  <2>2. /\ UNCHANGED <<now, newest>>
        /\ got' = [t \in Threads |-> 0] /\ outcome' = [t \in Threads |-> None]
        /\ loaded' = [t \in Threads |-> None] /\ pc' = [t \in Threads |-> "idle"]
        /\ DOMAIN entries' = {}
    BY <1>10 DEF RestartService, Met!Restart, answers, NoEntries
  <2> QED BY <1>0, <2>1, <2>2, DatedFrame DEF Dated, TypeOK
<1>11. CASE SpoilFile
  <2>1. PICK j \in Keys : Met!Spoil(j) BY <1>11 DEF SpoilFile
  <2>2. \A k \in DOMAIN files' : k \in DOMAIN files /\ files'[k].mtime = files[k].mtime
    BY <1>0, <2>1 DEF Met!Spoil, Met!TypeOK, Met!File
  <2>3. UNCHANGED <<now, newest, got, outcome, loaded, pc, result, entries>>
    BY <1>11, <2>1 DEF SpoilFile, Met!Spoil, answers
  <2> QED BY <1>0, <2>2, <2>3, DatedFrame DEF Dated
<1>12. CASE Tick /\ UNCHANGED <<providerVars, answers>>
  BY <1>0, <1>12, DatedFrame DEF Tick, providerVars, answers, Dated
<1>13. CASE UNCHANGED serviceVars
  BY <1>0, <1>13, DatedFrame DEF serviceVars, vars, providerVars, answers, Dated
<1>14. ASSUME NEW t \in Threads, Serve(t) PROVE Dated'
  <2>1. CASE StartLoad(t) BY <1>2, <2>1
  <2>2. CASE RunLoad(t) BY <1>3, <2>2
  <2>3. CASE EndLoad(t) BY <1>4, <2>3
  <2>4. CASE Answer(t) BY <1>5, <2>4
  <2>5. CASE (Hit(t) \/ Wait(t) \/ Publish(t) \/ Abandon(t)) /\ UNCHANGED <<providerVars, answers>>
    BY <1>6, <1>7, <1>8, <1>9, <2>5
  <2> QED BY <1>14, <2>1, <2>2, <2>3, <2>4, <2>5 DEF Serve
<1> QED BY <1>1, <1>10, <1>11, <1>12, <1>13, <1>14 DEF ServiceNext

(***************************************************************************)
(* No unmarked answer is older than an earlier one.                        *)
(***************************************************************************)
\* While its observer is being loaded, no thread is given an entry or a load of it.
LEMMA LoadExcludes ==
  ASSUME WInv, NEW t \in Threads, NEW s \in Threads,
         pc[t] \in {"loading", "publishing"}, key[s] = key[t],
         Hit(s) \/ (Publish(s) /\ s # t)
  PROVE  FALSE
<1>1. key[t] \in DOMAIN entries /\ entries[key[t]].owner = t
  BY DEF WInv, Coordination, LoaderOwns, Owns, Loading
<1>2. CASE Hit(s)
  <2>1. entries[key[t]].snap = None
    BY <1>1, WeatherAssumption DEF WInv, Coordination, LoadingBlank, WeatherCacheAssumption
  <2>2. key[s] \in DOMAIN Pruned /\ Pruned[key[s]].snap # None BY <1>2 DEF Hit, LiveIn
  <2> QED BY <2>1, <2>2, PrunedSub DEF SubCache
<1>3. CASE Publish(s) /\ s # t
  BY <1>1, <1>3 DEF Publish, WInv, Coordination, LoaderOwns, Owns, Loading
<1> QED BY <1>2, <1>3

\* A step that gives nobody an unmarked forecast and only passes forecasts on.
LEMMA OrderFrame ==
  ASSUME WInv, Types', now' \in {now, now + 1},
         \A k \in Keys : FileKept(k),
         \A k \in DOMAIN entries' : Unmarked(entries'[k].snap) =>
           k \in DOMAIN entries /\ entries'[k].snap = entries[k].snap,
         \A t \in Threads : stage'[t] = "storing" =>
           stage[t] = "storing" /\ got'[t] = got[t] /\ key'[t] = key[t],
         \A t \in Threads : pc'[t] = "loading" /\ Unmarked(outcome'[t]) =>
           pc[t] = "loading" /\ outcome'[t] = outcome[t] /\ key'[t] = key[t],
         \A t \in Threads : pc'[t] = "publishing" /\ Unmarked(loaded'[t]) =>
           /\ key'[t] = key[t]
           /\ \/ pc[t] = "publishing" /\ loaded'[t] = loaded[t]
              \/ pc[t] = "loading" /\ loaded'[t] = outcome[t],
         \A t \in Threads : pc'[t] = "done" /\ Unmarked(result'[t].snap) =>
           pc[t] = "done" /\ result'[t] = result[t] /\ key'[t] = key[t] /\ floor'[t] = floor[t],
         \A k \in Keys, b \in Nat : NotBefore(k, b) => newest'[k] <= b,
         \A t \in Threads : pc'[t] # "idle" => floor'[t] <= newest'[key'[t]]
  PROVE  Order'
<1>0. Order /\ Types BY DEF WInv
<1>n. ASSUME NEW k \in Keys, NEW b \in Nat, NotBefore(k, b)
      PROVE  NotBefore(k, b)'
  BY <1>n DEF NotBefore
<1>b. \A s : Unmarked(s) /\ s \in Snapshot \cup {None} => s.born \in Nat
  BY DEF Unmarked, Snapshot
<1>1. CachedNew'
  <2> SUFFICES ASSUME NEW k \in DOMAIN entries', Unmarked(entries'[k].snap)
               PROVE  NotBefore(k, entries[k].snap.born)'
    BY DEF CachedNew, Unmarked
  <2>1. k \in DOMAIN entries /\ entries'[k].snap = entries[k].snap OBVIOUS
  <2>2. NotBefore(k, entries[k].snap.born) BY <1>0, <2>1 DEF Order, CachedNew, Unmarked
  <2>3. k \in Keys /\ entries[k].snap.born \in Nat
    BY <1>0, <1>b, <2>1 DEF Types, TypeOK, Entry, Unmarked
  <2>4. \A b \in Nat : b = entries'[k].snap.born /\ NotBefore(k, b) =>
          NotBefore(k, entries[k].snap.born)'
    BY <1>n, <2>3 DEF NotBefore
  <2> QED BY <2>1, <2>2, <2>3, <2>4
<1>2. LoadedNew'
  <2> SUFFICES ASSUME NEW t \in Threads
               PROVE  /\ stage'[t] = "storing" => NotBefore(key[t], got[t])'
                      /\ pc'[t] = "loading" /\ Unmarked(outcome'[t]) =>
                           NotBefore(key[t], outcome[t].born)'
                      /\ pc'[t] = "publishing" /\ Unmarked(loaded'[t]) =>
                           NotBefore(key[t], loaded[t].born)'
    BY DEF LoadedNew, Unmarked
  <2>0. key[t] \in Keys /\ got[t] \in Nat BY <1>0 DEF Types, TypeOK, Met!TypeOK
  <2>1. LoadedNew BY <1>0 DEF Order
  <2>2. ASSUME stage'[t] = "storing" PROVE NotBefore(key[t], got[t])'
    <3>1. NotBefore(key[t], got[t]) /\ key'[t] = key[t] /\ got'[t] = got[t]
      BY <2>1, <2>2 DEF LoadedNew
    <3>2. \A k \in Keys, b \in Nat : k = key'[t] /\ b = got'[t] /\ NotBefore(k, b) =>
            NotBefore(key[t], got[t])'
      BY <1>n DEF NotBefore
    <3> QED BY <2>0, <3>1, <3>2
  <2>3. ASSUME pc'[t] = "loading", Unmarked(outcome'[t]) PROVE NotBefore(key[t], outcome[t].born)'
    <3>1. NotBefore(key[t], outcome[t].born) /\ key'[t] = key[t] /\ outcome'[t] = outcome[t]
      BY <2>1, <2>3 DEF LoadedNew, Unmarked
    <3>2. outcome[t].born \in Nat
      BY <1>0, <2>3, <3>1 DEF Types, Met!TypeOK, Met!Snapshot, Unmarked
    <3>3. \A k \in Keys, b \in Nat : k = key'[t] /\ b = outcome'[t].born /\ NotBefore(k, b) =>
            NotBefore(key[t], outcome[t].born)'
      BY <1>n DEF NotBefore
    <3> QED BY <2>0, <3>1, <3>2, <3>3
  <2>4. ASSUME pc'[t] = "publishing", Unmarked(loaded'[t]) PROVE NotBefore(key[t], loaded[t].born)'
    <3>1. NotBefore(key[t], loaded'[t].born) /\ key'[t] = key[t]
      BY <2>1, <2>4 DEF LoadedNew, Unmarked
    <3>2. loaded'[t].born \in Nat BY <2>4 DEF Types, TypeOK, Snapshot, Unmarked
    <3>3. \A k \in Keys, b \in Nat : k = key'[t] /\ b = loaded'[t].born /\ NotBefore(k, b) =>
            NotBefore(key[t], loaded[t].born)'
      BY <1>n DEF NotBefore
    <3> QED BY <2>0, <3>1, <3>2, <3>3
  <2> QED BY <2>2, <2>3, <2>4
<1>3. FilesNew'
  <2> SUFFICES ASSUME NEW k \in Keys, Usable(k)'
               PROVE  /\ NotBefore(k, files[k].mtime)'
                      /\ k \in DOMAIN entries' /\ Unmarked(entries'[k].snap) =>
                           entries'[k].snap.born <= files'[k].mtime
                      /\ \A t \in Threads : key'[t] = k =>
                           /\ pc'[t] = "loading" /\ Unmarked(outcome'[t]) =>
                                outcome'[t].born <= files'[k].mtime
                           /\ pc'[t] = "publishing" /\ Unmarked(loaded'[t]) =>
                                loaded'[t].born <= files'[k].mtime
    BY DEF FilesNew, Unmarked
  <2>1. Usable(k) /\ k \in DOMAIN files /\ files'[k].mtime = files[k].mtime
    BY <1>0, UsableBefore
  <2>2. files[k].mtime \in Nat BY <1>0, <2>1 DEF Types, Met!TypeOK, Met!File
  <2>3. FilesNew BY <1>0 DEF Order
  <2>4. NotBefore(k, files[k].mtime)'
    <3>1. NotBefore(k, files[k].mtime) BY <2>1, <2>3 DEF FilesNew
    <3>2. \A b \in Nat : b = files'[k].mtime /\ NotBefore(k, b) => NotBefore(k, files[k].mtime)'
      BY <1>n DEF NotBefore
    <3> QED BY <2>1, <2>2, <3>1, <3>2
  <2>5. k \in DOMAIN entries' /\ Unmarked(entries'[k].snap) =>
          entries'[k].snap.born <= files'[k].mtime
    BY <2>1, <2>3 DEF FilesNew
  <2>6. ASSUME NEW t \in Threads, key'[t] = k, pc'[t] = "loading", Unmarked(outcome'[t])
        PROVE  outcome'[t].born <= files'[k].mtime
    BY <2>1, <2>3, <2>6 DEF FilesNew
  <2>7. ASSUME NEW t \in Threads, key'[t] = k, pc'[t] = "publishing", Unmarked(loaded'[t])
        PROVE  loaded'[t].born <= files'[k].mtime
    BY <2>1, <2>3, <2>7 DEF FilesNew
  <2> QED BY <2>4, <2>5, <2>6, <2>7
<1>4. Floors' BY DEF Floors
<1>5. UnmarkedNeverGoesBack'
  BY <1>0 DEF Order, UnmarkedNeverGoesBack, Unmarked
<1> QED BY <1>1, <1>2, <1>3, <1>4, <1>5 DEF Order

\* A step that gives t the snapshot s of its observer, which nobody is loading then.
LEMMA OrderGiven ==
  ASSUME WInv, Types', NEW t \in Threads, NEW s \in Snapshot,
         UNCHANGED <<now, key, stage, got, outcome, files, newest, floor>>,
         pc[t] # "idle", result'[t].snap = s,
         \A u \in Threads : pc'[u] = "done" =>
           u = t \/ (pc[u] = "done" /\ result'[u] = result[u]),
         \A u \in Threads : pc'[u] # "idle" => pc[u] # "idle",
         \A u \in Threads : pc'[u] \in {"loading", "publishing"} =>
           key[u] # key[t] /\ pc[u] = pc'[u] /\ loaded'[u] = loaded[u],
         \A u \in Threads : stage[u] = "storing" => key[u] # key[t],
         Unmarked(s) => /\ NotBefore(key[t], s.born)
                        /\ Usable(key[t]) => s.born <= files[key[t]].mtime,
         \A k \in DOMAIN entries' : Unmarked(entries'[k].snap) =>
           IF k = key[t] THEN entries'[k].snap = s
           ELSE k \in DOMAIN entries /\ entries'[k].snap = entries[k].snap
  PROVE  Order'
<1>0. Order /\ Types BY DEF WInv
<1>k. \A k : Usable(k)' <=> Usable(k)
  BY DEF Usable, Met!Fresh, Met!Readable
<1>n. ASSUME NEW k \in Keys, NEW b \in Nat, NotBefore(k, b),
             k = key[t] /\ Unmarked(s) => s.born <= b
      PROVE  /\ newest'[k] <= b
             /\ \A u \in Threads : pc'[u] = "done" /\ key'[u] = k /\ Unmarked(result'[u].snap) =>
                  result'[u].snap.born <= b
  BY <1>n DEF NotBefore
<1>b. Unmarked(s) => s.born \in Nat BY DEF Snapshot
<1>1. CachedNew'
  <2> SUFFICES ASSUME NEW k \in DOMAIN entries', Unmarked(entries'[k].snap)
               PROVE  NotBefore(k, entries[k].snap.born)'
    BY DEF CachedNew, Unmarked
  <2>1. CASE k = key[t]
    <3>1. entries'[k].snap = s /\ Unmarked(s) /\ k \in Keys
      BY <1>0, <2>1 DEF Types, TypeOK
    <3>2. s.born <= s.born BY <1>b, <3>1
    <3>3. \A b \in Nat : b = entries'[k].snap.born /\ NotBefore(k, b) /\ s.born <= b =>
            NotBefore(k, entries[k].snap.born)'
      BY <1>n, <3>1 DEF NotBefore
    <3> QED BY <1>b, <2>1, <3>1, <3>2, <3>3
  <2>2. CASE k # key[t]
    <3>1. k \in DOMAIN entries /\ entries'[k].snap = entries[k].snap BY <2>2
    <3>2. NotBefore(k, entries[k].snap.born) BY <1>0, <3>1 DEF Order, CachedNew, Unmarked
    <3>3. k \in Keys /\ entries[k].snap.born \in Nat
      BY <1>0, <3>1 DEF Types, TypeOK, Entry, Unmarked, Snapshot
    <3>4. \A b \in Nat : b = entries'[k].snap.born /\ NotBefore(k, b) =>
            NotBefore(k, entries[k].snap.born)'
      BY <1>n, <2>2, <3>3 DEF NotBefore
    <3> QED BY <3>1, <3>2, <3>3, <3>4
  <2> QED BY <2>1, <2>2
<1>2. LoadedNew'
  <2> SUFFICES ASSUME NEW u \in Threads
               PROVE  /\ stage'[u] = "storing" => NotBefore(key[u], got[u])'
                      /\ pc'[u] = "loading" /\ Unmarked(outcome'[u]) =>
                           NotBefore(key[u], outcome[u].born)'
                      /\ pc'[u] = "publishing" /\ Unmarked(loaded'[u]) =>
                           NotBefore(key[u], loaded[u].born)'
    BY DEF LoadedNew, Unmarked
  <2>0. key[u] \in Keys /\ got[u] \in Nat BY <1>0 DEF Types, TypeOK, Met!TypeOK
  <2>1. LoadedNew BY <1>0 DEF Order
  <2>2. ASSUME stage'[u] = "storing" PROVE NotBefore(key[u], got[u])'
    <3>1. NotBefore(key[u], got[u]) /\ key[u] # key[t] BY <2>1, <2>2 DEF LoadedNew
    <3>2. \A k \in Keys, b \in Nat :
            k = key'[u] /\ b = got'[u] /\ k # key[t] /\ NotBefore(k, b) => NotBefore(key[u], got[u])'
      BY <1>n DEF NotBefore
    <3> QED BY <2>0, <3>1, <3>2
  <2>3. ASSUME pc'[u] = "loading", Unmarked(outcome'[u]) PROVE NotBefore(key[u], outcome[u].born)'
    <3>1. NotBefore(key[u], outcome[u].born) /\ key[u] # key[t]
      BY <2>1, <2>3 DEF LoadedNew, Unmarked
    <3>2. outcome[u].born \in Nat
      BY <1>0, <2>3 DEF Types, Met!TypeOK, Met!Snapshot, Unmarked
    <3>3. \A k \in Keys, b \in Nat :
            k = key'[u] /\ b = outcome'[u].born /\ k # key[t] /\ NotBefore(k, b) =>
              NotBefore(key[u], outcome[u].born)'
      BY <1>n DEF NotBefore
    <3> QED BY <2>0, <3>1, <3>2, <3>3
  <2>4. ASSUME pc'[u] = "publishing", Unmarked(loaded'[u]) PROVE NotBefore(key[u], loaded[u].born)'
    <3>1. NotBefore(key[u], loaded'[u].born) /\ key[u] # key[t]
      BY <2>1, <2>4 DEF LoadedNew, Unmarked
    <3>2. loaded'[u].born \in Nat BY <2>4 DEF Types, TypeOK, Snapshot, Unmarked
    <3>3. \A k \in Keys, b \in Nat :
            k = key'[u] /\ b = loaded'[u].born /\ k # key[t] /\ NotBefore(k, b) =>
              NotBefore(key[u], loaded[u].born)'
      BY <1>n DEF NotBefore
    <3> QED BY <2>0, <3>1, <3>2, <3>3
  <2> QED BY <2>2, <2>3, <2>4
<1>3. FilesNew'
  <2> SUFFICES ASSUME NEW k \in Keys, Usable(k)'
               PROVE  /\ NotBefore(k, files[k].mtime)'
                      /\ k \in DOMAIN entries' /\ Unmarked(entries'[k].snap) =>
                           entries'[k].snap.born <= files'[k].mtime
                      /\ \A u \in Threads : key'[u] = k =>
                           /\ pc'[u] = "loading" /\ Unmarked(outcome'[u]) =>
                                outcome'[u].born <= files'[k].mtime
                           /\ pc'[u] = "publishing" /\ Unmarked(loaded'[u]) =>
                                loaded'[u].born <= files'[k].mtime
    BY DEF FilesNew, Unmarked
  <2>1. Usable(k) /\ k \in DOMAIN files BY <1>k DEF Usable, Met!Fresh
  <2>2. files[k].mtime \in Nat BY <1>0, <2>1 DEF Types, Met!TypeOK, Met!File
  <2>3. FilesNew BY <1>0 DEF Order
  <2>4. NotBefore(k, files[k].mtime)'
    <3>1. NotBefore(k, files[k].mtime) BY <2>1, <2>3 DEF FilesNew
    <3>2. \A b \in Nat : b = files'[k].mtime /\ NotBefore(k, b)
                         /\ (k = key[t] /\ Unmarked(s) => s.born <= b) =>
            NotBefore(k, files[k].mtime)'
      BY <1>n DEF NotBefore
    <3> QED BY <2>1, <2>2, <3>1, <3>2
  <2>5. k \in DOMAIN entries' /\ Unmarked(entries'[k].snap) =>
          entries'[k].snap.born <= files'[k].mtime
    BY <2>1, <2>3 DEF FilesNew, Unmarked
  <2>6. ASSUME NEW u \in Threads, key'[u] = k, pc'[u] = "loading", Unmarked(outcome'[u])
        PROVE  outcome'[u].born <= files'[k].mtime
    BY <2>1, <2>3, <2>6 DEF FilesNew
  <2>7. ASSUME NEW u \in Threads, key'[u] = k, pc'[u] = "publishing", Unmarked(loaded'[u])
        PROVE  loaded'[u].born <= files'[k].mtime
    BY <2>1, <2>3, <2>7 DEF FilesNew
  <2> QED BY <2>4, <2>5, <2>6, <2>7
<1>4. Floors' BY <1>0 DEF Order, Floors
<1>5. UnmarkedNeverGoesBack'
  <2> SUFFICES ASSUME NEW u \in Threads, pc'[u] = "done", Unmarked(result'[u].snap)
               PROVE  floor'[u] <= result'[u].snap.born
    BY DEF UnmarkedNeverGoesBack, Unmarked
  <2>1. CASE u = t
    <3>1. floor[t] <= newest[key[t]] BY <1>0 DEF Order, Floors
    <3>2. newest[key[t]] <= s.born BY <2>1 DEF NotBefore
    <3>3. floor[t] \in Nat /\ newest[key[t]] \in Nat /\ s.born \in Nat
      BY <1>0 DEF Types, TypeOK, Snapshot
    <3> QED BY <2>1, <3>1, <3>2, <3>3
  <2>2. CASE u # t
    BY <1>0, <2>2 DEF Order, UnmarkedNeverGoesBack, Unmarked
  <2> QED BY <2>1, <2>2
<1> QED BY <1>1, <1>2, <1>3, <1>4, <1>5 DEF Order

\* A renewed file is dated now, and nothing is dated later.
LEMMA RenewedFile ==
  ASSUME WInv, Types', Dated', [ServiceNext]_serviceVars, NEW k \in Keys, ~FileKept(k)
  PROVE  /\ NotBefore(k, files[k].mtime)'
         /\ k \in DOMAIN entries' /\ Unmarked(entries'[k].snap) =>
              entries'[k].snap.born <= files'[k].mtime
         /\ \A t \in Threads :
              /\ Unmarked(outcome'[t]) => outcome'[t].born <= files'[k].mtime
              /\ Unmarked(loaded'[t]) => loaded'[t].born <= files'[k].mtime
<1>1. files'[k].mtime = now /\ now' = now
  <2>1. files'[k].mtime = now /\ \E t \in Threads : RunLoad(t) \/ RestartService
    BY StepFiles
  <2> QED BY <2>1, RunLoadMoves DEF vars, RestartService, Met!Restart
<1>2. NotBefore(k, files[k].mtime)' BY <1>1 DEF NotBefore, Dated, Unmarked
<1> QED BY <1>1, <1>2 DEF Dated, Unmarked

LEMMA RunLoadOrder ==
  ASSUME WInv, Types', Dated', NEW t \in Threads, RunLoad(t)
  PROVE  Order'
<1>0. Order /\ Types /\ Dated /\ Met!TypeOK BY DEF WInv, Types
<1>1. UNCHANGED <<vars, answers>> BY RunLoadMoves
<1>s. [ServiceNext]_serviceVars BY DEF ServiceNext, Serve
<1>n. \A k, b : NotBefore(k, b)' <=> NotBefore(k, b)
  BY <1>1 DEF NotBefore, vars, answers
<1>2. CachedNew' /\ Floors' /\ UnmarkedNeverGoesBack'
  BY <1>0, <1>1 DEF Order, CachedNew, Floors, UnmarkedNeverGoesBack, NotBefore, vars, answers
\* What a load is about to store, and what it brings back.
<1>3. ASSUME NEW u \in Threads, stage'[u] = "storing"
      PROVE  \/ got'[u] = now
             \/ stage[u] = "storing" /\ got'[u] = got[u]
  BY <1>0, <1>3, RunLoadMoves DEF Met!Finish, Met!TypeOK
<1>4. ASSUME NEW u \in Threads, Unmarked(outcome'[u])
      PROVE  \/ outcome'[u] = outcome[u]
             \/ /\ u = t /\ Usable(key[t]) /\ UNCHANGED files
                /\ outcome'[t].born = files[key[t]].mtime
             \/ u = t /\ stage[t] = "storing" /\ outcome'[t].born = got[t]
  <2>1. CASE UNCHANGED outcome BY <2>1
  <2>2. ASSUME NEW r, Met!Finish(t, r)
        PROVE  outcome'[u] = outcome[u] \/ (u = t /\ outcome'[t] = r)
    BY <1>0, <2>2 DEF Met!Finish, Met!TypeOK
  <2> QED BY <1>4, <2>1, <2>2, RunLoadMoves
<1>5. LoadedNew'
  <2> SUFFICES ASSUME NEW u \in Threads
               PROVE  /\ stage'[u] = "storing" => NotBefore(key[u], got[u])'
                      /\ pc'[u] = "loading" /\ Unmarked(outcome'[u]) =>
                           NotBefore(key[u], outcome[u].born)'
                      /\ pc'[u] = "publishing" /\ Unmarked(loaded'[u]) =>
                           NotBefore(key[u], loaded[u].born)'
    BY DEF LoadedNew, Unmarked
  <2>0. LoadedNew /\ key[u] \in Keys /\ UNCHANGED <<key, pc, loaded>>
    BY <1>0, <1>1 DEF Order, Types, TypeOK, vars
  <2>k. \A k, b : key'[u] = k /\ NotBefore(k, b) =>
          /\ got'[u] = b => NotBefore(key[u], got[u])'
          /\ outcome'[u].born = b => NotBefore(key[u], outcome[u].born)'
          /\ loaded'[u].born = b => NotBefore(key[u], loaded[u].born)'
    BY <1>1 DEF NotBefore, vars, answers
  <2>1. ASSUME stage'[u] = "storing" PROVE NotBefore(key[u], got'[u])
    <3>1. CASE got'[u] = now BY <1>0, <2>0, <3>1 DEF NotBefore, Dated, Unmarked
    <3>2. CASE stage[u] = "storing" /\ got'[u] = got[u] BY <2>0, <3>2 DEF LoadedNew
    <3> QED BY <1>3, <2>1, <3>1, <3>2
  <2>2. ASSUME pc'[u] = "loading", Unmarked(outcome'[u])
        PROVE  NotBefore(key[u], outcome'[u].born)
    <3>1. CASE outcome'[u] = outcome[u]
      BY <2>0, <2>2, <3>1 DEF LoadedNew, Unmarked
    <3>2. CASE u = t /\ Usable(key[t]) /\ outcome'[t].born = files[key[t]].mtime
      BY <1>0, <2>0, <3>2 DEF Order, FilesNew
    <3>3. CASE u = t /\ stage[t] = "storing" /\ outcome'[t].born = got[t]
      BY <2>0, <3>3 DEF LoadedNew
    <3> QED BY <1>4, <2>2, <3>1, <3>2, <3>3
  <2>3. ASSUME pc'[u] = "publishing", Unmarked(loaded'[u])
        PROVE  NotBefore(key[u], loaded'[u].born)
    BY <2>0, <2>3 DEF LoadedNew, Unmarked
  <2> QED BY <2>0, <2>k, <2>1, <2>2, <2>3
<1>6. FilesNew'
  <2> SUFFICES ASSUME NEW k \in Keys, Usable(k)'
               PROVE  /\ NotBefore(k, files[k].mtime)'
                      /\ k \in DOMAIN entries' /\ Unmarked(entries'[k].snap) =>
                           entries'[k].snap.born <= files'[k].mtime
                      /\ \A u \in Threads : key'[u] = k =>
                           /\ pc'[u] = "loading" /\ Unmarked(outcome'[u]) =>
                                outcome'[u].born <= files'[k].mtime
                           /\ pc'[u] = "publishing" /\ Unmarked(loaded'[u]) =>
                                loaded'[u].born <= files'[k].mtime
    BY DEF FilesNew, Unmarked
  <2>1. CASE ~FileKept(k) BY <1>s, <2>1, RenewedFile
  <2>2. CASE FileKept(k)
    <3>0. now' = now /\ UNCHANGED <<key, pc, loaded, entries>> BY <1>1 DEF vars
    <3>1. Usable(k) /\ k \in DOMAIN files /\ files'[k].mtime = files[k].mtime
      BY <1>0, <2>2, <3>0, UsableBefore
    <3>2. FilesNew BY <1>0 DEF Order
    <3>3. NotBefore(k, files[k].mtime)'
      <4>1. NotBefore(k, files[k].mtime) BY <3>1, <3>2 DEF FilesNew
      <4>2. \A b : b = files'[k].mtime /\ NotBefore(k, b) => NotBefore(k, files[k].mtime)'
        BY <1>1 DEF NotBefore, vars, answers
      <4> QED BY <3>1, <4>1, <4>2
    <3>4. k \in DOMAIN entries' /\ Unmarked(entries'[k].snap) =>
            entries'[k].snap.born <= files'[k].mtime
      BY <3>0, <3>1, <3>2 DEF FilesNew
    <3>5. ASSUME NEW u \in Threads, key'[u] = k, pc'[u] = "publishing", Unmarked(loaded'[u])
          PROVE  loaded'[u].born <= files'[k].mtime
      BY <3>0, <3>1, <3>2, <3>5 DEF FilesNew
    <3>6. ASSUME NEW u \in Threads, key'[u] = k, pc'[u] = "loading", Unmarked(outcome'[u])
          PROVE  outcome'[u].born <= files'[k].mtime
      <4>1. CASE outcome'[u] = outcome[u] BY <3>0, <3>1, <3>2, <3>6, <4>1 DEF FilesNew
      <4>2. CASE u = t /\ outcome'[t].born = files[key[t]].mtime
        <5>1. files[k].mtime \in Nat BY <1>0, <3>1 DEF Met!TypeOK, Met!File
        <5> QED BY <3>0, <3>1, <3>6, <4>2, <5>1
      <4>3. CASE u = t /\ stage[t] = "storing"
        <5>1. ~Usable(key[t]) BY <4>3 DEF WInv, Met!SingleDownload, Usable
        <5> QED BY <3>0, <3>1, <3>6, <4>3, <5>1
      <4> QED BY <1>4, <3>6, <4>1, <4>2, <4>3
    <3> QED BY <3>3, <3>4, <3>5, <3>6
  <2> QED BY <2>1, <2>2
<1> QED BY <1>2, <1>5, <1>6 DEF Order

LEMMA RestartOrder ==
  ASSUME WInv, Types', Dated', RestartService
  PROVE  Order'
<1>0. Order /\ Types BY DEF WInv
<1>1. /\ UNCHANGED <<now, key, newest, floor>> /\ DOMAIN entries' = {}
      /\ stage' = [t \in Threads |-> "idle"] /\ pc' = [t \in Threads |-> "idle"]
  BY DEF RestartService, Met!Restart, answers, NoEntries
<1>2. CachedNew' /\ LoadedNew' /\ Floors' /\ UnmarkedNeverGoesBack'
  BY <1>1 DEF CachedNew, LoadedNew, Floors, UnmarkedNeverGoesBack
<1>3. ASSUME NEW k \in Keys, Usable(k)' PROVE newest[k] <= files'[k].mtime
  <2>1. CASE FileKept(k)
    <3>1. Usable(k) /\ files'[k].mtime = files[k].mtime BY <1>0, <1>1, <1>3, <2>1, UsableBefore
    <3> QED BY <1>0, <3>1 DEF Order, FilesNew, NotBefore
  <2>2. CASE ~FileKept(k)
    <3>1. files'[k].mtime = now BY <2>2, StepFiles DEF ServiceNext
    <3> QED BY <3>1 DEF WInv, Dated
  <2> QED BY <2>1, <2>2
<1>4. FilesNew' BY <1>1, <1>3 DEF FilesNew, NotBefore
<1> QED BY <1>2, <1>4 DEF Order

LEMMA StepOrder ==
  WInv /\ Types' /\ Dated' /\ [ServiceNext]_serviceVars => Order'
<1> SUFFICES ASSUME WInv, Types', Dated', [ServiceNext]_serviceVars PROVE Order'
  OBVIOUS
<1>0. TypeOK /\ Types /\ Met!TypeOK /\ Linked /\ Order BY DEF WInv, Types
<1>p. SubCache(Pruned, entries) BY PrunedSub
<1>n. \A k \in Keys, b \in Nat : NotBefore(k, b) => newest[k] <= b BY DEF NotBefore
<1>f. \A t \in Threads : pc[t] # "idle" => floor[t] <= newest[key[t]]
  BY <1>0 DEF Order, Floors
<1>1. ASSUME NEW t \in Threads, NEW k \in Keys, Request(t, k) PROVE Order'
  <2>1. /\ UNCHANGED <<now, entries, stage, got, outcome, files, loaded, result, newest>>
        /\ pc[t] = "idle" /\ pc' = [pc EXCEPT ![t] = "lookup"]
        /\ key' = [key EXCEPT ![t] = k] /\ floor' = [floor EXCEPT ![t] = newest[k]]
    BY <1>1 DEF Request, Call, providerVars
  <2>2. \A s \in Threads : stage[s] = "storing" => s # t BY <1>0, <2>1 DEF Linked
  <2>3. \A j \in Keys : FileKept(j) BY <2>1 DEF FileKept
  <2>4. \A s \in Threads : pc'[s] # "idle" => floor'[s] <= newest'[key'[s]]
    <3>1. newest[k] \in Nat BY <1>0 DEF Types
    <3> QED BY <1>0, <1>f, <2>1, <3>1 DEF Types, TypeOK
  <2>5. \A s \in Threads : pc'[s] # "lookup" => s # t /\ pc'[s] = pc[s] /\ key'[s] = key[s]
                                               /\ floor'[s] = floor[s]
    BY <1>0, <2>1 DEF TypeOK, Types
  <2>6. \A s \in Threads : stage[s] = "storing" => key'[s] = key[s]
    BY <1>0, <2>1, <2>2 DEF TypeOK
  <2> QED BY <1>n, <2>1, <2>3, <2>4, <2>5, <2>6, OrderFrame
<1>2. ASSUME NEW t \in Threads, StartLoad(t) PROVE Order'
  <2>1. /\ UNCHANGED <<now, key, got, outcome, files, loaded, result, newest, floor>>
        /\ pc[t] = "lookup" /\ pc' = [pc EXCEPT ![t] = "loading"]
        /\ stage[t] = "idle" /\ stage' = [stage EXCEPT ![t] = "acquiring"]
    BY <1>2 DEF StartLoad, BeginLoad, Met!Load, answers
  <2>2. \A k \in DOMAIN entries' : entries'[k].snap # None =>
          k \in DOMAIN Pruned /\ entries'[k] = Pruned[k]
    BY <1>2 DEF StartLoad, BeginLoad
  <2>3. \A k \in DOMAIN entries' : Unmarked(entries'[k].snap) =>
          k \in DOMAIN entries /\ entries'[k].snap = entries[k].snap
    BY <1>p, <2>2 DEF Unmarked, SubCache
  <2>4. outcome[t] = None BY <1>0, <2>1 DEF Linked
  <2>5. \A k \in Keys : FileKept(k) BY <2>1 DEF FileKept
  <2>6. \A s \in Threads : stage'[s] = "storing" => stage[s] = "storing"
    BY <1>0, <2>1 DEF Met!TypeOK
  <2>7. \A s \in Threads : pc'[s] = pc[s] \/ (s = t /\ pc'[s] = "loading")
    BY <1>0, <2>1 DEF TypeOK
  <2> QED BY <1>n, <1>f, <2>1, <2>3, <2>4, <2>5, <2>6, <2>7, OrderFrame DEF Unmarked
<1>3. ASSUME NEW t \in Threads, RunLoad(t) PROVE Order' BY <1>3, RunLoadOrder
<1>4. ASSUME NEW t \in Threads, EndLoad(t) PROVE Order'
  <2>1. /\ UNCHANGED <<now, key, got, files, entries, result, newest, floor>>
        /\ stage' = [stage EXCEPT ![t] = "idle"] /\ outcome' = [outcome EXCEPT ![t] = None]
        /\ pc[t] = "loading"
    BY <1>4 DEF EndLoad, Met!Return, LoadReturns, LoadRaises, answers
  <2>2. \/ loaded' = [loaded EXCEPT ![t] = outcome[t]] /\ pc' = [pc EXCEPT ![t] = "publishing"]
        \/ loaded' = loaded /\ pc' = [pc EXCEPT ![t] = "raising"]
    BY <1>4 DEF EndLoad, LoadReturns, LoadRaises
  <2>3. \A s \in Threads : \/ s # t /\ pc'[s] = pc[s] /\ loaded'[s] = loaded[s]
                           \/ s = t /\ pc'[s] = "publishing" /\ loaded'[s] = outcome[s]
                           \/ s = t /\ pc'[s] = "raising"
    BY <1>0, <2>2 DEF TypeOK
  <2>4. \A s \in Threads : Unmarked(outcome'[s]) => outcome'[s] = outcome[s] /\ s # t
    BY <1>0, <2>1 DEF Met!TypeOK, Unmarked
  <2>5. \A s \in Threads : stage'[s] = "storing" => stage[s] = "storing"
    BY <1>0, <2>1 DEF Met!TypeOK
  <2>6. \A k \in Keys : FileKept(k) BY <2>1 DEF FileKept
  <2>7. \A k \in DOMAIN entries' : Unmarked(entries'[k].snap) =>
          k \in DOMAIN entries /\ entries'[k].snap = entries[k].snap
    BY <2>1
  <2> QED BY <1>n, <1>f, <2>1, <2>3, <2>4, <2>5, <2>6, <2>7, OrderFrame
<1>5. ASSUME NEW t \in Threads, Answer(t) PROVE Order'
  <2>1. /\ UNCHANGED <<now, key, stage, got, outcome, files, entries, loaded, floor>>
        /\ pc[t] = "done" /\ pc' = [pc EXCEPT ![t] = "idle"]
        /\ result' = [result EXCEPT ![t] = None]
    BY <1>5 DEF Answer, Respond, providerVars
  <2>2. \A s \in Threads : (s = t /\ pc'[s] = "idle")
                           \/ (s # t /\ pc'[s] = pc[s] /\ result'[s] = result[s])
    BY <1>0, <2>1 DEF TypeOK
  <2> DEFINE snap == result[t].snap
  <2>3. newest' = [newest EXCEPT ![key[t]] =
           IF snap = None THEN @
           ELSE IF ~snap.fb /\ @ < snap.born THEN snap.born ELSE @]
    BY <1>5 DEF Answer
  <2>4. key[t] \in Keys /\ snap \in Snapshot \cup {None}
    BY <1>0, <2>1 DEF Types, TypeOK, Result
  <2>5. \A k \in Keys, b \in Nat : NotBefore(k, b) => newest'[k] <= b
    BY <1>0, <2>1, <2>3, <2>4 DEF NotBefore, Unmarked, Types
  <2>6. \A k \in Keys : newest[k] <= newest'[k]
    BY <1>0, <2>3, <2>4 DEF Types, Snapshot
  <2>7. \A s \in Threads : pc'[s] # "idle" => floor'[s] <= newest'[key'[s]]
    <3> SUFFICES ASSUME NEW s \in Threads, pc'[s] # "idle"
                 PROVE  floor[s] <= newest'[key[s]]
      BY <2>1
    <3>1. floor[s] <= newest[key[s]] /\ key[s] \in Keys BY <1>0, <1>f, <2>2 DEF TypeOK
    <3>2. newest[key[s]] <= newest'[key[s]] BY <2>6, <3>1
    <3>3. floor[s] \in Nat /\ newest[key[s]] \in Nat /\ newest'[key[s]] \in Nat
      BY <1>0, <3>1 DEF Types
    <3> QED BY <3>1, <3>2, <3>3
  <2>8. \A k \in Keys : FileKept(k) BY <2>1 DEF FileKept
  <2>9. \A k \in DOMAIN entries' : Unmarked(entries'[k].snap) =>
          k \in DOMAIN entries /\ entries'[k].snap = entries[k].snap
    BY <2>1
  <2> QED BY <2>1, <2>2, <2>5, <2>7, <2>8, <2>9, OrderFrame
<1>6. ASSUME NEW t \in Threads, Hit(t), UNCHANGED <<providerVars, answers>> PROVE Order'
  <2>1. /\ UNCHANGED <<now, key, stage, got, outcome, files, loaded, newest, floor>>
        /\ pc[t] = "lookup" /\ pc' = [pc EXCEPT ![t] = "done"] /\ entries' = Pruned
        /\ result' = [result EXCEPT ![t] = [snap |-> Pruned[key[t]].snap, hit |-> TRUE, at |-> now]]
    BY <1>6 DEF Hit, providerVars, answers
  <2>2. key[t] \in DOMAIN Pruned /\ Pruned[key[t]].snap # None BY <1>6 DEF Hit, LiveIn
  <2>3. PICK s : s = Pruned[key[t]].snap OBVIOUS
  <2>4. key[t] \in DOMAIN entries /\ entries[key[t]].snap = s /\ s \in Snapshot
        /\ entries'[key[t]].snap = s
    BY <1>0, <1>p, <2>1, <2>2, <2>3 DEF SubCache, TypeOK, Entry
  <2>5. \A u \in Threads : \/ u = t /\ pc'[u] = "done" /\ result'[u].snap = s
                           \/ u # t /\ pc'[u] = pc[u] /\ result'[u] = result[u]
    BY <1>0, <2>1, <2>3 DEF TypeOK
  <2>6. \A u \in Threads : pc[u] \in {"loading", "publishing"} => key[u] # key[t]
    <3> SUFFICES ASSUME NEW u \in Threads, pc[u] \in {"loading", "publishing"}, key[t] = key[u]
                 PROVE  FALSE
      OBVIOUS
    <3> QED BY <1>6, LoadExcludes
  <2>7. \A u \in Threads : stage[u] = "storing" => key[u] # key[t]
    BY <1>0, <2>6 DEF Linked
  <2>8. Unmarked(s) => /\ NotBefore(key[t], s.born)
                       /\ Usable(key[t]) => s.born <= files[key[t]].mtime
    <3>1. key[t] \in Keys BY <1>0 DEF TypeOK
    <3> QED BY <1>0, <2>4, <3>1 DEF Order, CachedNew, FilesNew
  <2>9. \A k \in DOMAIN entries' : Unmarked(entries'[k].snap) =>
          IF k = key[t] THEN entries'[k].snap = s
          ELSE k \in DOMAIN entries /\ entries'[k].snap = entries[k].snap
    BY <1>p, <2>1, <2>4 DEF SubCache
  <2> QED BY <2>1, <2>4, <2>5, <2>6, <2>7, <2>8, <2>9, OrderGiven
<1>7. ASSUME NEW t \in Threads, Wait(t), UNCHANGED <<providerVars, answers>> PROVE Order'
  <2>1. /\ UNCHANGED <<now, key, stage, got, outcome, files, loaded, result, newest, floor>>
        /\ pc[t] = "lookup" /\ pc' = [pc EXCEPT ![t] = "waiting"] /\ entries' = Pruned
    BY <1>7 DEF Wait, providerVars, answers
  <2>2. \A u \in Threads : (u = t /\ pc'[u] = "waiting") \/ pc'[u] = pc[u]
    BY <1>0, <2>1 DEF TypeOK
  <2>3. \A k \in DOMAIN entries' : Unmarked(entries'[k].snap) =>
          k \in DOMAIN entries /\ entries'[k].snap = entries[k].snap
    BY <1>p, <2>1 DEF SubCache
  <2>4. \A k \in Keys : FileKept(k) BY <2>1 DEF FileKept
  <2> QED BY <1>n, <1>f, <2>1, <2>2, <2>3, <2>4, OrderFrame
<1>8. ASSUME NEW t \in Threads, Publish(t), UNCHANGED <<providerVars, answers>> PROVE Order'
  <2> DEFINE full == [entries EXCEPT ![key[t]] = Filled(loaded[t])]
  <2>1. /\ UNCHANGED <<now, key, stage, got, outcome, files, newest, floor>>
        /\ pc[t] = "publishing" /\ pc' = [Awakened EXCEPT ![t] = "done"]
        /\ loaded' = [loaded EXCEPT ![t] = None]
        /\ result' = [result EXCEPT ![t] = [snap |-> loaded[t], hit |-> FALSE, at |-> now]]
    BY <1>8 DEF Publish, providerVars, answers
  <2>2. PICK s : s = loaded[t] OBVIOUS
  <2>3. SubCache(entries', full) /\ s \in Snapshot /\ key[t] \in DOMAIN entries
    BY <1>8, <2>2, PublishedFull
  <2>4. \A k \in DOMAIN entries : full[k].snap = IF k = key[t] THEN s ELSE entries[k].snap
    BY <1>0, <2>2 DEF TypeOK, Filled
  <2>5. DOMAIN full = DOMAIN entries OBVIOUS
  <2> HIDE DEF full
  <2>6. \A u \in Threads :
          \/ u = t /\ pc'[u] = "done" /\ result'[u].snap = s
          \/ /\ u # t /\ result'[u] = result[u] /\ loaded'[u] = loaded[u]
             /\ pc'[u] = pc[u] \/ (pc[u] = "waiting" /\ pc'[u] = "lookup")
    BY <1>0, <2>1, <2>2 DEF TypeOK, Awakened
  <2>7. \A u \in Threads \ {t} : pc[u] \in {"loading", "publishing"} => key[u] # key[t]
    <3> SUFFICES ASSUME NEW u \in Threads \ {t}, pc[u] \in {"loading", "publishing"}, key[t] = key[u]
                 PROVE  FALSE
      OBVIOUS
    <3> QED BY <1>8, LoadExcludes
  <2>8. \A u \in Threads : stage[u] = "storing" => key[u] # key[t]
    BY <1>0, <2>1, <2>7 DEF Linked
  <2>9. Unmarked(s) => /\ NotBefore(key[t], s.born)
                       /\ Usable(key[t]) => s.born <= files[key[t]].mtime
    <3>1. key[t] \in Keys BY <1>0 DEF TypeOK
    <3> QED BY <1>0, <2>1, <2>2, <3>1 DEF Order, LoadedNew, FilesNew
  <2>10. \A k \in DOMAIN entries' : Unmarked(entries'[k].snap) =>
           IF k = key[t] THEN entries'[k].snap = s
           ELSE k \in DOMAIN entries /\ entries'[k].snap = entries[k].snap
    BY <2>3, <2>4, <2>5 DEF SubCache
  <2>11. \A u \in Threads : pc'[u] \in {"loading", "publishing"} =>
           key[u] # key[t] /\ pc[u] = pc'[u] /\ loaded'[u] = loaded[u]
    BY <2>6, <2>7
  <2> QED BY <2>1, <2>3, <2>6, <2>8, <2>9, <2>10, <2>11, OrderGiven
<1>9. ASSUME NEW t \in Threads, Abandon(t), UNCHANGED <<providerVars, answers>> PROVE Order'
  <2>1. /\ UNCHANGED <<now, key, stage, got, outcome, files, loaded, newest, floor>>
        /\ pc[t] = "raising" /\ pc' = [Awakened EXCEPT ![t] = "done"]
        /\ result' = [result EXCEPT ![t] = [snap |-> None, hit |-> FALSE, at |-> now]]
    BY <1>9 DEF Abandon, providerVars, answers
  <2>2. \A k \in DOMAIN entries' : k \in DOMAIN entries /\ entries'[k] = entries[k]
    BY <1>9 DEF Abandon, Restrict
  <2>3. \A u \in Threads :
          \/ u = t /\ pc'[u] = "done" /\ result'[u].snap = None
          \/ /\ result'[u] = result[u]
             /\ pc'[u] = pc[u] \/ (pc[u] = "waiting" /\ pc'[u] = "lookup")
    BY <1>0, <2>1 DEF TypeOK, Awakened
  <2>4. \A k \in Keys : FileKept(k) BY <2>1 DEF FileKept
  <2>5. ~Unmarked(None) BY DEF Unmarked
  <2>6. \A u \in Threads : pc'[u] # "idle" => floor'[u] <= newest'[key'[u]]
    BY <1>f, <2>1, <2>3
  <2> QED BY <1>n, <2>1, <2>2, <2>3, <2>4, <2>5, <2>6, OrderFrame
<1>10. CASE RestartService BY <1>10, RestartOrder
<1>11. CASE SpoilFile
  <2>1. PICK j \in Keys : Met!Spoil(j) BY <1>11 DEF SpoilFile
  <2>2. \A k \in Keys : FileKept(k) BY <1>0, <2>1 DEF Met!Spoil, Met!TypeOK, Met!File, FileKept
  <2>3. UNCHANGED <<now, key, stage, got, outcome, loaded, pc, result, entries, newest, floor>>
    BY <1>11, <2>1 DEF SpoilFile, Met!Spoil, answers
  <2> QED BY <1>n, <1>f, <2>2, <2>3, OrderFrame
<1>12. ASSUME now' \in {now, now + 1},
              UNCHANGED <<key, stage, got, outcome, files, loaded, pc, result, entries, newest, floor>>
       PROVE  Order'
  <2>1. \A k \in Keys : FileKept(k) BY <1>12 DEF FileKept
  <2> QED BY <1>n, <1>f, <1>12, <2>1, OrderFrame
<1>13. CASE Tick /\ UNCHANGED <<providerVars, answers>>
  BY <1>12, <1>13 DEF Tick, providerVars, answers
<1>14. CASE UNCHANGED serviceVars
  BY <1>12, <1>14 DEF serviceVars, vars, providerVars, answers
<1>15. ASSUME NEW t \in Threads, Serve(t) PROVE Order'
  <2>1. CASE StartLoad(t) BY <1>2, <2>1
  <2>2. CASE RunLoad(t) BY <1>3, <2>2
  <2>3. CASE EndLoad(t) BY <1>4, <2>3
  <2>4. CASE Answer(t) BY <1>5, <2>4
  <2>5. CASE (Hit(t) \/ Wait(t) \/ Publish(t) \/ Abandon(t)) /\ UNCHANGED <<providerVars, answers>>
    BY <1>6, <1>7, <1>8, <1>9, <2>5
  <2> QED BY <1>15, <2>1, <2>2, <2>3, <2>4, <2>5 DEF Serve
<1> QED BY <1>1, <1>10, <1>11, <1>13, <1>14, <1>15 DEF ServiceNext

(***************************************************************************)
(* The bounds.                                                             *)
(***************************************************************************)
LEMMA MemoryFrame ==
  ASSUME WInv, Types', now' \in {now, now + 1}, IsFiniteSet(DOMAIN entries'),
         \A k \in DOMAIN entries' : entries'[k].owner = None =>
           k \in DOMAIN entries /\ entries'[k] = entries[k]
  PROVE  MemoryBounds'
<1> DEFINE idle == {k \in DOMAIN entries : entries[k].owner = None}
           next == {k \in DOMAIN entries' : entries'[k].owner = None}
<1>1. next \subseteq idle OBVIOUS
<1>2. IsFiniteSet(idle) BY FS_Subset DEF WInv, Bounds, MemoryBounds
<1>3. Cardinality(next) <= Cardinality(idle) /\ Cardinality(next) \in Nat /\ Cardinality(idle) \in Nat
  BY <1>1, <1>2, FS_Subset, FS_CardinalityType
<1>4. Cardinality(idle) <= MaxEntries /\ MaxEntries \in Nat
  BY WeatherAssumption DEF WInv, Bounds, MemoryBounds, IdleBounded, WeatherCacheAssumption
<1>5. Cardinality(next) <= MaxEntries
  <2> HIDE DEF next, idle
  <2> QED BY <1>3, <1>4
<1>6. IdleBounded' BY <1>5 DEF IdleBounded
<1>7. FallbackRetriedSoon'
  <2> SUFFICES ASSUME NEW k \in DOMAIN entries', entries'[k].owner = None
               PROVE  /\ entries'[k].snap # None
                      /\ entries'[k].snap.fb => entries'[k].expires <= now' + FallbackTtl
    BY DEF FallbackRetriedSoon
  <2>1. k \in DOMAIN entries /\ entries'[k] = entries[k] OBVIOUS
  <2>2. entries[k].snap # None /\ (entries[k].snap.fb => entries[k].expires <= now + FallbackTtl)
    BY <2>1 DEF WInv, Bounds, MemoryBounds, FallbackRetriedSoon
  <2>3. entries[k].expires \in Nat /\ now \in Nat /\ FallbackTtl \in Nat
    BY <2>1, WeatherAssumption DEF WInv, Types, TypeOK, Entry, WeatherCacheAssumption
  <2> QED BY <2>1, <2>2, <2>3
<1> QED BY <1>6, <1>7 DEF MemoryBounds

\* A trimmed cache keeps few entries for their data: those it may not drop are
\* loading, but for the protected one.
LEMMA TrimmedIdle ==
  ASSUME NEW es, IsFiniteSet(DOMAIN es), NEW k \in DOMAIN es, NEW r \in Trimmed(es, k)
  PROVE  Cardinality({j \in DOMAIN r : r[j].owner = None}) <= MaxEntries
<1> DEFINE idle == {j \in DOMAIN es \ {k} : es[j].owner = None}
           n == Cardinality(DOMAIN es)
           excess == IF n <= MaxEntries THEN 0 ELSE n - MaxEntries
           kept == {j \in DOMAIN r : r[j].owner = None}
<1>0. MaxEntries \in Nat \ {0} BY WeatherAssumption DEF WeatherCacheAssumption
<1>1. PICK V \in SUBSET idle :
        /\ Cardinality(V) = excess \/ (Cardinality(V) < excess /\ V = idle)
        /\ r = Restrict(es, DOMAIN es \ V)
  BY Zenon DEF Trimmed
<1>2. DOMAIN r = DOMAIN es \ V /\ r = [j \in DOMAIN es \ V |-> es[j]]
  BY <1>1 DEF Restrict
<1>3. IsFiniteSet(DOMAIN r) /\ IsFiniteSet(V) /\ n \in Nat /\ Cardinality(V) \in Nat
      /\ Cardinality(DOMAIN r) \in Nat
  <2>1. IsFiniteSet(V) BY FS_Subset
  <2>2. IsFiniteSet(DOMAIN es \ V) BY FS_Difference
  <2> QED BY <1>2, <2>1, <2>2, FS_CardinalityType
<1>4. CASE Cardinality(V) = excess
  <2>1. (DOMAIN es) \cap V = V OBVIOUS
  <2>2. Cardinality(DOMAIN r) = n - Cardinality(V) BY <1>2, <2>1, FS_Difference
  <2>3. Cardinality(DOMAIN r) <= MaxEntries
    <3> HIDE DEF n
    <3> QED BY <1>0, <1>3, <1>4, <2>2
  <2>4. kept \subseteq DOMAIN r OBVIOUS
  <2>5. Cardinality(kept) <= Cardinality(DOMAIN r) /\ Cardinality(kept) \in Nat
    BY <1>3, <2>4, FS_Subset, FS_CardinalityType
  <2> HIDE DEF kept
  <2>6. Cardinality(kept) <= MaxEntries BY <1>0, <1>3, <2>3, <2>5
  <2> QED BY <2>6 DEF kept
<1>5. CASE V = idle
  <2>1. kept \subseteq {k} BY <1>2, <1>5
  <2>2. IsFiniteSet({k}) /\ Cardinality({k}) = 1 BY FS_Singleton
  <2>3. Cardinality(kept) <= 1 /\ Cardinality(kept) \in Nat
    BY <2>1, <2>2, FS_Subset, FS_CardinalityType
  <2> HIDE DEF kept
  <2>4. Cardinality(kept) <= MaxEntries BY <1>0, <2>3
  <2> QED BY <2>4 DEF kept
<1> QED BY <1>1, <1>4, <1>5

LEMMA PublishMemory ==
  ASSUME WInv, NEW t \in Threads, Publish(t)
  PROVE  MemoryBounds'
<1> DEFINE full == [entries EXCEPT ![key[t]] = Filled(loaded[t])]
<1>0. TypeOK /\ MemoryBounds BY DEF WInv, Types, Bounds
<1>1. /\ SubCache(entries', full) /\ entries' \in Trimmed(full, key[t])
      /\ loaded[t] \in Snapshot /\ key[t] \in DOMAIN entries
  BY PublishedFull
<1>2. DOMAIN full = DOMAIN entries OBVIOUS
<1>3. full[key[t]] = Filled(loaded[t]) BY <1>1
<1>4. \A k \in DOMAIN entries : k # key[t] => full[k] = entries[k] BY <1>0 DEF TypeOK
<1> HIDE DEF full
<1>5. IsFiniteSet(DOMAIN entries) BY <1>0 DEF MemoryBounds
<1>6. IsFiniteSet(DOMAIN entries') BY <1>1, <1>2, <1>5, FS_Subset DEF SubCache
<1>7. IdleBounded' BY <1>1, <1>2, <1>5, TrimmedIdle DEF IdleBounded
<1>8. FallbackRetriedSoon'
  <2> SUFFICES ASSUME NEW k \in DOMAIN entries', entries'[k].owner = None
               PROVE  /\ entries'[k].snap # None
                      /\ entries'[k].snap.fb => entries'[k].expires <= now' + FallbackTtl
    BY DEF FallbackRetriedSoon
  <2>0. now' = now BY DEF Publish
  <2>1. CASE k = key[t]
    <3>1. entries'[k] = Filled(loaded[t]) BY <1>1, <1>3, <2>1 DEF SubCache
    <3>2. loaded[t] # None BY <1>1, WeatherAssumption DEF WeatherCacheAssumption
    <3>3. now \in Nat /\ FallbackTtl \in Nat
      BY <1>0, WeatherAssumption DEF TypeOK, WeatherCacheAssumption
    <3> QED BY <2>0, <3>1, <3>2, <3>3 DEF Filled, Lifetime
  <2>2. CASE k # key[t]
    <3>1. k \in DOMAIN entries /\ entries'[k] = entries[k]
      BY <1>1, <1>2, <1>4, <2>2 DEF SubCache
    <3> QED BY <1>0, <2>0, <3>1 DEF MemoryBounds, FallbackRetriedSoon
  <2> QED BY <2>1, <2>2
<1> QED BY <1>6, <1>7, <1>8 DEF MemoryBounds

LEMMA StepMemory == WInv /\ Types' /\ [ServiceNext]_serviceVars => MemoryBounds'
<1> SUFFICES ASSUME WInv, Types', [ServiceNext]_serviceVars PROVE MemoryBounds'
  OBVIOUS
<1>0. TypeOK /\ IsFiniteSet(DOMAIN entries) BY DEF WInv, Types, Bounds, MemoryBounds
<1>c. now' \in {now, now + 1} BY StepClock
<1>p. SubCache(Pruned, entries) BY PrunedSub
<1>f. IsFiniteSet(DOMAIN Pruned) BY <1>0, <1>p, FS_Subset DEF SubCache
<1>1. CASE UNCHANGED entries BY <1>0, <1>1, <1>c, MemoryFrame
<1>2. CASE entries' = Pruned BY <1>2, <1>c, <1>f, <1>p, MemoryFrame DEF SubCache
<1>3. ASSUME NEW t \in Threads, BeginLoad(t) PROVE MemoryBounds'
  <2>1. DOMAIN entries' = DOMAIN Pruned \cup {key[t]} /\ entries'[key[t]].owner = t
        /\ \A k \in DOMAIN Pruned \ {key[t]} : entries'[k] = Pruned[k]
    BY <1>3 DEF BeginLoad
  <2>2. IsFiniteSet(DOMAIN entries')
    BY <1>f, <2>1, FS_AddElement
  <2>3. t # None BY WeatherAssumption DEF WeatherCacheAssumption
  <2> QED BY <1>c, <1>p, <2>1, <2>2, <2>3, MemoryFrame DEF SubCache
<1>4. ASSUME NEW t \in Threads, Abandon(t) PROVE MemoryBounds'
  <2>1. DOMAIN entries' \subseteq DOMAIN entries /\ \A k \in DOMAIN entries' : entries'[k] = entries[k]
    BY <1>4 DEF Abandon, Restrict
  <2>2. IsFiniteSet(DOMAIN entries') BY <1>0, <2>1, FS_Subset
  <2> QED BY <1>c, <2>1, <2>2, MemoryFrame
<1>5. CASE RestartService
  <2>1. DOMAIN entries' = {} BY <1>5 DEF RestartService, NoEntries
  <2> QED BY <1>c, <2>1, FS_EmptySet, MemoryFrame
<1>6. ASSUME NEW t \in Threads, Serve(t) PROVE MemoryBounds'
  <2>1. CASE StartLoad(t) BY <1>3, <2>1 DEF StartLoad
  <2>2. CASE RunLoad(t) BY <1>1, <2>2 DEF RunLoad, vars
  <2>3. CASE EndLoad(t) BY <1>1, <2>3 DEF EndLoad, LoadReturns, LoadRaises
  <2>4. CASE Answer(t) BY <1>1, <2>4 DEF Answer, Respond
  <2>5. CASE Hit(t) \/ Wait(t) BY <1>2, <2>5 DEF Hit, Wait
  <2>6. CASE Publish(t) BY <2>6, PublishMemory
  <2>7. CASE Abandon(t) BY <1>4, <2>7
  <2> QED BY <1>6, <2>1, <2>2, <2>3, <2>4, <2>5, <2>6, <2>7 DEF Serve
<1>7. ASSUME NEW t \in Threads, NEW k \in Keys, Request(t, k) PROVE MemoryBounds'
  BY <1>1, <1>7 DEF Request, Call
<1>8. CASE SpoilFile \/ Tick \/ UNCHANGED serviceVars
  BY <1>1, <1>8 DEF SpoilFile, Tick, serviceVars, vars
<1> QED BY <1>5, <1>6, <1>7, <1>8 DEF ServiceNext

\* A complete pruning meets the bound of the directory.
LEMMA PrunedBounded ==
  ASSUME NEW fs, IsFiniteSet(DOMAIN fs), NEW k \in DOMAIN fs,
         NEW r \in Met!PrunedBy(fs, k, Met!Excess(fs))
  PROVE  Met!Cardinality(DOMAIN r) <= MaxFiles
<1>0. MaxFiles \in Nat BY WeatherAssumption DEF Met!ProviderAssumption
<1>1. PICK W \in SUBSET (DOMAIN fs \ {k}) :
        /\ Met!Cardinality(W) = Met!Excess(fs)
        /\ r = Met!Restrict(fs, DOMAIN fs \ W)
  BY Zenon DEF Met!PrunedBy
<1>n. Cardinality(W) = Met!Excess(fs) /\ DOMAIN r = DOMAIN fs \ W
  BY <1>1, SameCount DEF Met!Restrict
<1>2. (DOMAIN fs) \cap W = W OBVIOUS
<1>3. Cardinality(DOMAIN r) = Cardinality(DOMAIN fs) - Cardinality(W)
  BY <1>n, <1>2, FS_Difference
<1>4. Cardinality(DOMAIN fs) \in Nat BY FS_CardinalityType
<1>5. Met!Excess(fs) = IF Cardinality(DOMAIN fs) <= MaxFiles
                       THEN 0 ELSE Cardinality(DOMAIN fs) - MaxFiles
  BY SameCount DEF Met!Excess
<1>6. Cardinality(DOMAIN r) <= MaxFiles BY <1>0, <1>n, <1>1, <1>3, <1>4, <1>5
<1> QED BY <1>6, SameCount

LEMMA RewrittenFinite ==
  ASSUME WInv, NEW fs, NEW k, Rewritten(fs, k) PROVE IsFiniteSet(DOMAIN fs)
<1>1. IsFiniteSet(DOMAIN files \cup {k}) BY FS_AddElement DEF WInv, Bounds, DiskBounds
<1> QED BY <1>1, FS_Subset DEF Rewritten

\* No step but a store or a restart adds a file.
LEMMA DiskFrame ==
  ASSUME WInv, DOMAIN files' = DOMAIN files, overdue' = overdue
  PROVE  DiskBounds'
BY DEF WInv, Bounds, DiskBounds, Met!FilesBounded

LEMMA StepDisk == WInv /\ [ServiceNext]_serviceVars => DiskBounds'
<1> SUFFICES ASSUME WInv, [ServiceNext]_serviceVars PROVE DiskBounds'
  OBVIOUS
<1>1. CASE UNCHANGED <<files, overdue>> BY <1>1, DiskFrame
<1>2. ASSUME NEW k, Met!StoreCutShort(k) PROVE DiskBounds'
  <2>1. Rewritten(files', k) /\ overdue' BY <1>2, CutShortRewritten
  <2> QED BY <2>1, RewrittenFinite DEF DiskBounds, Met!FilesBounded
<1>3. ASSUME NEW t \in Threads, NEW o, Met!Store(t, o) PROVE DiskBounds'
  <2> DEFINE full == Met!Written(key[t])
  <2>1. CASE files' \in Met!PrunedBy(full, key[t], Met!Excess(full))
    <3>1. DOMAIN full = DOMAIN files \cup {key[t]} BY DEF Met!Written
    <3>2. IsFiniteSet(DOMAIN full) BY <3>1, FS_AddElement DEF WInv, Bounds, DiskBounds
    <3>3. Rewritten(files', key[t]) BY <2>1, PrunedRewritten
    <3> HIDE DEF full
    <3>4. Met!Cardinality(DOMAIN files') <= MaxFiles BY <2>1, <3>1, <3>2, PrunedBounded
    <3> QED BY <3>3, <3>4, RewrittenFinite DEF DiskBounds, Met!FilesBounded
  <2>2. CASE Met!StoreCutShort(key[t]) BY <1>2, <2>2
  <2>3. CASE UNCHANGED <<files, overdue>> BY <1>1, <2>3
  <2> QED BY <1>3, <2>1, <2>2, <2>3 DEF Met!Store
<1>4. ASSUME NEW t \in Threads, RunLoad(t) PROVE DiskBounds'
  <2>1. CASE Met!Acquire(t) BY <1>1, <2>1 DEF Met!Acquire
  <2>2. CASE Met!Probe(t) BY <1>1, <2>2 DEF Met!Probe
  <2>3. CASE \E o \in {"parsed", "failed", "raised"} : Met!Download(t, o)
    BY <1>1, <2>3 DEF Met!Download
  <2>4. CASE \E o \in {"stored", "prune failed", "write failed"} : Met!Store(t, o)
    BY <1>3, <2>4
  <2>5. CASE Met!Salvage(t) BY <1>1, <2>5 DEF Met!Salvage
  <2> QED BY <1>4, <2>1, <2>2, <2>3, <2>4, <2>5 DEF RunLoad, Met!LoadStep
<1>5. ASSUME NEW t \in Threads, Serve(t) PROVE DiskBounds'
  <2>1. CASE StartLoad(t) BY <1>1, <2>1 DEF StartLoad, Met!Load
  <2>2. CASE RunLoad(t) BY <1>4, <2>2
  <2>3. CASE EndLoad(t) BY <1>1, <2>3 DEF EndLoad, Met!Return
  <2>4. CASE UNCHANGED providerVars BY <1>1, <2>4 DEF providerVars
  <2> QED BY <1>5, <2>1, <2>2, <2>3, <2>4 DEF Serve, Answer
<1>6. CASE RestartService
  <2>1. UNCHANGED <<files, overdue>> \/ \E t \in Threads : Met!StoreCutShort(key[t])
    BY <1>6 DEF RestartService, Met!Restart
  <2> QED BY <1>1, <1>2, <2>1
<1>7. CASE SpoilFile
  <2>1. DOMAIN files' = DOMAIN files /\ overdue' = overdue BY <1>7 DEF SpoilFile, Met!Spoil
  <2> QED BY <2>1, DiskFrame
<1>8. ASSUME NEW t \in Threads, NEW k \in Keys, Request(t, k) PROVE DiskBounds'
  BY <1>1, <1>8 DEF Request, providerVars
<1>9. CASE Tick /\ UNCHANGED <<providerVars, answers>> BY <1>1, <1>9 DEF providerVars
<1>10. CASE UNCHANGED serviceVars BY <1>1, <1>10 DEF serviceVars, providerVars
<1> QED BY <1>5, <1>6, <1>7, <1>8, <1>9, <1>10 DEF ServiceNext

(***************************************************************************)
(* The theorems.                                                           *)
(***************************************************************************)
LEMMA InitW == ServiceInit => WInv
<1> SUFFICES ASSUME ServiceInit PROVE WInv
  OBVIOUS
<1> USE DEF ServiceInit, Init, Met!Init, NoEntries, Met!NoFiles
<1>1. Types
  BY DEF Types, TypeOK, Phases, Met!TypeOK, Met!Stages
<1>2. Coordination
  BY DEF Coordination, OwnerLoads, LoaderOwns, WaiterServed, LoadingBlank, Loading
<1>3. Linked BY DEF Linked, Met!Locked
<1>4. Met!SingleDownload BY DEF Met!SingleDownload
<1>5. Dated BY DEF Dated
<1>6. Order
  BY DEF Order, CachedNew, LoadedNew, FilesNew, Floors, UnmarkedNeverGoesBack,
         Usable, Met!Fresh, Unmarked
<1>7. Bounds
  <2>1. DOMAIN entries = {} /\ DOMAIN files = {} OBVIOUS
  <2>2. {k \in DOMAIN entries : entries[k].owner = None} = {} BY <2>1
  <2>3. MaxEntries \in Nat /\ MaxFiles \in Nat
    BY WeatherAssumption DEF WeatherCacheAssumption, Met!ProviderAssumption
  <2>4. IdleBounded BY <2>2, <2>3, FS_EmptySet DEF IdleBounded
  <2>5. Met!FilesBounded BY <2>1, <2>3, SameCount, FS_EmptySet DEF Met!FilesBounded
  <2> QED BY <2>1, <2>4, <2>5, FS_EmptySet
      DEF Bounds, MemoryBounds, DiskBounds, FallbackRetriedSoon
<1> QED BY <1>1, <1>2, <1>3, <1>4, <1>5, <1>6, <1>7 DEF WInv

LEMMA ServiceInductive == ServiceSpec => []WInv
<1>1. WInv /\ [ServiceNext]_serviceVars => WInv'
  BY StepTypes, StepCoordination, StepLinked, StepSingle, StepDated, StepOrder,
     StepMemory, StepDisk
  DEF WInv, Bounds
<1> QED BY <1>1, InitW, PTL DEF ServiceSpec

\* Simultaneous requests for one observer make one download
\* (weather.py, load; weather_snapshot_cache.py, get_or_load).
THEOREM OneDownload == ServiceSpec => []SingleDownload
<1>1. WInv => SingleDownload
  BY DEF WInv, Types, TypeOK, Coordination, OwnerLoads, WaiterServed, LoadingIn,
         SingleDownload, WaiterHasLoader
<1> QED BY <1>1, ServiceInductive, PTL

\* The forecast never silently goes back in time, through the memory cache, the
\* disk cache, failed writes, pruning, unreadable files and restarts.
THEOREM ForecastNeverGoesBack == ServiceSpec => []UnmarkedNeverGoesBack
<1>1. WInv => UnmarkedNeverGoesBack BY DEF WInv, Order
<1> QED BY <1>1, ServiceInductive, PTL

\* Both weather caches are well typed and keep their bounds, and a fallback is
\* dropped in time (_trim_locked, _prune_cache, fallback_ttl_seconds).
THEOREM WeatherCachesHold == ServiceSpec => []WeatherCachesSound
<1>1. WInv => WeatherCachesSound
  BY DEF WInv, Types, Bounds, MemoryBounds, DiskBounds, WeatherCachesSound
<1> QED BY <1>1, ServiceInductive, PTL

(***************************************************************************)
(* Refinement of SharedLoad.                                               *)
(***************************************************************************)
\* How a step of t moves the abstract phases and answers: notify_all wakes the
\* waiters, which go on asking.
LEMMA OneMoves ==
  ASSUME TypeOK, NEW t \in Threads,
         \A s \in Threads \ {t} : /\ pc'[s] = pc[s] \/ (pc[s] = "waiting" /\ pc'[s] = "lookup")
                                  /\ result'[s] = result[s]
  PROVE  /\ PhaseBar' = [PhaseBar EXCEPT ![t] = AbstractPhase(pc'[t])]
         /\ AnswerBar' = [AnswerBar EXCEPT ![t] =
                            IF pc'[t] = "done" THEN result'[t].snap ELSE None]
<1>1. AbstractPhase("waiting") = AbstractPhase("lookup") BY DEF AbstractPhase, Loading
<1>2. \A s \in Threads \ {t} : AbstractPhase(pc'[s]) = AbstractPhase(pc[s])
                               /\ ((pc'[s] = "done") <=> (pc[s] = "done"))
  BY <1>1
<1> QED BY <1>2 DEF PhaseBar, AnswerBar

\* While a thread is not done, its abstract answer is None.
LEMMA NoAnswer ==
  ASSUME NEW t \in Threads, pc[t] # "done"
  PROVE  AnswerBar = [AnswerBar EXCEPT ![t] = None]
BY DEF AnswerBar

LEMMA ShelfDecays ==
  ASSUME SubCache(entries', entries), NEW k \in Keys
  PROVE  ShelfBar'[k] \in {ShelfBar[k], None}
BY DEF SubCache, ShelfBar

LEMMA ServiceRefines ==
  ASSUME WInv, Types', [ServiceNext]_serviceVars
  PROVE  RestartService \/ [Shared!Next]_(Shared!vars)
<1>t. TypeOK BY DEF WInv, Types
<1>p. SubCache(Pruned, entries) BY PrunedSub
<1>s. ShelfBar' \in [Keys -> Snapshot \cup {None}] BY DEF Types, TypeOK, ShelfBar, Entry
<1>a. AbstractPhase("idle") = "idle" /\ AbstractPhase("lookup") = "asking"
      /\ AbstractPhase("waiting") = "asking" /\ AbstractPhase("done") = "done"
      /\ \A p \in Loading : AbstractPhase(p) = "loading"
  BY DEF AbstractPhase, Loading
<1>b. \A t \in Threads : PhaseBar[t] = AbstractPhase(pc[t]) BY DEF PhaseBar
<1>d. ASSUME NEW S, \A k \in Keys \ S : ShelfBar'[k] \in {ShelfBar[k], None}
      PROVE  Shared!DecaysOutside(S)
  BY <1>d, <1>s DEF Shared!DecaysOutside, Shared!Shelves
<1>1. ASSUME NEW t \in Threads, NEW k \in Keys, Call(t, k) PROVE Shared!Ask(t, k)
  <2>1. pc[t] = "idle" /\ pc'[t] = "lookup"
        /\ \A s \in Threads \ {t} : pc'[s] = pc[s] /\ result'[s] = result[s]
    BY <1>t, <1>1 DEF Call, TypeOK
  <2>2. PhaseBar' = [PhaseBar EXCEPT ![t] = "asking"] /\ AnswerBar' = AnswerBar
    BY <1>a, <1>t, <2>1, OneMoves, NoAnswer
  <2> QED BY <1>a, <1>b, <1>1, <2>1, <2>2 DEF Call, Shared!Ask, ShelfBar
<1>2. ASSUME NEW t \in Threads, Hit(t) PROVE Shared!Share(t)
  <2>1. pc[t] = "lookup" /\ pc'[t] = "done" /\ result'[t].snap = Pruned[key[t]].snap
        /\ \A s \in Threads \ {t} : pc'[s] = pc[s] /\ result'[s] = result[s]
    BY <1>t, <1>2 DEF Hit, TypeOK
  <2>2. PhaseBar' = [PhaseBar EXCEPT ![t] = "done"]
        /\ AnswerBar' = [AnswerBar EXCEPT ![t] = Pruned[key[t]].snap]
    BY <1>a, <1>t, <2>1, OneMoves
  <2>3. key[t] \in DOMAIN Pruned /\ Pruned[key[t]].snap # None /\ entries' = Pruned /\ key' = key
    BY <1>2 DEF Hit, LiveIn
  <2>4. key[t] \in Keys /\ key[t] \in DOMAIN entries /\ Pruned[key[t]] = entries[key[t]]
    BY <1>p, <1>t, <2>3 DEF SubCache, TypeOK
  <2>5. ShelfBar[key[t]] = Pruned[key[t]].snap /\ ShelfBar'[key[t]] = Pruned[key[t]].snap
    BY <2>3, <2>4 DEF ShelfBar
  <2>6. Shared!DecaysOutside({key[t]}) BY <1>d, <1>p, <2>3, ShelfDecays
  <2> QED BY <1>a, <1>b, <2>1, <2>2, <2>3, <2>5, <2>6 DEF Shared!Share
<1>3. ASSUME NEW t \in Threads, Wait(t) PROVE Shared!Forget
  <2>1. pc[t] = "lookup" /\ pc'[t] = "waiting" /\ entries' = Pruned /\ key' = key
        /\ \A s \in Threads \ {t} : pc'[s] = pc[s] /\ result'[s] = result[s]
    BY <1>t, <1>3 DEF Wait, TypeOK
  <2>2. PhaseBar' = [PhaseBar EXCEPT ![t] = "asking"] /\ AnswerBar' = AnswerBar
    BY <1>a, <1>t, <2>1, OneMoves, NoAnswer
  <2>3. PhaseBar' = PhaseBar BY <1>a, <1>b, <2>1, <2>2 DEF PhaseBar
  <2>4. Shared!DecaysOutside({}) BY <1>d, <1>p, <2>1, ShelfDecays
  <2> QED BY <2>1, <2>2, <2>3, <2>4 DEF Shared!Forget
<1>4. ASSUME NEW t \in Threads, BeginLoad(t) PROVE Shared!Start(t)
  <2>1. pc[t] = "lookup" /\ pc'[t] = "loading" /\ key' = key
        /\ \A s \in Threads \ {t} : pc'[s] = pc[s] /\ result'[s] = result[s]
    BY <1>t, <1>4 DEF BeginLoad, TypeOK
  <2>2. PhaseBar' = [PhaseBar EXCEPT ![t] = "loading"] /\ AnswerBar' = AnswerBar
    <3>1. AbstractPhase("loading") = "loading" BY <1>a DEF Loading
    <3> QED BY <1>t, <2>1, <3>1, OneMoves, NoAnswer
  <2>3. \A s \in Threads : ~(PhaseBar[s] = "loading" /\ key[s] = key[t])
    <3> SUFFICES ASSUME NEW s \in Threads, PhaseBar[s] = "loading", key[s] = key[t] PROVE FALSE
      OBVIOUS
    <3>1. pc[s] \in Loading BY <1>t, <1>b DEF AbstractPhase, TypeOK, Phases
    <3>2. key[s] \in DOMAIN entries /\ entries[key[s]].owner = s
      BY <3>1 DEF WInv, Coordination, LoaderOwns, Owns
    <3>3. s # None BY WeatherAssumption DEF WeatherCacheAssumption
    <3> QED BY <1>p, <1>4, <3>2, <3>3 DEF SubCache, BeginLoad, LoadingIn
  <2>4. DOMAIN entries' = DOMAIN Pruned \cup {key[t]} /\ entries'[key[t]].snap = None
        /\ \A k \in DOMAIN Pruned \ {key[t]} : entries'[k] = Pruned[k]
    BY <1>4 DEF BeginLoad
  <2>5. ShelfBar'[key[t]] = None BY <1>t, <2>4 DEF ShelfBar, TypeOK
  <2>6. \A k \in Keys \ {key[t]} : ShelfBar'[k] \in {ShelfBar[k], None}
    BY <1>p, <2>4 DEF ShelfBar, SubCache
  <2>7. Shared!DecaysOutside({key[t]}) BY <1>d, <2>6
  <2> QED BY <1>a, <1>b, <2>1, <2>2, <2>3, <2>5, <2>7 DEF Shared!Start
<1>5. ASSUME NEW t \in Threads, EndLoad(t) PROVE UNCHANGED Shared!vars
  <2>1. UNCHANGED <<entries, key, result>> /\ pc[t] = "loading"
        /\ \E p \in {"publishing", "raising"} : pc' = [pc EXCEPT ![t] = p]
    BY <1>5 DEF EndLoad, LoadReturns, LoadRaises
  <2>2. pc[t] \in Loading /\ pc'[t] \in Loading /\ pc[t] # "done" /\ pc'[t] # "done"
        /\ \A s \in Threads \ {t} : pc'[s] = pc[s] /\ result'[s] = result[s]
    BY <1>t, <2>1 DEF TypeOK, Loading
  <2>3. PhaseBar' = [PhaseBar EXCEPT ![t] = "loading"] /\ AnswerBar' = AnswerBar
    BY <1>a, <1>t, <2>2, OneMoves, NoAnswer
  <2>4. PhaseBar' = PhaseBar BY <1>a, <1>b, <2>2, <2>3 DEF PhaseBar
  <2> QED BY <2>1, <2>3, <2>4 DEF Shared!vars, ShelfBar
<1>6. ASSUME NEW t \in Threads, Publish(t) PROVE Shared!Deliver(t)
  <2> DEFINE full == [entries EXCEPT ![key[t]] = Filled(loaded[t])]
  <2>1. pc[t] \in Loading /\ pc'[t] = "done" /\ result'[t].snap = loaded[t] /\ key' = key
        /\ \A s \in Threads \ {t} :
             /\ pc'[s] = pc[s] \/ (pc[s] = "waiting" /\ pc'[s] = "lookup")
             /\ result'[s] = result[s]
    BY <1>t, <1>6 DEF Publish, TypeOK, Awakened, Loading
  <2>2. PhaseBar' = [PhaseBar EXCEPT ![t] = "done"]
        /\ AnswerBar' = [AnswerBar EXCEPT ![t] = loaded[t]]
    BY <1>a, <1>t, <2>1, OneMoves
  <2>3. /\ SubCache(entries', full) /\ loaded[t] \in Snapshot
        /\ key[t] \in DOMAIN entries /\ key[t] \in DOMAIN entries'
    BY <1>6, PublishedFull
  <2>4. DOMAIN full = DOMAIN entries /\ full[key[t]].snap = loaded[t]
        /\ \A k \in DOMAIN entries \ {key[t]} : full[k] = entries[k]
    BY <1>t, <2>3 DEF TypeOK, Filled
  <2> HIDE DEF full
  <2>5. ShelfBar'[key[t]] = loaded[t] /\ loaded[t] # None
    BY <1>t, <2>3, <2>4, WeatherAssumption
    DEF ShelfBar, SubCache, TypeOK, WeatherCacheAssumption
  <2>6. \A k \in Keys \ {key[t]} : ShelfBar'[k] \in {ShelfBar[k], None}
    BY <2>3, <2>4 DEF ShelfBar, SubCache
  <2>7. Shared!DecaysOutside({key[t]}) BY <1>d, <2>6
  <2> QED BY <1>a, <1>b, <2>1, <2>2, <2>5, <2>7 DEF Shared!Deliver
<1>7. ASSUME NEW t \in Threads, Abandon(t) PROVE Shared!Fail(t)
  <2>1. pc[t] \in Loading /\ pc'[t] = "done" /\ result'[t].snap = None /\ key' = key
        /\ \A s \in Threads \ {t} :
             /\ pc'[s] = pc[s] \/ (pc[s] = "waiting" /\ pc'[s] = "lookup")
             /\ result'[s] = result[s]
    BY <1>t, <1>7 DEF Abandon, TypeOK, Awakened, Loading
  <2>2. PhaseBar' = [PhaseBar EXCEPT ![t] = "done"]
        /\ AnswerBar' = [AnswerBar EXCEPT ![t] = None]
    BY <1>a, <1>t, <2>1, OneMoves
  <2>3. Owns(t) BY <2>1 DEF WInv, Coordination, LoaderOwns
  <2>4. entries[key[t]].snap = None
    BY <2>3, WeatherAssumption
    DEF Owns, WInv, Coordination, LoadingBlank, WeatherCacheAssumption
  <2>5. DOMAIN entries' = DOMAIN entries \ {key[t]}
        /\ \A k \in DOMAIN entries \ {key[t]} : entries'[k] = entries[k]
    BY <1>7, <2>3 DEF Abandon, Restrict
  <2>6. ShelfBar' = ShelfBar BY <2>4, <2>5 DEF ShelfBar
  <2> QED BY <1>a, <1>b, <2>1, <2>2, <2>6 DEF Shared!Fail
<1>8. ASSUME NEW t \in Threads, Respond(t) PROVE Shared!Reply(t)
  <2>1. pc[t] = "done" /\ pc'[t] = "idle" /\ UNCHANGED <<entries, key>>
        /\ \A s \in Threads \ {t} : pc'[s] = pc[s] /\ result'[s] = result[s]
    BY <1>t, <1>8 DEF Respond, TypeOK
  <2>2. PhaseBar' = [PhaseBar EXCEPT ![t] = "idle"] /\ AnswerBar' = [AnswerBar EXCEPT ![t] = None]
    BY <1>a, <1>t, <2>1, OneMoves
  <2> QED BY <1>a, <1>b, <2>1, <2>2 DEF Shared!Reply, ShelfBar
<1>9. ASSUME UNCHANGED <<entries, pc, key, result>> PROVE UNCHANGED Shared!vars
  BY <1>9 DEF Shared!vars, PhaseBar, ShelfBar, AnswerBar
<1>10. ASSUME NEW t \in Threads, Serve(t) PROVE [Shared!Next]_(Shared!vars)
  <2>1. CASE StartLoad(t) BY <1>4, <2>1 DEF StartLoad, Shared!Next
  <2>2. CASE RunLoad(t) BY <1>9, <2>2 DEF RunLoad, vars
  <2>3. CASE EndLoad(t) BY <1>5, <2>3
  <2>4. CASE Answer(t) BY <1>8, <2>4 DEF Answer, Shared!Next
  <2>5. CASE Hit(t) BY <1>2, <2>5 DEF Shared!Next
  <2>6. CASE Wait(t) BY <1>3, <2>6 DEF Shared!Next
  <2>7. CASE Publish(t) BY <1>6, <2>7 DEF Shared!Next
  <2>8. CASE Abandon(t) BY <1>7, <2>8 DEF Shared!Next
  <2> QED BY <1>10, <2>1, <2>2, <2>3, <2>4, <2>5, <2>6, <2>7, <2>8 DEF Serve
<1>11. ASSUME NEW t \in Threads, NEW k \in Keys, Request(t, k) PROVE Shared!Next
  BY <1>1, <1>11 DEF Request, Shared!Next
<1>12. CASE SpoilFile BY <1>9, <1>12 DEF SpoilFile, Met!Spoil
<1>13. CASE Tick BY <1>9, <1>13 DEF Tick
<1>14. CASE UNCHANGED serviceVars BY <1>9, <1>14 DEF serviceVars, vars
<1> QED BY <1>10, <1>11, <1>12, <1>13, <1>14 DEF ServiceNext

\* The weather cache implements the abstract shared load: every step of the
\* service but a restart is a step of SharedLoad or leaves its variables alone.
THEOREM WeatherRefinesSharedLoad == ServiceSpec => ImplementsSharedLoad
<1>1. WInv /\ Types' /\ [ServiceNext]_serviceVars => [RestartService \/ SharesLoads]_serviceVars
  BY ServiceRefines DEF SharesLoads
<1>2. WInv => Types BY DEF WInv
<1> QED BY <1>1, <1>2, ServiceInductive, PTL DEF ServiceSpec, ImplementsSharedLoad

(***************************************************************************)
(* The admission of astronomy requests and the burst caches.               *)
(***************************************************************************)
LEMMA SameSize == ASSUME NEW S PROVE Astronomy!Cardinality(S) = Cardinality(S)
BY Zenon DEF Astronomy!Cardinality, Cardinality

LEMMA SameFinite == ASSUME NEW S PROVE Astronomy!IsFiniteSet(S) <=> IsFiniteSet(S)
BY Zenon DEF Astronomy!IsFiniteSet, IsFiniteSet

LEMMA BurstLimits ==
  /\ BurstTtl \in Nat /\ BurstTtl > 0 /\ BurstEntries \in Nat /\ BurstEntries > 0
  /\ None \notin Astronomers /\ None \notin BurstKeys /\ None \notin Nat
  /\ DOMAIN BurstOf = BurstKeys
BY AdmissionAssumption DEF Astronomy!AdmissionAssumption

\* A sequence without one of its elements.
LEMMA RemovedAt ==
  ASSUME NEW S, NEW s \in Seq(S), NEW p \in DOMAIN s
  PROVE  LET w == Astronomy!RemoveAt(s, p)
         IN  /\ w \in Seq(S) /\ Len(w) = Len(s) - 1 /\ DOMAIN w = 1 .. Len(s) - 1
             /\ \A n \in 1 .. Len(s) - 1 : w[n] = IF n < p THEN s[n] ELSE s[n + 1]
<1> DEFINE front == SubSeq(s, 1, p - 1)
           back == SubSeq(s, p + 1, Len(s))
<1>1. /\ Len(s) \in Nat /\ DOMAIN s = 1 .. Len(s) /\ p \in 1 .. Len(s)
      /\ \A n \in 1 .. Len(s) : s[n] \in S
  BY LenProperties, ElementOfSeq
<1>2. front \in Seq(S) /\ Len(front) = p - 1 /\ \A n \in 1 .. p - 1 : front[n] = s[n]
  <2>1. 1 \in Int /\ p - 1 \in Int /\ \A n \in 1 .. p - 1 : s[n] \in S BY <1>1
  <2>2. /\ front \in Seq(S) /\ Len(front) = IF 1 <= p - 1 THEN (p - 1) - 1 + 1 ELSE 0
        /\ \A n \in 1 .. (p - 1) - 1 + 1 : front[n] = s[1 + n - 1]
    BY <2>1, SubSeqProperties
  <2> QED BY <1>1, <2>2
<1>3. back \in Seq(S) /\ Len(back) = Len(s) - p
      /\ \A n \in 1 .. Len(s) - p : back[n] = s[p + n]
  <2>1. /\ p + 1 \in Int /\ Len(s) \in Int
        /\ \A n \in p + 1 .. Len(s) : s[n] \in S
    BY <1>1
  <2>2. /\ back \in Seq(S)
        /\ Len(back) = IF p + 1 <= Len(s) THEN Len(s) - (p + 1) + 1 ELSE 0
        /\ \A n \in 1 .. Len(s) - (p + 1) + 1 : back[n] = s[(p + 1) + n - 1]
    BY <2>1, SubSeqProperties
  <2> QED BY <1>1, <2>2
<1>4. Astronomy!RemoveAt(s, p) = front \o back BY DEF Astronomy!RemoveAt
<1> HIDE DEF front, back
<1> DEFINE w == front \o back
<1>5. /\ w \in Seq(S) /\ Len(w) = Len(s) - 1
      /\ \A n \in 1 .. Len(s) - 1 : w[n] = IF n <= p - 1 THEN front[n] ELSE back[n - (p - 1)]
  <2>1. /\ w \in Seq(S) /\ Len(w) = Len(front) + Len(back)
        /\ \A n \in 1 .. Len(front) + Len(back) :
             w[n] = IF n <= Len(front) THEN front[n] ELSE back[n - Len(front)]
    BY <1>2, <1>3, ConcatProperties
  <2>2. Len(front) + Len(back) = Len(s) - 1 /\ Len(front) = p - 1 BY <1>1, <1>2, <1>3
  <2> QED BY <2>1, <2>2
<1> HIDE DEF w
<1>6. DOMAIN w = 1 .. Len(s) - 1 BY <1>5, LenProperties
<1>7. \A n \in 1 .. Len(s) - 1 : w[n] = IF n < p THEN s[n] ELSE s[n + 1]
  <2> SUFFICES ASSUME NEW n \in 1 .. Len(s) - 1 PROVE w[n] = IF n < p THEN s[n] ELSE s[n + 1]
    OBVIOUS
  <2>1. CASE n <= p - 1
    <3>1. w[n] = s[n] BY <1>1, <1>2, <1>5, <2>1
    <3> QED BY <1>1, <2>1, <3>1
  <2>2. CASE ~(n <= p - 1)
    <3> DEFINE m == n - (p - 1)
    <3>1. m \in 1 .. Len(s) - p /\ p + m = n + 1 BY <1>1, <2>2
    <3>2. w[n] = back[m] BY <1>5, <2>2
    <3> HIDE DEF m
    <3>3. back[m] = s[p + m] BY <1>3, <3>1
    <3>4. ~(n < p) BY <1>1, <2>2
    <3> QED BY <3>1, <3>2, <3>3, <3>4
  <2> QED BY <2>1, <2>2
<1> QED BY <1>4, <1>5, <1>6, <1>7 DEF w

Listed(s, ch) ==
  /\ s \in Seq(Astronomy!Entries)
  /\ \A p \in DOMAIN s : BurstOf[s[p].key] = ch
  /\ \A p, q \in DOMAIN s : s[p].key = s[q].key => p = q

\* What is left without a key is left in its order.
LeftInOrder(w, ch, ke) ==
  /\ Listed(w, ch)
  /\ Len(w) <= Len(s5[ch])
  /\ Astronomy!Places(ch, ke) # {} => Len(w) = Len(s5[ch]) - 1
  /\ \A n \in DOMAIN w : w[n].key # ke
  /\ \A n \in DOMAIN w : \E p \in DOMAIN s5[ch] : w[n] = s5[ch][p]
  /\ \A p \in DOMAIN s5[ch] : s5[ch][p].key # ke =>
       \E n \in DOMAIN w :
         /\ w[n] = s5[ch][p]
         /\ \A m \in DOMAIN w : m > n => \E q \in DOMAIN s5[ch] : q > p /\ w[m] = s5[ch][q]

LEMMA WithoutKey ==
  ASSUME NEW ch, Listed(s5[ch], ch), NEW ke
  PROVE  LeftInOrder(Astronomy!Without(ch, ke), ch, ke)
<1> DEFINE s == s5[ch]
           w == Astronomy!Without(ch, ke)
<1>1. Len(s) \in Nat /\ DOMAIN s = 1 .. Len(s) /\ s \in Seq(Astronomy!Entries)
  BY LenProperties DEF Listed
<1>2. CASE Astronomy!Places(ch, ke) = {}
  <2>1. w = s BY <1>2 DEF Astronomy!Without
  <2>2. \A n \in DOMAIN s : s[n].key # ke BY <1>2 DEF Astronomy!Places
  <2> QED BY <1>1, <1>2, <2>1, <2>2 DEF LeftInOrder
<1>3. CASE Astronomy!Places(ch, ke) # {}
  <2>1. PICK p \in DOMAIN s : s[p].key = ke /\ w = Astronomy!RemoveAt(s, p)
    BY <1>3 DEF Astronomy!Without, Astronomy!Places
  <2>2. /\ w \in Seq(Astronomy!Entries) /\ Len(w) = Len(s) - 1 /\ DOMAIN w = 1 .. Len(s) - 1
        /\ \A n \in 1 .. Len(s) - 1 : w[n] = IF n < p THEN s[n] ELSE s[n + 1]
    BY <1>1, <2>1, RemovedAt
  <2>3. p \in 1 .. Len(s) BY <1>1
  <2> DEFINE from(n) == IF n < p THEN n ELSE n + 1
  <2>4. \A n \in DOMAIN w : from(n) \in DOMAIN s /\ from(n) # p /\ w[n] = s[from(n)]
    BY <1>1, <2>2, <2>3
  <2>5. \A m, n \in DOMAIN w : /\ from(m) = from(n) => m = n
                               /\ m > n => from(m) > from(n)
    BY <1>1, <2>2, <2>3
  <2>6. \A q \in DOMAIN s : q # p => \E n \in DOMAIN w : from(n) = q
    <3> SUFFICES ASSUME NEW q \in DOMAIN s, q # p PROVE \E n \in DOMAIN w : from(n) = q
      OBVIOUS
    <3>1. CASE q < p
      <4>1. q \in DOMAIN w /\ from(q) = q BY <1>1, <2>2, <2>3, <3>1
      <4> QED BY <4>1
    <3>2. CASE q > p
      <4>1. q - 1 \in DOMAIN w /\ from(q - 1) = q BY <1>1, <2>2, <2>3, <3>2
      <4> QED BY <4>1
    <3> QED BY <1>1, <2>3, <3>1, <3>2
  <2> HIDE DEF from, w, s
  <2>7. \A n \in DOMAIN w : w[n].key # ke /\ BurstOf[w[n].key] = ch
    BY <2>1, <2>4 DEF Listed, s
  <2>8. \A m, n \in DOMAIN w : w[m].key = w[n].key => m = n
    BY <2>4, <2>5 DEF Listed, s
  <2>9. Listed(w, ch) BY <2>2, <2>7, <2>8 DEF Listed
  <2>10. \A q \in DOMAIN s : s[q].key # ke =>
           \E n \in DOMAIN w : /\ w[n] = s[q]
                               /\ \A m \in DOMAIN w : m > n => \E z \in DOMAIN s : z > q /\ w[m] = s[z]
    <3> SUFFICES ASSUME NEW q \in DOMAIN s, s[q].key # ke
                 PROVE  \E n \in DOMAIN w :
                          /\ w[n] = s[q]
                          /\ \A m \in DOMAIN w : m > n => \E z \in DOMAIN s : z > q /\ w[m] = s[z]
      OBVIOUS
    <3>1. PICK n \in DOMAIN w : from(n) = q BY <2>1, <2>6
    <3>2. w[n] = s[q] BY <2>4, <3>1
    <3>3. \A m \in DOMAIN w : m > n => from(m) \in DOMAIN s /\ from(m) > q /\ w[m] = s[from(m)]
      BY <2>4, <2>5, <3>1
    <3> QED BY <3>2, <3>3
  <2>11. Len(w) <= Len(s) BY <1>1, <2>2
  <2>12. \A n \in DOMAIN w : \E q \in DOMAIN s : w[n] = s[q] BY <2>4
  <2> QED BY <2>2, <2>7, <2>9, <2>10, <2>11, <2>12 DEF w, s, LeftInOrder
<1> QED BY <1>2, <1>3

\* A key that is brought last, found in its cache or computed, leaves the others
\* in their order.
LastInOrder(v, ch, x) ==
  /\ Listed(v, ch) /\ Len(v) \in Nat /\ Len(v) > 0 /\ DOMAIN v = 1 .. Len(v)
  /\ v[Len(v)] = x
  /\ Astronomy!Places(ch, x.key) # {} => Len(v) = Len(s5[ch])
  /\ \A n \in DOMAIN v : v[n] = x \/ \E p \in DOMAIN s5[ch] : v[n] = s5[ch][p]
  /\ \A p \in DOMAIN s5[ch] : s5[ch][p].key # x.key =>
       \E n \in DOMAIN v :
         /\ n < Len(v) /\ v[n] = s5[ch][p]
         /\ \A m \in DOMAIN v : m > n =>
              v[m].key = x.key \/ \E q \in DOMAIN s5[ch] : q > p /\ v[m] = s5[ch][q]

LEMMA BroughtLast ==
  ASSUME NEW ch, Listed(s5[ch], ch), NEW x \in Astronomy!Entries, BurstOf[x.key] = ch
  PROVE  LastInOrder(Append(Astronomy!Without(ch, x.key), x), ch, x)
<1> DEFINE w == Astronomy!Without(ch, x.key)
           v == Append(w, x)
<1>1. LeftInOrder(w, ch, x.key)
  BY WithoutKey
<1> HIDE DEF w
<1>2. /\ w \in Seq(Astronomy!Entries) /\ Len(w) \in Nat /\ DOMAIN w = 1 .. Len(w)
      /\ Len(s5[ch]) \in Nat
  BY <1>1, LenProperties DEF Listed, LeftInOrder
<1>3. /\ v \in Seq(Astronomy!Entries) /\ Len(v) = Len(w) + 1 /\ DOMAIN v = 1 .. Len(w) + 1
      /\ v[Len(w) + 1] = x /\ \A n \in 1 .. Len(w) : v[n] = w[n]
  BY <1>2, AppendProperties, LenProperties
<1> HIDE DEF v
<1>4. \A n \in DOMAIN v : (n \in DOMAIN w /\ v[n] = w[n]) \/ (n = Len(w) + 1 /\ v[n] = x)
  BY <1>2, <1>3
<1>5. Listed(v, ch)
  <2>1. \A p \in DOMAIN v : BurstOf[v[p].key] = ch BY <1>1, <1>4 DEF Listed, LeftInOrder
  <2>2. \A p, q \in DOMAIN v : v[p].key = v[q].key => p = q BY <1>1, <1>4 DEF Listed, LeftInOrder
  <2> QED BY <1>3, <2>1, <2>2 DEF Listed
<1>6. \A n \in DOMAIN v : v[n] = x \/ \E p \in DOMAIN s5[ch] : v[n] = s5[ch][p]
  BY <1>1, <1>4 DEF LeftInOrder
<1>7. ASSUME NEW p \in DOMAIN s5[ch], s5[ch][p].key # x.key
      PROVE  \E n \in DOMAIN v :
               /\ n < Len(v) /\ v[n] = s5[ch][p]
               /\ \A m \in DOMAIN v : m > n =>
                    v[m].key = x.key \/ \E q \in DOMAIN s5[ch] : q > p /\ v[m] = s5[ch][q]
  <2>1. PICK n \in DOMAIN w :
          /\ w[n] = s5[ch][p]
          /\ \A m \in DOMAIN w : m > n => \E q \in DOMAIN s5[ch] : q > p /\ w[m] = s5[ch][q]
    BY <1>1, <1>7 DEF LeftInOrder
  <2>2. n \in DOMAIN v /\ n < Len(v) /\ v[n] = s5[ch][p]
    BY <1>2, <1>3, <2>1
  <2>3. \A m \in DOMAIN v : m > n =>
          v[m].key = x.key \/ \E q \in DOMAIN s5[ch] : q > p /\ v[m] = s5[ch][q]
    BY <1>4, <2>1
  <2> QED BY <2>2, <2>3
<1>8. /\ Len(v) \in Nat /\ Len(v) > 0 /\ DOMAIN v = 1 .. Len(v) /\ v[Len(v)] = x
      /\ Astronomy!Places(ch, x.key) # {} => Len(v) = Len(s5[ch])
  BY <1>1, <1>2, <1>3 DEF LeftInOrder
<1>9. LastInOrder(v, ch, x) BY <1>5, <1>6, <1>7, <1>8 DEF LastInOrder
<1> QED BY <1>9 DEF v, w

\* As many different keys as entries.
LEMMA ManyKeys ==
  ASSUME NEW v, NEW ch, Listed(v, ch), NEW n \in DOMAIN v, Len(v) - n >= BurstEntries,
         NEW U, IsFiniteSet(U), \A m \in DOMAIN v : m > n => v[m].key \in U
  PROVE  Cardinality(U) >= BurstEntries
<1>1. Len(v) \in Nat /\ DOMAIN v = 1 .. Len(v) /\ n \in Nat
  BY LenProperties DEF Listed
<1>2. IsFiniteSet(n + 1 .. Len(v)) /\ Cardinality(n + 1 .. Len(v)) = Len(v) - n
  <2>1. n + 1 \in Int /\ Len(v) \in Int BY <1>1
  <2>2. /\ IsFiniteSet(n + 1 .. Len(v))
        /\ Cardinality(n + 1 .. Len(v)) = IF n + 1 > Len(v) THEN 0 ELSE Len(v) - (n + 1) + 1
    BY <2>1, FS_Interval, Zenon
  <2> QED BY <1>1, <2>2, BurstLimits
<1>3. Cardinality(U) \in Nat
  BY FS_CardinalityType
<1> SUFFICES ASSUME Cardinality(U) < BurstEntries PROVE FALSE
  BY <1>3, BurstLimits
<1> DEFINE fn == [m \in n + 1 .. Len(v) |-> v[m].key]
<1>4. fn \in [n + 1 .. Len(v) -> U] BY <1>1
<1>5. Cardinality(U) < Cardinality(n + 1 .. Len(v)) BY <1>1, <1>2, <1>3, BurstLimits
<1> HIDE DEF fn
<1>6. PICK p, q \in n + 1 .. Len(v) : p # q /\ fn[p] = fn[q]
  BY <1>2, <1>4, <1>5, FS_PigeonHole
<1>7. v[p].key = v[q].key /\ p \in DOMAIN v /\ q \in DOMAIN v BY <1>1, <1>6 DEF fn
<1> QED BY <1>6, <1>7 DEF Listed

\* The cache after put: its last entries.
LEMMA PutLast ==
  ASSUME NEW ch, Listed(s5[ch], ch), NEW ke \in BurstKeys, BurstOf[ke] = ch, s1 \in Nat
  PROVE  LET v == Append(Astronomy!Without(ch, ke), [key |-> ke, at |-> s1])
             u == Astronomy!Put(ch, ke)
         IN  \E cut \in Nat :
               /\ Listed(u, ch) /\ Len(u) = Len(v) - cut /\ Len(u) <= BurstEntries /\ Len(u) > 0
               /\ DOMAIN u = 1 .. Len(v) - cut
               /\ \A n \in DOMAIN u : u[n] = v[n + cut]
               /\ cut > 0 => Len(u) = BurstEntries
<1> DEFINE x == [key |-> ke, at |-> s1]
           v == Append(Astronomy!Without(ch, ke), x)
           u == Astronomy!Put(ch, ke)
<1>1. x \in Astronomy!Entries /\ x.key = ke BY DEF Astronomy!Entries
<1>2. Listed(v, ch) /\ Len(v) \in Nat /\ Len(v) > 0 /\ DOMAIN v = 1 .. Len(v)
  BY <1>1, BroughtLast DEF LastInOrder
<1>3. u = SubSeq(v, Len(v) - Astronomy!Min({Len(v), BurstEntries}) + 1, Len(v))
  BY DEF Astronomy!Put
<1> HIDE DEF v, x
<1>4. PICK least \in Nat :
        /\ least = Astronomy!Min({Len(v), BurstEntries})
        /\ least > 0 /\ least <= Len(v) /\ least <= BurstEntries
        /\ (least = Len(v) \/ least = BurstEntries)
  <2> DEFINE least == Astronomy!Min({Len(v), BurstEntries})
  <2>1. \E y \in {Len(v), BurstEntries} : \A z \in {Len(v), BurstEntries} : y <= z
    BY <1>2, BurstLimits
  <2>2. least \in {Len(v), BurstEntries} /\ \A z \in {Len(v), BurstEntries} : least <= z
    BY <2>1 DEF Astronomy!Min
  <2> HIDE DEF least
  <2>3. least \in Nat /\ least > 0 /\ least <= Len(v) /\ least <= BurstEntries
    BY <1>2, <2>2, BurstLimits
  <2> QED BY <2>2, <2>3 DEF least
<1>5. PICK cut \in Nat : /\ cut = Len(v) - least /\ Len(v) - cut = least
                         /\ cut + 1 <= Len(v) /\ (cut > 0 => least = BurstEntries)
  BY <1>2, <1>4
<1>6. \A n \in cut + 1 .. Len(v) : v[n] \in Astronomy!Entries
  BY <1>2, <1>5, ElementOfSeq DEF Listed
<1>7. /\ u \in Seq(Astronomy!Entries)
      /\ Len(u) = IF cut + 1 <= Len(v) THEN Len(v) - (cut + 1) + 1 ELSE 0
      /\ \A n \in 1 .. Len(v) - (cut + 1) + 1 : u[n] = v[(cut + 1) + n - 1]
  <2>1. u = SubSeq(v, cut + 1, Len(v)) BY <1>3, <1>4, <1>5
  <2>2. cut + 1 \in Int /\ Len(v) \in Int BY <1>2, <1>5
  <2> QED BY <2>1, <2>2, <1>6, SubSeqProperties
<1> HIDE DEF u
<1>8. Len(u) = Len(v) - cut /\ Len(u) = least
  BY <1>2, <1>5, <1>7
<1>9. DOMAIN u = 1 .. Len(v) - cut
  BY <1>7, <1>8, LenProperties
<1>10. \A n \in DOMAIN u : n + cut \in DOMAIN v /\ u[n] = v[n + cut]
  <2> SUFFICES ASSUME NEW n \in DOMAIN u PROVE n + cut \in DOMAIN v /\ u[n] = v[n + cut]
    OBVIOUS
  <2>1. n \in 1 .. Len(v) - cut BY <1>9
  <2>2. n + cut \in 1 .. Len(v) /\ (cut + 1) + n - 1 = n + cut /\ n \in 1 .. Len(v) - (cut + 1) + 1
    BY <1>2, <1>5, <2>1
  <2>3. u[n] = v[(cut + 1) + n - 1] BY <1>7, <2>2
  <2> QED BY <1>2, <2>2, <2>3
<1>11. cut > 0 => Len(u) = BurstEntries
  BY <1>5, <1>8
<1>12. Listed(u, ch)
  <2>1. \A p \in DOMAIN u : BurstOf[u[p].key] = ch BY <1>2, <1>10 DEF Listed
  <2>2. \A p, q \in DOMAIN u : u[p].key = u[q].key => p = q
    <3> SUFFICES ASSUME NEW p \in DOMAIN u, NEW q \in DOMAIN u, u[p].key = u[q].key PROVE p = q
      OBVIOUS
    <3>1. p + cut = q + cut BY <1>2, <1>10 DEF Listed
    <3>2. p \in Int /\ q \in Int BY <1>9
    <3> QED BY <1>5, <3>1, <3>2
  <2> QED BY <1>7, <2>1, <2>2 DEF Listed
<1> QED BY <1>4, <1>5, <1>8, <1>9, <1>10, <1>11, <1>12 DEF u, v, x

LEMMA RequestPhases ==
  ASSUME Astronomy!TypeOK, NEW t \in Astronomers
  PROVE  /\ s4[t].phase = "admission" => s4[t] \in Astronomy!Waiting
         /\ s4[t].phase = "computing" => s4[t] \in Astronomy!Computing
         /\ s4[t].phase = "answering" => s4[t] \in Astronomy!Answering
         /\ (s4[t] = Astronomy!Idle <=> s4[t].phase = "idle")
<1>1. \/ s4[t] = Astronomy!Idle \/ s4[t] \in Astronomy!Waiting
      \/ s4[t] \in Astronomy!Computing \/ s4[t] \in Astronomy!Answering
  BY DEF Astronomy!TypeOK
<1>2. s4[t] = Astronomy!Idle => s4[t].phase = "idle" BY DEF Astronomy!Idle
<1>3. s4[t] \in Astronomy!Waiting => s4[t].phase = "admission" BY DEF Astronomy!Waiting
<1>4. s4[t] \in Astronomy!Computing => s4[t].phase = "computing" BY DEF Astronomy!Computing
<1>5. s4[t] \in Astronomy!Answering => s4[t].phase = "answering" BY DEF Astronomy!Answering
<1>6. s4[t].phase = "admission" => s4[t] \in Astronomy!Waiting BY <1>1, <1>2, <1>4, <1>5
<1>7. s4[t].phase = "computing" => s4[t] \in Astronomy!Computing BY <1>1, <1>2, <1>3, <1>5
<1>8. s4[t].phase = "answering" => s4[t] \in Astronomy!Answering BY <1>1, <1>2, <1>3, <1>4
<1>9. s4[t] = Astronomy!Idle <=> s4[t].phase = "idle" BY <1>1, <1>2, <1>3, <1>4, <1>5
<1>10. QED BY <1>6, <1>7, <1>8, <1>9

LEMMA AnswerType ==
  ASSUME Astronomy!TypeOK, NEW n \in DOMAIN s6
  PROVE  s6[n].key \in BurstKeys /\ (s6[n].stored \in Nat \/ s6[n].stored = None)
<1>1. s6[n] \in Astronomy!Answers
  BY LenProperties, ElementOfSeq DEF Astronomy!TypeOK
<1> QED BY <1>1 DEF Astronomy!Answers

LEMMA CachesListed ==
  ASSUME Astronomy!TypeOK, Astronomy!CachesKept, NEW ch \in Astronomy!Caches
  PROVE  Listed(s5[ch], ch)
BY DEF Astronomy!TypeOK, Astronomy!CachesKept, Listed

LEMMA CacheOfKey == \A ke \in BurstKeys : BurstOf[ke] \in Astronomy!Caches
BY DEF Astronomy!Caches

\* Only the request inside can be about to answer.
LEMMA UsedInside ==
  ASSUME Astronomy!TypeOK, Astronomy!OneInside
  PROVE  /\ Astronomy!UsedNow \subseteq {s4[s2].key}
         /\ s2 \in Astronomers /\ s4[s2].phase = "answering" /\ s4[s2].stored # None =>
              Astronomy!UsedNow = {s4[s2].key}
         /\ s2 \notin Astronomers \/ s4[s2].phase # "answering" \/ s4[s2].stored = None =>
              Astronomy!UsedNow = {}
<1>1. \A t \in Astronomers : s4[t].phase = "answering" => t = s2
  BY DEF Astronomy!OneInside
<1> QED BY <1>1 DEF Astronomy!UsedNow

LEMMA UsedFinite ==
  ASSUME Astronomy!TypeOK, Astronomy!OneInside, NEW n \in DOMAIN s6
  PROVE  IsFiniteSet(Astronomy!UsedSince(n))
<1>1. Len(s6) \in Nat /\ DOMAIN s6 = 1 .. Len(s6) /\ n \in Nat
  BY LenProperties DEF Astronomy!TypeOK
<1> DEFINE D == {m \in n + 1 .. Len(s6) :
                   /\ s6[m].stored # None
                   /\ s6[m].key # s6[n].key
                   /\ BurstOf[s6[m].key] = BurstOf[s6[n].key]}
           U == Astronomy!UsedAfter(n)
           fn == [m \in D |-> s6[m].key]
<1>2. IsFiniteSet(D)
  <2>1. n + 1 \in Int /\ Len(s6) \in Int BY <1>1
  <2>2. IsFiniteSet(n + 1 .. Len(s6)) BY <2>1, FS_Interval, Zenon
  <2>3. D \in SUBSET (n + 1 .. Len(s6)) OBVIOUS
  <2> QED BY <2>2, <2>3, FS_Subset
<1>3. U = {s6[m].key : m \in D} BY DEF Astronomy!UsedAfter
<1> HIDE DEF D, U
<1>4. fn \in [D -> U] /\ \A y \in U : \E m \in D : fn[m] = y BY <1>3
<1> HIDE DEF fn
<1>5. fn \in Surjection(D, U) BY <1>4, Fun_IsSurj
<1>6. IsFiniteSet(U) BY <1>2, <1>5, FS_Surjection
<1>7. IsFiniteSet(U \cup {s4[s2].key}) BY <1>6, FS_AddElement
<1>8. Astronomy!UsedSince(n) \in SUBSET (U \cup {s4[s2].key})
  BY UsedInside DEF Astronomy!UsedSince, U
<1> QED BY <1>7, <1>8, FS_Subset

LEMMA AllUsedFinite ==
  Astronomy!TypeOK /\ Astronomy!OneInside =>
    \A n \in DOMAIN s6 : IsFiniteSet(Astronomy!UsedSince(n))
BY UsedFinite

LEMMA UsedFiniteNext ==
  Astronomy!TypeOK' /\ Astronomy!OneInside' =>
    (\A n \in DOMAIN s6 : IsFiniteSet(Astronomy!UsedSince(n)))'
BY AllUsedFinite, PTL

\* A result that was not lost before is not lost when it is still stored, has
\* become too old, or has given way to as many others.
LEMMA LostFrame ==
  ASSUME Astronomy!AdmissionInv, Astronomy!TypeOK', Astronomy!OneInside', s6' = s6, s1' >= s1,
         \A n \in DOMAIN s6 : Astronomy!UsedSince(n) \subseteq Astronomy!UsedSince(n)',
         \A n \in DOMAIN s6 : s6[n].stored # None /\ Astronomy!StillStored(n) =>
           \/ Astronomy!StillStored(n)'
           \/ s1' >= s6[n].stored + BurstTtl
           \/ Cardinality(Astronomy!UsedSince(n)') >= BurstEntries
  PROVE  Astronomy!LostInOrder'
<1> SUFFICES ASSUME NEW n \in DOMAIN s6, s6[n].stored # None
             PROVE  \/ Astronomy!StillStored(n)'
                    \/ s1' >= s6[n].stored + BurstTtl
                    \/ Astronomy!Cardinality(Astronomy!UsedSince(n)') >= BurstEntries
  BY DEF Astronomy!LostInOrder
<1>1. \/ Astronomy!StillStored(n) \/ s1 >= s6[n].stored + BurstTtl
      \/ Cardinality(Astronomy!UsedSince(n)) >= BurstEntries
  BY SameSize DEF Astronomy!AdmissionInv, Astronomy!LostInOrder
<1>2. CASE Astronomy!StillStored(n) BY <1>2, SameSize
<1>3. CASE s1 >= s6[n].stored + BurstTtl
  <2>1. s6[n].stored \in Nat /\ s1 \in Nat /\ s1' \in Nat
    BY AnswerType DEF Astronomy!AdmissionInv, Astronomy!TypeOK
  <2> QED BY <1>3, <2>1, BurstLimits
<1>4. CASE Cardinality(Astronomy!UsedSince(n)) >= BurstEntries
  <2> DEFINE X == Astronomy!UsedSince(n)
             Y == Astronomy!UsedSince(n)'
  <2>1. IsFiniteSet(Y)
    <3>1. n \in DOMAIN s6' OBVIOUS
    <3> QED BY <3>1, UsedFiniteNext
  <2>2. X \in SUBSET Y OBVIOUS
  <2> HIDE DEF X, Y
  <2>3. IsFiniteSet(X) /\ Cardinality(X) <= Cardinality(Y) BY <2>1, <2>2, FS_Subset
  <2>4. Cardinality(X) \in Nat /\ Cardinality(Y) \in Nat BY <2>1, <2>3, FS_CardinalityType
  <2> QED BY <1>4, <2>3, <2>4, BurstLimits, SameSize DEF X, Y
<1> QED BY <1>1, <1>2, <1>3, <1>4

LEMMA UsedInsideNow ==
  Astronomy!TypeOK /\ Astronomy!OneInside =>
    /\ Astronomy!UsedNow \subseteq {s4[s2].key}
    /\ s2 \in Astronomers /\ s4[s2].phase = "answering" /\ s4[s2].stored # None =>
         Astronomy!UsedNow = {s4[s2].key}
    /\ s2 \notin Astronomers \/ s4[s2].phase # "answering" \/ s4[s2].stored = None =>
         Astronomy!UsedNow = {}
BY UsedInside

LEMMA UsedInsideNext ==
  Astronomy!TypeOK' /\ Astronomy!OneInside' =>
    (/\ Astronomy!UsedNow \subseteq {s4[s2].key}
     /\ s2 \in Astronomers /\ s4[s2].phase = "answering" /\ s4[s2].stored # None =>
          Astronomy!UsedNow = {s4[s2].key}
     /\ s2 \notin Astronomers \/ s4[s2].phase # "answering" \/ s4[s2].stored = None =>
          Astronomy!UsedNow = {})'
BY UsedInsideNow, PTL

\* The result of entry n of the history is stored in s, with keys of U behind it.
StoredIn(s, n, U) ==
  \E p \in DOMAIN s :
    /\ s[p].key = s6[n].key /\ s[p].at >= s6[n].stored
    /\ \A q \in DOMAIN s : q > p => s[q].key \in U

LEMMA StoredLast ==
  ASSUME NEW ch, NEW v, NEW x, LastInOrder(v, ch, x), NEW n, NEW U, NEW W, U \subseteq W,
         StoredIn(s5[ch], n, U),
         s6[n].key = x.key => x.at >= s6[n].stored,
         s6[n].key # x.key => x.key \in W
  PROVE  StoredIn(v, n, W)
<1>1. PICK p \in DOMAIN s5[ch] :
        /\ s5[ch][p].key = s6[n].key /\ s5[ch][p].at >= s6[n].stored
        /\ \A q \in DOMAIN s5[ch] : q > p => s5[ch][q].key \in U
  BY DEF StoredIn
<1>2. CASE s6[n].key = x.key
  <2>1. /\ Len(v) \in DOMAIN v /\ v[Len(v)] = x
        /\ \A q \in DOMAIN v : ~(q > Len(v))
    BY DEF LastInOrder
  <2> QED BY <1>2, <2>1 DEF StoredIn
<1>3. CASE s6[n].key # x.key
  <2>1. PICK m \in DOMAIN v :
          /\ v[m] = s5[ch][p]
          /\ \A q \in DOMAIN v : q > m =>
               v[q].key = x.key \/ \E z \in DOMAIN s5[ch] : z > p /\ v[q] = s5[ch][z]
    BY <1>1, <1>3 DEF LastInOrder
  <2>2. \A q \in DOMAIN v : q > m => v[q].key \in W BY <1>1, <1>3, <2>1
  <2> QED BY <1>1, <2>1, <2>2 DEF StoredIn
<1> QED BY <1>2, <1>3

LEMMA StoredWithout ==
  ASSUME NEW ch, NEW ke, NEW w, LeftInOrder(w, ch, ke), NEW n, NEW U,
         StoredIn(s5[ch], n, U), s6[n].key # ke
  PROVE  StoredIn(w, n, U)
<1>1. PICK p \in DOMAIN s5[ch] :
        /\ s5[ch][p].key = s6[n].key /\ s5[ch][p].at >= s6[n].stored
        /\ \A q \in DOMAIN s5[ch] : q > p => s5[ch][q].key \in U
  BY DEF StoredIn
<1>2. PICK m \in DOMAIN w :
        /\ w[m] = s5[ch][p]
        /\ \A q \in DOMAIN w : q > m => \E z \in DOMAIN s5[ch] : z > p /\ w[q] = s5[ch][z]
  BY <1>1 DEF LeftInOrder
<1>3. \A q \in DOMAIN w : q > m => w[q].key \in U BY <1>1, <1>2
<1> QED BY <1>1, <1>2, <1>3 DEF StoredIn

\* A result cut off has as many different keys behind it as the cache takes.
LEMMA StoredCut ==
  ASSUME NEW ch, NEW v, Listed(v, ch), NEW cut \in Nat, NEW u,
         Len(u) = Len(v) - cut, DOMAIN u = 1 .. Len(v) - cut,
         \A m \in DOMAIN u : u[m] = v[m + cut], cut > 0 => Len(u) = BurstEntries,
         NEW n, NEW W, IsFiniteSet(W), StoredIn(v, n, W)
  PROVE  StoredIn(u, n, W) \/ Cardinality(W) >= BurstEntries
<1>1. PICK p \in DOMAIN v :
        /\ v[p].key = s6[n].key /\ v[p].at >= s6[n].stored
        /\ \A q \in DOMAIN v : q > p => v[q].key \in W
  BY DEF StoredIn
<1>2. Len(v) \in Nat /\ DOMAIN v = 1 .. Len(v) /\ p \in 1 .. Len(v)
  BY <1>1, LenProperties DEF Listed
<1>3. CASE p <= cut
  <2>1. Len(v) - p >= BurstEntries
    <3>1. cut > 0 /\ Len(v) - cut = BurstEntries BY <1>2, <1>3
    <3> QED BY <1>2, <1>3, <3>1, BurstLimits
  <2> QED BY <1>1, <2>1, ManyKeys
<1>4. CASE p > cut
  <2>1. p - cut \in DOMAIN u /\ (p - cut) + cut = p BY <1>2, <1>4
  <2>2. u[p - cut] = v[p] BY <2>1
  <2>3. ASSUME NEW q \in DOMAIN u, q > p - cut PROVE u[q].key \in W
    <3>1. q + cut \in DOMAIN v /\ q + cut > p BY <1>2, <2>3
    <3> QED BY <1>1, <2>3, <3>1
  <2> QED BY <1>1, <2>1, <2>2, <2>3 DEF StoredIn
<1> QED BY <1>2, <1>3, <1>4

LEMMA AdmissionParts ==
  ASSUME Astronomy!AdmissionInv
  PROVE  /\ Astronomy!TypeOK /\ Astronomy!OneInside /\ Astronomy!InLine /\ Astronomy!CachesKept
         /\ Astronomy!Dated /\ Astronomy!LastUsed /\ Astronomy!LostInOrder
         /\ Astronomy!NoRepeatedWork
BY DEF Astronomy!AdmissionInv

\* The request inside goes on: the line stays as it is.
LEMMA GoesOn ==
  ASSUME Astronomy!AdmissionInv, s2 \in Astronomers, s4[s2].phase # "idle", UNCHANGED <<s2, s3>>,
         NEW x \in Astronomy!Computing \cup Astronomy!Answering, s4' = [s4 EXCEPT ![s2] = x]
  PROVE  /\ Astronomy!OneInside' /\ Astronomy!InLine' /\ Astronomy!IsFiniteSet(Astronomy!Pending')
         /\ s4' \in [Astronomers -> {Astronomy!Idle} \cup Astronomy!Waiting
                                     \cup Astronomy!Computing \cup Astronomy!Answering]
<1>1. s4 \in [Astronomers -> {Astronomy!Idle} \cup Astronomy!Waiting
                                     \cup Astronomy!Computing \cup Astronomy!Answering]
  BY DEF Astronomy!AdmissionInv, Astronomy!TypeOK
<1>2. x # Astronomy!Idle
  BY DEF Astronomy!Idle, Astronomy!Computing, Astronomy!Answering
<1>3. s4[s2] # Astronomy!Idle BY AdmissionParts, RequestPhases
<1>4. \A t \in Astronomers : s4'[t] = IF t = s2 THEN x ELSE s4[t] BY <1>1
<1>5. Astronomy!Pending' = Astronomy!Pending
  BY <1>2, <1>3, <1>4 DEF Astronomy!Pending
<1>6. Astronomy!OneInside'
  BY <1>4, <1>5 DEF Astronomy!AdmissionInv, Astronomy!OneInside, Astronomy!ToSet
<1>7. Astronomy!InLine'
  BY DEF Astronomy!AdmissionInv, Astronomy!InLine, Astronomy!ToSet
<1>8. Astronomy!IsFiniteSet(Astronomy!Pending')
  BY <1>5 DEF Astronomy!AdmissionInv, Astronomy!TypeOK
<1>9. s4' \in [Astronomers -> {Astronomy!Idle} \cup Astronomy!Waiting
                                     \cup Astronomy!Computing \cup Astronomy!Answering]
  BY <1>1
<1> QED BY <1>6, <1>7, <1>8, <1>9

LEMMA AdmissionInit == Astronomy!Init => Astronomy!AdmissionInv
<1> SUFFICES ASSUME Astronomy!Init PROVE Astronomy!AdmissionInv
  OBVIOUS
<1> USE DEF Astronomy!Init
<1>1. /\ s1 = 0 /\ s2 = None /\ s3 = <<>> /\ s6 = <<>> /\ s4 = [t \in Astronomers |-> Astronomy!Idle]
      /\ s5 = [ch \in Astronomy!Caches |-> <<>>]
  OBVIOUS
<1>2. Astronomy!Pending = {} BY DEF Astronomy!Pending
<1>3. \A t \in Astronomers : s4[t].phase = "idle" BY DEF Astronomy!Idle
<1>4. IsFiniteSet({}) /\ Cardinality({}) = 0 BY FS_EmptySet
<1>5. Astronomy!TypeOK
  BY <1>1, <1>2, <1>4, SameFinite, EmptySeq DEF Astronomy!TypeOK
<1>6. Len(s3) = 0 /\ DOMAIN s3 = {} /\ Len(s6) = 0 /\ DOMAIN s6 = {} BY <1>1
<1>7. Astronomy!OneInside
  BY <1>1, <1>2, <1>3, <1>4, <1>6, SameSize DEF Astronomy!OneInside, Astronomy!ToSet
<1>8. Astronomy!InLine
  BY <1>1, <1>6 DEF Astronomy!InLine, Astronomy!ToSet
<1>9. \A ch \in Astronomy!Caches : Len(s5[ch]) = 0 /\ DOMAIN s5[ch] = {} BY <1>1
<1>10. Astronomy!CachesKept
  BY <1>9, BurstLimits DEF Astronomy!CachesKept
<1>11. Astronomy!Dated /\ Astronomy!LastUsed /\ Astronomy!LostInOrder /\ Astronomy!NoRepeatedWork
  BY <1>3, <1>6, <1>9 DEF Astronomy!Dated, Astronomy!LastUsed, Astronomy!LostInOrder,
                          Astronomy!NoRepeatedWork
<1> QED BY <1>5, <1>7, <1>8, <1>10, <1>11 DEF Astronomy!AdmissionInv

LEMMA AdmissionTick ==
  ASSUME Astronomy!AdmissionInv, Astronomy!Tick
  PROVE  Astronomy!AdmissionInv'
<1>1. UNCHANGED <<s2, s3, s4, s5, s6>> /\ s1' = s1 + 1 /\ s1 \in Nat
  BY DEF Astronomy!Tick, Astronomy!AdmissionInv, Astronomy!TypeOK
<1>2. Astronomy!Pending' = Astronomy!Pending BY <1>1 DEF Astronomy!Pending
<1>3. Astronomy!TypeOK'
  BY <1>1, <1>2 DEF Astronomy!AdmissionInv, Astronomy!TypeOK
<1>4. Astronomy!OneInside' /\ Astronomy!InLine' /\ Astronomy!CachesKept'
  BY <1>1, <1>2 DEF Astronomy!AdmissionInv, Astronomy!OneInside, Astronomy!InLine,
                    Astronomy!CachesKept, Astronomy!ToSet
<1>5. Astronomy!Dated'
  <2>1. \A ch \in Astronomy!Caches : \A n \in DOMAIN s5[ch] : s5[ch][n].at \in Nat
    <3> SUFFICES ASSUME NEW ch \in Astronomy!Caches, NEW n \in DOMAIN s5[ch]
                 PROVE  s5[ch][n].at \in Nat
      OBVIOUS
    <3>1. s5[ch] \in Seq(Astronomy!Entries) BY DEF Astronomy!AdmissionInv, Astronomy!TypeOK
    <3>2. s5[ch][n] \in Astronomy!Entries BY <3>1, LenProperties, ElementOfSeq
    <3> QED BY <3>2 DEF Astronomy!Entries
  <2>2. \A t \in Astronomers : s4[t].phase = "answering" => s4[t].stored \in Nat \cup {None}
    BY RequestPhases, AdmissionParts DEF Astronomy!Answering
  <2>3. \A n \in DOMAIN s6 : s6[n].stored \in Nat \cup {None} BY AnswerType, AdmissionParts
  <2> QED BY <1>1, <2>1, <2>2, <2>3 DEF Astronomy!AdmissionInv, Astronomy!Dated
<1>6. Astronomy!LastUsed'
  BY <1>1 DEF Astronomy!AdmissionInv, Astronomy!LastUsed
<1>7. \A n \in DOMAIN s6 : /\ Astronomy!UsedSince(n)' = Astronomy!UsedSince(n)
                           /\ Astronomy!StillStored(n) => Astronomy!StillStored(n)'
  BY <1>1 DEF Astronomy!UsedSince, Astronomy!UsedAfter, Astronomy!UsedNow, Astronomy!StillStored
<1>8. Astronomy!LostInOrder'
  <2>1. s1' >= s1 BY <1>1
  <2> QED BY <1>1, <1>3, <1>4, <1>7, <2>1, LostFrame
<1>9. Astronomy!NoRepeatedWork'
  BY <1>1 DEF Astronomy!AdmissionInv, Astronomy!NoRepeatedWork, Astronomy!UsedAfter
<1> QED BY <1>3, <1>4, <1>5, <1>6, <1>8, <1>9 DEF Astronomy!AdmissionInv

LEMMA EntryType ==
  ASSUME Astronomy!TypeOK, NEW ch \in Astronomy!Caches, NEW n \in DOMAIN s5[ch]
  PROVE  /\ s5[ch][n] \in Astronomy!Entries /\ s5[ch][n].key \in BurstKeys /\ s5[ch][n].at \in Nat
<1>1. s5[ch] \in Seq(Astronomy!Entries) BY DEF Astronomy!TypeOK
<1>2. s5[ch][n] \in Astronomy!Entries BY <1>1, LenProperties, ElementOfSeq
<1> QED BY <1>2 DEF Astronomy!Entries

\* What counts as used when the request inside comes to its answer x.
LEMMA UsedOnAnswer ==
  ASSUME Astronomy!AdmissionInv, s2 \in Astronomers, s4[s2].phase \in {"admission", "computing"},
         UNCHANGED <<s2, s3, s6>>, NEW x \in Astronomy!Answering, s4' = [s4 EXCEPT ![s2] = x],
         NEW n \in DOMAIN s6
  PROVE  /\ Astronomy!UsedSince(n) = Astronomy!UsedAfter(n)
         /\ Astronomy!UsedAfter(n) \subseteq Astronomy!UsedSince(n)'
         /\ x.stored # None /\ x.key # s6[n].key /\ BurstOf[x.key] = BurstOf[s6[n].key] =>
              x.key \in Astronomy!UsedSince(n)'
<1>1. Astronomy!UsedNow = {} BY AdmissionParts, UsedInside
<1>2. Astronomy!UsedAfter(n)' = Astronomy!UsedAfter(n) BY DEF Astronomy!UsedAfter
<1>3. s4'[s2] = x BY DEF Astronomy!AdmissionInv, Astronomy!TypeOK
<1>4. x.stored # None => x.key \in Astronomy!UsedNow'
  BY <1>3 DEF Astronomy!UsedNow, Astronomy!Answering
<1>5. Astronomy!UsedSince(n) = Astronomy!UsedAfter(n) BY <1>1 DEF Astronomy!UsedSince
<1>6. Astronomy!UsedAfter(n) \subseteq Astronomy!UsedSince(n)' BY <1>2 DEF Astronomy!UsedSince
<1>7. x.stored # None /\ x.key # s6[n].key /\ BurstOf[x.key] = BurstOf[s6[n].key] =>
        x.key \in Astronomy!UsedSince(n)'
  BY <1>4 DEF Astronomy!UsedSince
<1> QED BY <1>5, <1>6, <1>7

\* The request inside comes to its answer: what is left to show is about the cache.
LEMMA AnswersNow ==
  ASSUME Astronomy!AdmissionInv, s2 \in Astronomers, s4[s2].phase \in {"admission", "computing"},
         UNCHANGED <<s1, s2, s3, s6>>, NEW x \in Astronomy!Answering, s4' = [s4 EXCEPT ![s2] = x],
         s5' \in [Astronomy!Caches -> Seq(Astronomy!Entries)], Astronomy!CachesKept',
         \A ch \in Astronomy!Caches : \A n \in DOMAIN s5'[ch] : s5'[ch][n].at <= s1,
         x.stored # None =>
           /\ x.stored <= s1
           /\ s5'[BurstOf[x.key]] # <<>>
           /\ s5'[BurstOf[x.key]][Len(s5'[BurstOf[x.key]])] = [key |-> x.key, at |-> x.stored],
         \A n \in DOMAIN s6 : s6[n].stored # None /\ Astronomy!StillStored(n) =>
           \/ Astronomy!StillStored(n)'
           \/ Cardinality(Astronomy!UsedSince(n)') >= BurstEntries
  PROVE  Astronomy!AdmissionInv'
<1> USE AdmissionParts
<1>1. s4[s2].phase # "idle" OBVIOUS
<1>2. /\ Astronomy!OneInside' /\ Astronomy!InLine' /\ Astronomy!IsFiniteSet(Astronomy!Pending')
      /\ s4' \in [Astronomers -> {Astronomy!Idle} \cup Astronomy!Waiting
                                  \cup Astronomy!Computing \cup Astronomy!Answering]
  BY <1>1, GoesOn
<1>3. Astronomy!TypeOK' BY <1>2 DEF Astronomy!TypeOK
<1>4. /\ s4'[s2] = x /\ x.phase = "answering"
      /\ \A t \in Astronomers : t # s2 => s4'[t] = s4[t]
  BY DEF Astronomy!TypeOK, Astronomy!Answering
<1>5. \A t \in Astronomers : s4'[t].phase \in {"computing", "answering"} => t = s2
  BY <1>2 DEF Astronomy!OneInside
<1>6. Astronomy!Dated' BY <1>4, <1>5 DEF Astronomy!Dated
<1>7. Astronomy!LastUsed' BY <1>4, <1>5 DEF Astronomy!LastUsed
<1>8. Astronomy!NoRepeatedWork' BY <1>4, <1>5 DEF Astronomy!NoRepeatedWork
<1>9. Astronomy!LostInOrder'
  <2>1. s1' >= s1 BY DEF Astronomy!TypeOK
  <2>2. \A n \in DOMAIN s6 : Astronomy!UsedSince(n) \subseteq Astronomy!UsedSince(n)'
    BY UsedOnAnswer
  <2> QED BY <1>2, <1>3, <2>1, <2>2, LostFrame
<1> QED BY <1>2, <1>3, <1>6, <1>7, <1>8, <1>9 DEF Astronomy!AdmissionInv

LEMMA AdmissionFailed ==
  ASSUME Astronomy!AdmissionInv, NEW t \in Astronomers, Astronomy!Failed(t)
  PROVE  Astronomy!AdmissionInv'
<1> USE AdmissionParts
<1> DEFINE x == [phase |-> "answering", key |-> s4[t].key, stored |-> None]
<1>1. /\ s4[t].phase = "computing" /\ s4' = [s4 EXCEPT ![t] = x] /\ UNCHANGED <<s1, s2, s3, s5, s6>>
  BY DEF Astronomy!Failed
<1>2. s2 = t BY <1>1 DEF Astronomy!OneInside
<1>3. s4[t] \in Astronomy!Computing BY <1>1, RequestPhases
<1>4. x \in Astronomy!Answering /\ x.stored = None
  BY <1>3 DEF Astronomy!Computing, Astronomy!Answering
<1> HIDE DEF x
<1>5. s5' \in [Astronomy!Caches -> Seq(Astronomy!Entries)]
  BY <1>1 DEF Astronomy!TypeOK
<1>6. Astronomy!CachesKept' BY <1>1 DEF Astronomy!CachesKept
<1>7. \A ch \in Astronomy!Caches : \A n \in DOMAIN s5'[ch] : s5'[ch][n].at <= s1
  BY <1>1 DEF Astronomy!Dated
<1>8. \A n \in DOMAIN s6 : Astronomy!StillStored(n) => Astronomy!StillStored(n)'
  <2>1. \A n \in DOMAIN s6 : Astronomy!UsedSince(n) \subseteq Astronomy!UsedSince(n)'
    BY <1>1, <1>2, <1>4, UsedOnAnswer
  <2> QED BY <1>1, <2>1 DEF Astronomy!StillStored
<1> QED BY <1>1, <1>2, <1>4, <1>5, <1>6, <1>7, <1>8, AnswersNow

LEMMA AdmissionHit ==
  ASSUME Astronomy!AdmissionInv, NEW t \in Astronomers, Astronomy!Hit(t)
  PROVE  Astronomy!AdmissionInv'
<1> USE AdmissionParts
<1> DEFINE ke == s4[t].key
           ch == BurstOf[ke]
<1>1. s2 = t /\ s4[t].phase = "admission" /\ UNCHANGED <<s1, s2, s3, s6>>
  BY DEF Astronomy!Hit
<1>2. ke \in BurstKeys /\ ch \in Astronomy!Caches
  BY <1>1, RequestPhases, CacheOfKey DEF Astronomy!Waiting
<1>3. PICK old \in Astronomy!Stored(ch, ke) :
        /\ s5' = [s5 EXCEPT ![ch] = Astronomy!Moved(ch, old)]
        /\ s4' = [s4 EXCEPT ![t] = [phase |-> "answering", key |-> ke, stored |-> old.at]]
  BY DEF Astronomy!Hit
<1>4. PICK z \in DOMAIN s5[ch] : old = s5[ch][z] /\ old.key = ke
  BY <1>3 DEF Astronomy!Stored, Astronomy!ToSet
<1> DEFINE v == Append(Astronomy!Without(ch, ke), old)
           x == [phase |-> "answering", key |-> ke, stored |-> old.at]
<1>5. s5' = [s5 EXCEPT ![ch] = v] /\ s4' = [s4 EXCEPT ![s2] = x]
  BY <1>1, <1>3, <1>4 DEF Astronomy!Moved
<1>6. old \in Astronomy!Entries /\ old.at \in Nat /\ old.at <= s1
  BY <1>2, <1>4, EntryType DEF Astronomy!Dated
<1>7. Listed(s5[ch], ch) BY <1>2, CachesListed
<1>8. LastInOrder(v, ch, old)
  BY <1>4, <1>6, <1>7, BroughtLast
<1>9. x \in Astronomy!Answering /\ x.key = ke /\ x.stored = old.at /\ x.stored # None
  BY <1>2, <1>6, BurstLimits DEF Astronomy!Answering
<1>10. Len(v) = Len(s5[ch])
  BY <1>4, <1>8 DEF LastInOrder, Astronomy!Places
<1> HIDE DEF v, x, ke, ch
<1>11. /\ s5' \in [Astronomy!Caches -> Seq(Astronomy!Entries)]
       /\ s5'[ch] = v /\ \A g1 \in Astronomy!Caches : g1 # ch => s5'[g1] = s5[g1]
  BY <1>2, <1>5, <1>8 DEF LastInOrder, Listed, Astronomy!TypeOK
<1>12. Astronomy!CachesKept'
  <2> SUFFICES ASSUME NEW g1 \in Astronomy!Caches
               PROVE  /\ Len(s5'[g1]) <= BurstEntries
                      /\ \A n \in DOMAIN s5'[g1] : BurstOf[s5'[g1][n].key] = g1
                      /\ \A m, n \in DOMAIN s5'[g1] : s5'[g1][m].key = s5'[g1][n].key => m = n
    BY DEF Astronomy!CachesKept
  <2>1. CASE g1 = ch
    <3>1. Len(v) <= BurstEntries BY <1>2, <1>10 DEF Astronomy!CachesKept
    <3> QED BY <1>8, <1>11, <2>1, <3>1 DEF LastInOrder, Listed
  <2>2. CASE g1 # ch BY <1>11, <2>2 DEF Astronomy!CachesKept
  <2> QED BY <2>1, <2>2
<1>13. \A g1 \in Astronomy!Caches : \A n \in DOMAIN s5'[g1] : s5'[g1][n].at <= s1
  <2> SUFFICES ASSUME NEW g1 \in Astronomy!Caches, NEW n \in DOMAIN s5'[g1] PROVE s5'[g1][n].at <= s1
    OBVIOUS
  <2>1. CASE g1 = ch
    <3>1. v[n] = old \/ \E p \in DOMAIN s5[ch] : v[n] = s5[ch][p]
      BY <1>8, <1>11, <2>1 DEF LastInOrder
    <3> QED BY <1>2, <1>6, <1>11, <2>1, <3>1 DEF Astronomy!Dated
  <2>2. CASE g1 # ch BY <1>11, <2>2 DEF Astronomy!Dated
  <2> QED BY <2>1, <2>2
<1>14. /\ x.stored <= s1
       /\ s5'[BurstOf[x.key]] # <<>>
       /\ s5'[BurstOf[x.key]][Len(s5'[BurstOf[x.key]])] = [key |-> x.key, at |-> x.stored]
  <2>1. v # <<>> /\ v[Len(v)] = old BY <1>8 DEF LastInOrder
  <2>2. old = [key |-> ke, at |-> old.at] BY <1>4, <1>6 DEF Astronomy!Entries
  <2> QED BY <1>6, <1>9, <1>11, <2>1, <2>2 DEF ch
<1>15. \A n \in DOMAIN s6 : s6[n].stored # None /\ Astronomy!StillStored(n) => Astronomy!StillStored(n)'
  <2> SUFFICES ASSUME NEW n \in DOMAIN s6, Astronomy!StillStored(n) PROVE Astronomy!StillStored(n)'
    OBVIOUS
  <2> DEFINE g1 == BurstOf[s6[n].key]
  <2>1. g1 \in Astronomy!Caches BY AnswerType, CacheOfKey
  <2>2. StoredIn(s5[g1], n, Astronomy!UsedSince(n))
    BY DEF Astronomy!StillStored, StoredIn
  <2>3. /\ Astronomy!UsedSince(n) \subseteq Astronomy!UsedSince(n)'
        /\ ke # s6[n].key /\ ch = g1 => ke \in Astronomy!UsedSince(n)'
    BY <1>1, <1>5, <1>9, UsedOnAnswer DEF ch
  <2>4. StoredIn(s5'[g1], n, Astronomy!UsedSince(n)')
    <3> HIDE DEF g1
    <3>1. CASE g1 # ch BY <1>11, <2>1, <2>2, <2>3, <3>1 DEF StoredIn
    <3>2. CASE g1 = ch
      <4>1. s6[n].key = ke => old.at >= s6[n].stored
        BY <1>4, <1>7, <2>2, <3>2 DEF StoredIn, Listed
      <4> DEFINE U == Astronomy!UsedSince(n)
                 W == Astronomy!UsedSince(n)'
      <4>2. /\ U \subseteq W /\ StoredIn(s5[ch], n, U)
            /\ s6[n].key = old.key => old.at >= s6[n].stored
            /\ s6[n].key # old.key => old.key \in W
        BY <1>4, <2>2, <2>3, <3>2, <4>1
      <4> HIDE DEF U, W
      <4>3. StoredIn(v, n, W) BY <1>8, <4>2, StoredLast
      <4> QED BY <1>11, <3>2, <4>3 DEF W
    <3> QED BY <3>1, <3>2
  <2> QED BY <1>1, <2>4 DEF Astronomy!StillStored, StoredIn
<1> QED BY <1>1, <1>5, <1>9, <1>11, <1>12, <1>13, <1>14, <1>15, AnswersNow

LEMMA AdmissionComputed ==
  ASSUME Astronomy!AdmissionInv, NEW t \in Astronomers, Astronomy!Computed(t)
  PROVE  Astronomy!AdmissionInv'
<1> USE AdmissionParts
<1> DEFINE ke == s4[t].key
           ch == BurstOf[ke]
           new == [key |-> ke, at |-> s1]
           v == Append(Astronomy!Without(ch, ke), new)
           u == Astronomy!Put(ch, ke)
           x == [phase |-> "answering", key |-> ke, stored |-> s1]
<1>1. /\ s4[t].phase = "computing" /\ UNCHANGED <<s1, s2, s3, s6>>
      /\ s5' = [s5 EXCEPT ![ch] = u] /\ s4' = [s4 EXCEPT ![t] = x]
  BY DEF Astronomy!Computed
<1>2. s2 = t BY <1>1 DEF Astronomy!OneInside
<1>3. ke \in BurstKeys /\ ch \in Astronomy!Caches
  BY <1>1, RequestPhases, CacheOfKey DEF Astronomy!Computing
<1>4. s1 \in Nat BY DEF Astronomy!TypeOK
<1>5. new \in Astronomy!Entries /\ new.key = ke /\ new.at = s1
  BY <1>3, <1>4 DEF Astronomy!Entries
<1>6. Listed(s5[ch], ch) BY <1>3, CachesListed
<1>7. LastInOrder(v, ch, new)
  BY <1>5, <1>6, BroughtLast
<1>8. PICK cut \in Nat :
        /\ Listed(u, ch) /\ Len(u) = Len(v) - cut /\ Len(u) <= BurstEntries /\ Len(u) > 0
        /\ DOMAIN u = 1 .. Len(v) - cut
        /\ \A n \in DOMAIN u : u[n] = v[n + cut]
        /\ cut > 0 => Len(u) = BurstEntries
  BY <1>3, <1>4, <1>6, PutLast
<1>9. x \in Astronomy!Answering /\ x.key = ke /\ x.stored = s1 /\ x.stored # None
  BY <1>3, <1>4, BurstLimits DEF Astronomy!Answering
<1>10. ch = BurstOf[ke] OBVIOUS
<1> HIDE DEF v, u, x, new, ke, ch
<1>11. /\ s5' \in [Astronomy!Caches -> Seq(Astronomy!Entries)]
       /\ s5'[ch] = u /\ \A g1 \in Astronomy!Caches : g1 # ch => s5'[g1] = s5[g1]
  BY <1>1, <1>3, <1>8 DEF Listed, Astronomy!TypeOK
<1>12. Astronomy!CachesKept'
  <2> SUFFICES ASSUME NEW g1 \in Astronomy!Caches
               PROVE  /\ Len(s5'[g1]) <= BurstEntries
                      /\ \A n \in DOMAIN s5'[g1] : BurstOf[s5'[g1][n].key] = g1
                      /\ \A m, n \in DOMAIN s5'[g1] : s5'[g1][m].key = s5'[g1][n].key => m = n
    BY DEF Astronomy!CachesKept
  <2>1. CASE g1 = ch BY <1>8, <1>11, <2>1 DEF Listed
  <2>2. CASE g1 # ch BY <1>11, <2>2 DEF Astronomy!CachesKept
  <2> QED BY <2>1, <2>2
<1>13. Len(v) \in Nat /\ Len(v) > 0 /\ DOMAIN v = 1 .. Len(v) /\ v[Len(v)] = new
  BY <1>7 DEF LastInOrder
<1>14. \A n \in DOMAIN u : n + cut \in DOMAIN v /\ u[n] = v[n + cut]
  BY <1>8, <1>13
<1>15. \A g1 \in Astronomy!Caches : \A n \in DOMAIN s5'[g1] : s5'[g1][n].at <= s1
  <2> SUFFICES ASSUME NEW g1 \in Astronomy!Caches, NEW n \in DOMAIN s5'[g1] PROVE s5'[g1][n].at <= s1
    OBVIOUS
  <2>1. CASE g1 = ch
    <3>1. n + cut \in DOMAIN v /\ s5'[g1][n] = v[n + cut] BY <1>11, <1>14, <2>1
    <3>2. v[n + cut] = new \/ \E p \in DOMAIN s5[ch] : v[n + cut] = s5[ch][p]
      BY <1>7, <3>1 DEF LastInOrder
    <3>3. new.at <= s1 BY <1>4, <1>5
    <3> QED BY <1>3, <3>1, <3>2, <3>3 DEF Astronomy!Dated
  <2>2. CASE g1 # ch BY <1>11, <2>2 DEF Astronomy!Dated
  <2> QED BY <2>1, <2>2
<1>16. /\ x.stored <= s1
       /\ s5'[BurstOf[x.key]] # <<>>
       /\ s5'[BurstOf[x.key]][Len(s5'[BurstOf[x.key]])] = [key |-> x.key, at |-> x.stored]
  <2>1. u # <<>> BY <1>8
  <2>2. Len(u) \in DOMAIN u /\ Len(u) + cut = Len(v) BY <1>8, <1>13
  <2>3. u[Len(u)] = new BY <1>13, <1>14, <2>2
  <2> QED BY <1>4, <1>9, <1>10, <1>11, <2>1, <2>3 DEF new
<1>17. Astronomy!TypeOK' /\ Astronomy!OneInside'
  <2>1. s4[s2].phase # "idle" BY <1>1, <1>2
  <2>2. /\ Astronomy!OneInside' /\ Astronomy!IsFiniteSet(Astronomy!Pending')
        /\ s4' \in [Astronomers -> {Astronomy!Idle} \cup Astronomy!Waiting
                                    \cup Astronomy!Computing \cup Astronomy!Answering]
    BY <1>1, <1>2, <1>9, <2>1, GoesOn
  <2> QED BY <1>1, <1>11, <2>2 DEF Astronomy!TypeOK
<1>18. ASSUME NEW n \in DOMAIN s6, s6[n].stored # None, Astronomy!StillStored(n)
       PROVE  \/ Astronomy!StillStored(n)'
              \/ Cardinality(Astronomy!UsedSince(n)') >= BurstEntries
  <2> DEFINE g1 == BurstOf[s6[n].key]
             U == Astronomy!UsedSince(n)
             W == Astronomy!UsedSince(n)'
  <2>1. g1 \in Astronomy!Caches BY AnswerType, CacheOfKey
  <2>2. StoredIn(s5[g1], n, U)
    BY <1>18 DEF Astronomy!StillStored, StoredIn
  <2>3. U \subseteq W /\ (ke # s6[n].key /\ ch = g1 => ke \in W)
    BY <1>1, <1>2, <1>9, <1>10, UsedOnAnswer
  <2>4. IsFiniteSet(W)
    <3>1. n \in DOMAIN s6' BY <1>1
    <3> QED BY <1>17, <3>1, UsedFiniteNext
  <2>5. StoredIn(s5'[g1], n, W) => Astronomy!StillStored(n)'
    BY <1>1 DEF Astronomy!StillStored, StoredIn
  <2> HIDE DEF g1, U, W
  <2>6. CASE g1 # ch
    <3>1. StoredIn(s5'[g1], n, W) BY <1>11, <2>1, <2>2, <2>3, <2>6 DEF StoredIn
    <3> QED BY <2>5, <3>1
  <2>7. CASE g1 = ch
    <3>1. /\ s6[n].key = new.key => new.at >= s6[n].stored
          /\ s6[n].key # new.key => new.key \in W
      BY <1>5, <1>18, <2>3, <2>7 DEF Astronomy!Dated
    <3>2. StoredIn(v, n, W) BY <1>7, <2>2, <2>3, <2>7, <3>1, StoredLast
    <3>3. Listed(v, ch) BY <1>7 DEF LastInOrder
    <3>4. StoredIn(u, n, W) \/ Cardinality(W) >= BurstEntries
      BY <1>8, <2>4, <3>2, <3>3, StoredCut
    <3> QED BY <1>11, <2>5, <2>7, <3>4 DEF W
  <2> QED BY <2>6, <2>7
<1> QED BY <1>1, <1>2, <1>9, <1>11, <1>12, <1>15, <1>16, <1>18, AnswersNow

LEMMA AdmissionMiss ==
  ASSUME Astronomy!AdmissionInv, NEW t \in Astronomers, Astronomy!Miss(t)
  PROVE  Astronomy!AdmissionInv'
<1> USE AdmissionParts
<1> DEFINE ke == s4[t].key
           ch == BurstOf[ke]
           w == Astronomy!Without(ch, ke)
           x == [phase |-> "computing", key |-> ke, since |-> s1]
<1>1. /\ s2 = t /\ s4[t].phase = "admission" /\ UNCHANGED <<s1, s2, s3, s6>>
      /\ s5' = [s5 EXCEPT ![ch] = w] /\ s4' = [s4 EXCEPT ![s2] = x]
      /\ \A old \in Astronomy!Stored(ch, ke) : ~(s1 < old.at + BurstTtl)
  BY DEF Astronomy!Miss, Astronomy!Alive
<1>2. ke \in BurstKeys /\ ch \in Astronomy!Caches
  BY <1>1, RequestPhases, CacheOfKey DEF Astronomy!Waiting
<1>3. s1 \in Nat BY DEF Astronomy!TypeOK
<1>4. LeftInOrder(w, ch, ke) BY <1>2, CachesListed, WithoutKey
<1>5. x \in Astronomy!Computing /\ x.key = ke /\ x.since = s1 /\ x.phase = "computing"
  BY <1>2, <1>3 DEF Astronomy!Computing
<1>6. \A p \in DOMAIN s5[ch] : s5[ch][p].key = ke => ~(s1 < s5[ch][p].at + BurstTtl)
  BY <1>1 DEF Astronomy!Stored, Astronomy!ToSet
<1>7. ch = BurstOf[ke] OBVIOUS
<1> HIDE DEF w, x, ke, ch
<1>8. /\ s5' \in [Astronomy!Caches -> Seq(Astronomy!Entries)]
      /\ s5'[ch] = w /\ \A g1 \in Astronomy!Caches : g1 # ch => s5'[g1] = s5[g1]
  BY <1>1, <1>2, <1>4 DEF LeftInOrder, Listed, Astronomy!TypeOK
<1>9. /\ Astronomy!OneInside' /\ Astronomy!InLine' /\ Astronomy!IsFiniteSet(Astronomy!Pending')
      /\ s4' \in [Astronomers -> {Astronomy!Idle} \cup Astronomy!Waiting
                                  \cup Astronomy!Computing \cup Astronomy!Answering]
  BY <1>1, <1>5, GoesOn
<1>10. Astronomy!TypeOK' BY <1>1, <1>8, <1>9 DEF Astronomy!TypeOK
<1>11. /\ s4'[s2] = x /\ \A y \in Astronomers : s4'[y].phase \in {"computing", "answering"} => y = s2
  BY <1>1, <1>9 DEF Astronomy!OneInside, Astronomy!TypeOK
<1>12. Astronomy!CachesKept'
  <2> SUFFICES ASSUME NEW g1 \in Astronomy!Caches
               PROVE  /\ Len(s5'[g1]) <= BurstEntries
                      /\ \A n \in DOMAIN s5'[g1] : BurstOf[s5'[g1][n].key] = g1
                      /\ \A m, n \in DOMAIN s5'[g1] : s5'[g1][m].key = s5'[g1][n].key => m = n
    BY DEF Astronomy!CachesKept
  <2>1. CASE g1 = ch
    <3>1. Len(w) <= BurstEntries
      <4>1. Len(w) \in Nat /\ Len(s5[ch]) \in Nat /\ Len(s5[ch]) <= BurstEntries
        BY <1>2, <1>4, LenProperties DEF LeftInOrder, Listed, Astronomy!CachesKept, Astronomy!TypeOK
      <4> QED BY <1>4, <4>1, BurstLimits DEF LeftInOrder
    <3> QED BY <1>4, <1>8, <2>1, <3>1 DEF LeftInOrder, Listed
  <2>2. CASE g1 # ch BY <1>8, <2>2 DEF Astronomy!CachesKept
  <2> QED BY <2>1, <2>2
<1>13. Astronomy!Dated'
  <2>1. \A g1 \in Astronomy!Caches : \A n \in DOMAIN s5'[g1] : s5'[g1][n].at <= s1
    <3> SUFFICES ASSUME NEW g1 \in Astronomy!Caches, NEW n \in DOMAIN s5'[g1]
                 PROVE  s5'[g1][n].at <= s1
      OBVIOUS
    <3>1. CASE g1 = ch BY <1>2, <1>4, <1>8, <3>1 DEF LeftInOrder, Astronomy!Dated
    <3>2. CASE g1 # ch BY <1>8, <3>2 DEF Astronomy!Dated
    <3> QED BY <3>1, <3>2
  <2> QED BY <1>1, <1>5, <1>11, <2>1 DEF Astronomy!Dated
<1>14. Astronomy!LastUsed' BY <1>5, <1>11 DEF Astronomy!LastUsed
<1>15. Astronomy!UsedNow = {} /\ Astronomy!UsedNow' = {}
  <2>1. Astronomy!UsedNow = {} BY <1>1, UsedInside
  <2>2. \A y \in Astronomers : s4'[y].phase # "answering" BY <1>5, <1>11
  <2> QED BY <2>1, <2>2 DEF Astronomy!UsedNow
<1>16. \A n \in DOMAIN s6 : /\ Astronomy!UsedSince(n)' = Astronomy!UsedSince(n)
                            /\ Astronomy!UsedSince(n)' = Astronomy!UsedAfter(n)'
  BY <1>1, <1>15 DEF Astronomy!UsedSince, Astronomy!UsedAfter
<1>17. ASSUME NEW n \in DOMAIN s6, s6[n].stored # None, Astronomy!StillStored(n)
       PROVE  Astronomy!StillStored(n)' \/ s1 >= s6[n].stored + BurstTtl
  <2> DEFINE g1 == BurstOf[s6[n].key]
             U == Astronomy!UsedSince(n)
             W == Astronomy!UsedSince(n)'
  <2>1. g1 \in Astronomy!Caches BY AnswerType, CacheOfKey
  <2>2. StoredIn(s5[g1], n, U) BY <1>17 DEF Astronomy!StillStored, StoredIn
  <2>3. W = U BY <1>16
  <2>4. StoredIn(s5'[g1], n, W) => Astronomy!StillStored(n)'
    BY <1>1 DEF Astronomy!StillStored, StoredIn
  <2>5. s6[n].stored \in Nat BY <1>17, AnswerType
  <2> HIDE DEF U, W
  <2>6. CASE g1 # ch BY <1>8, <2>1, <2>2, <2>3, <2>4, <2>6
  <2>7. CASE s6[n].key = ke
    <3>1. PICK p \in DOMAIN s5[ch] : s5[ch][p].key = ke /\ s5[ch][p].at >= s6[n].stored
      BY <1>7, <2>2, <2>7 DEF StoredIn
    <3>2. s5[ch][p].at \in Nat BY <1>2, EntryType
    <3>3. ~(s1 < s5[ch][p].at + BurstTtl) BY <1>6, <3>1
    <3> QED BY <1>3, <2>5, <3>1, <3>2, <3>3, BurstLimits
  <2>8. CASE g1 = ch /\ s6[n].key # ke
    <3>1. StoredIn(w, n, U)
      <4> HIDE DEF g1
      <4> QED BY <1>4, <2>2, <2>8, StoredWithout
    <3> QED BY <1>8, <2>3, <2>4, <2>8, <3>1
  <2> QED BY <1>7, <2>6, <2>7, <2>8
<1>18. Astronomy!LostInOrder'
  <2>1. s1' >= s1 /\ s1' = s1 BY <1>1, <1>3
  <2> QED BY <1>1, <1>9, <1>10, <1>16, <1>17, <2>1, LostFrame
<1>19. Astronomy!NoRepeatedWork'
  <2> SUFFICES ASSUME NEW n \in DOMAIN s6, s6[n].key = ke, s6[n].stored # None,
                      s1 < s6[n].stored + BurstTtl
               PROVE  Astronomy!Cardinality(Astronomy!UsedAfter(n)') >= BurstEntries
    BY <1>1, <1>5, <1>11 DEF Astronomy!NoRepeatedWork
  <2>1. \/ Astronomy!StillStored(n)' \/ s1 >= s6[n].stored + BurstTtl
        \/ Astronomy!Cardinality(Astronomy!UsedSince(n)') >= BurstEntries
    BY <1>1, <1>18 DEF Astronomy!LostInOrder
  <2>2. ~Astronomy!StillStored(n)'
    BY <1>1, <1>4, <1>7, <1>8 DEF Astronomy!StillStored, LeftInOrder
  <2>3. s6[n].stored \in Nat BY AnswerType
  <2> QED BY <1>3, <1>16, <2>1, <2>2, <2>3, BurstLimits
<1> QED BY <1>9, <1>10, <1>12, <1>13, <1>14, <1>18, <1>19 DEF Astronomy!AdmissionInv

LEMMA AdmissionArrive ==
  ASSUME Astronomy!AdmissionInv, NEW t \in Astronomers, NEW ke \in BurstKeys,
         Astronomy!Arrive(t, ke)
  PROVE  Astronomy!AdmissionInv'
<1> USE AdmissionParts
<1> DEFINE x == [phase |-> "admission", key |-> ke]
<1>1. /\ s4[t] = Astronomy!Idle /\ s4' = [s4 EXCEPT ![t] = x] /\ UNCHANGED <<s1, s5, s6>>
      /\ (s2 = None /\ s2' = t /\ s3' = s3) \/ (s2 # None /\ s2' = s2 /\ s3' = Append(s3, t))
  BY DEF Astronomy!Arrive
<1>2. x \in Astronomy!Waiting /\ x.phase = "admission" /\ x # Astronomy!Idle
  BY DEF Astronomy!Waiting, Astronomy!Idle
<1> HIDE DEF x
<1>3. s4' \in [Astronomers -> {Astronomy!Idle} \cup Astronomy!Waiting
                              \cup Astronomy!Computing \cup Astronomy!Answering]
      /\ s4'[t] = x /\ \A y \in Astronomers : y # t => s4'[y] = s4[y]
  BY <1>1, <1>2 DEF Astronomy!TypeOK
<1>4. t \notin Astronomy!Pending /\ Astronomy!Pending' = Astronomy!Pending \cup {t}
  BY <1>1, <1>2, <1>3 DEF Astronomy!Pending
<1>5. /\ IsFiniteSet(Astronomy!Pending) /\ Cardinality(Astronomy!Pending) \in Nat
      /\ IsFiniteSet(Astronomy!Pending') /\ Cardinality(Astronomy!Pending') = Cardinality(Astronomy!Pending) + 1
  <2>1. IsFiniteSet(Astronomy!Pending) BY SameFinite DEF Astronomy!TypeOK
  <2>2. /\ IsFiniteSet(Astronomy!Pending \cup {t})
        /\ Cardinality(Astronomy!Pending \cup {t}) = Cardinality(Astronomy!Pending) + 1
    BY <1>4, <2>1, FS_AddElement
  <2>3. Cardinality(Astronomy!Pending) \in Nat BY <2>1, FS_CardinalityType
  <2> QED BY <1>4, <2>1, <2>2, <2>3
<1>6. s3 \in Seq(Astronomers) /\ Len(s3) \in Nat /\ DOMAIN s3 = 1 .. Len(s3)
  BY LenProperties DEF Astronomy!TypeOK
<1>7. /\ s3' \in Seq(Astronomers) /\ s2' \in Astronomers /\ s2' # None
      /\ Len(s3') = IF s2 = None THEN 0 ELSE Len(s3) + 1
      /\ Astronomy!ToSet(s3)' = IF s2 = None THEN {} ELSE Astronomy!ToSet(s3) \cup {t}
      /\ Astronomy!InLine'
  <2>1. CASE s2 = None
    <3>1. s2' = t /\ s3' = <<>> /\ s3' \in Seq(Astronomers)
      BY <1>1, <1>6, <2>1 DEF Astronomy!OneInside
    <3>2. Len(s3') = 0 /\ DOMAIN s3' = {} BY <3>1
    <3> QED BY <2>1, <3>1, <3>2, BurstLimits DEF Astronomy!ToSet, Astronomy!InLine
  <2>2. CASE s2 # None
    <3>1. s2' = s2 /\ s3' = Append(s3, t) /\ s2 \in Astronomers
      BY <1>1, <2>2 DEF Astronomy!TypeOK
    <3>2. /\ s3' \in Seq(Astronomers) /\ Len(s3') = Len(s3) + 1 /\ DOMAIN s3' = 1 .. Len(s3) + 1
          /\ s3'[Len(s3) + 1] = t /\ \A n \in 1 .. Len(s3) : s3'[n] = s3[n]
      BY <1>6, <3>1, AppendProperties, LenProperties
    <3>3. \A n \in DOMAIN s3' : (n \in DOMAIN s3 /\ s3'[n] = s3[n]) \/ (n = Len(s3) + 1 /\ s3'[n] = t)
      BY <1>6, <3>2
    <3>4. DOMAIN s3 \subseteq DOMAIN s3' /\ Len(s3) + 1 \in DOMAIN s3' BY <1>6, <3>2
    <3>5. Astronomy!ToSet(s3)' = Astronomy!ToSet(s3) \cup {t}
      BY <1>6, <3>2, <3>3, <3>4 DEF Astronomy!ToSet
    <3>6. \A n \in DOMAIN s3 : s3[n] # t BY <1>4 DEF Astronomy!OneInside, Astronomy!ToSet
    <3>7. s2 # t BY <1>4, <2>2 DEF Astronomy!OneInside
    <3>8. Astronomy!InLine' BY <3>1, <3>3, <3>5, <3>6, <3>7 DEF Astronomy!InLine
    <3> QED BY <2>2, <3>1, <3>2, <3>5, <3>8
  <2> QED BY <2>1, <2>2
<1>8. Astronomy!OneInside'
  <2>1. Astronomy!Pending' = Astronomy!ToSet(s3)' \cup {s2'}
    <3>1. CASE s2 = None
      <4>1. s3 = <<>> BY <3>1 DEF Astronomy!OneInside
      <4>2. Astronomy!ToSet(s3) = {} BY <4>1 DEF Astronomy!ToSet
      <4>3. Astronomy!Pending = {} BY <3>1, <4>2 DEF Astronomy!OneInside
      <4> QED BY <1>1, <1>4, <1>7, <3>1, <4>3
    <3>2. CASE s2 # None BY <1>1, <1>4, <1>7, <3>2 DEF Astronomy!OneInside
    <3> QED BY <3>1, <3>2
  <2>2. Len(s3') + 1 = Cardinality(Astronomy!Pending')
    <3>1. Len(s3) + (IF s2 = None THEN 0 ELSE 1) = Cardinality(Astronomy!Pending)
      BY SameSize DEF Astronomy!OneInside
    <3>2. s2 = None => Len(s3) = 0 BY <1>6 DEF Astronomy!OneInside
    <3> QED BY <1>5, <1>6, <1>7, <3>1, <3>2
  <2>3. \A y \in Astronomers : s4'[y].phase \in {"computing", "answering"} => s2' = y
    <3> SUFFICES ASSUME NEW y \in Astronomers, s4'[y].phase \in {"computing", "answering"}
                 PROVE  s2' = y
      OBVIOUS
    <3>1. s4'[y] = s4[y] BY <1>2, <1>3
    <3>2. s2 = y BY <3>1 DEF Astronomy!OneInside
    <3> QED BY <1>1, <3>2, BurstLimits
  <2>4. Len(s3') + 1 = Astronomy!Cardinality(Astronomy!Pending') BY <2>2, SameSize
  <2> QED BY <1>7, <2>1, <2>3, <2>4 DEF Astronomy!OneInside
<1>9. Astronomy!TypeOK'
  <2>1. Astronomy!IsFiniteSet(Astronomy!Pending') BY <1>5, SameFinite
  <2> QED BY <1>1, <1>3, <1>7, <2>1 DEF Astronomy!TypeOK
<1>10. \A y \in Astronomers : s4'[y].phase \in {"computing", "answering"} => s4'[y] = s4[y]
  BY <1>2, <1>3
<1>11. \A y \in Astronomers : s4[y].phase = "answering" => s4'[y] = s4[y]
  BY <1>1, <1>3 DEF Astronomy!Idle
<1>12. Astronomy!UsedNow' = Astronomy!UsedNow
  <2>1. \A y \in Astronomers : /\ s4'[y].phase = "answering" /\ s4'[y].stored # None
                                  => s4[y].phase = "answering" /\ s4[y].stored # None /\ s4'[y].key = s4[y].key
                               /\ s4[y].phase = "answering" /\ s4[y].stored # None
                                  => s4'[y].phase = "answering" /\ s4'[y].stored # None /\ s4'[y].key = s4[y].key
    BY <1>10, <1>11
  <2> QED BY <2>1 DEF Astronomy!UsedNow
<1>13. Astronomy!CachesKept' BY <1>1 DEF Astronomy!CachesKept
<1>14. Astronomy!Dated' BY <1>1, <1>10 DEF Astronomy!Dated
<1>15. Astronomy!LastUsed' BY <1>1, <1>10 DEF Astronomy!LastUsed
<1>16. Astronomy!LostInOrder'
  <2>1. \A n : Astronomy!UsedAfter(n)' = Astronomy!UsedAfter(n)
    BY <1>1 DEF Astronomy!UsedAfter
  <2>2. \A n : Astronomy!UsedSince(n)' = Astronomy!UsedSince(n)
    BY <1>1, <1>12, <2>1 DEF Astronomy!UsedSince
  <2>3. \A n : Astronomy!StillStored(n)' <=> Astronomy!StillStored(n)
    BY <1>1, <2>2 DEF Astronomy!StillStored
  <2> QED BY <1>1, <2>2, <2>3 DEF Astronomy!LostInOrder
<1>17. Astronomy!NoRepeatedWork'
  BY <1>1, <1>10 DEF Astronomy!NoRepeatedWork, Astronomy!UsedAfter
<1> QED BY <1>7, <1>8, <1>9, <1>13, <1>14, <1>15, <1>16, <1>17 DEF Astronomy!AdmissionInv

LEMMA AdmissionFinish ==
  ASSUME Astronomy!AdmissionInv, NEW t \in Astronomers, Astronomy!Finish(t)
  PROVE  Astronomy!AdmissionInv'
<1> USE AdmissionParts
<1> DEFINE x == [key |-> s4[t].key, stored |-> s4[t].stored]
<1>1. /\ s4[t].phase = "answering" /\ UNCHANGED <<s1, s5>> /\ s4' = [s4 EXCEPT ![t] = Astronomy!Idle]
      /\ s6' = Append(s6, x)
      /\ \/ s3 = <<>> /\ s2' = None /\ s3' = <<>>
         \/ s3 # <<>> /\ s2' = Head(s3) /\ s3' = Tail(s3)
  BY DEF Astronomy!Finish, Astronomy!Released
<1>2. s2 = t /\ s2 # None BY <1>1, BurstLimits DEF Astronomy!OneInside
<1>3. x \in Astronomy!Answers /\ x.key = s4[t].key /\ x.stored = s4[t].stored
      /\ x.key \in BurstKeys
  BY <1>1, RequestPhases DEF Astronomy!Answering, Astronomy!Answers
<1> HIDE DEF x
<1>4. /\ s4' \in [Astronomers -> {Astronomy!Idle} \cup Astronomy!Waiting
                                 \cup Astronomy!Computing \cup Astronomy!Answering]
      /\ s4'[t] = Astronomy!Idle /\ \A y \in Astronomers : y # t => s4'[y] = s4[y]
  BY <1>1 DEF Astronomy!TypeOK
<1>5. s4[t] # Astronomy!Idle BY <1>1, RequestPhases
<1>6. t \in Astronomy!Pending /\ Astronomy!Pending' = Astronomy!Pending \ {t}
  BY <1>4, <1>5 DEF Astronomy!Pending
<1>7. /\ IsFiniteSet(Astronomy!Pending) /\ Cardinality(Astronomy!Pending) \in Nat
      /\ IsFiniteSet(Astronomy!Pending') /\ Cardinality(Astronomy!Pending') = Cardinality(Astronomy!Pending) - 1
  <2>1. IsFiniteSet(Astronomy!Pending) BY SameFinite DEF Astronomy!TypeOK
  <2>2. /\ IsFiniteSet(Astronomy!Pending \ {t})
        /\ Cardinality(Astronomy!Pending \ {t}) = Cardinality(Astronomy!Pending) - 1
    BY <1>6, <2>1, FS_RemoveElement
  <2>3. Cardinality(Astronomy!Pending) \in Nat BY <2>1, FS_CardinalityType
  <2> QED BY <1>6, <2>1, <2>2, <2>3
<1>8. s3 \in Seq(Astronomers) /\ Len(s3) \in Nat /\ DOMAIN s3 = 1 .. Len(s3)
      /\ \A n \in DOMAIN s3 : s3[n] \in Astronomers
  BY LenProperties, ElementOfSeq DEF Astronomy!TypeOK
<1>9. Len(s3) + 1 = Cardinality(Astronomy!Pending)
  BY <1>2, SameSize DEF Astronomy!OneInside
<1>10. \A y \in Astronomers : s4'[y].phase \notin {"computing", "answering"}
  <2>1. s4'[t].phase = "idle" BY <1>4 DEF Astronomy!Idle
  <2>2. \A y \in Astronomers : y # t => s4[y].phase \notin {"computing", "answering"}
    BY <1>2 DEF Astronomy!OneInside
  <2> QED BY <1>4, <2>1, <2>2
<1>11. Astronomy!Pending' = Astronomy!ToSet(s3)
  BY <1>2, <1>6 DEF Astronomy!OneInside, Astronomy!InLine
<1>12. /\ s3' \in Seq(Astronomers) /\ s2' \in Astronomers \cup {None}
       /\ Astronomy!OneInside' /\ Astronomy!InLine'
  <2>1. CASE s3 = <<>>
    <3>1. s2' = None /\ s3' = <<>> /\ Len(s3') = 0 /\ DOMAIN s3' = {} /\ s3' \in Seq(Astronomers)
      BY <1>1, <1>8, <2>1
    <3>2. Astronomy!ToSet(s3)' = {} /\ Astronomy!ToSet(s3) = {}
      BY <2>1, <3>1 DEF Astronomy!ToSet
    <3>3. Cardinality(Astronomy!Pending') = 0 BY <1>7, <1>9, <2>1, <3>1
    <3>4. Astronomy!Cardinality(Astronomy!Pending') = 0 BY <3>3, SameSize
    <3>5. Astronomy!OneInside'
      BY <1>10, <1>11, <3>1, <3>2, <3>4 DEF Astronomy!OneInside
    <3>6. Astronomy!InLine' BY <3>1, <3>2 DEF Astronomy!InLine
    <3> QED BY <3>1, <3>5, <3>6
  <2>2. CASE s3 # <<>>
    <3>1. /\ s2' = s3[1] /\ Len(s3') = Len(s3) - 1 /\ s3' \in Seq(Astronomers)
          /\ \A n \in 1 .. Len(s3) - 1 : s3'[n] = s3[n + 1]
      <4>1. /\ Head(s3) = s3[1] /\ Tail(s3) \in Seq(Astronomers) /\ Len(Tail(s3)) = Len(s3) - 1
            /\ \A n \in 1 .. Len(Tail(s3)) : Tail(s3)[n] = s3[n + 1]
        BY <1>8, <2>2, HeadTailProperties
      <4> QED BY <1>1, <2>2, <4>1
    <3>2. DOMAIN s3' = 1 .. Len(s3) - 1 /\ Len(s3) > 0
      BY <1>8, <2>2, <3>1, LenProperties, EmptySeq
    <3>3. 1 \in DOMAIN s3 /\ s2' \in Astronomers /\ s2' # None BY <1>8, <3>1, <3>2, BurstLimits
    <3>4. \A n \in DOMAIN s3' : n + 1 \in DOMAIN s3 /\ s3'[n] = s3[n + 1] /\ n + 1 # 1 /\ n \in Int
      BY <1>8, <3>1, <3>2
    <3>5. \A n \in DOMAIN s3 : n = 1 \/ \E m \in DOMAIN s3' : n = m + 1
      <4> SUFFICES ASSUME NEW n \in DOMAIN s3, n # 1 PROVE \E m \in DOMAIN s3' : n = m + 1
        OBVIOUS
      <4>1. n - 1 \in DOMAIN s3' /\ n = (n - 1) + 1 BY <1>8, <3>2
      <4> QED BY <4>1
    <3>6. Astronomy!ToSet(s3) = Astronomy!ToSet(s3)' \cup {s2'}
      <4>1. ASSUME NEW y \in Astronomy!ToSet(s3) PROVE y \in Astronomy!ToSet(s3)' \cup {s2'}
        <5>1. PICK n \in DOMAIN s3 : y = s3[n] BY <4>1 DEF Astronomy!ToSet
        <5>2. CASE n = 1 BY <3>1, <5>1, <5>2
        <5>3. CASE n # 1
          <6>1. PICK m \in DOMAIN s3' : n = m + 1 BY <3>5, <5>3
          <6>2. s3'[m] = y BY <3>4, <5>1, <6>1
          <6> QED BY <6>2 DEF Astronomy!ToSet
        <5> QED BY <5>2, <5>3
      <4>2. ASSUME NEW y \in Astronomy!ToSet(s3)' PROVE y \in Astronomy!ToSet(s3)
        <5>1. PICK m \in DOMAIN s3' : y = s3'[m] BY <4>2 DEF Astronomy!ToSet
        <5>2. m + 1 \in DOMAIN s3 /\ y = s3[m + 1] BY <3>4, <5>1
        <5> QED BY <5>2 DEF Astronomy!ToSet
      <4>3. s2' \in Astronomy!ToSet(s3) BY <3>1, <3>3 DEF Astronomy!ToSet
      <4> QED BY <4>1, <4>2, <4>3
    <3>7. s2' \notin Astronomy!ToSet(s3)'
      <4> SUFFICES ASSUME NEW m \in DOMAIN s3', s3'[m] = s2' PROVE FALSE
        BY DEF Astronomy!ToSet
      <4>1. s3[m + 1] = s3[1] /\ m + 1 \in DOMAIN s3 BY <3>1, <3>4
      <4>2. m + 1 = 1 BY <3>3, <4>1 DEF Astronomy!InLine
      <4> QED BY <3>4, <4>2
    <3>8. Astronomy!InLine'
      <4>1. ASSUME NEW m \in DOMAIN s3', NEW n \in DOMAIN s3', s3'[m] = s3'[n] PROVE m = n
        <5>1. m + 1 = n + 1 BY <3>4, <4>1 DEF Astronomy!InLine
        <5> QED BY <3>4, <5>1
      <4> QED BY <3>7, <4>1 DEF Astronomy!InLine
    <3>9. Astronomy!OneInside'
      <4>1. Len(s3') + 1 = Cardinality(Astronomy!Pending') BY <1>7, <1>8, <1>9, <3>1
      <4>2. Len(s3') + 1 = Astronomy!Cardinality(Astronomy!Pending') BY <4>1, SameSize
      <4>3. Astronomy!Pending' = Astronomy!ToSet(s3)' \cup ({s2'} \ {None})
        BY <1>11, <3>3, <3>6
      <4> QED BY <1>10, <3>3, <4>2, <4>3 DEF Astronomy!OneInside
    <3> QED BY <3>1, <3>3, <3>8, <3>9
  <2> QED BY <2>1, <2>2
<1>13. /\ s6 \in Seq(Astronomy!Answers) /\ Len(s6) \in Nat /\ DOMAIN s6 = 1 .. Len(s6)
       /\ s6' \in Seq(Astronomy!Answers) /\ Len(s6') = Len(s6) + 1 /\ DOMAIN s6' = 1 .. Len(s6) + 1
       /\ s6'[Len(s6) + 1] = x /\ \A n \in 1 .. Len(s6) : s6'[n] = s6[n]
  BY <1>1, <1>3, AppendProperties, LenProperties DEF Astronomy!TypeOK
<1>14. \A n \in DOMAIN s6' : (n \in DOMAIN s6 /\ s6'[n] = s6[n]) \/ (n = Len(s6) + 1 /\ s6'[n] = x)
  BY <1>13
<1>15. Astronomy!TypeOK'
  <2>1. Astronomy!IsFiniteSet(Astronomy!Pending') BY <1>7, SameFinite
  <2> QED BY <1>1, <1>4, <1>12, <1>13, <2>1 DEF Astronomy!TypeOK
<1>16. Astronomy!CachesKept' BY <1>1 DEF Astronomy!CachesKept
<1>17. Astronomy!Dated'
  <2>1. x.stored # None => x.stored <= s1 BY <1>1, <1>3 DEF Astronomy!Dated
  <2> QED BY <1>1, <1>10, <1>14, <2>1 DEF Astronomy!Dated
<1>18. Astronomy!LastUsed' /\ Astronomy!NoRepeatedWork'
  BY <1>10 DEF Astronomy!LastUsed, Astronomy!NoRepeatedWork
<1>19. ASSUME NEW n \in DOMAIN s6 PROVE Astronomy!UsedSince(n)' = Astronomy!UsedSince(n)
  <2> DEFINE Counts(y) == y.stored # None /\ y.key # s6[n].key /\ BurstOf[y.key] = BurstOf[s6[n].key]
             new == {ke \in {x.key} : Counts(x)}
  <2>1. Astronomy!UsedNow' = {} BY <1>10 DEF Astronomy!UsedNow
  <2>2. Astronomy!UsedNow = IF x.stored = None THEN {} ELSE {x.key}
    BY <1>1, <1>2, <1>3, UsedInside
  <2>3. n \in 1 .. Len(s6) /\ s6'[n] = s6[n] BY <1>13
  <2>4. /\ Astronomy!UsedAfter(n) = {s6[m].key : m \in {m \in n + 1 .. Len(s6) : Counts(s6[m])}}
        /\ Astronomy!UsedAfter(n)' = {s6'[m].key : m \in {m \in n + 1 .. Len(s6) + 1 : Counts(s6'[m])}}
    BY <1>13, <2>3 DEF Astronomy!UsedAfter
  <2>5. Astronomy!UsedSince(n) = Astronomy!UsedAfter(n) \cup new
    BY <2>2 DEF Astronomy!UsedSince
  <2>6. Astronomy!UsedSince(n)' = Astronomy!UsedAfter(n)' BY <2>1 DEF Astronomy!UsedSince
  <2>7. \A m \in n + 1 .. Len(s6) : m \in n + 1 .. Len(s6) + 1 /\ s6'[m] = s6[m]
    BY <1>13, <2>3
  <2>8. Len(s6) + 1 \in n + 1 .. Len(s6) + 1 /\ s6'[Len(s6) + 1] = x BY <1>13, <2>3
  <2>9. \A m \in n + 1 .. Len(s6) + 1 : m \in n + 1 .. Len(s6) \/ m = Len(s6) + 1
    BY <1>13, <2>3
  <2> HIDE DEF Counts
  <2>10. Astronomy!UsedAfter(n)' = Astronomy!UsedAfter(n) \cup new
    <3>1. ASSUME NEW y \in Astronomy!UsedAfter(n)' PROVE y \in Astronomy!UsedAfter(n) \cup new
      <4>1. PICK m \in n + 1 .. Len(s6) + 1 : Counts(s6'[m]) /\ y = s6'[m].key BY <2>4, <3>1
      <4>2. CASE m \in n + 1 .. Len(s6) BY <2>4, <2>7, <4>1, <4>2
      <4>3. CASE m = Len(s6) + 1 BY <2>8, <4>1, <4>3
      <4> QED BY <2>9, <4>2, <4>3
    <3>2. Astronomy!UsedAfter(n) \subseteq Astronomy!UsedAfter(n)' BY <2>4, <2>7
    <3>3. new \subseteq Astronomy!UsedAfter(n)' BY <2>4, <2>8
    <3> QED BY <3>1, <3>2, <3>3
  <2> QED BY <2>5, <2>6, <2>10
<1>20. Astronomy!LostInOrder'
  <2> SUFFICES ASSUME NEW n \in DOMAIN s6', s6'[n].stored # None
               PROVE  \/ Astronomy!StillStored(n)'
                      \/ s1 >= s6'[n].stored + BurstTtl
                      \/ Astronomy!Cardinality(Astronomy!UsedSince(n)') >= BurstEntries
    BY <1>1 DEF Astronomy!LostInOrder
  <2>1. CASE n \in DOMAIN s6 /\ s6'[n] = s6[n]
    <3>1. \/ Astronomy!StillStored(n) \/ s1 >= s6[n].stored + BurstTtl
          \/ Astronomy!Cardinality(Astronomy!UsedSince(n)) >= BurstEntries
      BY <2>1 DEF Astronomy!LostInOrder
    <3>2. Astronomy!StillStored(n) => Astronomy!StillStored(n)'
      BY <1>1, <1>19, <2>1 DEF Astronomy!StillStored
    <3> QED BY <1>19, <2>1, <3>1, <3>2
  <2>2. CASE s6'[n] = x
    <3> DEFINE s == s5[BurstOf[x.key]]
    <3>1. /\ s # <<>> /\ s[Len(s)].key = x.key /\ s[Len(s)].at = x.stored
      BY <1>1, <1>3, <2>2 DEF Astronomy!LastUsed
    <3>2. BurstOf[x.key] \in Astronomy!Caches BY <1>3, CacheOfKey
    <3>3. s \in Seq(Astronomy!Entries) BY <3>2 DEF Astronomy!TypeOK
    <3>4. Len(s) \in Nat /\ DOMAIN s = 1 .. Len(s) /\ Len(s) > 0
      BY <3>1, <3>3, LenProperties, EmptySeq
    <3>5. Len(s) \in DOMAIN s /\ \A q \in DOMAIN s : ~(q > Len(s)) BY <3>4
    <3>6. s[Len(s)].at \in Nat BY <3>2, <3>5, EntryType
    <3>7. s[Len(s)].at >= x.stored BY <3>1, <3>6
    <3>8. s = s5'[BurstOf[s6'[n].key]] BY <1>1, <2>2
    <3> HIDE DEF s
    <3>9. Astronomy!StillStored(n)'
      BY <2>2, <3>1, <3>5, <3>7, <3>8 DEF Astronomy!StillStored
    <3> QED BY <3>9
  <2> QED BY <1>14, <2>1, <2>2
<1> QED BY <1>12, <1>15, <1>16, <1>17, <1>18, <1>20 DEF Astronomy!AdmissionInv

THEOREM AdmissionStep ==
  Astronomy!AdmissionInv /\ [Astronomy!Next]_<<s1, s2, s3, s4, s5, s6>> => Astronomy!AdmissionInv'
<1> SUFFICES ASSUME Astronomy!AdmissionInv, [Astronomy!Next]_<<s1, s2, s3, s4, s5, s6>>
             PROVE  Astronomy!AdmissionInv'
  OBVIOUS
<1>1. CASE UNCHANGED <<s1, s2, s3, s4, s5, s6>>
  <2>1. /\ Astronomy!Pending' = Astronomy!Pending /\ Astronomy!UsedNow' = Astronomy!UsedNow
        /\ Astronomy!ToSet(s3)' = Astronomy!ToSet(s3)
    BY <1>1 DEF Astronomy!Pending, Astronomy!UsedNow, Astronomy!ToSet
  <2>2. Astronomy!TypeOK' /\ Astronomy!OneInside' /\ Astronomy!InLine'
    BY <1>1, <2>1, AdmissionParts DEF Astronomy!TypeOK, Astronomy!OneInside, Astronomy!InLine
  <2>3. Astronomy!CachesKept' /\ Astronomy!Dated' /\ Astronomy!LastUsed'
    BY <1>1, AdmissionParts DEF Astronomy!CachesKept, Astronomy!Dated, Astronomy!LastUsed
  <2>4. \A n \in DOMAIN s6 : /\ Astronomy!UsedAfter(n)' = Astronomy!UsedAfter(n)
                             /\ Astronomy!UsedSince(n)' = Astronomy!UsedSince(n)
    BY <1>1, <2>1 DEF Astronomy!UsedSince, Astronomy!UsedAfter
  <2>5. \A n \in DOMAIN s6 : Astronomy!StillStored(n)' <=> Astronomy!StillStored(n)
    BY <1>1, <2>4 DEF Astronomy!StillStored
  <2>6. Astronomy!LostInOrder'
    BY <1>1, <2>4, <2>5, AdmissionParts DEF Astronomy!LostInOrder
  <2>7. Astronomy!NoRepeatedWork'
    BY <1>1, <2>4, AdmissionParts DEF Astronomy!NoRepeatedWork
  <2> QED BY <2>2, <2>3, <2>6, <2>7 DEF Astronomy!AdmissionInv
<1>2. CASE \E t \in Astronomers : \E ke \in BurstKeys : Astronomy!Arrive(t, ke)
  BY <1>2, AdmissionArrive
<1>3. CASE \E t \in Astronomers : Astronomy!Hit(t) BY <1>3, AdmissionHit
<1>4. CASE \E t \in Astronomers : Astronomy!Miss(t) BY <1>4, AdmissionMiss
<1>5. CASE \E t \in Astronomers : Astronomy!Computed(t) BY <1>5, AdmissionComputed
<1>6. CASE \E t \in Astronomers : Astronomy!Failed(t) BY <1>6, AdmissionFailed
<1>7. CASE \E t \in Astronomers : Astronomy!Finish(t) BY <1>7, AdmissionFinish
<1>8. CASE Astronomy!Tick BY <1>8, AdmissionTick
<1> QED BY <1>1, <1>2, <1>3, <1>4, <1>5, <1>6, <1>7, <1>8 DEF Astronomy!Next, Astronomy!Work

THEOREM WorkNotRepeated == MCSpec => []NoRepeatedWork
<1> DEFINE Inv == slice = "astronomy" => Astronomy!AdmissionInv
<1>1. MCInit => Inv BY AdmissionInit DEF MCInit
<1>2. Inv /\ [MCNext]_mcVars => Inv'
  <2> SUFFICES ASSUME Inv, [MCNext]_mcVars, slice' = "astronomy"
               PROVE  Astronomy!AdmissionInv'
    OBVIOUS
  <2>1. slice = "astronomy" /\ [Astronomy!Next]_<<s1, s2, s3, s4, s5, s6>>
    BY DEF MCNext, mcVars, CatalogueStep, AstronomyStep, WeatherStep
  <2> QED BY <2>1, AdmissionStep
<1>3. Inv => NoRepeatedWork BY AdmissionParts DEF NoRepeatedWork
<1> QED BY <1>1, <1>2, <1>3, PTL DEF MCSpec

(***************************************************************************)
(* The satellite catalogue.                                                *)
(***************************************************************************)
Positive == Nat \ {0}

CatalogueParts ==
  /\ Catalogue!TypeOK /\ Catalogue!Exact /\ Catalogue!Tracked /\ Catalogue!KeysTell
  /\ Catalogue!FreshOrRefused /\ Catalogue!LocksHeld /\ Catalogue!NoneOlder

LEMMA CatalogueInvParts == Catalogue!CatalogueInv <=> CatalogueParts
BY DEF Catalogue!CatalogueInv, CatalogueParts

LEMMA CatalogueLimits ==
  /\ MaxAge \in Nat /\ MaxParsed \in Nat /\ MaxParsed > 0 /\ DOMAIN GroupStripe = Groups
  /\ None \notin Catalogue!Files /\ None \notin Catalogue!Payloads /\ None \notin Nat \X Groups
  /\ \A s \in Requested : s \in Seq(Groups) /\ s # <<>>
BY CatalogueAssumption DEF Catalogue!CatalogueAssumption

\* What stays as it is when none of this changes.
LEMMA CatalogueFrame ==
  ASSUME CatalogueParts, UNCHANGED <<s1, s2, s3, s4, s5, s6, s7, s9, s10, s11, s12>>
  PROVE  CatalogueParts'
<1>1. Catalogue!TypeOK'
  BY DEF CatalogueParts, Catalogue!TypeOK, Catalogue!Progress, Catalogue!Gathered
<1>2. Catalogue!Exact'
  BY DEF CatalogueParts, Catalogue!Exact, Catalogue!GenerationIsContent, Catalogue!Gathered,
         Catalogue!ToSet
<1>3. Catalogue!Tracked'
  BY DEF CatalogueParts, Catalogue!Tracked, Catalogue!Gathered, Catalogue!ToSet
<1>4. Catalogue!KeysTell' BY DEF CatalogueParts, Catalogue!KeysTell
<1>5. Catalogue!FreshOrRefused'
  BY DEF CatalogueParts, Catalogue!FreshOrRefused, Catalogue!StaleOnlyIfRefused,
         Catalogue!LoadedNow, Catalogue!Gathered
<1>6. Catalogue!LocksHeld'
  BY DEF CatalogueParts, Catalogue!LocksHeld, Catalogue!LockOf, Catalogue!IsFresh
<1>7. Catalogue!NoneOlder'
  BY DEF CatalogueParts, Catalogue!NoneOlder, Catalogue!LoadedNow, Catalogue!Between,
         Catalogue!Gathered
<1> QED BY <1>1, <1>2, <1>3, <1>4, <1>5, <1>6, <1>7 DEF CatalogueParts

LEMMA CatalogueInit == Catalogue!Init => CatalogueParts
<1> SUFFICES ASSUME Catalogue!Init PROVE CatalogueParts
  OBVIOUS
<1>1. /\ s1 = 0 /\ s2 = [x \in Groups |-> None] /\ s3 = <<>> /\ s4 = [x \in Groups |-> None]
      /\ s5 = None /\ s6 = None /\ s7 = [x \in Catalogue!LockedStripes |-> None]
      /\ DOMAIN s9 = {} /\ s10 = None /\ s11 = 0 /\ s12 = [x \in Groups |-> 0]
  BY DEF Catalogue!Init, Catalogue!NoneOf
<1>2. Catalogue!TypeOK BY <1>1, EmptySeq DEF Catalogue!TypeOK
<1>3. Catalogue!Exact
  BY <1>1 DEF Catalogue!Exact, Catalogue!GenerationIsContent, Catalogue!ToSet
<1>4. Catalogue!Tracked /\ Catalogue!KeysTell
  BY <1>1 DEF Catalogue!Tracked, Catalogue!KeysTell
<1>5. Catalogue!FreshOrRefused /\ Catalogue!LocksHeld
  BY <1>1 DEF Catalogue!FreshOrRefused, Catalogue!StaleOnlyIfRefused, Catalogue!LocksHeld
<1>6. Catalogue!NoneOlder BY <1>1 DEF Catalogue!NoneOlder
<1> QED BY <1>2, <1>3, <1>4, <1>5, <1>6 DEF CatalogueParts

LEMMA TaskType ==
  ASSUME Catalogue!TypeOK, NEW t \in DOMAIN s9
  PROVE  /\ t \in Nat \X Groups /\ s9[t].group = t[2] /\ s9[t].group \in Groups /\ t[1] \in Nat
         /\ s9[t].phase \notin {"loaded", "unavailable", "oserror"} => s9[t] \in Catalogue!Unfinished
         /\ s9[t].phase = "loaded" => s9[t] \in Catalogue!Loaded
<1>1. /\ t \in (1..s11) \X Groups /\ s9[t].group = t[2] /\ s11 \in Nat
      /\ s9[t] \in Catalogue!Unfinished \/ s9[t] \in Catalogue!Loaded \/ s9[t] \in Catalogue!Failed
  BY DEF Catalogue!TypeOK
<1>2. t \in Nat \X Groups /\ s9[t].group \in Groups /\ t[1] \in Nat BY <1>1
<1>3. s9[t] \in Catalogue!Unfinished =>
        s9[t].phase \in {"queued", "locking", "probing", "downloading", "mirroring", "writing"}
  BY DEF Catalogue!Unfinished
<1>4. s9[t] \in Catalogue!Loaded => s9[t].phase = "loaded" BY DEF Catalogue!Loaded
<1>5. s9[t] \in Catalogue!Failed => s9[t].phase \in {"unavailable", "oserror"} BY DEF Catalogue!Failed
<1> QED BY <1>1, <1>2, <1>3, <1>4, <1>5

\* A task goes on: what is left to show is about the locks.
LEMMA TaskMoves ==
  ASSUME CatalogueParts, NEW t \in DOMAIN s9, NEW x \in Catalogue!Unfinished,
         x.group = s9[t].group, s9' = [s9 EXCEPT ![t] = x],
         UNCHANGED <<s1, s2, s3, s4, s5, s6, s10, s11, s12>>,
         DOMAIN s7' = Catalogue!LockedStripes, Catalogue!LocksHeld'
  PROVE  CatalogueParts'
<1>1. /\ DOMAIN s9' = DOMAIN s9
      /\ \A u \in DOMAIN s9 : (u = t /\ s9'[u] = x) \/ (u # t /\ s9'[u] = s9[u])
  OBVIOUS
<1>2. x.phase # "loaded" BY DEF Catalogue!Unfinished
<1>3. Catalogue!TypeOK'
  <2>1. \A u \in DOMAIN s9' :
          /\ u \in (1..s11) \X Groups
          /\ s9'[u] \in Catalogue!Unfinished \cup Catalogue!Loaded \cup Catalogue!Failed
          /\ s9'[u].group = u[2]
    BY <1>1 DEF CatalogueParts, Catalogue!TypeOK
  <2> QED BY <2>1 DEF CatalogueParts, Catalogue!TypeOK, Catalogue!Progress, Catalogue!Gathered
<1>4. \A u \in DOMAIN s9' : s9'[u].phase = "loaded" => u \in DOMAIN s9 /\ s9'[u] = s9[u]
  BY <1>1, <1>2
<1>5. Catalogue!Exact'
  BY <1>4 DEF CatalogueParts, Catalogue!Exact, Catalogue!GenerationIsContent, Catalogue!Gathered,
         Catalogue!ToSet
<1>6. Catalogue!Tracked'
  BY <1>1 DEF CatalogueParts, Catalogue!Tracked, Catalogue!Gathered, Catalogue!ToSet
<1>7. Catalogue!KeysTell' BY DEF CatalogueParts, Catalogue!KeysTell
<1>8. Catalogue!FreshOrRefused'
  BY <1>4 DEF CatalogueParts, Catalogue!FreshOrRefused, Catalogue!StaleOnlyIfRefused,
         Catalogue!LoadedNow, Catalogue!Gathered
<1>9. Catalogue!NoneOlder'
  BY <1>4 DEF CatalogueParts, Catalogue!NoneOlder, Catalogue!LoadedNow, Catalogue!Between,
              Catalogue!Gathered
<1> QED BY <1>3, <1>5, <1>6, <1>7, <1>8, <1>9 DEF CatalogueParts

\* One task at a time works on a file.
LEMMA OneAtWork ==
  ASSUME CatalogueParts, NEW t \in DOMAIN s9, NEW u \in DOMAIN s9, t # u,
         s9[t].phase \in {"probing", "downloading", "mirroring", "writing"},
         s9[u].phase \in {"probing", "downloading", "mirroring", "writing"}
  PROVE  s9[t].group # s9[u].group /\ Catalogue!LockOf(t) # Catalogue!LockOf(u)
BY DEF CatalogueParts, Catalogue!LocksHeld, Catalogue!LockOf

LEMMA CatalogueTaskMoves ==
  ASSUME CatalogueParts, NEW t \in DOMAIN s9, NEW x \in Catalogue!Unfinished, x.group = s9[t].group,
         s9' = [s9 EXCEPT ![t] = x], UNCHANGED <<s1, s2, s3, s4, s5, s6, s7, s10, s11, s12>>,
         x.phase \in {"probing", "downloading", "mirroring", "writing"} => s7[Catalogue!LockOf(t)] = t,
         x.phase \in {"downloading", "mirroring", "writing"} => ~Catalogue!IsFresh(s9[t].group)
  PROVE  CatalogueParts'
<1>1. \A u \in DOMAIN s9 : (u = t /\ s9'[u] = x) \/ (u # t /\ s9'[u] = s9[u])
  OBVIOUS
<1>2. \A u \in DOMAIN s9 : Catalogue!LockOf(u)' = Catalogue!LockOf(u)
  BY <1>1 DEF Catalogue!LockOf
<1>3. Catalogue!LocksHeld'
  <2> SUFFICES ASSUME NEW u \in DOMAIN s9
               PROVE  /\ s9'[u].phase \in {"probing", "downloading", "mirroring", "writing"} =>
                           s7[Catalogue!LockOf(u)] = u
                      /\ s9'[u].phase \in {"downloading", "mirroring", "writing"} =>
                           ~Catalogue!IsFresh(s9[u].group)
    BY <1>1, <1>2 DEF Catalogue!LocksHeld, Catalogue!IsFresh
  <2>1. CASE u = t BY <1>1, <2>1
  <2>2. CASE u # t BY <1>1, <2>2 DEF CatalogueParts, Catalogue!LocksHeld
  <2> QED BY <2>1, <2>2
<1>4. DOMAIN s7' = Catalogue!LockedStripes BY DEF CatalogueParts, Catalogue!TypeOK
<1> QED BY <1>3, <1>4, TaskMoves

ExactEntries == {x \in Catalogue!Entries : x.gen = x.content}

LEMMA ParsedExact ==
  ASSUME CatalogueParts
  PROVE  s3 \in Seq(ExactEntries)
<1>1. s3 \in Seq(Catalogue!Entries) BY DEF CatalogueParts, Catalogue!TypeOK
<1>2. Len(s3) \in Nat /\ DOMAIN s3 = 1 .. Len(s3) /\ s3 = [n \in 1 .. Len(s3) |-> s3[n]]
  BY <1>1, LenProperties
<1>3. \A n \in 1 .. Len(s3) : s3[n] \in ExactEntries
  <2> SUFFICES ASSUME NEW n \in 1 .. Len(s3) PROVE s3[n] \in ExactEntries
    OBVIOUS
  <2>1. s3[n] \in Catalogue!Entries BY <1>1, <1>2, ElementOfSeq
  <2>2. s3[n] \in Catalogue!ToSet(s3) BY <1>2 DEF Catalogue!ToSet
  <2> QED BY <2>1, <2>2 DEF CatalogueParts, Catalogue!Exact, Catalogue!GenerationIsContent, ExactEntries
<1> HIDE DEF ExactEntries
<1>4. [n \in 1 .. Len(s3) |-> s3[n]] \in Seq(ExactEntries) BY <1>2, <1>3
<1> QED BY <1>2, <1>4

LEMMA RememberedExact ==
  ASSUME CatalogueParts, NEW gr \in Groups, NEW n \in Positive
  PROVE  /\ Catalogue!Remembered(gr, n, n) \in Seq(Catalogue!Entries)
         /\ \A x \in Catalogue!ToSet(Catalogue!Remembered(gr, n, n)) : x.gen = x.content
<1> DEFINE w == Catalogue!Without(gr)
           x == [group |-> gr, gen |-> n, content |-> n]
           v == Append(w, x)
           u == Catalogue!Remembered(gr, n, n)
<1>1. s3 \in Seq(ExactEntries) BY ParsedExact
<1>2. w \in Seq(ExactEntries)
  <2>1. CASE Catalogue!Places(gr) = {} BY <1>1, <2>1 DEF Catalogue!Without
  <2>2. CASE Catalogue!Places(gr) # {}
    <3>1. PICK p \in DOMAIN s3 : w = Catalogue!RemoveAt(s3, p)
      BY <2>2 DEF Catalogue!Without, Catalogue!Places
    <3>2. Catalogue!RemoveAt(s3, p) = Astronomy!RemoveAt(s3, p)
      BY DEF Catalogue!RemoveAt, Astronomy!RemoveAt
    <3> QED BY <1>1, <3>1, <3>2, RemovedAt
  <2> QED BY <2>1, <2>2
<1>3. x \in ExactEntries BY DEF ExactEntries, Catalogue!Entries, Positive
<1>4. u = SubSeq(v, Len(v) - Catalogue!Min({Len(v), MaxParsed}) + 1, Len(v))
  BY DEF Catalogue!Remembered
<1> HIDE DEF w, x
<1>5. /\ v \in Seq(ExactEntries) /\ Len(v) = Len(w) + 1 /\ Len(v) \in Nat
      /\ \A m \in 1 .. Len(v) : v[m] \in ExactEntries
  <2>1. v \in Seq(ExactEntries) /\ Len(v) = Len(w) + 1 BY <1>2, <1>3, AppendProperties
  <2> QED BY <2>1, LenProperties, ElementOfSeq
<1> HIDE DEF v
<1>6. PICK least \in Nat : least = Catalogue!Min({Len(v), MaxParsed}) /\ least <= Len(v)
  <2> DEFINE least == Catalogue!Min({Len(v), MaxParsed})
  <2>1. \E y \in {Len(v), MaxParsed} : \A z \in {Len(v), MaxParsed} : y <= z
    BY <1>5, CatalogueLimits
  <2>2. least \in {Len(v), MaxParsed} /\ \A z \in {Len(v), MaxParsed} : least <= z
    BY <2>1 DEF Catalogue!Min
  <2> HIDE DEF least
  <2>3. least \in Nat /\ least <= Len(v) BY <1>5, <2>2, CatalogueLimits
  <2> QED BY <2>3 DEF least
<1>7. PICK first \in Int : first = Len(v) - least + 1 /\ first >= 1 BY <1>5, <1>6
<1>8. u \in Seq(ExactEntries)
  <2>1. u = SubSeq(v, first, Len(v)) BY <1>4, <1>6, <1>7
  <2>2. \A m \in first .. Len(v) : v[m] \in ExactEntries BY <1>5, <1>7
  <2>3. Len(v) \in Int BY <1>5
  <2> QED BY <1>7, <2>1, <2>2, <2>3, SubSeqProperties
<1> HIDE DEF u
<1>9. /\ Len(u) \in Nat /\ DOMAIN u = 1 .. Len(u) /\ u = [m \in 1 .. Len(u) |-> u[m]]
      /\ \A m \in 1 .. Len(u) : u[m] \in ExactEntries
  BY <1>8, LenProperties, ElementOfSeq
<1>10. \A y \in Catalogue!ToSet(u) : y \in ExactEntries
  BY <1>9 DEF Catalogue!ToSet
<1>11. u \in Seq(Catalogue!Entries)
  <2>1. \A m \in 1 .. Len(u) : u[m] \in Catalogue!Entries BY <1>9 DEF ExactEntries
  <2>2. [m \in 1 .. Len(u) |-> u[m]] \in Seq(Catalogue!Entries) BY <1>9, <2>1
  <2> QED BY <1>9, <2>2
<1> QED BY <1>10, <1>11 DEF u, ExactEntries

\* How the tasks look after one has ended with x.
LEMMA TasksAfterEnd ==
  ASSUME NEW t \in DOMAIN s9, NEW ph, NEW pa, NEW re, Catalogue!End(t, ph, pa, re)
  PROVE  LET x == [group |-> s9[t].group, phase |-> ph, payload |-> pa, refused |-> re]
         IN  /\ s7' = [s7 EXCEPT ![Catalogue!LockOf(t)] = None]
             /\ \A u \in DOMAIN s9' :
                  \/ u # t /\ u \in DOMAIN s9 /\ s9'[u] = s9[u]
                  \/ u = t /\ s9'[u] = x /\ Catalogue!Awaited(t)
             /\ \A u \in DOMAIN s9 : u \in DOMAIN s9' \/ (u = t /\ ~Catalogue!Awaited(t))
<1>1. CASE Catalogue!Awaited(t)
  BY <1>1 DEF Catalogue!End, Catalogue!Unlocked
<1>2. CASE ~Catalogue!Awaited(t)
  BY <1>2 DEF Catalogue!End, Catalogue!Unlocked
<1> QED BY <1>1, <1>2

LEMMA TaskEnds ==
  ASSUME CatalogueParts, NEW t \in DOMAIN s9, NEW ph, NEW pa, NEW re \in BOOLEAN,
         s9[t].phase \in {"probing", "downloading", "mirroring", "writing"},
         Catalogue!End(t, ph, pa, re), UNCHANGED <<s1, s4, s5, s6, s10, s11, s12>>,
         (ph = "loaded" /\ pa \in Catalogue!Payloads) \/ (ph \in {"unavailable", "oserror"} /\ pa = None),
         s3' \in Seq(Catalogue!Entries), \A x \in Catalogue!ToSet(s3') : x.gen = x.content,
         s2' \in [Groups -> {None} \cup Catalogue!Files],
         \A x \in Groups : x # s9[t].group => s2'[x] = s2[x],
         \A x \in Groups : s2[x] # None => s2'[x] # None /\ s2[x].gen <= s2'[x].gen,
         ph = "loaded" =>
           /\ pa.gen = pa.content
           /\ Catalogue!Awaited(t) => re \/ s10.begun <= pa.at + MaxAge
           /\ s2'[s9[t].group] # None /\ pa.gen <= s2'[s9[t].group].gen
           /\ s12[s9[t].group] <= pa.gen
  PROVE  CatalogueParts'
<1> DEFINE x == [group |-> s9[t].group, phase |-> ph, payload |-> pa, refused |-> re]
           gr == s9[t].group
<1>1. /\ s7' = [s7 EXCEPT ![Catalogue!LockOf(t)] = None]
      /\ \A u \in DOMAIN s9' : \/ u # t /\ u \in DOMAIN s9 /\ s9'[u] = s9[u]
                               \/ u = t /\ s9'[u] = x /\ Catalogue!Awaited(t)
      /\ \A u \in DOMAIN s9 : u \in DOMAIN s9' \/ (u = t /\ ~Catalogue!Awaited(t))
  BY TasksAfterEnd
<1>2. gr \in Groups /\ t \in (1..s11) \X Groups /\ gr = t[2]
  BY TaskType DEF CatalogueParts, Catalogue!TypeOK
<1>3. /\ x \in Catalogue!Loaded \cup Catalogue!Failed /\ x.group = gr /\ x.phase = ph
      /\ x.payload = pa /\ x.refused = re
  BY <1>2 DEF Catalogue!Loaded, Catalogue!Failed
<1> HIDE DEF x, gr
<1>4. Catalogue!TypeOK'
  <2>1. \A u \in DOMAIN s9' :
          /\ u \in (1..s11) \X Groups
          /\ s9'[u] \in Catalogue!Unfinished \cup Catalogue!Loaded \cup Catalogue!Failed
          /\ s9'[u].group = u[2]
    BY <1>1, <1>2, <1>3 DEF CatalogueParts, Catalogue!TypeOK
  <2>2. DOMAIN s7' = Catalogue!LockedStripes BY <1>1 DEF CatalogueParts, Catalogue!TypeOK
  <2> QED BY <2>1, <2>2 DEF CatalogueParts, Catalogue!TypeOK, Catalogue!Progress, Catalogue!Gathered
<1>5. Catalogue!Exact'
  <2>1. \A u \in DOMAIN s9' : s9'[u].phase = "loaded" => s9'[u].payload.gen = s9'[u].payload.content
    BY <1>1, <1>3 DEF CatalogueParts, Catalogue!Exact
  <2>2. Catalogue!GenerationIsContent'
    BY DEF CatalogueParts, Catalogue!Exact, Catalogue!GenerationIsContent, Catalogue!ToSet
  <2> QED BY <2>1, <2>2 DEF CatalogueParts, Catalogue!Exact, Catalogue!Gathered
<1>6. Catalogue!Tracked'
  <2> SUFFICES ASSUME s10 # None
               PROVE  /\ \A y \in s10.pending : <<s11, y>> \in DOMAIN s9'
                      /\ \A u \in DOMAIN s9' : u[1] = s11 => u[2] \in s10.pending
    BY DEF CatalogueParts, Catalogue!Tracked, Catalogue!Gathered, Catalogue!ToSet
  <2>1. \A y \in s10.pending : <<s11, y>> \in DOMAIN s9' \/ (<<s11, y>> = t /\ ~Catalogue!Awaited(t))
    BY <1>1 DEF CatalogueParts, Catalogue!Tracked
  <2>2. \A y : <<s11, y>> = t => Catalogue!Awaited(t) BY DEF Catalogue!Awaited
  <2>3. \A u \in DOMAIN s9' : u \in DOMAIN s9 BY <1>1
  <2> QED BY <2>1, <2>2, <2>3 DEF CatalogueParts, Catalogue!Tracked
<1>7. Catalogue!KeysTell' BY DEF CatalogueParts, Catalogue!KeysTell
<1>8. \A u \in DOMAIN s9' : Catalogue!LoadedNow(u)' =>
        \/ u \in DOMAIN s9 /\ u # t /\ s9'[u] = s9[u] /\ Catalogue!LoadedNow(u)
        \/ u = t /\ s9'[u] = x /\ Catalogue!Awaited(t) /\ ph = "loaded"
  BY <1>1, <1>3 DEF Catalogue!LoadedNow
<1>9. Catalogue!FreshOrRefused'
  <2>1. \A u \in DOMAIN s9' :
          Catalogue!LoadedNow(u)' => s9'[u].refused \/ s10.begun <= s9'[u].payload.at + MaxAge
    BY <1>3, <1>8 DEF CatalogueParts, Catalogue!FreshOrRefused
  <2> QED BY <2>1 DEF CatalogueParts, Catalogue!FreshOrRefused, Catalogue!StaleOnlyIfRefused,
                      Catalogue!Gathered
<1>10. Catalogue!LocksHeld'
  <2> SUFFICES ASSUME NEW u \in DOMAIN s9'
               PROVE  /\ s9'[u].phase \in {"probing", "downloading", "mirroring", "writing"} =>
                           s7'[GroupStripe[s9'[u].group]] = u
                      /\ s9'[u].phase \in {"downloading", "mirroring", "writing"} =>
                           ~(s2'[s9'[u].group] # None /\ s1 <= s2'[s9'[u].group].at + MaxAge)
    BY DEF Catalogue!LocksHeld, Catalogue!LockOf, Catalogue!IsFresh
  <2>1. CASE s9'[u].phase \in {"probing", "downloading", "mirroring", "writing"}
    <3>1. u # t /\ u \in DOMAIN s9 /\ s9'[u] = s9[u] BY <1>1, <1>3, <2>1
    <3>2. s9[u].group # gr /\ Catalogue!LockOf(u) # Catalogue!LockOf(t)
      BY <2>1, <3>1, OneAtWork DEF gr
    <3>3. s9[u].group \in Groups BY <3>1, TaskType DEF CatalogueParts
    <3>4. s2'[s9[u].group] = s2[s9[u].group] BY <3>2, <3>3 DEF gr
    <3>5. s7'[Catalogue!LockOf(u)] = s7[Catalogue!LockOf(u)] BY <1>1, <3>2
    <3>6. /\ s7[Catalogue!LockOf(u)] = u
          /\ s9[u].phase \in {"downloading", "mirroring", "writing"} => ~Catalogue!IsFresh(s9[u].group)
      BY <2>1, <3>1 DEF CatalogueParts, Catalogue!LocksHeld
    <3> QED BY <3>1, <3>4, <3>5, <3>6 DEF Catalogue!LockOf, Catalogue!IsFresh
  <2> QED BY <2>1
<1>11. Catalogue!NoneOlder'
  <2>1. \A y \in Groups : \A n \in Nat : Catalogue!Between(y, n) => s2'[y] # None /\ s12[y] <= n /\ n <= s2'[y].gen
    <3> SUFFICES ASSUME NEW y \in Groups, NEW n \in Nat, Catalogue!Between(y, n)
                 PROVE  s2'[y] # None /\ s12[y] <= n /\ n <= s2'[y].gen
      OBVIOUS
    <3>1. s2[y] \in Catalogue!Files /\ s2'[y] \in Catalogue!Files /\ s2[y].gen <= s2'[y].gen
      BY DEF CatalogueParts, Catalogue!TypeOK, Catalogue!Between
    <3>2. s2[y].gen \in Nat /\ s2'[y].gen \in Nat BY <3>1 DEF Catalogue!Files
    <3>3. s2'[y] # None /\ s12[y] <= n /\ n <= s2[y].gen BY DEF Catalogue!Between
    <3> QED BY <3>1, <3>2, <3>3
  <2>2. \A y \in Groups : s12[y] \in Nat BY DEF CatalogueParts, Catalogue!TypeOK
  <2>3. \A y \in Groups : s4[y] # None => s4[y].gen \in Nat
    BY DEF CatalogueParts, Catalogue!TypeOK, Catalogue!Payloads
  <2>4. \A y \in Groups : s12[y] > 0 => s2'[y] # None /\ s12[y] <= s12[y] /\ s12[y] <= s2'[y].gen
    BY <2>1, <2>2 DEF CatalogueParts, Catalogue!NoneOlder
  <2>5. \A y \in Groups : s4[y] # None => s2'[y] # None /\ s12[y] <= s4[y].gen /\ s4[y].gen <= s2'[y].gen
    BY <2>1, <2>3 DEF CatalogueParts, Catalogue!NoneOlder
  <2>6. ASSUME NEW u \in DOMAIN s9', Catalogue!LoadedNow(u)'
        PROVE  /\ s2'[s9'[u].group] # None /\ s12[s9'[u].group] <= s9'[u].payload.gen
               /\ s9'[u].payload.gen <= s2'[s9'[u].group].gen
    <3>1. CASE u = t /\ s9'[u] = x /\ ph = "loaded" BY <1>3, <3>1 DEF gr
    <3>2. CASE u \in DOMAIN s9 /\ u # t /\ s9'[u] = s9[u] /\ Catalogue!LoadedNow(u)
      <4>1. s9[u].group \in Groups /\ s9[u].payload.gen \in Nat
        BY <3>2, TaskType DEF CatalogueParts, Catalogue!LoadedNow, Catalogue!Loaded, Catalogue!Payloads
      <4>2. Catalogue!Between(s9[u].group, s9[u].payload.gen)
        BY <3>2 DEF CatalogueParts, Catalogue!NoneOlder
      <4> QED BY <2>1, <3>2, <4>1, <4>2
    <3> QED BY <1>8, <2>6, <3>1, <3>2
  <2>10. s10 # None => \A y \in Catalogue!Gathered :
           /\ s2'[y] # None /\ s12[y] <= s10.payload[y].gen /\ s10.payload[y].gen <= s2'[y].gen
    <3> SUFFICES ASSUME s10 # None, NEW y \in Catalogue!Gathered
                 PROVE  /\ s2'[y] # None /\ s12[y] <= s10.payload[y].gen
                        /\ s10.payload[y].gen <= s2'[y].gen
      OBVIOUS
    <3>1. y \in Groups /\ s10.payload[y] \in Catalogue!Payloads
      BY DEF CatalogueParts, Catalogue!TypeOK, Catalogue!Progress, Catalogue!Gathered
    <3>2. s10.payload[y].gen \in Nat BY <3>1 DEF Catalogue!Payloads
    <3>3. Catalogue!Between(y, s10.payload[y].gen) BY DEF CatalogueParts, Catalogue!NoneOlder
    <3> QED BY <2>1, <3>1, <3>2, <3>3
  <2>11. s10' # None =>
           \A y \in Catalogue!Gathered' : Catalogue!Between(y, s10.payload[y].gen)'
    BY <2>10 DEF Catalogue!Between, Catalogue!Gathered
  <2>7. \A y \in Groups : s12[y] > 0 => Catalogue!Between(y, s12[y])'
    BY <2>4 DEF Catalogue!Between
  <2>8. \A y \in Groups : s4'[y] # None => Catalogue!Between(y, s4[y].gen)'
    BY <2>5 DEF Catalogue!Between
  <2>9. \A u \in DOMAIN s9' : Catalogue!LoadedNow(u)' => Catalogue!Between(s9[u].group, s9[u].payload.gen)'
    BY <2>6 DEF Catalogue!Between
  <2> QED BY <2>7, <2>8, <2>9, <2>11 DEF Catalogue!NoneOlder
<1> QED BY <1>4, <1>5, <1>6, <1>7, <1>9, <1>10, <1>11 DEF CatalogueParts

LEMMA FileType ==
  ASSUME CatalogueParts, NEW gr \in Groups, s2[gr] # None
  PROVE  /\ s2[gr] \in Catalogue!Files /\ s2[gr].gen \in Positive /\ s2[gr].at \in Nat
         /\ s2[gr].readable \in BOOLEAN /\ s12[gr] \in Nat /\ s12[gr] <= s2[gr].gen /\ s1 \in Nat
<1>1. /\ s2[gr] \in Catalogue!Files /\ s2[gr].gen \in Positive /\ s2[gr].at \in Nat
      /\ s2[gr].readable \in BOOLEAN /\ s12[gr] \in Nat /\ s1 \in Nat
  BY DEF CatalogueParts, Catalogue!TypeOK, Catalogue!Files, Positive
<1>2. CASE s12[gr] > 0
  <2>1. Catalogue!Between(gr, s12[gr]) BY <1>2 DEF CatalogueParts, Catalogue!NoneOlder
  <2> QED BY <1>1, <2>1 DEF Catalogue!Between
<1>3. CASE s12[gr] = 0 BY <1>1, <1>3 DEF Positive
<1> QED BY <1>1, <1>2, <1>3

LEMMA CatalogueRead ==
  ASSUME CatalogueParts, NEW t \in DOMAIN s9, NEW re \in BOOLEAN,
         s9[t].phase \in {"probing", "downloading", "mirroring", "writing"},
         s2[s9[t].group] # None, re \/ Catalogue!IsFresh(s9[t].group),
         Catalogue!Read(t, re), UNCHANGED <<s1, s2, s4, s5, s6, s10, s11, s12>>
  PROVE  CatalogueParts'
<1> DEFINE gr == s9[t].group
           pa == Catalogue!Payload(gr, s2[gr].gen)
<1>1. gr \in Groups BY TaskType DEF CatalogueParts
<1>2. /\ s2[gr] \in Catalogue!Files /\ s2[gr].gen \in Positive /\ s2[gr].at \in Nat
      /\ s12[gr] \in Nat /\ s12[gr] <= s2[gr].gen /\ s1 \in Nat
  BY <1>1, FileType
<1>3. /\ s2' \in [Groups -> {None} \cup Catalogue!Files]
      /\ \A x \in Groups : x # gr => s2'[x] = s2[x]
      /\ \A x \in Groups : s2[x] # None => s2'[x] # None /\ s2[x].gen <= s2'[x].gen
  <2>1. \A x \in Groups : s2[x] # None => s2[x].gen <= s2[x].gen
    <3> SUFFICES ASSUME NEW x \in Groups, s2[x] # None PROVE s2[x].gen <= s2[x].gen
      OBVIOUS
    <3>1. s2[x].gen \in Nat BY FileType DEF Positive
    <3> QED BY <3>1
  <2> QED BY <2>1 DEF CatalogueParts, Catalogue!TypeOK
<1>4. \/ /\ s3' = Catalogue!Remembered(gr, s2[gr].gen, s2[gr].gen)
         /\ Catalogue!End(t, "loaded", pa, re)
      \/ s3' = s3 /\ Catalogue!End(t, "unavailable", None, re)
  <2>1. \A x \in Catalogue!Parsed(gr) : x.gen = s2[gr].gen /\ x.content = s2[gr].gen
    BY DEF Catalogue!Parsed, CatalogueParts, Catalogue!Exact, Catalogue!GenerationIsContent
  <2> QED BY <2>1 DEF Catalogue!Read
<1>5. CASE s3' = Catalogue!Remembered(gr, s2[gr].gen, s2[gr].gen) /\ Catalogue!End(t, "loaded", pa, re)
  <2>1. /\ s3' \in Seq(Catalogue!Entries) /\ \A x \in Catalogue!ToSet(s3') : x.gen = x.content
    BY <1>1, <1>2, <1>5, RememberedExact
  <2>2. /\ pa \in Catalogue!Payloads /\ pa.gen = s2[gr].gen /\ pa.content = s2[gr].gen
        /\ pa.at = s2[gr].at
    BY <1>2 DEF Catalogue!Payload, Catalogue!Payloads, Positive
  <2>3. Catalogue!Awaited(t) => re \/ s10.begun <= pa.at + MaxAge
    <3> SUFFICES ASSUME s10 # None, Catalogue!IsFresh(gr) PROVE s10.begun <= pa.at + MaxAge
      BY DEF Catalogue!Awaited
    <3>1. s10.begun \in Nat /\ s10.begun <= s1
      BY DEF CatalogueParts, Catalogue!TypeOK, Catalogue!Progress, Catalogue!FreshOrRefused
    <3>2. s1 <= s2[gr].at + MaxAge BY DEF Catalogue!IsFresh
    <3> QED BY <1>2, <2>2, <3>1, <3>2, CatalogueLimits
  <2>4. s2'[gr] # None /\ pa.gen <= s2'[gr].gen BY <1>2, <2>2 DEF Positive
  <2> HIDE DEF pa
  <2> QED BY <1>2, <1>3, <1>5, <2>1, <2>2, <2>3, <2>4, TaskEnds
<1>6. CASE s3' = s3 /\ Catalogue!End(t, "unavailable", None, re)
  <2>1. /\ s3' \in Seq(Catalogue!Entries) /\ \A x \in Catalogue!ToSet(s3') : x.gen = x.content
    BY <1>6 DEF CatalogueParts, Catalogue!TypeOK, Catalogue!Exact, Catalogue!GenerationIsContent
  <2> QED BY <1>3, <1>6, <2>1, TaskEnds
<1> QED BY <1>4, <1>5, <1>6

\* A task that fails leaves everything else as it is.
LEMMA CatalogueFails ==
  ASSUME CatalogueParts, NEW t \in DOMAIN s9, NEW ph \in {"unavailable", "oserror"}, NEW re \in BOOLEAN,
         s9[t].phase \in {"probing", "downloading", "mirroring", "writing"},
         Catalogue!End(t, ph, None, re), UNCHANGED <<s1, s2, s3, s4, s5, s6, s10, s11, s12>>
  PROVE  CatalogueParts'
<1>1. /\ s3' \in Seq(Catalogue!Entries) /\ \A x \in Catalogue!ToSet(s3') : x.gen = x.content
  BY DEF CatalogueParts, Catalogue!TypeOK, Catalogue!Exact, Catalogue!GenerationIsContent
<1>2. /\ s2' \in [Groups -> {None} \cup Catalogue!Files]
      /\ \A x \in Groups : s2'[x] = s2[x]
  BY DEF CatalogueParts, Catalogue!TypeOK
<1>3. \A x \in Groups : s2[x] # None => s2[x].gen <= s2[x].gen
  <2> SUFFICES ASSUME NEW x \in Groups, s2[x] # None PROVE s2[x].gen <= s2[x].gen
    OBVIOUS
  <2>1. s2[x].gen \in Nat BY FileType DEF Positive
  <2> QED BY <2>1
<1> QED BY <1>1, <1>2, <1>3, TaskEnds

LEMMA CatalogueStart ==
  ASSUME CatalogueParts, Catalogue!Start
  PROVE  CatalogueParts'
<1> DEFINE t == Head(s8)
           x == [group |-> s9[t].group, phase |-> "locking"]
<1>1. s9' = [s9 EXCEPT ![t] = x] /\ UNCHANGED <<s1, s2, s3, s4, s5, s6, s7, s10, s11, s12>>
  BY DEF Catalogue!Start, Catalogue!memory
<1>2. CASE t \in DOMAIN s9
  <2>1. s9[t].group \in Groups BY <1>2, TaskType DEF CatalogueParts
  <2>2. x \in Catalogue!Unfinished /\ x.group = s9[t].group /\ x.phase = "locking"
    BY <2>1 DEF Catalogue!Unfinished
  <2> HIDE DEF t, x
  <2> QED BY <1>1, <1>2, <2>2, CatalogueTaskMoves
<1>3. CASE t \notin DOMAIN s9
  <2>1. \A u \in DOMAIN s9 : s9'[u] = s9[u] BY <1>1, <1>3
  <2>2. DOMAIN s9' = DOMAIN s9 BY <1>1
  <2> HIDE DEF t, x
  <2>3. Catalogue!TypeOK'
    BY <1>1, <2>1, <2>2 DEF CatalogueParts, Catalogue!TypeOK, Catalogue!Progress, Catalogue!Gathered
  <2>4. Catalogue!Exact' /\ Catalogue!Tracked'
    BY <1>1, <2>1, <2>2 DEF CatalogueParts, Catalogue!Exact, Catalogue!GenerationIsContent,
         Catalogue!Gathered, Catalogue!ToSet, Catalogue!Tracked
  <2>5. Catalogue!KeysTell' BY <1>1 DEF CatalogueParts, Catalogue!KeysTell
  <2>6. Catalogue!FreshOrRefused'
    BY <1>1, <2>1, <2>2 DEF CatalogueParts, Catalogue!FreshOrRefused, Catalogue!StaleOnlyIfRefused,
         Catalogue!LoadedNow, Catalogue!Gathered
  <2>7. Catalogue!LocksHeld'
    BY <1>1, <2>1, <2>2 DEF CatalogueParts, Catalogue!LocksHeld, Catalogue!LockOf, Catalogue!IsFresh
  <2>8. Catalogue!NoneOlder'
    BY <1>1, <2>1, <2>2 DEF CatalogueParts, Catalogue!NoneOlder, Catalogue!LoadedNow,
         Catalogue!Between, Catalogue!Gathered
  <2> QED BY <2>3, <2>4, <2>5, <2>6, <2>7, <2>8 DEF CatalogueParts
<1> QED BY <1>2, <1>3

\* The phase of a task that is not over changes.
LEMMA PhaseChanges ==
  ASSUME CatalogueParts, NEW t \in DOMAIN s9, s9[t].phase \notin {"loaded", "unavailable", "oserror"},
         NEW ph \in {"probing", "downloading", "mirroring", "writing"}
  PROVE  /\ [s9[t] EXCEPT !.phase = ph] \in Catalogue!Unfinished
         /\ [s9[t] EXCEPT !.phase = ph].group = s9[t].group
         /\ [s9[t] EXCEPT !.phase = ph].phase = ph
         /\ [s9 EXCEPT ![t].phase = ph] = [s9 EXCEPT ![t] = [s9[t] EXCEPT !.phase = ph]]
<1>1. s9[t] \in Catalogue!Unfinished BY TaskType DEF CatalogueParts
<1> QED BY <1>1 DEF Catalogue!Unfinished

LEMMA CatalogueAcquire ==
  ASSUME CatalogueParts, NEW t \in DOMAIN s9, Catalogue!Acquire(t)
  PROVE  CatalogueParts'
<1> DEFINE x == [s9[t] EXCEPT !.phase = "probing"]
<1>1. /\ s9[t].phase = "locking" /\ s7[Catalogue!LockOf(t)] = None
      /\ s7' = [s7 EXCEPT ![Catalogue!LockOf(t)] = t]
      /\ s9' = [s9 EXCEPT ![t].phase = "probing"] /\ UNCHANGED <<s1, s2, s3, s4, s5, s6, s10, s11, s12>>
  BY DEF Catalogue!Acquire, Catalogue!memory
<1>2. /\ x \in Catalogue!Unfinished /\ x.group = s9[t].group /\ x.phase = "probing"
      /\ s9' = [s9 EXCEPT ![t] = x]
  BY <1>1, PhaseChanges
<1> HIDE DEF x
<1>3. DOMAIN s7' = Catalogue!LockedStripes /\ DOMAIN s7 = Catalogue!LockedStripes
  BY <1>1 DEF CatalogueParts, Catalogue!TypeOK
<1>4. Catalogue!LockOf(t) \in DOMAIN s7
  BY <1>3, TaskType DEF CatalogueParts, Catalogue!LockOf, Catalogue!LockedStripes
<1>5. Catalogue!LocksHeld'
  <2> SUFFICES ASSUME NEW u \in DOMAIN s9
               PROVE  /\ s9'[u].phase \in {"probing", "downloading", "mirroring", "writing"} =>
                           s7'[GroupStripe[s9'[u].group]] = u
                      /\ s9'[u].phase \in {"downloading", "mirroring", "writing"} =>
                           ~(s2[s9'[u].group] # None /\ s1 <= s2[s9'[u].group].at + MaxAge)
    BY <1>1, <1>2 DEF Catalogue!LocksHeld, Catalogue!LockOf, Catalogue!IsFresh
  <2>1. CASE u = t
    <3>1. s9'[u] = x BY <1>2, <2>1
    <3>2. s7'[Catalogue!LockOf(t)] = t BY <1>1, <1>4
    <3> QED BY <1>2, <2>1, <3>1, <3>2 DEF Catalogue!LockOf
  <2>2. CASE u # t
    <3>1. s9'[u] = s9[u] BY <1>2, <2>2
    <3>2. CASE s9[u].phase \in {"probing", "downloading", "mirroring", "writing"}
      <4>1. s7[Catalogue!LockOf(u)] = u BY <3>2 DEF CatalogueParts, Catalogue!LocksHeld
      <4>2. u # None BY TaskType, CatalogueLimits DEF CatalogueParts
      <4>3. s7'[Catalogue!LockOf(u)] = u BY <1>1, <4>1, <4>2
      <4> QED BY <3>1, <3>2, <4>3 DEF CatalogueParts, Catalogue!LocksHeld, Catalogue!LockOf,
                                     Catalogue!IsFresh
    <3> QED BY <3>1, <3>2
  <2> QED BY <2>1, <2>2
<1> QED BY <1>1, <1>2, <1>3, <1>5, TaskMoves

LEMMA CatalogueProbe ==
  ASSUME CatalogueParts, NEW t \in DOMAIN s9, Catalogue!Probe(t)
  PROVE  CatalogueParts'
<1> DEFINE gr == s9[t].group
<1>1. s9[t].phase = "probing" /\ UNCHANGED <<s1, s2, s4, s5, s6, s10, s11, s12>>
  BY DEF Catalogue!Probe
<1>2. CASE Catalogue!IsFresh(gr)
  <2>1. Catalogue!Read(t, FALSE) BY <1>2 DEF Catalogue!Probe
  <2>2. s2[gr] # None BY <1>2 DEF Catalogue!IsFresh
  <2> QED BY <1>1, <1>2, <2>1, <2>2, CatalogueRead
<1>3. CASE ~Catalogue!IsFresh(gr)
  <2> DEFINE x == [s9[t] EXCEPT !.phase = "downloading"]
  <2>1. s9' = [s9 EXCEPT ![t].phase = "downloading"] /\ UNCHANGED <<s3, s7>>
    BY <1>3 DEF Catalogue!Probe
  <2>2. /\ x \in Catalogue!Unfinished /\ x.group = gr /\ x.phase = "downloading"
        /\ s9' = [s9 EXCEPT ![t] = x]
    BY <1>1, <2>1, PhaseChanges
  <2>3. s7[Catalogue!LockOf(t)] = t BY <1>1 DEF CatalogueParts, Catalogue!LocksHeld
  <2> HIDE DEF x
  <2> QED BY <1>1, <1>3, <2>1, <2>2, <2>3, CatalogueTaskMoves
<1> QED BY <1>2, <1>3

\* A download goes on under the lock.
LEMMA DownloadGoesOn ==
  ASSUME CatalogueParts, NEW t \in DOMAIN s9, s9[t].phase \in {"downloading", "mirroring"},
         NEW ph \in {"mirroring", "writing"}, s9' = [s9 EXCEPT ![t].phase = ph],
         UNCHANGED <<s1, s2, s3, s4, s5, s6, s7, s10, s11, s12>>
  PROVE  CatalogueParts'
<1> DEFINE x == [s9[t] EXCEPT !.phase = ph]
<1>1. /\ x \in Catalogue!Unfinished /\ x.group = s9[t].group /\ x.phase = ph
      /\ s9' = [s9 EXCEPT ![t] = x]
  BY PhaseChanges
<1>2. s7[Catalogue!LockOf(t)] = t /\ ~Catalogue!IsFresh(s9[t].group)
  BY DEF CatalogueParts, Catalogue!LocksHeld
<1> HIDE DEF x
<1> QED BY <1>1, <1>2, CatalogueTaskMoves

LEMMA CatalogueDownload ==
  ASSUME CatalogueParts, NEW t \in DOMAIN s9,
         Catalogue!Downloaded(t) \/ Catalogue!Refused(t) \/ Catalogue!Mirrored(t)
  PROVE  CatalogueParts'
<1>1. CASE Catalogue!Downloaded(t)
  BY <1>1, DownloadGoesOn DEF Catalogue!Downloaded, Catalogue!memory
<1>2. CASE Catalogue!Refused(t)
  <2>1. s9[t].phase = "downloading" /\ UNCHANGED <<s1, s2, s4, s5, s6, s10, s11, s12>>
    BY <1>2 DEF Catalogue!Refused
  <2>2. CASE s2[s9[t].group] # None
    <3>1. Catalogue!Read(t, TRUE) BY <1>2, <2>2 DEF Catalogue!Refused
    <3> QED BY <2>1, <2>2, <3>1, CatalogueRead
  <2>3. CASE s2[s9[t].group] = None
    <3>1. s9' = [s9 EXCEPT ![t].phase = "mirroring"] /\ UNCHANGED <<s3, s7>>
      BY <1>2, <2>3 DEF Catalogue!Refused
    <3> QED BY <2>1, <3>1, DownloadGoesOn
  <2> QED BY <2>2, <2>3
<1>3. CASE Catalogue!Mirrored(t)
  <2>1. s9[t].phase = "mirroring" /\ UNCHANGED <<s1, s2, s3, s4, s5, s6, s10, s11, s12>>
    BY <1>3 DEF Catalogue!Mirrored, Catalogue!memory
  <2>2. CASE s9' = [s9 EXCEPT ![t].phase = "writing"] /\ UNCHANGED s7
    BY <2>1, <2>2, DownloadGoesOn
  <2>3. CASE Catalogue!End(t, "unavailable", None, TRUE) BY <2>1, <2>3, CatalogueFails
  <2> QED BY <1>3, <2>2, <2>3 DEF Catalogue!Mirrored
<1> QED BY <1>1, <1>2, <1>3

LEMMA CatalogueWrite ==
  ASSUME CatalogueParts, NEW t \in DOMAIN s9, Catalogue!Write(t)
  PROVE  CatalogueParts'
<1> DEFINE gr == s9[t].group
           gen == IF s2[gr] = None THEN 1 ELSE s2[gr].gen + 1
           new == [gen |-> gen, readable |-> TRUE, at |-> s1]
           pa == [gen |-> gen, content |-> gen, at |-> s1]
<1>1. /\ s9[t].phase = "writing" /\ UNCHANGED <<s1, s4, s5, s6, s10, s11, s12>>
      /\ s2' = [s2 EXCEPT ![gr] = new] /\ s3' = Catalogue!Remembered(gr, gen, gen)
      /\ Catalogue!End(t, "loaded", pa, FALSE)
  BY DEF Catalogue!Write
<1>2. gr \in Groups /\ s1 \in Nat BY TaskType DEF CatalogueParts, Catalogue!TypeOK
<1>3. /\ gen \in Positive /\ (s2[gr] # None => s2[gr].gen \in Nat /\ s2[gr].gen <= gen)
      /\ s12[gr] \in Nat /\ s12[gr] <= gen
  <2>1. CASE s2[gr] # None
    BY <1>2, <2>1, FileType DEF Positive
  <2>2. CASE s2[gr] = None
    <3>1. s12[gr] \in Nat /\ ~(s12[gr] > 0)
      BY <1>2, <2>2 DEF CatalogueParts, Catalogue!TypeOK, Catalogue!NoneOlder, Catalogue!Between
    <3> QED BY <2>2, <3>1 DEF Positive
  <2> QED BY <2>1, <2>2
<1> HIDE DEF gen
<1>4. /\ new \in Catalogue!Files /\ new.gen = gen /\ new # None
      /\ pa \in Catalogue!Payloads /\ pa.gen = gen /\ pa.content = gen /\ pa.at = s1
  <2>1. new \in Catalogue!Files /\ new.gen = gen BY <1>2, <1>3 DEF Catalogue!Files, Positive
  <2>2. pa \in Catalogue!Payloads BY <1>2, <1>3 DEF Catalogue!Payloads, Positive
  <2>3. pa.gen = gen /\ pa.content = gen /\ pa.at = s1 OBVIOUS
  <2> HIDE DEF new, pa
  <2>4. new # None BY <2>1, CatalogueLimits
  <2> QED BY <2>1, <2>2, <2>3, <2>4
<1> HIDE DEF new, pa
<1>5. /\ s3' \in Seq(Catalogue!Entries) /\ \A x \in Catalogue!ToSet(s3') : x.gen = x.content
  BY <1>1, <1>2, <1>3, RememberedExact
<1>6. /\ s2' \in [Groups -> {None} \cup Catalogue!Files] /\ s2'[gr] = new
      /\ \A x \in Groups : x # gr => s2'[x] = s2[x]
  BY <1>1, <1>2, <1>4 DEF CatalogueParts, Catalogue!TypeOK
<1>7. \A x \in Groups : s2[x] # None => s2'[x] # None /\ s2[x].gen <= s2'[x].gen
  <2> SUFFICES ASSUME NEW x \in Groups, s2[x] # None
               PROVE  s2'[x] # None /\ s2[x].gen <= s2'[x].gen
    OBVIOUS
  <2>1. s2[x].gen \in Nat BY FileType DEF Positive
  <2> QED BY <1>3, <1>4, <1>6, <2>1
<1>8. Catalogue!Awaited(t) => s10.begun <= pa.at + MaxAge
  <2> SUFFICES ASSUME s10 # None PROVE s10.begun <= pa.at + MaxAge
    BY DEF Catalogue!Awaited
  <2>1. s10.begun \in Nat /\ s10.begun <= s1
    BY DEF CatalogueParts, Catalogue!TypeOK, Catalogue!Progress, Catalogue!FreshOrRefused
  <2> QED BY <1>2, <1>4, <2>1, CatalogueLimits
<1>9. pa.gen <= s2'[gr].gen /\ s2'[gr] # None BY <1>3, <1>4, <1>6 DEF Positive
<1> QED BY <1>1, <1>3, <1>4, <1>5, <1>6, <1>7, <1>8, <1>9, TaskEnds

LEMMA CatalogueWriteFails ==
  ASSUME CatalogueParts, NEW t \in DOMAIN s9, Catalogue!WriteFails(t)
  PROVE  CatalogueParts'
BY CatalogueFails DEF Catalogue!WriteFails, Catalogue!memory

LEMMA GroupsOfList ==
  ASSUME NEW s \in Requested
  PROVE  Catalogue!ToSet(s) \subseteq Groups
<1>1. s \in Seq(Groups) BY CatalogueLimits
<1>2. \A n \in DOMAIN s : s[n] \in Groups BY <1>1, LenProperties, ElementOfSeq
<1> QED BY <1>2 DEF Catalogue!ToSet

LEMMA ProgressType ==
  ASSUME Catalogue!TypeOK, s10 # None
  PROVE  /\ s10.list \in Requested /\ s10.begun \in Nat /\ s10.pending \subseteq Groups
         /\ s10.payload \in [Catalogue!Gathered -> Catalogue!Payloads] /\ s10.refused \subseteq Groups
         /\ Catalogue!Gathered = DOMAIN s10.payload /\ Catalogue!Gathered \subseteq Groups
         /\ s10 = [list |-> s10.list, begun |-> s10.begun, pending |-> s10.pending,
                 payload |-> s10.payload, refused |-> s10.refused]
BY DEF Catalogue!TypeOK, Catalogue!Progress, Catalogue!Gathered

LEMMA CatalogueEnter ==
  ASSUME CatalogueParts, NEW s \in Requested, Catalogue!Enter(s)
  PROVE  CatalogueParts'
<1> DEFINE asked == Catalogue!ToSet(s)
           hits == {x \in asked : Catalogue!StillHot(x)}
           cold == asked \ hits
           new == {<<s11 + 1, x>> : x \in cold}
<1>1. /\ s4' = [x \in Groups |-> IF x \in cold THEN None ELSE s4[x]]
      /\ s9' = [t \in DOMAIN s9 \cup new |->
                 IF t \in new THEN [group |-> t[2], phase |-> "queued"] ELSE s9[t]]
      /\ s10' = [list |-> s, begun |-> s1, pending |-> cold, payload |-> [x \in hits |-> s4[x]],
               refused |-> {}]
      /\ s11' = s11 + 1 /\ UNCHANGED <<s1, s2, s3, s5, s6, s7, s12>>
  BY DEF Catalogue!Enter
<1>2. /\ asked \subseteq Groups /\ s11 \in Nat /\ s1 \in Nat
  BY GroupsOfList DEF CatalogueParts, Catalogue!TypeOK
<1>3. \A x \in hits : /\ x \in Groups /\ s4[x] # None /\ s4[x] \in Catalogue!Payloads
                      /\ s1 <= s4[x].at + MaxAge /\ s4[x].gen = s4[x].content
  <2> SUFFICES ASSUME NEW x \in hits
               PROVE  /\ x \in Groups /\ s4[x] # None /\ s4[x] \in Catalogue!Payloads
                      /\ s1 <= s4[x].at + MaxAge /\ s4[x].gen = s4[x].content
    OBVIOUS
  <2>1. x \in Groups /\ s4[x] # None /\ s1 <= s4[x].at + MaxAge BY <1>2 DEF Catalogue!StillHot
  <2> QED BY <2>1 DEF CatalogueParts, Catalogue!TypeOK, Catalogue!Exact, Catalogue!GenerationIsContent
<1>4. hits \cup cold = asked /\ hits \cap cold = {} OBVIOUS
<1> HIDE DEF asked, hits, cold
<1>5. \A t \in DOMAIN s9 : t \in (1..s11) \X Groups /\ t[1] <= s11 /\ t \notin new
  BY <1>2 DEF CatalogueParts, Catalogue!TypeOK
<1>6. \A t \in new : t \in (1..s11+1) \X Groups /\ t[1] = s11 + 1 /\ t[2] \in cold /\ t[2] \in Groups
  BY <1>2, <1>4
<1>7. \A x \in cold : <<s11 + 1, x>> \in new OBVIOUS
<1> HIDE DEF new
<1>8. /\ DOMAIN s9' = DOMAIN s9 \cup new
      /\ \A t \in DOMAIN s9 : s9'[t] = s9[t]
      /\ \A t \in new : s9'[t] = [group |-> t[2], phase |-> "queued"]
  BY <1>1, <1>5
<1>9. \A t \in new : s9'[t] \in Catalogue!Unfinished /\ s9'[t].phase = "queued" /\ s9'[t].group = t[2]
  BY <1>6, <1>8 DEF Catalogue!Unfinished
<1>10. /\ s10'.list = s /\ s10'.begun = s1 /\ s10'.pending = cold /\ s10'.payload = [x \in hits |-> s4[x]]
       /\ s10'.refused = {} /\ Catalogue!Gathered' = hits
  BY <1>1 DEF Catalogue!Gathered
<1>11. /\ \A x \in hits : s4'[x] = s4[x] /\ s10'.payload[x] = s4[x]
       /\ \A x \in Groups : s4'[x] = None \/ s4'[x] = s4[x]
  BY <1>1, <1>3, <1>4, <1>10
<1>12. Catalogue!TypeOK'
  <2>1. \A t \in DOMAIN s9' :
          /\ t \in (1..s11') \X Groups
          /\ s9'[t] \in Catalogue!Unfinished \cup Catalogue!Loaded \cup Catalogue!Failed
          /\ s9'[t].group = t[2]
    <3> SUFFICES ASSUME NEW t \in DOMAIN s9'
                 PROVE  /\ t \in (1..s11') \X Groups
                        /\ s9'[t] \in Catalogue!Unfinished \cup Catalogue!Loaded \cup Catalogue!Failed
                        /\ s9'[t].group = t[2]
      OBVIOUS
    <3>1. CASE t \in new BY <1>1, <1>6, <1>9, <3>1
    <3>2. CASE t \in DOMAIN s9
      <4>1. t \in (1..s11+1) \X Groups BY <1>2, <1>5, <3>2
      <4> QED BY <1>1, <1>8, <3>2, <4>1 DEF CatalogueParts, Catalogue!TypeOK
    <3> QED BY <1>8, <3>1, <3>2
  <2>2. s4' \in [Groups -> {None} \cup Catalogue!Payloads]
    BY <1>1 DEF CatalogueParts, Catalogue!TypeOK
  <2>3. s10'.payload \in [hits -> Catalogue!Payloads] BY <1>3, <1>10
  <2>4. s10' \in Catalogue!Progress' /\ Catalogue!Gathered' \subseteq Groups
    BY <1>1, <1>2, <1>4, <1>10, <2>3 DEF Catalogue!Progress
  <2>5. s11' \in Nat BY <1>1, <1>2
  <2> QED BY <1>1, <2>1, <2>2, <2>4, <2>5 DEF CatalogueParts, Catalogue!TypeOK
<1>13. Catalogue!Exact'
  <2>1. Catalogue!GenerationIsContent'
    BY <1>1, <1>11 DEF CatalogueParts, Catalogue!Exact, Catalogue!GenerationIsContent, Catalogue!ToSet
  <2>2. \A t \in DOMAIN s9' : s9'[t].phase = "loaded" => s9'[t].payload.gen = s9'[t].payload.content
    BY <1>8, <1>9 DEF CatalogueParts, Catalogue!Exact
  <2> QED BY <1>3, <1>10, <1>11, <2>1, <2>2 DEF Catalogue!Exact
<1>14. Catalogue!Tracked'
  <2>1. s10'.pending \cup Catalogue!Gathered' \subseteq Catalogue!ToSet(s)
    BY <1>4, <1>10 DEF asked
  <2>2. \A x \in s10'.pending : <<s11', x>> \in DOMAIN s9' BY <1>1, <1>7, <1>8, <1>10
  <2>3. \A t \in DOMAIN s9' : t[1] = s11' => t[2] \in s10'.pending
    <3>1. \A t \in DOMAIN s9 : t[1] # s11'
      <4> SUFFICES ASSUME NEW t \in DOMAIN s9 PROVE t[1] # s11'
        OBVIOUS
      <4>1. t[1] \in Int /\ t[1] <= s11 BY <1>5
      <4> QED BY <1>1, <1>2, <4>1
    <3> QED BY <1>6, <1>8, <1>10, <3>1
  <2>4. Catalogue!ToSet(s10.list)' = Catalogue!ToSet(s) BY <1>10 DEF Catalogue!ToSet
  <2>5. \A x \in cold : s4'[x] = None
    <3>1. cold \subseteq Groups BY <1>2, <1>4
    <3> QED BY <1>1, <3>1
  <2> QED BY <1>10, <1>11, <2>1, <2>2, <2>3, <2>4, <2>5 DEF Catalogue!Tracked
<1>15. Catalogue!KeysTell' BY <1>1 DEF CatalogueParts, Catalogue!KeysTell
<1>16. \A t \in DOMAIN s9' : ~Catalogue!LoadedNow(t)'
  <2> SUFFICES ASSUME NEW t \in DOMAIN s9', t[1] = s11' PROVE s9'[t].phase # "loaded"
    BY DEF Catalogue!LoadedNow
  <2>1. t \notin DOMAIN s9
    <3> SUFFICES ASSUME t \in DOMAIN s9 PROVE FALSE
      OBVIOUS
    <3>1. t[1] \in Int /\ t[1] <= s11 BY <1>5
    <3> QED BY <1>1, <1>2, <3>1
  <2> QED BY <1>8, <1>9, <2>1
<1>17. Catalogue!FreshOrRefused'
  BY <1>1, <1>2, <1>3, <1>10, <1>11, <1>16 DEF Catalogue!FreshOrRefused, Catalogue!StaleOnlyIfRefused
<1>18. Catalogue!LocksHeld'
  <2> SUFFICES ASSUME NEW t \in DOMAIN s9',
                      s9'[t].phase \in {"probing", "downloading", "mirroring", "writing"}
               PROVE  /\ s7[GroupStripe[s9'[t].group]] = t
                      /\ s9'[t].phase \in {"downloading", "mirroring", "writing"} =>
                           ~(s2[s9'[t].group] # None /\ s1 <= s2[s9'[t].group].at + MaxAge)
    BY <1>1 DEF Catalogue!LocksHeld, Catalogue!LockOf, Catalogue!IsFresh
  <2>1. t \in DOMAIN s9 /\ s9'[t] = s9[t] BY <1>8, <1>9
  <2> QED BY <2>1 DEF CatalogueParts, Catalogue!LocksHeld, Catalogue!LockOf, Catalogue!IsFresh
<1>19. Catalogue!NoneOlder'
  <2>1. \A x \in hits : Catalogue!Between(x, s4[x].gen)
    BY <1>3 DEF CatalogueParts, Catalogue!NoneOlder
  <2>2. \A x \in Catalogue!Gathered' : Catalogue!Between(x, s10.payload[x].gen)'
    BY <1>1, <1>10, <1>11, <2>1 DEF Catalogue!Between
  <2> QED BY <1>1, <1>11, <1>16, <2>2 DEF CatalogueParts, Catalogue!NoneOlder, Catalogue!Between
<1> QED BY <1>12, <1>13, <1>14, <1>15, <1>17, <1>18, <1>19 DEF CatalogueParts

\* The tasks without some of them.
LEMMA FewerTasks ==
  ASSUME CatalogueParts, \A t \in DOMAIN s9' : t \in DOMAIN s9 /\ s9'[t] = s9[t],
         UNCHANGED <<s1, s2, s3, s5, s6, s7, s11, s12>>
  PROVE  /\ \A t \in DOMAIN s9' :
              /\ t \in (1..s11) \X Groups
              /\ s9'[t] \in Catalogue!Unfinished \cup Catalogue!Loaded \cup Catalogue!Failed
              /\ s9'[t].group = t[2]
         /\ \A t \in DOMAIN s9' : s9'[t].phase = "loaded" => s9'[t].payload.gen = s9'[t].payload.content
         /\ Catalogue!KeysTell' /\ Catalogue!LocksHeld'
<1>2. \A t \in DOMAIN s9' :
        /\ t \in (1..s11) \X Groups
        /\ s9'[t] \in Catalogue!Unfinished \cup Catalogue!Loaded \cup Catalogue!Failed
        /\ s9'[t].group = t[2]
  BY DEF CatalogueParts, Catalogue!TypeOK
<1>3. \A t \in DOMAIN s9' : s9'[t].phase = "loaded" => s9'[t].payload.gen = s9'[t].payload.content
  BY DEF CatalogueParts, Catalogue!Exact
<1>4. Catalogue!KeysTell' BY DEF CatalogueParts, Catalogue!KeysTell
<1>5. Catalogue!LocksHeld'
  BY DEF CatalogueParts, Catalogue!LocksHeld, Catalogue!LockOf, Catalogue!IsFresh
<1> QED BY <1>2, <1>3, <1>4, <1>5

\* The request inside ends, whatever becomes of its tasks.
LEMMA PipelineEnds ==
  ASSUME CatalogueParts, \A t \in DOMAIN s9' : t \in DOMAIN s9 /\ s9'[t] = s9[t], s10' = None,
         UNCHANGED <<s1, s2, s3, s4, s5, s6, s7, s11, s12>>
  PROVE  CatalogueParts'
<1>1. /\ \A t \in DOMAIN s9' :
           /\ t \in (1..s11) \X Groups
           /\ s9'[t] \in Catalogue!Unfinished \cup Catalogue!Loaded \cup Catalogue!Failed
           /\ s9'[t].group = t[2]
      /\ \A t \in DOMAIN s9' : s9'[t].phase = "loaded" => s9'[t].payload.gen = s9'[t].payload.content
      /\ Catalogue!KeysTell' /\ Catalogue!LocksHeld'
  BY FewerTasks
<1>2. Catalogue!TypeOK' BY <1>1 DEF CatalogueParts, Catalogue!TypeOK
<1>3. Catalogue!Exact'
  BY <1>1 DEF CatalogueParts, Catalogue!Exact, Catalogue!GenerationIsContent, Catalogue!ToSet
<1>4. Catalogue!Tracked' BY DEF Catalogue!Tracked
<1>5. Catalogue!FreshOrRefused'
  BY DEF Catalogue!FreshOrRefused, Catalogue!StaleOnlyIfRefused, Catalogue!LoadedNow
<1>6. Catalogue!NoneOlder'
  BY DEF CatalogueParts, Catalogue!NoneOlder, Catalogue!Between, Catalogue!LoadedNow
<1> QED BY <1>1, <1>2, <1>3, <1>4, <1>5, <1>6 DEF CatalogueParts

LEMMA CatalogueCollect ==
  ASSUME CatalogueParts, NEW gr \in Groups, Catalogue!Collect(gr)
  PROVE  CatalogueParts'
<1> DEFINE t == <<s11, gr>>
           pa == s9[t].payload
<1>1. /\ s10 # None /\ gr \in s10.pending /\ s9[t].phase = "loaded"
      /\ (s4' = [s4 EXCEPT ![gr] = pa] \/ s4' = s4)
      /\ s10' = [s10 EXCEPT !.pending = @ \ {gr},
                        !.refused = IF s9[t].refused THEN @ \cup {gr} ELSE @,
                        !.payload = [x \in DOMAIN @ \cup {gr} |-> IF x = gr THEN pa ELSE @[x]]]
      /\ s9' = [u \in DOMAIN s9 \ {t} |-> s9[u]] /\ UNCHANGED <<s1, s2, s3, s5, s6, s7, s8, s11, s12>>
  BY DEF Catalogue!Collect, Catalogue!Finished, Catalogue!WithoutTask
<1>2. t \in DOMAIN s9 BY <1>1 DEF CatalogueParts, Catalogue!Tracked
<1>3. s9[t] \in Catalogue!Loaded /\ pa \in Catalogue!Payloads /\ pa.gen = pa.content
  BY <1>1, <1>2, TaskType DEF CatalogueParts, Catalogue!Loaded, Catalogue!Exact
<1>4. /\ s10.list \in Requested /\ s10.begun \in Nat /\ s10.pending \subseteq Groups
      /\ s10.payload \in [Catalogue!Gathered -> Catalogue!Payloads] /\ s10.refused \subseteq Groups
      /\ Catalogue!Gathered = DOMAIN s10.payload /\ Catalogue!Gathered \subseteq Groups
      /\ s10 = [list |-> s10.list, begun |-> s10.begun, pending |-> s10.pending,
              payload |-> s10.payload, refused |-> s10.refused]
  BY <1>1, ProgressType DEF CatalogueParts
<1>5. Catalogue!LoadedNow(t) BY <1>1 DEF Catalogue!LoadedNow
<1>6. /\ s9[t].refused \/ s10.begun <= pa.at + MaxAge
      /\ Catalogue!Between(gr, pa.gen)
  <2>1. s9[t].group = gr BY <1>2, TaskType DEF CatalogueParts
  <2> QED BY <1>2, <1>5, <2>1 DEF CatalogueParts, Catalogue!FreshOrRefused, Catalogue!NoneOlder
<1>7. \A u \in DOMAIN s9' : u \in DOMAIN s9 /\ s9'[u] = s9[u] /\ u # t BY <1>1
<1>8. \A u \in DOMAIN s9 : u \in DOMAIN s9' \/ u = t BY <1>1
<1>9. t[1] = s11 /\ t[2] = gr /\ \A x : <<s11, x>> = t => x = gr OBVIOUS
<1>10. \A u \in DOMAIN s9 : u[1] = s11 /\ u # t => u[2] # gr
  <2> SUFFICES ASSUME NEW u \in DOMAIN s9, u[1] = s11, u[2] = gr PROVE u = t
    OBVIOUS
  <2>1. u \in Nat \X Groups BY TaskType DEF CatalogueParts
  <2> QED BY <2>1
<1> DEFINE refused == s9[t].refused
           pending == s10.pending \ {gr}
           payload == [x \in DOMAIN s10.payload \cup {gr} |-> IF x = gr THEN pa ELSE s10.payload[x]]
<1>11. /\ s10'.list = s10.list /\ s10'.begun = s10.begun /\ s10'.pending = pending
       /\ s10'.payload = payload
       /\ s10'.refused = (IF refused THEN s10.refused \cup {gr} ELSE s10.refused)
       /\ s10' = [list |-> s10'.list, begun |-> s10'.begun, pending |-> s10'.pending,
                payload |-> s10'.payload, refused |-> s10'.refused]
  BY <1>1, <1>4
<1>12. refused => gr \in s10'.refused BY <1>11
<1>13. s10.refused \subseteq s10'.refused /\ s10'.refused \subseteq Groups BY <1>4, <1>11
<1> HIDE DEF t, pa, refused
<1>14. /\ Catalogue!Gathered' = Catalogue!Gathered \cup {gr}
       /\ s10'.payload[gr] = pa
       /\ \A x \in Catalogue!Gathered : x # gr => s10'.payload[x] = s10.payload[x]
       /\ s10'.payload \in [Catalogue!Gathered' -> Catalogue!Payloads]
  BY <1>3, <1>4, <1>11 DEF Catalogue!Gathered
<1>15. s10'.pending = s10.pending \ {gr} BY <1>11
<1> HIDE DEF payload, pending
<1>16. /\ s4' \in [Groups -> {None} \cup Catalogue!Payloads] /\ (s4'[gr] = pa \/ s4'[gr] = None)
       /\ \A x \in Groups : x # gr => s4'[x] = s4[x]
  <2>1. s4[gr] = None BY <1>1 DEF CatalogueParts, Catalogue!Tracked
  <2>2. s4 \in [Groups -> {None} \cup Catalogue!Payloads] BY DEF CatalogueParts, Catalogue!TypeOK
  <2>3. CASE s4' = s4 BY <2>1, <2>2, <2>3
  <2>4. CASE s4' = [s4 EXCEPT ![gr] = pa] BY <1>3, <2>2, <2>4
  <2> QED BY <1>1, <2>3, <2>4
<1>17. /\ \A u \in DOMAIN s9' :
            /\ u \in (1..s11) \X Groups
            /\ s9'[u] \in Catalogue!Unfinished \cup Catalogue!Loaded \cup Catalogue!Failed
            /\ s9'[u].group = u[2]
       /\ \A u \in DOMAIN s9' : s9'[u].phase = "loaded" => s9'[u].payload.gen = s9'[u].payload.content
       /\ Catalogue!KeysTell' /\ Catalogue!LocksHeld'
  BY <1>1, <1>7, FewerTasks
<1>18. Catalogue!TypeOK'
  <2>1. s10' \in Catalogue!Progress' /\ Catalogue!Gathered' \subseteq Groups
    BY <1>4, <1>11, <1>13, <1>14, <1>15 DEF Catalogue!Progress
  <2> QED BY <1>1, <1>16, <1>17, <2>1 DEF CatalogueParts, Catalogue!TypeOK
<1>19. Catalogue!Exact'
  <2>1. \A x \in Catalogue!Gathered' : s10'.payload[x].gen = s10'.payload[x].content
    BY <1>1, <1>3, <1>14 DEF CatalogueParts, Catalogue!Exact
  <2>2. Catalogue!GenerationIsContent'
    BY <1>1, <1>3, <1>16 DEF CatalogueParts, Catalogue!Exact, Catalogue!GenerationIsContent,
                             Catalogue!ToSet
  <2> QED BY <1>17, <2>1, <2>2 DEF Catalogue!Exact
<1>20. Catalogue!Tracked'
  <2>1. Catalogue!ToSet(s10.list)' = Catalogue!ToSet(s10.list) BY <1>11 DEF Catalogue!ToSet
  <2>2. s10.pending \cup Catalogue!Gathered \subseteq Catalogue!ToSet(s10.list)
    BY <1>1 DEF CatalogueParts, Catalogue!Tracked
  <2>3. s10'.pending \cup Catalogue!Gathered' \subseteq Catalogue!ToSet(s10.list)
    BY <1>1, <1>14, <1>15, <2>2
  <2>4. \A x \in s10'.pending : <<s11, x>> \in DOMAIN s9'
    BY <1>1, <1>8, <1>9, <1>15 DEF CatalogueParts, Catalogue!Tracked
  <2>5. \A u \in DOMAIN s9' : u[1] = s11 => u[2] \in s10'.pending
    BY <1>1, <1>7, <1>10, <1>15 DEF CatalogueParts, Catalogue!Tracked
  <2>6. \A x \in Catalogue!Gathered' : s4'[x] = None \/ s4'[x] = s10'.payload[x]
    BY <1>1, <1>4, <1>14, <1>16 DEF CatalogueParts, Catalogue!Tracked
  <2>7. \A x \in s10'.pending : s4'[x] = None
    BY <1>1, <1>4, <1>15, <1>16 DEF CatalogueParts, Catalogue!Tracked
  <2> QED BY <1>1, <2>1, <2>3, <2>4, <2>5, <2>6, <2>7 DEF Catalogue!Tracked
<1>21. \A u \in DOMAIN s9' : Catalogue!LoadedNow(u)' => Catalogue!LoadedNow(u)
  BY <1>1, <1>7 DEF Catalogue!LoadedNow
<1>22. Catalogue!FreshOrRefused'
  <2>1. \A x \in Catalogue!Gathered' : s10'.begun <= s10'.payload[x].at + MaxAge \/ x \in s10'.refused
    <3> SUFFICES ASSUME NEW x \in Catalogue!Gathered'
                 PROVE  s10'.begun <= s10'.payload[x].at + MaxAge \/ x \in s10'.refused
      OBVIOUS
    <3>1. CASE x = gr BY <1>6, <1>11, <1>12, <1>14, <3>1 DEF refused
    <3>2. CASE x # gr
      BY <1>1, <1>11, <1>13, <1>14, <3>2
      DEF CatalogueParts, Catalogue!FreshOrRefused, Catalogue!StaleOnlyIfRefused
    <3> QED BY <3>1, <3>2
  <2>2. s10'.begun <= s1' BY <1>1, <1>11 DEF CatalogueParts, Catalogue!FreshOrRefused
  <2>3. \A u \in DOMAIN s9' :
          Catalogue!LoadedNow(u)' => s9'[u].refused \/ s10'.begun <= s9'[u].payload.at + MaxAge
    BY <1>7, <1>11, <1>21 DEF CatalogueParts, Catalogue!FreshOrRefused
  <2> QED BY <2>1, <2>2, <2>3 DEF Catalogue!FreshOrRefused, Catalogue!StaleOnlyIfRefused
<1>23. Catalogue!NoneOlder'
  <2>1. \A x \in Groups : s12[x] > 0 => Catalogue!Between(x, s12[x])'
    BY <1>1 DEF CatalogueParts, Catalogue!NoneOlder, Catalogue!Between
  <2>2. \A x \in Groups : s4'[x] # None => Catalogue!Between(x, s4[x].gen)'
    BY <1>1, <1>6, <1>16 DEF CatalogueParts, Catalogue!NoneOlder, Catalogue!Between
  <2>3. \A u \in DOMAIN s9' : Catalogue!LoadedNow(u)' => Catalogue!Between(s9[u].group, s9[u].payload.gen)'
    BY <1>1, <1>7, <1>21 DEF CatalogueParts, Catalogue!NoneOlder, Catalogue!Between
  <2>4. \A x \in Catalogue!Gathered : Catalogue!Between(x, s10.payload[x].gen)
    BY <1>1 DEF CatalogueParts, Catalogue!NoneOlder
  <2>5. \A x \in Catalogue!Gathered' : Catalogue!Between(x, s10.payload[x].gen)'
    BY <1>1, <1>6, <1>14, <2>4 DEF Catalogue!Between
  <2> QED BY <1>1, <2>1, <2>2, <2>3, <2>5 DEF Catalogue!NoneOlder
<1> QED BY <1>17, <1>18, <1>19, <1>20, <1>22, <1>23 DEF CatalogueParts

LEMMA CatalogueGoWithout ==
  ASSUME CatalogueParts, NEW gr \in Groups, Catalogue!GoWithout(gr)
  PROVE  CatalogueParts'
<1> DEFINE t == <<s11, gr>>
<1>1. /\ s10 # None /\ gr \in s10.pending /\ s10' = [s10 EXCEPT !.pending = @ \ {gr}]
      /\ s9' = [u \in DOMAIN s9 \ {t} |-> s9[u]] /\ UNCHANGED <<s1, s2, s3, s4, s5, s6, s7, s11, s12>>
  BY DEF Catalogue!GoWithout, Catalogue!Finished, Catalogue!WithoutTask, Catalogue!memory
<1>2. /\ s10.list \in Requested /\ s10.begun \in Nat /\ s10.pending \subseteq Groups
      /\ s10.payload \in [Catalogue!Gathered -> Catalogue!Payloads] /\ s10.refused \subseteq Groups
      /\ Catalogue!Gathered = DOMAIN s10.payload /\ Catalogue!Gathered \subseteq Groups
      /\ s10 = [list |-> s10.list, begun |-> s10.begun, pending |-> s10.pending,
              payload |-> s10.payload, refused |-> s10.refused]
  BY <1>1, ProgressType DEF CatalogueParts
<1>3. /\ s10'.list = s10.list /\ s10'.begun = s10.begun /\ s10'.pending = s10.pending \ {gr}
      /\ s10'.payload = s10.payload /\ s10'.refused = s10.refused
      /\ s10' = [list |-> s10'.list, begun |-> s10'.begun, pending |-> s10'.pending,
               payload |-> s10'.payload, refused |-> s10'.refused]
      /\ Catalogue!Gathered' = Catalogue!Gathered
  BY <1>1, <1>2 DEF Catalogue!Gathered
<1>4. \A u \in DOMAIN s9' : u \in DOMAIN s9 /\ s9'[u] = s9[u] /\ u # t BY <1>1
<1>5. \A u \in DOMAIN s9 : u \in DOMAIN s9' \/ u = t BY <1>1
<1>6. t[1] = s11 /\ t[2] = gr /\ \A x : <<s11, x>> = t => x = gr OBVIOUS
<1>7. \A u \in DOMAIN s9 : u[1] = s11 /\ u # t => u[2] # gr
  <2> SUFFICES ASSUME NEW u \in DOMAIN s9, u[1] = s11, u[2] = gr PROVE u = t
    OBVIOUS
  <2>1. u \in Nat \X Groups BY TaskType DEF CatalogueParts
  <2> QED BY <2>1
<1> HIDE DEF t
<1>8. /\ \A u \in DOMAIN s9' :
           /\ u \in (1..s11) \X Groups
           /\ s9'[u] \in Catalogue!Unfinished \cup Catalogue!Loaded \cup Catalogue!Failed
           /\ s9'[u].group = u[2]
      /\ \A u \in DOMAIN s9' : s9'[u].phase = "loaded" => s9'[u].payload.gen = s9'[u].payload.content
      /\ Catalogue!KeysTell' /\ Catalogue!LocksHeld'
  BY <1>1, <1>4, FewerTasks
<1>9. Catalogue!TypeOK'
  <2>1. s10' \in Catalogue!Progress' /\ Catalogue!Gathered' \subseteq Groups
    BY <1>2, <1>3 DEF Catalogue!Progress
  <2> QED BY <1>1, <1>8, <2>1 DEF CatalogueParts, Catalogue!TypeOK
<1>10. Catalogue!Exact'
  BY <1>1, <1>3, <1>8 DEF CatalogueParts, Catalogue!Exact, Catalogue!GenerationIsContent,
                          Catalogue!ToSet
<1>11. Catalogue!Tracked'
  <2>1. Catalogue!ToSet(s10.list)' = Catalogue!ToSet(s10.list) BY <1>3 DEF Catalogue!ToSet
  <2>2. \A x \in s10'.pending : <<s11, x>> \in DOMAIN s9'
    BY <1>1, <1>3, <1>5, <1>6 DEF CatalogueParts, Catalogue!Tracked
  <2>3. \A u \in DOMAIN s9' : u[1] = s11 => u[2] \in s10'.pending
    BY <1>1, <1>3, <1>4, <1>7 DEF CatalogueParts, Catalogue!Tracked
  <2> QED BY <1>1, <1>3, <2>1, <2>2, <2>3 DEF CatalogueParts, Catalogue!Tracked
<1>12. \A u \in DOMAIN s9' : Catalogue!LoadedNow(u)' => Catalogue!LoadedNow(u)
  BY <1>1, <1>4 DEF Catalogue!LoadedNow
<1>13. Catalogue!FreshOrRefused'
  BY <1>1, <1>3, <1>4, <1>12 DEF CatalogueParts, Catalogue!FreshOrRefused, Catalogue!StaleOnlyIfRefused
<1>14. Catalogue!NoneOlder'
  <2>1. \A x \in Groups : (s12[x] > 0 => Catalogue!Between(x, s12[x])')
                         /\ (s4'[x] # None => Catalogue!Between(x, s4[x].gen)')
    BY <1>1 DEF CatalogueParts, Catalogue!NoneOlder, Catalogue!Between
  <2>2. \A u \in DOMAIN s9' : Catalogue!LoadedNow(u)' => Catalogue!Between(s9[u].group, s9[u].payload.gen)'
    BY <1>1, <1>4, <1>12 DEF CatalogueParts, Catalogue!NoneOlder, Catalogue!Between
  <2>3. \A x \in Catalogue!Gathered' : Catalogue!Between(x, s10.payload[x].gen)'
    BY <1>1, <1>3 DEF CatalogueParts, Catalogue!NoneOlder, Catalogue!Between
  <2> QED BY <1>1, <2>1, <2>2, <2>3 DEF Catalogue!NoneOlder
<1> QED BY <1>8, <1>9, <1>10, <1>11, <1>13, <1>14 DEF CatalogueParts

\* Two lists kept under one key are the same.
LEMMA OneListPerKey ==
  ASSUME NEW ke, NEW x, NEW y, Catalogue!ListOf(ke, x), Catalogue!ListOf(ke, y)
  PROVE  x = y
<1> DEFINE D == {ke[n][1] : n \in {n \in DOMAIN ke : ke[n][2] > 0}}
<1>1. x = [z \in D |-> x[z]] /\ y = [z \in D |-> y[z]]
  BY DEF Catalogue!ListOf
<1>2. \A z \in D : x[z] = y[z]
  BY DEF Catalogue!ListOf
<1> HIDE DEF D
<1> QED BY <1>1, <1>2

\* What has been gathered is the list its key stands for.
LEMMA KeyOfContent ==
  ASSUME CatalogueParts, s10 # None
  PROVE  Catalogue!ListOf(Catalogue!CacheKey, Catalogue!Content)
<1> DEFINE ke == Catalogue!CacheKey
           x == Catalogue!Content
           G == Catalogue!Gathered
<1>1. /\ DOMAIN ke = DOMAIN s10.list
      /\ \A n \in DOMAIN ke : /\ ke[n][1] = s10.list[n]
                              /\ ke[n][2] = IF s10.list[n] \in G THEN s10.payload[s10.list[n]].gen ELSE 0
  BY DEF Catalogue!CacheKey
<1>2. \A y \in G : s10.payload[y].gen \in Positive /\ s10.payload[y].gen = s10.payload[y].content
  BY ProgressType DEF CatalogueParts, Catalogue!Exact, Catalogue!Payloads, Positive
<1>3. x = [y \in G |-> s10.payload[y].content] BY DEF Catalogue!Content
<1>4. \A y \in G : \E n \in DOMAIN s10.list : s10.list[n] = y
  BY DEF CatalogueParts, Catalogue!Tracked, Catalogue!ToSet
<1> HIDE DEF ke, x, G
<1> DEFINE D == {ke[n][1] : n \in {n \in DOMAIN ke : ke[n][2] > 0}}
<1>5. \A n \in DOMAIN ke : ke[n][2] > 0 <=> s10.list[n] \in G
  BY <1>1, <1>2 DEF Positive
<1>6. D = G BY <1>1, <1>4, <1>5
<1>7. x = [y \in D |-> x[y]] BY <1>3, <1>6
<1>8. \A n \in DOMAIN ke : ke[n][2] > 0 => x[ke[n][1]] = ke[n][2]
  BY <1>1, <1>2, <1>3, <1>5
<1>9. Catalogue!ListOf(ke, x) BY <1>7, <1>8 DEF Catalogue!ListOf
<1> QED BY <1>9 DEF ke, x

LEMMA ListsAreExact ==
  ASSUME CatalogueParts, s10 # None
  PROVE  Catalogue!Merged = Catalogue!Content /\ Catalogue!Prepared = Catalogue!Content
<1>1. Catalogue!ListOf(Catalogue!CacheKey, Catalogue!Content) BY KeyOfContent
<1>2. Catalogue!Merged = Catalogue!Content
  BY <1>1, OneListPerKey DEF Catalogue!Merged, CatalogueParts, Catalogue!KeysTell
<1>3. Catalogue!Prepared = Catalogue!Content
  BY <1>1, <1>2, OneListPerKey DEF Catalogue!Prepared, CatalogueParts, Catalogue!KeysTell
<1> QED BY <1>2, <1>3

LEMMA CatalogueAnswer ==
  ASSUME CatalogueParts, Catalogue!Answer
  PROVE  CatalogueParts' /\ Catalogue!Advances
<1> DEFINE ke == Catalogue!CacheKey
           x == Catalogue!Content
           G == Catalogue!Gathered
           own(y) == s10.payload[y].gen
<1>1. /\ s10 # None /\ s10' = None /\ UNCHANGED <<s1, s2, s3, s4, s7, s9, s11>>
      /\ s5' = (IF Catalogue!CanCacheMerge THEN [key |-> ke, content |-> Catalogue!Merged] ELSE s5)
      /\ s6' = [key |-> ke, content |-> Catalogue!Prepared]
      /\ s12' = [y \in Groups |-> IF y \in DOMAIN Catalogue!Prepared THEN Catalogue!Prepared[y] ELSE s12[y]]
  BY DEF Catalogue!Answer
<1>2. Catalogue!Merged = x /\ Catalogue!Prepared = x BY <1>1, ListsAreExact
<1>3. Catalogue!ListOf(ke, x) BY <1>1, KeyOfContent
<1>4. x = [y \in G |-> s10.payload[y].content] BY DEF Catalogue!Content
<1>5. \A y \in G : /\ y \in Groups /\ s10.payload[y] \in Catalogue!Payloads
                   /\ s10.payload[y].content = own(y) /\ own(y) \in Nat
                   /\ s12[y] <= own(y) /\ s2[y] # None /\ own(y) <= s2[y].gen
                   /\ (s4[y] # None => s4[y].gen = own(y))
  <2> SUFFICES ASSUME NEW y \in G
               PROVE  /\ y \in Groups /\ s10.payload[y] \in Catalogue!Payloads
                      /\ s10.payload[y].content = own(y) /\ own(y) \in Nat
                      /\ s12[y] <= own(y) /\ s2[y] # None /\ own(y) <= s2[y].gen
                      /\ (s4[y] # None => s4[y].gen = own(y))
    OBVIOUS
  <2>1. y \in Groups /\ s10.payload[y] \in Catalogue!Payloads
    BY <1>1, ProgressType DEF CatalogueParts
  <2>2. (s4[y] = None \/ s4[y] = s10.payload[y]) /\ s10.payload[y].gen = s10.payload[y].content
    BY <1>1 DEF CatalogueParts, Catalogue!Tracked, Catalogue!Exact
  <2>3. own(y) \in Nat BY <2>1 DEF Catalogue!Payloads
  <2>4. Catalogue!Between(y, own(y)) BY <1>1 DEF CatalogueParts, Catalogue!NoneOlder
  <2> QED BY <2>1, <2>2, <2>3, <2>4 DEF Catalogue!Between
<1> HIDE DEF ke, x, G, own
<1>6. /\ \A y \in Groups : (y \in G /\ s12'[y] = own(y)) \/ (y \notin G /\ s12'[y] = s12[y])
      /\ s12' \in [Groups -> Nat]
  <2>1. \A y \in Groups : (y \in G /\ s12'[y] = own(y)) \/ (y \notin G /\ s12'[y] = s12[y])
    BY <1>1, <1>2, <1>4, <1>5
  <2>2. s12' = [y \in Groups |-> s12'[y]] BY <1>1
  <2>3. \A y \in Groups : s12'[y] \in Nat
    BY <1>5, <2>1 DEF CatalogueParts, Catalogue!TypeOK
  <2> HIDE <1>1
  <2>4. [y \in Groups |-> s12'[y]] \in [Groups -> Nat] BY <2>3
  <2> QED BY <2>1, <2>2, <2>4
<1>7. Catalogue!TypeOK' BY <1>1, <1>6 DEF CatalogueParts, Catalogue!TypeOK
<1>8. Catalogue!Exact'
  BY <1>1 DEF CatalogueParts, Catalogue!Exact, Catalogue!GenerationIsContent, Catalogue!ToSet
<1>9. Catalogue!Tracked' BY <1>1 DEF Catalogue!Tracked
<1>10. Catalogue!KeysTell'
  <2>1. s5' # None => Catalogue!ListOf(s5.key, s5.content)'
    <3>1. CASE Catalogue!CanCacheMerge
      <4>1. s5'.key = ke /\ s5'.content = x BY <1>1, <1>2, <3>1
      <4> QED BY <1>3, <4>1 DEF Catalogue!ListOf
    <3>2. CASE ~Catalogue!CanCacheMerge
      <4>1. s5' = s5 BY <1>1, <3>2
      <4> QED BY <4>1 DEF CatalogueParts, Catalogue!KeysTell, Catalogue!ListOf
    <3> QED BY <3>1, <3>2
  <2>2. s6' # None => Catalogue!ListOf(s6.key, s6.content)'
    <3>1. s6'.key = ke /\ s6'.content = x BY <1>1, <1>2
    <3> QED BY <1>3, <3>1 DEF Catalogue!ListOf
  <2> QED BY <2>1, <2>2 DEF Catalogue!KeysTell
<1>11. Catalogue!FreshOrRefused'
  BY <1>1 DEF Catalogue!FreshOrRefused, Catalogue!StaleOnlyIfRefused, Catalogue!LoadedNow
<1>12. Catalogue!LocksHeld'
  BY <1>1 DEF CatalogueParts, Catalogue!LocksHeld, Catalogue!LockOf, Catalogue!IsFresh
<1>13. Catalogue!NoneOlder'
  <2>1. \A y \in Groups : s12'[y] > 0 => Catalogue!Between(y, s12[y])'
    <3> SUFFICES ASSUME NEW y \in Groups, s12'[y] > 0
                 PROVE  s2[y] # None /\ s12'[y] <= s12'[y] /\ s12'[y] <= s2[y].gen
      BY <1>1 DEF Catalogue!Between
    <3>1. s12'[y] \in Nat BY <1>6
    <3>2. CASE y \in G /\ s12'[y] = own(y) BY <1>5, <3>1, <3>2
    <3>3. CASE s12'[y] = s12[y]
      <4>1. Catalogue!Between(y, s12[y]) BY <3>3 DEF CatalogueParts, Catalogue!NoneOlder
      <4> QED BY <3>3, <4>1 DEF Catalogue!Between
    <3> QED BY <1>6, <3>2, <3>3
  <2>2. \A y \in Groups : s4'[y] # None => Catalogue!Between(y, s4[y].gen)'
    <3> SUFFICES ASSUME NEW y \in Groups, s4[y] # None
                 PROVE  s2[y] # None /\ s12'[y] <= s4[y].gen /\ s4[y].gen <= s2[y].gen
      BY <1>1 DEF Catalogue!Between
    <3>1. Catalogue!Between(y, s4[y].gen) BY DEF CatalogueParts, Catalogue!NoneOlder
    <3>2. s12'[y] <= s4[y].gen
      <4>1. CASE y \in G /\ s12'[y] = own(y)
        <5>1. s4[y].gen = own(y) /\ own(y) \in Nat BY <1>5, <4>1
        <5> QED BY <4>1, <5>1
      <4>2. CASE s12'[y] = s12[y] BY <3>1, <4>2 DEF Catalogue!Between
      <4> QED BY <1>6, <4>1, <4>2
    <3> QED BY <3>1, <3>2 DEF Catalogue!Between
  <2> QED BY <1>1, <2>1, <2>2 DEF Catalogue!NoneOlder, Catalogue!LoadedNow
<1>14. Catalogue!Advances
  <2> SUFFICES ASSUME NEW y \in Groups PROVE s12'[y] >= s12[y]
    BY DEF Catalogue!Advances
  <2>1. s12[y] \in Nat BY DEF CatalogueParts, Catalogue!TypeOK
  <2> QED BY <1>5, <1>6, <2>1
<1> QED BY <1>7, <1>8, <1>9, <1>10, <1>11, <1>12, <1>13, <1>14 DEF CatalogueParts

LEMMA CatalogueGiveUp ==
  ASSUME CatalogueParts,
         (\E x \in Groups : Catalogue!GiveUp(x)) \/ Catalogue!AnswerUnavailable
  PROVE  CatalogueParts' /\ UNCHANGED <<s2, s12>>
<1>1. /\ \A t \in DOMAIN s9' : t \in DOMAIN s9 /\ s9'[t] = s9[t]
      /\ s10' = None /\ UNCHANGED <<s1, s2, s3, s4, s5, s6, s7, s11, s12>>
  BY DEF Catalogue!GiveUp, Catalogue!AnswerUnavailable, Catalogue!memory
<1> QED BY <1>1, PipelineEnds

LEMMA CatalogueRestart ==
  ASSUME CatalogueParts, Catalogue!Restart
  PROVE  CatalogueParts'
<1>1. /\ s3' = <<>> /\ s4' = [x \in Groups |-> None] /\ s5' = None /\ s6' = None
      /\ s7' = [x \in Catalogue!LockedStripes |-> None] /\ DOMAIN s9' = {} /\ s10' = None
      /\ UNCHANGED <<s1, s2, s11, s12>>
  BY DEF Catalogue!Restart, Catalogue!NoneOf
<1>2. Catalogue!TypeOK' BY <1>1, EmptySeq DEF CatalogueParts, Catalogue!TypeOK
<1>3. Catalogue!Exact'
  BY <1>1 DEF Catalogue!Exact, Catalogue!GenerationIsContent, Catalogue!ToSet
<1>4. Catalogue!Tracked' /\ Catalogue!KeysTell'
  BY <1>1 DEF Catalogue!Tracked, Catalogue!KeysTell
<1>5. Catalogue!FreshOrRefused' /\ Catalogue!LocksHeld'
  BY <1>1 DEF Catalogue!FreshOrRefused, Catalogue!StaleOnlyIfRefused, Catalogue!LocksHeld
<1>6. Catalogue!NoneOlder'
  BY <1>1 DEF CatalogueParts, Catalogue!NoneOlder, Catalogue!Between
<1> QED BY <1>2, <1>3, <1>4, <1>5, <1>6 DEF CatalogueParts

\* A file that is cut short is of the same age, and its generation is a later one.
LEMMA CatalogueSpoil ==
  ASSUME CatalogueParts, NEW gr \in Groups, Catalogue!Spoil(gr)
  PROVE  CatalogueParts' /\ UNCHANGED s12 /\ \A x \in Groups : s2'[x] # s2[x] => ~s2'[x].readable
<1> DEFINE new == [gen |-> s2[gr].gen + 1, readable |-> FALSE, at |-> s2[gr].at]
<1>1. s2[gr] # None /\ s2' = [s2 EXCEPT ![gr] = new] /\ UNCHANGED <<s1, s3, s4, s5, s6, s7, s9, s10, s11, s12>>
  BY DEF Catalogue!Spoil, Catalogue!memory
<1>2. s2[gr] \in Catalogue!Files BY <1>1 DEF CatalogueParts, Catalogue!TypeOK
<1>3. /\ new \in Catalogue!Files /\ new.gen = s2[gr].gen + 1 /\ new.at = s2[gr].at
      /\ new.readable = FALSE /\ s2[gr].gen \in Nat
  BY <1>2 DEF Catalogue!Files
<1> HIDE DEF new
<1>4. new # None BY <1>3, CatalogueLimits
<1>5. /\ s2' \in [Groups -> {None} \cup Catalogue!Files] /\ s2'[gr] = new
      /\ \A x \in Groups : x # gr => s2'[x] = s2[x]
  BY <1>1, <1>3 DEF CatalogueParts, Catalogue!TypeOK
<1>6. Catalogue!TypeOK'
  BY <1>1, <1>5 DEF CatalogueParts, Catalogue!TypeOK, Catalogue!Progress, Catalogue!Gathered
<1>7. Catalogue!Exact' /\ Catalogue!Tracked'
  BY <1>1 DEF CatalogueParts, Catalogue!Exact, Catalogue!GenerationIsContent, Catalogue!Gathered,
              Catalogue!ToSet, Catalogue!Tracked
<1>8. Catalogue!KeysTell' BY <1>1 DEF CatalogueParts, Catalogue!KeysTell
<1>9. Catalogue!FreshOrRefused'
  BY <1>1 DEF CatalogueParts, Catalogue!FreshOrRefused, Catalogue!StaleOnlyIfRefused,
              Catalogue!LoadedNow, Catalogue!Gathered
<1>10. \A x \in Groups :
         Catalogue!IsFresh(x) <=> (s2'[x] # None /\ s1 <= s2'[x].at + MaxAge)
  <2> SUFFICES ASSUME NEW x \in Groups
               PROVE  Catalogue!IsFresh(x) <=> (s2'[x] # None /\ s1 <= s2'[x].at + MaxAge)
    OBVIOUS
  <2>1. CASE x = gr BY <1>1, <1>3, <1>4, <1>5, <2>1 DEF Catalogue!IsFresh
  <2>2. CASE x # gr BY <1>5, <2>2 DEF Catalogue!IsFresh
  <2> QED BY <2>1, <2>2
<1>11. Catalogue!LocksHeld'
  <2> SUFFICES ASSUME NEW u \in DOMAIN s9
               PROVE  /\ s9[u].phase \in {"probing", "downloading", "mirroring", "writing"} =>
                           s7[Catalogue!LockOf(u)] = u
                      /\ s9[u].phase \in {"downloading", "mirroring", "writing"} =>
                           ~(s2'[s9[u].group] # None /\ s1 <= s2'[s9[u].group].at + MaxAge)
    BY <1>1 DEF Catalogue!LocksHeld, Catalogue!LockOf, Catalogue!IsFresh
  <2>1. s9[u].group \in Groups BY TaskType DEF CatalogueParts
  <2> QED BY <1>10, <2>1 DEF CatalogueParts, Catalogue!LocksHeld
<1>12. \A x \in Groups, n \in Nat : Catalogue!Between(x, n) =>
         (s2'[x] # None /\ s12[x] <= n /\ n <= s2'[x].gen)
  <2> SUFFICES ASSUME NEW x \in Groups, NEW n \in Nat, Catalogue!Between(x, n)
               PROVE  s2'[x] # None /\ s12[x] <= n /\ n <= s2'[x].gen
    OBVIOUS
  <2>1. CASE x = gr BY <1>3, <1>4, <1>5, <2>1 DEF Catalogue!Between
  <2>2. CASE x # gr BY <1>5, <2>2 DEF Catalogue!Between
  <2> QED BY <2>1, <2>2
<1>13. Catalogue!NoneOlder'
  <2>1. \A x \in Groups : s12[x] > 0 => (s2'[x] # None /\ s12[x] <= s12[x] /\ s12[x] <= s2'[x].gen)
    BY <1>12 DEF CatalogueParts, Catalogue!TypeOK, Catalogue!NoneOlder
  <2>2. \A x \in Groups : s4[x] # None => (s2'[x] # None /\ s12[x] <= s4[x].gen /\ s4[x].gen <= s2'[x].gen)
    <3> SUFFICES ASSUME NEW x \in Groups, s4[x] # None
                 PROVE  s2'[x] # None /\ s12[x] <= s4[x].gen /\ s4[x].gen <= s2'[x].gen
      OBVIOUS
    <3>1. s4[x].gen \in Nat BY DEF CatalogueParts, Catalogue!TypeOK, Catalogue!Payloads
    <3> QED BY <1>12, <3>1 DEF CatalogueParts, Catalogue!NoneOlder
  <2>3. \A u \in DOMAIN s9 : Catalogue!LoadedNow(u) =>
          (/\ s2'[s9[u].group] # None /\ s12[s9[u].group] <= s9[u].payload.gen
           /\ s9[u].payload.gen <= s2'[s9[u].group].gen)
    <3> SUFFICES ASSUME NEW u \in DOMAIN s9, Catalogue!LoadedNow(u)
                 PROVE  /\ s2'[s9[u].group] # None /\ s12[s9[u].group] <= s9[u].payload.gen
                        /\ s9[u].payload.gen <= s2'[s9[u].group].gen
      OBVIOUS
    <3>1. s9[u] \in Catalogue!Loaded /\ s9[u].group \in Groups
      BY TaskType DEF CatalogueParts, Catalogue!LoadedNow
    <3>2. s9[u].payload.gen \in Nat BY <3>1 DEF Catalogue!Loaded, Catalogue!Payloads
    <3> QED BY <1>12, <3>1, <3>2 DEF CatalogueParts, Catalogue!NoneOlder
  <2>4. s10 # None => \A x \in Catalogue!Gathered :
          s2'[x] # None /\ s12[x] <= s10.payload[x].gen /\ s10.payload[x].gen <= s2'[x].gen
    <3> SUFFICES ASSUME s10 # None, NEW x \in Catalogue!Gathered
                 PROVE  /\ s2'[x] # None /\ s12[x] <= s10.payload[x].gen
                        /\ s10.payload[x].gen <= s2'[x].gen
      OBVIOUS
    <3>1. x \in Groups /\ s10.payload[x] \in Catalogue!Payloads
      BY DEF CatalogueParts, Catalogue!TypeOK, Catalogue!Progress, Catalogue!Gathered
    <3>2. s10.payload[x].gen \in Nat BY <3>1 DEF Catalogue!Payloads
    <3> QED BY <1>12, <3>1, <3>2 DEF CatalogueParts, Catalogue!NoneOlder
  <2> QED BY <1>1, <2>1, <2>2, <2>3, <2>4
          DEF Catalogue!NoneOlder, Catalogue!Between, Catalogue!LoadedNow, Catalogue!Gathered
<1>14. \A x \in Groups : s2'[x] # s2[x] => ~s2'[x].readable BY <1>3, <1>5
<1> QED BY <1>1, <1>6, <1>7, <1>8, <1>9, <1>11, <1>13, <1>14 DEF CatalogueParts

LEMMA CatalogueTick ==
  ASSUME CatalogueParts, Catalogue!Tick
  PROVE  CatalogueParts' /\ UNCHANGED <<s2, s12>>
<1>1. s1' = s1 + 1 /\ s1 \in Nat /\ UNCHANGED <<s2, s3, s4, s5, s6, s7, s9, s10, s11, s12>>
  BY DEF Catalogue!Tick, Catalogue!memory, CatalogueParts, Catalogue!TypeOK
<1>2. Catalogue!TypeOK'
  BY <1>1 DEF CatalogueParts, Catalogue!TypeOK, Catalogue!Progress, Catalogue!Gathered
<1>3. Catalogue!Exact' /\ Catalogue!Tracked'
  BY <1>1 DEF CatalogueParts, Catalogue!Exact, Catalogue!GenerationIsContent, Catalogue!Gathered,
              Catalogue!ToSet, Catalogue!Tracked
<1>4. Catalogue!KeysTell' BY <1>1 DEF CatalogueParts, Catalogue!KeysTell
<1>5. Catalogue!FreshOrRefused'
  <2>1. s10 # None => s10.begun <= s1 + 1
    <3>1. s10 # None => s10.begun \in Nat /\ s10.begun <= s1
      BY DEF CatalogueParts, Catalogue!TypeOK, Catalogue!Progress, Catalogue!FreshOrRefused
    <3> QED BY <1>1, <3>1
  <2> QED BY <1>1, <2>1 DEF CatalogueParts, Catalogue!FreshOrRefused, Catalogue!StaleOnlyIfRefused,
                            Catalogue!LoadedNow, Catalogue!Gathered
<1>6. \A x \in Groups : (s2[x] # None /\ s1 + 1 <= s2[x].at + MaxAge) => Catalogue!IsFresh(x)
  <2> SUFFICES ASSUME NEW x \in Groups, s2[x] # None, s1 + 1 <= s2[x].at + MaxAge
               PROVE  s1 <= s2[x].at + MaxAge
    BY DEF Catalogue!IsFresh
  <2>1. s2[x].at \in Nat BY DEF CatalogueParts, Catalogue!TypeOK, Catalogue!Files
  <2> QED BY <1>1, <2>1, CatalogueLimits
<1>7. Catalogue!LocksHeld'
  <2> SUFFICES ASSUME NEW u \in DOMAIN s9
               PROVE  /\ s9[u].phase \in {"probing", "downloading", "mirroring", "writing"} =>
                           s7[Catalogue!LockOf(u)] = u
                      /\ s9[u].phase \in {"downloading", "mirroring", "writing"} =>
                           ~(s2[s9[u].group] # None /\ s1 + 1 <= s2[s9[u].group].at + MaxAge)
    BY <1>1 DEF Catalogue!LocksHeld, Catalogue!LockOf, Catalogue!IsFresh
  <2>1. s9[u].group \in Groups BY TaskType DEF CatalogueParts
  <2> QED BY <1>6, <2>1 DEF CatalogueParts, Catalogue!LocksHeld
<1>8. Catalogue!NoneOlder'
  BY <1>1 DEF CatalogueParts, Catalogue!NoneOlder, Catalogue!LoadedNow, Catalogue!Between,
              Catalogue!Gathered
<1> QED BY <1>1, <1>2, <1>3, <1>4, <1>5, <1>7, <1>8 DEF CatalogueParts

\* A task leaves the answers as they are, and replaces a file that has aged.
LEMMA CatalogueTaskStep ==
  ASSUME CatalogueParts, NEW t, Catalogue!TaskStep(t)
  PROVE  CatalogueParts' /\ UNCHANGED s12 /\ Catalogue!ReplacesAgedOnly
<1>1. t \in DOMAIN s9 BY DEF Catalogue!TaskStep
<1>2. CASE Catalogue!Acquire(t)
  BY <1>1, <1>2, CatalogueAcquire DEF Catalogue!Acquire, Catalogue!ReplacesAgedOnly
<1>3. CASE Catalogue!Probe(t)
  BY <1>1, <1>3, CatalogueProbe DEF Catalogue!Probe, Catalogue!ReplacesAgedOnly
<1>4. CASE Catalogue!Downloaded(t) \/ Catalogue!Refused(t) \/ Catalogue!Mirrored(t)
  <2>1. UNCHANGED <<s2, s12>>
    BY <1>4 DEF Catalogue!Downloaded, Catalogue!Refused, Catalogue!Mirrored
  <2> QED BY <1>1, <1>4, <2>1, CatalogueDownload DEF Catalogue!ReplacesAgedOnly
<1>5. CASE Catalogue!Write(t)
  <2>1. CatalogueParts' BY <1>1, <1>5, CatalogueWrite
  <2>2. /\ s9[t].phase = "writing" /\ UNCHANGED s12
        /\ \A x \in Groups : x # s9[t].group => s2'[x] = s2[x]
    BY <1>5 DEF Catalogue!Write, CatalogueParts, Catalogue!TypeOK
  <2>3. ~Catalogue!IsFresh(s9[t].group) BY <1>1, <2>2 DEF CatalogueParts, Catalogue!LocksHeld
  <2>4. \A x \in Groups : s2[x] # None /\ s2'[x] # s2[x] => s2[x].at + MaxAge < s1
    <3> SUFFICES ASSUME NEW x \in Groups, s2[x] # None, s2'[x] # s2[x]
                 PROVE  s2[x].at + MaxAge < s1
      OBVIOUS
    <3>1. ~(s1 <= s2[x].at + MaxAge) BY <2>2, <2>3 DEF Catalogue!IsFresh
    <3>2. s2[x].at \in Nat /\ s1 \in Nat BY DEF CatalogueParts, Catalogue!TypeOK, Catalogue!Files
    <3> QED BY <3>1, <3>2, CatalogueLimits
  <2> QED BY <2>1, <2>2, <2>4 DEF Catalogue!ReplacesAgedOnly
<1>6. CASE Catalogue!WriteFails(t)
  BY <1>1, <1>6, CatalogueWriteFails DEF Catalogue!WriteFails, Catalogue!ReplacesAgedOnly
<1> QED BY <1>2, <1>3, <1>4, <1>5, <1>6 DEF Catalogue!TaskStep

LEMMA CatalogueStepKeeps ==
  ASSUME CatalogueParts, [Catalogue!Next]_<<s1, s2, s3, s4, s5, s6, s7, s8, s9, s10, s11, s12>>
  PROVE  CatalogueParts' /\ Catalogue!Advances /\ Catalogue!ReplacesAgedOnly
<1>1. UNCHANGED s12 => Catalogue!Advances
  BY DEF Catalogue!Advances, CatalogueParts, Catalogue!TypeOK
<1>2. UNCHANGED s2 => Catalogue!ReplacesAgedOnly
  BY DEF Catalogue!ReplacesAgedOnly
<1>3. CASE Catalogue!Start
  BY <1>1, <1>2, <1>3, CatalogueStart DEF Catalogue!Start
<1>4. CASE \E t \in Catalogue!TaskIds : Catalogue!TaskStep(t)
  BY <1>1, <1>4, CatalogueTaskStep
<1>5. CASE \E s \in Requested : Catalogue!Enter(s)
  BY <1>1, <1>2, <1>5, CatalogueEnter DEF Catalogue!Enter
<1>6. CASE Catalogue!PipelineStep
  <2>1. CASE \E x \in Groups : Catalogue!Collect(x)
    BY <1>1, <1>2, <2>1, CatalogueCollect DEF Catalogue!Collect
  <2>2. CASE \E x \in Groups : Catalogue!GoWithout(x)
    BY <1>1, <1>2, <2>2, CatalogueGoWithout DEF Catalogue!GoWithout
  <2>3. CASE (\E x \in Groups : Catalogue!GiveUp(x)) \/ Catalogue!AnswerUnavailable
    BY <1>1, <1>2, <2>3, CatalogueGiveUp
  <2>4. CASE Catalogue!Answer
    BY <1>2, <2>4, CatalogueAnswer DEF Catalogue!Answer
  <2> QED BY <1>6, <2>1, <2>2, <2>3, <2>4 DEF Catalogue!PipelineStep
<1>7. CASE Catalogue!Restart
  BY <1>1, <1>2, <1>7, CatalogueRestart DEF Catalogue!Restart
<1>8. CASE \E x \in Groups : Catalogue!Spoil(x)
  BY <1>1, <1>8, CatalogueSpoil DEF Catalogue!ReplacesAgedOnly
<1>9. CASE Catalogue!Tick
  BY <1>1, <1>2, <1>9, CatalogueTick
<1>10. CASE UNCHANGED <<s1, s2, s3, s4, s5, s6, s7, s8, s9, s10, s11, s12>>
  BY <1>1, <1>2, <1>10, CatalogueFrame
<1> QED BY <1>3, <1>4, <1>5, <1>6, <1>7, <1>8, <1>9, <1>10 DEF Catalogue!Next

\* What the catalogue rests on, wherever the services' behaviour begins.
CatalogueSlice == slice = "catalogue" => CatalogueParts

LEMMA CatalogueSliceInit == MCInit => CatalogueSlice
BY CatalogueInit DEF MCInit, CatalogueSlice

LEMMA CatalogueSliceStep ==
  CatalogueSlice /\ [MCNext]_mcVars =>
    CatalogueSlice' /\ (slice = "catalogue" => Catalogue!Advances /\ Catalogue!ReplacesAgedOnly)
<1> SUFFICES ASSUME CatalogueSlice, [MCNext]_mcVars
             PROVE  /\ CatalogueSlice'
                    /\ slice = "catalogue" => Catalogue!Advances /\ Catalogue!ReplacesAgedOnly
  OBVIOUS
<1>1. slice' = slice
  BY DEF MCNext, mcVars, CatalogueStep, AstronomyStep, WeatherStep
<1>2. slice = "catalogue" => [Catalogue!Next]_<<s1, s2, s3, s4, s5, s6, s7, s8, s9, s10, s11, s12>>
  BY DEF MCNext, mcVars, CatalogueStep, AstronomyStep, WeatherStep
<1> QED BY <1>1, <1>2, CatalogueStepKeeps DEF CatalogueSlice

\* The list a request of /satellites is answered with is made of what this request
\* gathered, although the merged and the prepared list are kept over requests;
\* each payload is filed under the generation it was read in; and one that was
\* too old when the request began is used only if CelesTrak refused its group.
THEOREM AnswersAreExact == MCSpec => []AnswerIsExact
<1>1. CatalogueSlice => AnswerIsExact
  BY ListsAreExact
  DEF CatalogueSlice, CatalogueParts, AnswerIsExact, Catalogue!AnswerIsExact, Catalogue!Exact,
      Catalogue!FreshOrRefused
<1> QED BY <1>1, CatalogueSliceInit, CatalogueSliceStep, PTL DEF MCSpec

\* No group's list in an answer is older than in an earlier answer, not by a late
\* task of a request that was given up, nor over a restart; and a file of
\* CelesTrak is not replaced before it has aged, whoever asks at the same time.
THEOREM CatalogueNeverGoesBack == MCSpec => AnswersNeverGoBack
<1>1. CatalogueSlice /\ [MCNext]_mcVars =>
        [slice = "catalogue" => Catalogue!Advances /\ Catalogue!ReplacesAgedOnly]_mcVars
  BY CatalogueSliceStep
<1> QED BY <1>1, CatalogueSliceInit, CatalogueSliceStep, PTL DEF MCSpec, AnswersNeverGoBack
===============================================================================
