------------------------- MODULE WeatherSnapshotCache -------------------------
(***************************************************************************)
(* The in-memory weather cache shared by the weather and the observing     *)
(* endpoint (src/nightazimuth/weather_snapshot_cache.py).  Its shape is    *)
(* that of the aircraft cache: one Condition, one loader per key, waiters  *)
(* that look again when they are woken.  Three things differ: a snapshot   *)
(* the provider marks as a fallback lives for a shorter time, the expiry   *)
(* is counted from the publication, and a failed load removes its entry    *)
(* and wakes everybody whether or not the entry is still its own.          *)
(* clear(), which only the tests call, is left out.                        *)
(***************************************************************************)
EXTENDS Naturals, FiniteSets, Functions

CONSTANTS
  Threads, Keys,
  Ttl,           \* ttl_seconds, in clock ticks
  FallbackTtl,   \* fallback_ttl_seconds, in clock ticks
  MaxEntries,    \* max_entries
  MaxTime,       \* bound: the last instant of the modelled clock
  MaxCalls,      \* bound: the number of calls made in a behaviour
  None

\* born: when the data was downloaded; fb: fallback_used, set by the provider.
Snapshot == [key: Keys, born: Nat, fb: BOOLEAN]

WeatherCacheAssumption ==
  /\ IsFiniteSet(Threads)
  /\ Ttl \in Nat \ {0}
  /\ FallbackTtl \in Nat \ {0}
  /\ MaxEntries \in Nat \ {0}
  /\ MaxTime \in Nat
  /\ MaxCalls \in Nat
  /\ None \notin Threads
  /\ None \notin Snapshot

VARIABLES
  now, calls,
  entries,  \* self._entries
  pc,       \* where each thread is in get_or_load
  key,      \* the key each thread asked for
  loaded,   \* the local snapshot of each loader, not yet published
  result    \* what get_or_load returned, snap = None when it raised

vars == <<now, calls, entries, pc, key, loaded, result>>

\* owner: the loading thread, None when "loading" is False.  Only the loader
\* keeps the entry object across a release, so "current is entry" is Owns.
Entry == [snap: Snapshot \cup {None}, expires: Nat, owner: Threads \cup {None}]

Result == [snap: Snapshot \cup {None}, hit: BOOLEAN, at: Nat]

Loading == {"loading", "publishing", "raising"}

Phases == {"idle", "lookup", "waiting", "done"} \cup Loading

NoEntries == [k \in {} |-> None]

Init ==
  /\ now = 0
  /\ calls = 0
  /\ entries = NoEntries
  /\ pc = [t \in Threads |-> "idle"]
  /\ key \in [Threads -> Keys]
  /\ loaded = [t \in Threads |-> None]
  /\ result = [t \in Threads |-> None]

(***************************************************************************)
(* Helpers.  "Slip:" marks a definition that is no part of the model: the  *)
(* one after it with a plausible mistake.                                  *)
(***************************************************************************)
\* Slip: a loading entry is pruned, for its expires_at is 0.
RetainedWithoutLoads(e) == now < e.expires

Retained(e) == e.owner # None \/ now < e.expires

\* _prune_locked.
Pruned == Restrict(entries, {k \in DOMAIN entries : Retained(entries[k])})

\* Slip: the snapshot just loaded is not made room for.
TrimmedOneShort(es, protected) ==
  LET idle    == {k \in DOMAIN es \ {protected} : es[k].owner = None}
      bound   == MaxEntries + 1
      excess  == IF Cardinality(DOMAIN es) <= bound THEN 0 ELSE Cardinality(DOMAIN es) - bound
      evicted(V) ==
        /\ \/ Cardinality(V) = excess
           \/ Cardinality(V) < excess /\ V = idle
        /\ \A v \in V, w \in idle \ V : es[v].expires <= es[w].expires
  IN  {Restrict(es, DOMAIN es \ V) : V \in {W \in SUBSET idle : evicted(W)}}

\* _trim_locked: idle entries go, soonest to expire first, until the bound is
\* met or only loading entries and the protected one are left.
Trimmed(es, protected) ==
  LET idle   == {k \in DOMAIN es \ {protected} : es[k].owner = None}
      excess == IF Cardinality(DOMAIN es) <= MaxEntries
                THEN 0 ELSE Cardinality(DOMAIN es) - MaxEntries
      evicted(V) ==
        /\ \/ Cardinality(V) = excess
           \/ Cardinality(V) < excess /\ V = idle
        /\ \A v \in V, w \in idle \ V : es[v].expires <= es[w].expires
  IN  {Restrict(es, DOMAIN es \ V) : V \in {W \in SUBSET idle : evicted(W)}}

Awakened == [t \in Threads |-> IF pc[t] = "waiting" THEN "lookup" ELSE pc[t]]

LiveIn(es, k) == k \in DOMAIN es /\ es[k].snap # None /\ now < es[k].expires

LoadingIn(es, k) == k \in DOMAIN es /\ es[k].owner # None

Owns(t) == key[t] \in DOMAIN entries /\ entries[key[t]].owner = t

Lifetime(snap) == IF snap.fb THEN FallbackTtl ELSE Ttl

Filled(snap) == [snap |-> snap, expires |-> now + Lifetime(snap), owner |-> None]

(***************************************************************************)
(* Actions.                                                                *)
(***************************************************************************)
Call(t, k) ==
  /\ pc[t] = "idle"
  /\ calls < MaxCalls
  /\ calls' = calls + 1
  /\ pc' = [pc EXCEPT ![t] = "lookup"]
  /\ key' = [key EXCEPT ![t] = k]
  /\ UNCHANGED <<now, entries, loaded, result>>

Hit(t) ==
  /\ pc[t] = "lookup"
  /\ LiveIn(Pruned, key[t])
  /\ entries' = Pruned
  /\ result' = [result EXCEPT ![t] = [snap |-> Pruned[key[t]].snap, hit |-> TRUE, at |-> now]]
  /\ pc' = [pc EXCEPT ![t] = "done"]
  /\ UNCHANGED <<now, calls, key, loaded>>

Wait(t) ==
  /\ pc[t] = "lookup"
  /\ ~LiveIn(Pruned, key[t])
  /\ LoadingIn(Pruned, key[t])
  /\ entries' = Pruned
  /\ pc' = [pc EXCEPT ![t] = "waiting"]
  /\ UNCHANGED <<now, calls, key, loaded, result>>

BeginLoad(t) ==
  LET k   == key[t]
      new == [snap |-> None, expires |-> 0, owner |-> t]
  IN  /\ pc[t] = "lookup"
      /\ ~LiveIn(Pruned, k)
      /\ ~LoadingIn(Pruned, k)
      /\ entries' = [j \in DOMAIN Pruned \cup {k} |-> IF j = k THEN new ELSE Pruned[j]]
      /\ pc' = [pc EXCEPT ![t] = "loading"]
      /\ UNCHANGED <<now, calls, key, loaded, result>>

\* The loader runs outside the lock.
LoadReturns(t, snap) ==
  /\ pc[t] = "loading"
  /\ loaded' = [loaded EXCEPT ![t] = snap]
  /\ pc' = [pc EXCEPT ![t] = "publishing"]
  /\ UNCHANGED <<now, calls, entries, key, result>>

LoadRaises(t) ==
  /\ pc[t] = "loading"
  /\ pc' = [pc EXCEPT ![t] = "raising"]
  /\ UNCHANGED <<now, calls, entries, key, loaded, result>>

Publish(t) ==
  LET snap == loaded[t]
      full == IF Owns(t) THEN [entries EXCEPT ![key[t]] = Filled(snap)] ELSE entries
  IN  /\ pc[t] = "publishing"
      /\ entries' \in Trimmed(full, key[t])
      /\ result' = [result EXCEPT ![t] = [snap |-> snap, hit |-> FALSE, at |-> now]]
      /\ pc' = [Awakened EXCEPT ![t] = "done"]
      /\ loaded' = [loaded EXCEPT ![t] = None]
      /\ UNCHANGED <<now, calls, key>>

\* Slip: a failed load wakes nobody.
AbandonSilently(t) ==
  /\ pc[t] = "raising"
  /\ entries' = IF Owns(t) THEN Restrict(entries, DOMAIN entries \ {key[t]}) ELSE entries
  /\ pc' = [pc EXCEPT ![t] = "done"]
  /\ result' = [result EXCEPT ![t] = [snap |-> None, hit |-> FALSE, at |-> now]]
  /\ UNCHANGED <<now, calls, key, loaded>>

Abandon(t) ==
  /\ pc[t] = "raising"
  /\ entries' = IF Owns(t) THEN Restrict(entries, DOMAIN entries \ {key[t]}) ELSE entries
  /\ pc' = [Awakened EXCEPT ![t] = "done"]
  /\ result' = [result EXCEPT ![t] = [snap |-> None, hit |-> FALSE, at |-> now]]
  /\ UNCHANGED <<now, calls, key, loaded>>

Respond(t) ==
  /\ pc[t] = "done"
  /\ pc' = [pc EXCEPT ![t] = "idle"]
  /\ result' = [result EXCEPT ![t] = None]
  /\ UNCHANGED <<now, calls, entries, key, loaded>>

Tick ==
  /\ now < MaxTime
  /\ now' = now + 1
  /\ UNCHANGED <<calls, entries, pc, key, loaded, result>>

(***************************************************************************)
(* Properties.                                                             *)
(***************************************************************************)
TypeOK ==
  /\ now \in Nat
  /\ calls \in Nat
  /\ DOMAIN entries \subseteq Keys
  /\ entries \in [DOMAIN entries -> Entry]
  /\ pc \in [Threads -> Phases]
  /\ key \in [Threads -> Keys]
  /\ loaded \in [Threads -> Snapshot \cup {None}]
  /\ result \in [Threads -> Result \cup {None}]

\* No lost wakeup: a blocked thread has a running loader for its own key.
WaiterHasLoader ==
  \A t \in Threads : pc[t] = "waiting" =>
    /\ LoadingIn(entries, key[t])
    /\ pc[entries[key[t]].owner] \in Loading
    /\ key[entries[key[t]].owner] = key[t]

\* The entries kept for their data never exceed max_entries: the cache outgrows
\* its bound only by loads in progress, failed ones included.
IdleBounded ==
  Cardinality({k \in DOMAIN entries : entries[k].owner = None}) <= MaxEntries

\* A fallback never hides the provider for longer than the fallback lifetime,
\* and an entry that is not loading always has something to serve.
FallbackRetriedSoon ==
  \A k \in DOMAIN entries : entries[k].owner = None =>
    /\ entries[k].snap # None
    /\ entries[k].snap.fb => entries[k].expires <= now + FallbackTtl

AbstractPhase(p) == IF p \in {"lookup", "waiting"} THEN "asking"
                    ELSE IF p \in Loading THEN "loading" ELSE p

PhaseBar == [t \in Threads |-> AbstractPhase(pc[t])]

ShelfBar == [k \in Keys |-> IF k \in DOMAIN entries THEN entries[k].snap ELSE None]

AnswerBar == [t \in Threads |-> IF pc[t] = "done" THEN result[t].snap ELSE None]

Shared == INSTANCE SharedLoad WITH
  Values <- Snapshot, phase <- PhaseBar, want <- key, shelf <- ShelfBar, answer <- AnswerBar

\* The weather cache keeps the same promise as the aircraft cache: a step of it
\* is one of SharedLoad, with exclusive loads per key and answers that are
\* completed loads of the caller's key, or none.
SharesLoads == [Shared!Next]_(Shared!vars)

==============================================================================
