------------------------ MODULE AircraftSnapshotCache ------------------------
(***************************************************************************)
(* The process-wide aircraft snapshot cache of the hosted API              *)
(* (src/nightazimuth/aircraft_snapshot_cache.py).  Worker threads call     *)
(* get_or_fetch(key, fetcher) concurrently.  The first caller of a key     *)
(* becomes its loader, the others block on one Condition shared by all     *)
(* keys; a loader runs its fetcher outside the lock and publishes the      *)
(* snapshot, or leaves by an exception.  When the provider answers         *)
(* UNAVAILABLE the loader substitutes the last good snapshot it read       *)
(* before it started fetching.                                             *)
(*                                                                         *)
(* Every block the code runs under the Condition is one action.  A step    *)
(* outside the lock (the fetch, and the substitution after it) is an       *)
(* action of its own, so that other threads and the clock run between.     *)
(***************************************************************************)
EXTENDS Naturals, FiniteSets, Functions

CONSTANTS
  Threads,         \* worker threads that call get_or_fetch
  Keys,            \* cache keys: the rounded provider scope of a request
  Ttl,             \* ttl_seconds, in clock ticks
  FallbackMaxAge,  \* fallback_max_age_seconds, in clock ticks
  MaxEntries,      \* max_entries
  ClearEnabled,    \* whether clear() is called (only the tests call it)
  MaxTime,         \* bound: the last instant of the modelled clock
  MaxCalls,        \* bound: the number of calls made in a behaviour
  None             \* Python's None

Snapshot == [key: Keys, born: Nat, ok: BOOLEAN]

ASSUME CacheAssumption ==
  /\ Ttl \in Nat \ {0}
  /\ FallbackMaxAge \in Nat \ {0}
  /\ MaxEntries \in Nat \ {0}
  /\ ClearEnabled \in BOOLEAN
  /\ MaxTime \in Nat
  /\ MaxCalls \in Nat
  /\ None \notin Threads
  /\ None \notin Snapshot

\* The worker threads of the server are a pool.
ASSUME ThreadsFinite == IsFiniteSet(Threads)

VARIABLES
  now,       \* time.monotonic()
  calls,     \* calls made so far
  entries,   \* self._entries: a partial function from Keys to entries
  pc,        \* where each thread is in get_or_fetch
  key,       \* the key each thread asked for
  fallback,  \* the local fallback_snapshot of each loader
  fetched,   \* what a loader brings back: snapshot, its own now, fallback_used
  result     \* what get_or_fetch returned to each thread

vars == <<now, calls, entries, pc, key, fallback, fetched, result>>

(***************************************************************************)
(* A snapshot is abstracted to the key it was fetched for, the instant the *)
(* fetch returned it and whether its state differs from UNAVAILABLE.       *)
(*                                                                         *)
(* "owner" is the thread whose load is in progress, None when "loading" is *)
(* False.  Only the loader keeps a reference to the entry object across a  *)
(* release of the lock, so that "current is entry" is owner = t.           *)
(***************************************************************************)
Entry == [snap: Snapshot \cup {None}, expires: Nat, owner: Threads \cup {None},
          fb: BOOLEAN, good: Snapshot \cup {None}, goodExpires: Nat]

NewEntry == [snap |-> None, expires |-> 0, owner |-> None,
             fb |-> FALSE, good |-> None, goodExpires |-> 0]

Fetched == [snap: Snapshot, at: Nat, fb: BOOLEAN]

\* snap = None stands for an exception raised to the caller.
Result == [snap: Snapshot \cup {None}, hit: BOOLEAN, fb: BOOLEAN, at: Nat]

Loading == {"fetching", "publishing", "raising"}

Phases == {"idle", "lookup", "waiting", "done"} \cup Loading

Init ==
  /\ now = 0
  /\ calls = 0
  /\ entries = [k \in {} |-> NewEntry]
  /\ pc = [t \in Threads |-> "idle"]
  /\ key \in [Threads -> Keys]
  /\ fallback = [t \in Threads |-> None]
  /\ fetched = [t \in Threads |-> None]
  /\ result = [t \in Threads |-> None]

(***************************************************************************)
(* Helpers.  An operator whose comment starts with "Slip:" is no part of   *)
(* the model: it is the definition after it with one plausible mistake,    *)
(* kept to show that a property notices the mistake.                       *)
(***************************************************************************)
\* Slip: a loading entry can be pruned.
RetainedWithoutLoads(e) == now < e.expires \/ now < e.goodExpires

Retained(e) == e.owner # None \/ now < e.expires \/ now < e.goodExpires

\* _prune_locked: drop every idle entry with neither a live nor a last good snapshot.
Pruned == Restrict(entries, {k \in DOMAIN entries : Retained(entries[k])})

Rank(e) == IF e.expires < e.goodExpires THEN e.goodExpires ELSE e.expires

\* Slip: nothing is evicted.
UntrimmedCache(es, protected) == {es}

\* _trim_locked: evict idle entries, soonest to expire first, until the bound
\* is met or only loading entries and the protected key are left.
Trimmed(es, protected) ==
  LET idle   == {k \in DOMAIN es \ {protected} : es[k].owner = None}
      excess == IF Cardinality(DOMAIN es) <= MaxEntries
                THEN 0 ELSE Cardinality(DOMAIN es) - MaxEntries
      evicted(V) ==
        /\ \/ Cardinality(V) = excess
           \/ Cardinality(V) < excess /\ V = idle
        /\ \A v \in V, w \in idle \ V : Rank(es[v]) <= Rank(es[w])
  IN  {Restrict(es, DOMAIN es \ V) : V \in {W \in SUBSET idle : evicted(W)}}

\* Condition.notify_all: every waiter goes back to the top of the loop.
Awakened == [t \in Threads |-> IF pc[t] = "waiting" THEN "lookup" ELSE pc[t]]

\* Slip: the expiry instant itself counts as fresh.
LiveThroughExpiry(es, k) == k \in DOMAIN es /\ es[k].snap # None /\ now <= es[k].expires

LiveIn(es, k) == k \in DOMAIN es /\ es[k].snap # None /\ now < es[k].expires

LoadingIn(es, k) == k \in DOMAIN es /\ es[k].owner # None

\* Slip: the fallback is looked for only beside an expired live snapshot.
GoodBesideLive(es, k) ==
  IF k \in DOMAIN es /\ es[k].snap # None /\ now < es[k].goodExpires
  THEN es[k].good ELSE None

UsableGood(es, k) ==
  IF k \in DOMAIN es /\ es[k].good # None /\ now < es[k].goodExpires
  THEN es[k].good ELSE None

(***************************************************************************)
(* Actions of a caller.                                                    *)
(***************************************************************************)
Call(t, k) ==
  /\ pc[t] = "idle"
  /\ calls < MaxCalls
  /\ calls' = calls + 1
  /\ pc' = [pc EXCEPT ![t] = "lookup"]
  /\ key' = [key EXCEPT ![t] = k]
  /\ UNCHANGED <<now, entries, fallback, fetched, result>>

Hit(t) ==
  /\ pc[t] = "lookup"
  /\ LiveIn(Pruned, key[t])
  /\ entries' = Pruned
  /\ result' = [result EXCEPT ![t] =
       [snap |-> Pruned[key[t]].snap, hit |-> TRUE, fb |-> Pruned[key[t]].fb, at |-> now]]
  /\ pc' = [pc EXCEPT ![t] = "done"]
  /\ UNCHANGED <<now, calls, key, fallback, fetched>>

Wait(t) ==
  /\ pc[t] = "lookup"
  /\ ~LiveIn(Pruned, key[t])
  /\ LoadingIn(Pruned, key[t])
  /\ entries' = Pruned
  /\ pc' = [pc EXCEPT ![t] = "waiting"]
  /\ UNCHANGED <<now, calls, key, fallback, fetched, result>>

BeginLoad(t) ==
  LET k   == key[t]
      old == IF k \in DOMAIN Pruned THEN Pruned[k] ELSE NewEntry
      new == [snap |-> None, expires |-> 0, owner |-> t, fb |-> FALSE,
              good |-> old.good, goodExpires |-> old.goodExpires]
  IN  /\ pc[t] = "lookup"
      /\ ~LiveIn(Pruned, k)
      /\ ~LoadingIn(Pruned, k)
      /\ fallback' = [fallback EXCEPT ![t] = UsableGood(Pruned, k)]
      /\ entries' = [j \in DOMAIN Pruned \cup {k} |-> IF j = k THEN new ELSE Pruned[j]]
      /\ pc' = [pc EXCEPT ![t] = "fetching"]
      /\ UNCHANGED <<now, calls, key, fetched, result>>

(***************************************************************************)
(* The fetcher runs without the lock and the outcome is the environment's: *)
(* a usable snapshot, an UNAVAILABLE one, or an exception that is not an   *)
(* httpx.HTTPError.  "now = monotonic()" and the substitution follow it,   *)
(* still outside the lock.                                                 *)
(***************************************************************************)
FetchReturns(t, ok) ==
  LET live  == [key |-> key[t], born |-> now, ok |-> ok]
      useFb == ~ok /\ fallback[t] # None
  IN  /\ pc[t] = "fetching"
      /\ fetched' = [fetched EXCEPT ![t] =
           [snap |-> IF useFb THEN fallback[t] ELSE live, at |-> now, fb |-> useFb]]
      /\ pc' = [pc EXCEPT ![t] = "publishing"]
      /\ UNCHANGED <<now, calls, entries, key, fallback, result>>

FetchRaises(t) ==
  /\ pc[t] = "fetching"
  /\ pc' = [pc EXCEPT ![t] = "raising"]
  /\ UNCHANGED <<now, calls, entries, key, fallback, fetched, result>>

\* Slip: a served fallback counts as a new good snapshot.
FilledRenewing(e, f) ==
  [snap |-> f.snap, expires |-> f.at + Ttl, owner |-> None, fb |-> f.fb,
   good |-> IF f.snap.ok THEN f.snap ELSE e.good,
   goodExpires |-> IF f.snap.ok THEN f.at + FallbackMaxAge ELSE e.goodExpires]

\* Slip: a last good snapshot is not replaced before its window ends.
FilledKeepingGood(e, f) ==
  LET good == f.snap.ok /\ ~f.fb /\ (e.good = None \/ e.goodExpires <= f.at)
  IN  [snap |-> f.snap, expires |-> f.at + Ttl, owner |-> None, fb |-> f.fb,
       good |-> IF good THEN f.snap ELSE e.good,
       goodExpires |-> IF good THEN f.at + FallbackMaxAge ELSE e.goodExpires]

Filled(e, f) ==
  LET good == f.snap.ok /\ ~f.fb
  IN  [snap |-> f.snap, expires |-> f.at + Ttl, owner |-> None, fb |-> f.fb,
       good |-> IF good THEN f.snap ELSE e.good,
       goodExpires |-> IF good THEN f.at + FallbackMaxAge ELSE e.goodExpires]

\* The loader of e left by an exception.
Unloaded(e) == [snap |-> e.snap, expires |-> e.expires, owner |-> None, fb |-> e.fb,
               good |-> e.good, goodExpires |-> e.goodExpires]

\* The entry was dropped by clear() while t was fetching: t fills an object
\* that no other thread can reach.
Owns(t) == key[t] \in DOMAIN entries /\ entries[key[t]].owner = t

\* Slip: publishing wakes nobody.
PublishSilently(t) ==
  LET f    == fetched[t]
      full == IF Owns(t) THEN [entries EXCEPT ![key[t]] = Filled(@, f)] ELSE entries
  IN  /\ pc[t] = "publishing"
      /\ entries' \in Trimmed(full, key[t])
      /\ result' = [result EXCEPT ![t] =
           [snap |-> f.snap, hit |-> FALSE, fb |-> f.fb, at |-> f.at]]
      /\ pc' = [pc EXCEPT ![t] = "done"]
      /\ fetched' = [fetched EXCEPT ![t] = None]
      /\ fallback' = [fallback EXCEPT ![t] = None]
      /\ UNCHANGED <<now, calls, key>>

Publish(t) ==
  LET f    == fetched[t]
      full == IF Owns(t) THEN [entries EXCEPT ![key[t]] = Filled(@, f)] ELSE entries
  IN  /\ pc[t] = "publishing"
      /\ entries' \in Trimmed(full, key[t])
      /\ result' = [result EXCEPT ![t] =
           [snap |-> f.snap, hit |-> FALSE, fb |-> f.fb, at |-> f.at]]
      /\ pc' = [Awakened EXCEPT ![t] = "done"]
      /\ fetched' = [fetched EXCEPT ![t] = None]
      /\ fallback' = [fallback EXCEPT ![t] = None]
      /\ UNCHANGED <<now, calls, key>>

\* The except branch: the entry is kept, no longer loading, and nothing is trimmed.
Abandon(t) ==
  /\ pc[t] = "raising"
  /\ entries' = IF Owns(t) THEN [entries EXCEPT ![key[t]] = Unloaded(@)] ELSE entries
  /\ pc' = [(IF Owns(t) THEN Awakened ELSE pc) EXCEPT ![t] = "done"]
  /\ result' = [result EXCEPT ![t] = [snap |-> None, hit |-> FALSE, fb |-> FALSE, at |-> now]]
  /\ fallback' = [fallback EXCEPT ![t] = None]
  /\ UNCHANGED <<now, calls, key, fetched>>

\* The caller consumes what it got and its thread is free for another request.
Respond(t) ==
  /\ pc[t] = "done"
  /\ pc' = [pc EXCEPT ![t] = "idle"]
  /\ result' = [result EXCEPT ![t] = None]
  /\ UNCHANGED <<now, calls, entries, key, fallback, fetched>>

(***************************************************************************)
(* clear(), the clock, and the end of a bounded behaviour.                 *)
(***************************************************************************)
\* Slip: clear() forgets to notify.
ClearSilently ==
  /\ ClearEnabled
  /\ entries' = [k \in {} |-> NewEntry]
  /\ UNCHANGED <<now, calls, pc, key, fallback, fetched, result>>

Clear ==
  /\ ClearEnabled
  /\ entries' = [k \in {} |-> NewEntry]
  /\ pc' = Awakened
  /\ UNCHANGED <<now, calls, key, fallback, fetched, result>>

Tick ==
  /\ now < MaxTime
  /\ now' = now + 1
  /\ UNCHANGED <<calls, entries, pc, key, fallback, fetched, result>>

AllServed ==
  /\ calls = MaxCalls
  /\ \A t \in Threads : pc[t] = "idle"
  /\ UNCHANGED vars

Step(t) ==
  \/ Hit(t)
  \/ Wait(t)
  \/ BeginLoad(t)
  \/ \E ok \in BOOLEAN : FetchReturns(t, ok)
  \/ FetchRaises(t)
  \/ Publish(t)
  \/ Abandon(t)
  \/ Respond(t)

Next ==
  \/ \E t \in Threads, k \in Keys : Call(t, k)
  \/ \E t \in Threads : Step(t)
  \/ Clear
  \/ Tick
  \/ AllServed

Spec == Init /\ [][Next]_vars

(***************************************************************************)
(* Fairness: a runnable thread is eventually scheduled, and a fetch ends   *)
(* because every provider request carries an HTTP timeout and the retries  *)
(* are bounded.  Calls, clear() and the clock are not fair.                *)
(***************************************************************************)
FairSpec == Spec /\ \A t \in Threads : WF_vars(Step(t))

(***************************************************************************)
(* Properties.                                                             *)
(***************************************************************************)
TypeOK ==
  /\ now \in Nat
  /\ calls \in Nat
  /\ DOMAIN entries \subseteq Keys
  /\ entries \in [DOMAIN entries -> Entry]
  /\ pc \in [Threads -> Phases]
  /\ key \in [Threads -> Keys]
  /\ fallback \in [Threads -> Snapshot \cup {None}]
  /\ fetched \in [Threads -> Fetched \cup {None}]
  /\ result \in [Threads -> Result \cup {None}]

\* Single flight: two threads never run a provider fetch for one key at the
\* same time, whatever is pruned, trimmed, expired or abandoned meanwhile.
\* clear() may break this, so it is stated for a cache that is not cleared.
SingleFlight ==
  ~ClearEnabled =>
    \A s, t \in Threads :
      pc[s] \in Loading /\ pc[t] \in Loading /\ key[s] = key[t] => s = t

\* No lost wakeup: a thread blocked on the Condition always has a loader for
\* its key that is still running and will notify it, across clear() as well.
WaiterHasLoader ==
  \A t \in Threads : pc[t] = "waiting" =>
    /\ LoadingIn(entries, key[t])
    /\ pc[entries[key[t]].owner] \in Loading
    /\ key[entries[key[t]].owner] = key[t]

\* A cached live snapshot is never served once it is Ttl old, counted from the
\* moment the fetch returned it and not from the later publication.
HitIsFresh ==
  \A t \in Threads :
    result[t] # None /\ result[t].hit /\ ~result[t].fb =>
      result[t].at < result[t].snap.born + Ttl

\* Serving a fallback never renews it: the last-known-good window of an entry
\* is always counted from the fetch that produced the good snapshot.
LastGoodNotRenewed ==
  \A k \in DOMAIN entries : entries[k].good # None =>
    /\ entries[k].good.ok
    /\ entries[k].goodExpires = entries[k].good.born + FallbackMaxAge

\* An UNAVAILABLE snapshot is cached for a key only when the key has no last
\* good snapshot inside its window that could have bridged the failure.
UnavailableOnlyWithoutFallback ==
  \A k \in DOMAIN entries :
    entries[k].snap # None /\ ~entries[k].snap.ok =>
      entries[k].good = None \/ entries[k].goodExpires <= now

\* The cache outgrows max_entries by no more than the work in progress: loading
\* entries cannot be evicted, a failed load trims nothing, and an entry a failed
\* load leaves behind stays until the next lookup prunes it.
EntriesBounded ==
  LET threads == Cardinality(Threads)
  IN  Cardinality(DOMAIN entries) <=
        threads + (IF threads < MaxEntries THEN MaxEntries ELSE threads)

\* A fallback is inside the accepted data-age window when it is served.
FallbackWithinWindow ==
  \A t \in Threads :
    result[t] # None /\ result[t].fb =>
      result[t].at < result[t].snap.born + FallbackMaxAge

(***************************************************************************)
(* The abstract state: SharedLoad sees neither the Condition nor expiries. *)
(***************************************************************************)
AbstractPhase(p) ==
  IF p \in Loading THEN "loading" ELSE IF p \in {"lookup", "waiting"} THEN "asking" ELSE p

PhaseBar == [t \in Threads |-> AbstractPhase(pc[t])]

ShelfBar == [k \in Keys |-> IF k \in DOMAIN entries THEN entries[k].snap ELSE None]

AnswerBar == [t \in Threads |-> IF pc[t] = "done" THEN result[t].snap ELSE None]

Shared == INSTANCE SharedLoad WITH
  Values <- Snapshot, phase <- PhaseBar, want <- key, shelf <- ShelfBar, answer <- AnswerBar

\* The cache implements SharedLoad: exclusive loads, answers that are completed
\* loads of the caller's key, and entries that vanish but are never altered.
ImplementsSharedLoad == Shared!Spec

\* Every call of get_or_fetch returns, by a snapshot or by an exception.
EveryCallReturns ==
  \A t \in Threads : pc[t] # "idle" ~> pc[t] = "idle"

==============================================================================
