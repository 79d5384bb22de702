--------------------------- MODULE AstronomyAdmission ---------------------------
(***************************************************************************)
(* The middleware of the API (api.py) with the expensive endpoints behind  *)
(* its admission gate: /sky (api_sky.py) and /satellites                   *)
(* (api_satellites_cached.py), each with a burst cache (burst_cache.py).   *)
(* An astronomy request waits for the only permit, looks its key up in the *)
(* burst cache, computes on a miss and stores what it computed.  Requests  *)
(* for other paths, and those refused for their query string, pass the     *)
(* middleware without touching this state.                                 *)
(***************************************************************************)
EXTENDS Naturals, Sequences, SequencesExt, FiniteSetsExt

CONSTANTS
  Requests,    \* the requests that can be in progress at the same time
  Keys,        \* the exact parameters a burst result is kept under
  CacheOf,     \* the burst cache of a key: that of /sky or that of /satellites
  Ttl,         \* ttl_seconds of the burst caches
  MaxEntries,  \* max_entries of the burst caches
  MaxTime,     \* bound: the last instant of the modelled clock
  MaxRequests, \* bound: the number of requests of a behaviour
  None

AdmissionAssumption ==
  /\ DOMAIN CacheOf = Keys
  /\ None \notin Requests \cup Keys \cup Nat
  /\ Ttl \in Nat \ {0} /\ MaxEntries \in Nat \ {0}
  /\ MaxTime \in Nat /\ MaxRequests \in Nat

VARIABLES
  now,
  holder,   \* the request inside the gate, or None
  queue,    \* the requests waiting for the permit, in order of arrival
  request,  \* what each request is doing
  burst,    \* per burst cache its entries, the least recently used one first
  served    \* history: key and result of every request, in the order they ended

vars == <<now, holder, queue, request, burst, served>>

Caches == {CacheOf[k] : k \in Keys}

Idle == [phase |-> "idle"]

Init ==
  /\ now = 0
  /\ holder = None
  /\ queue = <<>>
  /\ request = [r \in Requests |-> Idle]
  /\ burst = [c \in Caches |-> <<>>]
  /\ served = <<>>

Pending == {r \in Requests : request[r] # Idle}

\* The permit goes to the request itself when nobody is inside or waiting.
Arrive(r, k) ==
  /\ Len(served) + Cardinality(Pending) < MaxRequests
  /\ request[r] = Idle
  /\ IF holder = None
     THEN holder' = r /\ UNCHANGED queue
     ELSE queue' = Append(queue, r) /\ UNCHANGED holder
  /\ request' = [request EXCEPT ![r] = [phase |-> "admission", key |-> k]]
  /\ UNCHANGED <<now, burst, served>>

Places(c, k) == {i \in DOMAIN burst[c] : burst[c][i].key = k}

Without(c, k) ==
  IF Places(c, k) = {} THEN burst[c] ELSE RemoveAt(burst[c], CHOOSE i \in Places(c, k) : TRUE)

Stored(c, k) == {e \in ToSet(burst[c]) : e.key = k}

Alive(e) == now < e.at + Ttl

\* Slip: a hit leaves the order of use alone.
MovedNowhere(c, e) == burst[c]

\* BurstResultCache.get: an entry found alive becomes the most recently used.
Moved(c, e) == Append(Without(c, e.key), e)

\* BurstResultCache.put: the entry is replaced or added last, the first give way.
Put(c, k) ==
  LET all == Append(Without(c, k), [key |-> k, at |-> now])
  IN  SubSeq(all, Len(all) - Min({Len(all), MaxEntries}) + 1, Len(all))

\* The admitted request finds its result and will answer with it.
Hit(r) ==
  /\ holder = r
  /\ request[r].phase = "admission"
  /\ LET k == request[r].key
         c == CacheOf[k]
     IN  \E e \in Stored(c, k) :
           /\ Alive(e)
           /\ burst' = [burst EXCEPT ![c] = Moved(c, e)]
           /\ request' = [request EXCEPT ![r] =
                            [phase |-> "answering", key |-> k, stored |-> e.at]]
  /\ UNCHANGED <<now, holder, queue, served>>

\* The admitted request finds nothing, or what it drops as expired, and computes.
Miss(r) ==
  /\ holder = r
  /\ request[r].phase = "admission"
  /\ LET k == request[r].key
         c == CacheOf[k]
     IN  /\ \A e \in Stored(c, k) : ~Alive(e)
         /\ burst' = [burst EXCEPT ![c] = Without(c, k)]
         /\ request' = [request EXCEPT ![r] = [phase |-> "computing", key |-> k, since |-> now]]
  /\ UNCHANGED <<now, holder, queue, served>>

\* The computed payload is stored and returned.
Computed(r) ==
  /\ request[r].phase = "computing"
  /\ LET k == request[r].key
     IN  /\ burst' = [burst EXCEPT ![CacheOf[k]] = Put(CacheOf[k], k)]
         /\ request' = [request EXCEPT ![r] =
                          [phase |-> "answering", key |-> k, stored |-> now]]
  /\ UNCHANGED <<now, holder, queue, served>>

\* HTTPException (a 503 response) or another exception (re-raised, recorded as
\* 500): nothing is stored.
Failed(r) ==
  /\ request[r].phase = "computing"
  /\ request' = [request EXCEPT ![r] =
                   [phase |-> "answering", key |-> request[r].key, stored |-> None]]
  /\ UNCHANGED <<now, holder, queue, burst, served>>

\* Leaving the gate hands the permit to the head of the queue.
Released ==
  IF queue = <<>> THEN holder' = None /\ queue' = <<>>
                  ELSE holder' = Head(queue) /\ queue' = Tail(queue)

\* The event loop leaves the gate and records the request (ObservabilityStore)
\* in one step.
Finish(r) ==
  /\ request[r].phase = "answering"
  /\ Released
  /\ request' = [request EXCEPT ![r] = Idle]
  /\ served' = Append(served, [key |-> request[r].key, stored |-> request[r].stored])
  /\ UNCHANGED <<now, burst>>

Tick ==
  /\ now < MaxTime
  /\ now' = now + 1
  /\ UNCHANGED <<holder, queue, request, burst, served>>

Work(r) == Hit(r) \/ Miss(r) \/ Computed(r) \/ Failed(r) \/ Finish(r)

Next ==
  \/ \E r \in Requests : (\E k \in Keys : Arrive(r, k)) \/ Work(r)
  \/ Tick

Spec == Init /\ [][Next]_vars

(***************************************************************************)
(* Properties.                                                             *)
(***************************************************************************)
\* The gate of the middleware: a request in progress holds the permit or waits
\* in the queue exactly once, only the holder computes, and the permit is never
\* free while somebody waits.
OneInside ==
  /\ Pending = ToSet(queue) \cup ({holder} \ {None})
  /\ Len(queue) + (IF holder = None THEN 0 ELSE 1) = Cardinality(Pending)
  /\ \A r \in Requests : request[r].phase \in {"computing", "answering"} => holder = r
  /\ holder = None => queue = <<>>

\* Of entry i of the history: another key of the same burst cache was used after it.
UsedAfter(i) ==
  {served[j].key : j \in {j \in i+1..Len(served) :
     /\ served[j].stored # None
     /\ served[j].key # served[i].key
     /\ CacheOf[served[j].key] = CacheOf[served[i].key]}}

\* Burst sharing (docs/CURRENT_ARCHITECTURE.md): a request computes although an
\* earlier request with the same parameters obtained a result less than Ttl old
\* only if at least MaxEntries other results were used since.
NoRepeatedWork ==
  \A r \in Requests : request[r].phase = "computing" =>
    \A i \in DOMAIN served :
      /\ served[i].key = request[r].key
      /\ served[i].stored # None
      /\ request[r].since < served[i].stored + Ttl
      => Cardinality(UsedAfter(i)) >= MaxEntries

(***************************************************************************)
(* What these properties rest on.                                          *)
(***************************************************************************)
Waiting == [phase : {"admission"}, key : Keys]
Computing == [phase : {"computing"}, key : Keys, since : Nat]
Answering == [phase : {"answering"}, key : Keys, stored : Nat \cup {None}]
Entries == [key : Keys, at : Nat]
Answers == [key : Keys, stored : Nat \cup {None}]

TypeOK ==
  /\ now \in Nat
  /\ holder \in Requests \cup {None}
  /\ queue \in Seq(Requests)
  /\ request \in [Requests -> {Idle} \cup Waiting \cup Computing \cup Answering]
  /\ burst \in [Caches -> Seq(Entries)]
  /\ served \in Seq(Answers)
  /\ IsFiniteSet(Pending)

\* Nobody waits twice, and nobody waits inside.
InLine ==
  /\ \A i, j \in DOMAIN queue : queue[i] = queue[j] => i = j
  /\ holder \notin ToSet(queue)

\* An entry per key, each in the cache of its key and not too many of them.
CachesKept ==
  \A c \in Caches :
    /\ Len(burst[c]) <= MaxEntries
    /\ \A i \in DOMAIN burst[c] : CacheOf[burst[c][i].key] = c
    /\ \A i, j \in DOMAIN burst[c] : burst[c][i].key = burst[c][j].key => i = j

\* Nothing is dated later than now.
Dated ==
  /\ \A c \in Caches : \A i \in DOMAIN burst[c] : burst[c][i].at <= now
  /\ \A r \in Requests :
       request[r].phase = "answering" /\ request[r].stored # None => request[r].stored <= now
  /\ \A i \in DOMAIN served : served[i].stored # None => served[i].stored <= now

\* What is going to be answered was the last to be used.
LastUsed ==
  \A r \in Requests :
    request[r].phase = "answering" /\ request[r].stored # None =>
      LET entries == burst[CacheOf[request[r].key]]
      IN  /\ entries # <<>>
          /\ entries[Len(entries)].key = request[r].key
          /\ entries[Len(entries)].at = request[r].stored

\* The key a request inside is going to answer with.
UsedNow ==
  {request[r].key : r \in {r \in Requests :
     request[r].phase = "answering" /\ request[r].stored # None}}

\* UsedAfter, the request inside included.
UsedSince(i) ==
  UsedAfter(i) \cup {k \in UsedNow : k # served[i].key /\ CacheOf[k] = CacheOf[served[i].key]}

\* The result of entry i of the history, or a later one, is still stored, and what
\* stands behind it was used since.
StillStored(i) ==
  LET entries == burst[CacheOf[served[i].key]]
  IN  \E p \in DOMAIN entries :
        /\ entries[p].key = served[i].key /\ entries[p].at >= served[i].stored
        /\ \A q \in DOMAIN entries : q > p => entries[q].key \in UsedSince(i)

\* A result is lost to age or to as many others as the cache takes.
LostInOrder ==
  \A i \in DOMAIN served :
    served[i].stored # None =>
      \/ StillStored(i)
      \/ now >= served[i].stored + Ttl
      \/ Cardinality(UsedSince(i)) >= MaxEntries

AdmissionInv ==
  TypeOK /\ OneInside /\ InLine /\ CachesKept /\ Dated /\ LastUsed /\ LostInOrder /\ NoRepeatedWork
==============================================================================
