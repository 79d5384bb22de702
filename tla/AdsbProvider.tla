---------------------------- MODULE AdsbProvider ----------------------------
(***************************************************************************)
(* Outbound ADS-B requests of the process (src/nightazimuth/               *)
(* aircraft_adsb_lol.py) and the failover above them (api_aircraft.py,     *)
(* the nested fetch_snapshot; api_geojson.py, which asks the primary       *)
(* provider only and goes around the snapshot cache).                      *)
(*                                                                         *)
(* Every attempt of every provider object takes the process-wide request   *)
(* gate, then a start slot under the schedule lock (sleeping inside it     *)
(* when the slot is not due), sends, and gives the gate back in a finally. *)
(* The pause before a retry is outside the gate.                           *)
(***************************************************************************)
EXTENDS Naturals, FiniteSets

CONSTANTS
  Threads,      \* threads that fetch an aircraft snapshot
  Permits,      \* _PROVIDER_REQUEST_CONCURRENCY
  MinInterval,  \* _PROVIDER_MIN_START_INTERVAL_SECONDS, in ticks
  RetryDelay,   \* _PROVIDER_RETRY_DELAY_SECONDS, in ticks
  PrimaryAttempts, SecondaryAttempts,  \* max_attempts of the two provider classes
  MaxTime,      \* bound: the last instant of the modelled clock
  MaxCalls,     \* bound: the fetches made in a behaviour
  None

ASSUME ProviderAssumption ==
  /\ IsFiniteSet(Threads)
  /\ Permits \in Nat \ {0}
  /\ MinInterval \in Nat
  /\ RetryDelay \in Nat
  /\ PrimaryAttempts \in Nat \ {0}
  /\ SecondaryAttempts \in Nat \ {0}
  /\ MaxTime \in Nat
  /\ MaxCalls \in Nat
  /\ None \notin Threads \cup Nat

VARIABLES
  now,       \* time.monotonic()
  calls,     \* fetches made so far
  pc,        \* where each thread is in fetch_snapshot
  failover,  \* whether the caller goes on to the secondary provider
  provider,  \* the provider object each thread is using
  tries,     \* requests sent so far in this fetch, by provider
  wakeAt,    \* when each sleep() ends
  free,      \* permits left in _PROVIDER_REQUEST_GATE
  lock,      \* the holder of _PROVIDER_SCHEDULE_LOCK, or None
  nextAt,    \* _PROVIDER_NEXT_REQUEST_AT
  slot       \* when the latest start slot was handed out, None before the first

vars == <<now, calls, pc, failover, provider, tries, wakeAt, free, lock, nextAt, slot>>

Providers == {"primary", "secondary"}

MaxAttempts(p) == IF p = "primary" THEN PrimaryAttempts ELSE SecondaryAttempts

\* How an attempt can end: usable JSON, a body that is not a JSON object, a
\* transport error or a retryable status, another status, or an exception that
\* is no httpx.HTTPError and leaves fetch_snapshot.
Outcomes == {"usable", "garbled", "retryable", "refused", "raised"}

Gated == {"scheduling", "sleeping", "starting", "inflight"}

Phases == {"idle", "acquiring", "backoff", "served", "unavailable", "raised"} \cup Gated

Init ==
  /\ now = 0
  /\ calls = 0
  /\ pc = [t \in Threads |-> "idle"]
  /\ failover = [t \in Threads |-> FALSE]
  /\ provider = [t \in Threads |-> "primary"]
  /\ tries = [t \in Threads |-> [p \in Providers |-> 0]]
  /\ wakeAt = [t \in Threads |-> 0]
  /\ free = Permits
  /\ lock = None
  /\ nextAt = 0
  /\ slot = None

(***************************************************************************)
(* Actions.                                                                *)
(***************************************************************************)
Fetch(t, f) ==
  /\ pc[t] = "idle"
  /\ calls < MaxCalls
  /\ calls' = calls + 1
  /\ pc' = [pc EXCEPT ![t] = "acquiring"]
  /\ failover' = [failover EXCEPT ![t] = f]
  /\ provider' = [provider EXCEPT ![t] = "primary"]
  /\ tries' = [tries EXCEPT ![t] = [p \in Providers |-> 0]]
  /\ UNCHANGED <<now, wakeAt, free, lock, nextAt, slot>>

Acquire(t) ==
  /\ pc[t] = "acquiring"
  /\ free > 0
  /\ free' = free - 1
  /\ pc' = [pc EXCEPT ![t] = "scheduling"]
  /\ UNCHANGED <<now, calls, failover, provider, tries, wakeAt, lock, nextAt, slot>>

\* The slot is due: the schedule lock is taken and released in one block.
TakeSlot(t) ==
  /\ pc[t] = "scheduling"
  /\ lock = None
  /\ nextAt <= now
  /\ nextAt' = now + MinInterval
  /\ slot' = now
  /\ pc' = [pc EXCEPT ![t] = "starting"]
  /\ UNCHANGED <<now, calls, failover, provider, tries, wakeAt, free, lock>>

\* The slot is not due: sleep(delay) while holding the schedule lock.
SleepForSlot(t) ==
  /\ pc[t] = "scheduling"
  /\ lock = None
  /\ now < nextAt
  /\ lock' = t
  /\ wakeAt' = [wakeAt EXCEPT ![t] = nextAt]
  /\ pc' = [pc EXCEPT ![t] = "sleeping"]
  /\ UNCHANGED <<now, calls, failover, provider, tries, free, nextAt, slot>>

\* Slip: the slot is dated by the clock as it was read before the sleep.
WakeWithOldClock(t) ==
  /\ pc[t] = "sleeping"
  /\ wakeAt[t] <= now
  /\ nextAt' = wakeAt[t]
  /\ slot' = now
  /\ lock' = None
  /\ pc' = [pc EXCEPT ![t] = "starting"]
  /\ UNCHANGED <<now, calls, failover, provider, tries, wakeAt, free>>

WakeForSlot(t) ==
  /\ pc[t] = "sleeping"
  /\ wakeAt[t] <= now
  /\ nextAt' = now + MinInterval
  /\ slot' = now
  /\ lock' = None
  /\ pc' = [pc EXCEPT ![t] = "starting"]
  /\ UNCHANGED <<now, calls, failover, provider, tries, wakeAt, free>>

Send(t) ==
  /\ pc[t] = "starting"
  /\ tries' = [tries EXCEPT ![t][provider[t]] = @ + 1]
  /\ pc' = [pc EXCEPT ![t] = "inflight"]
  /\ UNCHANGED <<now, calls, failover, provider, wakeAt, free, lock, nextAt, slot>>

\* attempt + 1 is the number of requests this provider object has sent.
Retries(t, o) == o = "retryable" /\ tries[t][provider[t]] < MaxAttempts(provider[t])

\* The pause before a retry grows with the attempts already made.
BackoffEnd(t) == now + RetryDelay * tries[t][provider[t]]

\* A provider that gives up answers UNAVAILABLE; only the live endpoint then
\* asks the secondary one, and only when the primary was the one that failed.
GoesOn(t) == failover[t] /\ provider[t] = "primary"

\* Slip: an exception skips the release of the gate.
PermitsUnlessRaised(o) == IF o = "raised" THEN free ELSE free + 1

\* The finally block: the gate is released however the attempt ends.
PermitsAfter(o) == free + 1

Answer(t, o) ==
  /\ pc[t] = "inflight"
  /\ free' = PermitsAfter(o)
  /\ \/ /\ o = "usable"
        /\ pc' = [pc EXCEPT ![t] = "served"]
        /\ UNCHANGED <<wakeAt, provider>>
     \/ /\ o = "raised"
        /\ pc' = [pc EXCEPT ![t] = "raised"]
        /\ UNCHANGED <<wakeAt, provider>>
     \/ /\ Retries(t, o)
        /\ pc' = [pc EXCEPT ![t] = "backoff"]
        /\ wakeAt' = [wakeAt EXCEPT ![t] = BackoffEnd(t)]
        /\ UNCHANGED provider
     \/ /\ o \in {"garbled", "retryable", "refused"} /\ ~Retries(t, o)
        /\ pc' = [pc EXCEPT ![t] = IF GoesOn(t) THEN "acquiring" ELSE "unavailable"]
        /\ provider' = [provider EXCEPT ![t] = IF GoesOn(t) THEN "secondary" ELSE @]
        /\ UNCHANGED wakeAt
  /\ UNCHANGED <<now, calls, failover, tries, lock, nextAt, slot>>

Retry(t) ==
  /\ pc[t] = "backoff"
  /\ wakeAt[t] <= now
  /\ pc' = [pc EXCEPT ![t] = "acquiring"]
  /\ UNCHANGED <<now, calls, failover, provider, tries, wakeAt, free, lock, nextAt, slot>>

Return(t) ==
  /\ pc[t] \in {"served", "unavailable", "raised"}
  /\ pc' = [pc EXCEPT ![t] = "idle"]
  /\ UNCHANGED <<now, calls, failover, provider, tries, wakeAt, free, lock, nextAt, slot>>

Tick ==
  /\ now < MaxTime
  /\ now' = now + 1
  /\ UNCHANGED <<calls, pc, failover, provider, tries, wakeAt, free, lock, nextAt, slot>>

Asleep(t) == pc[t] \in {"sleeping", "backoff"} /\ now < wakeAt[t]

\* The end of a bounded behaviour: all fetches are over, or the clock stands
\* still at its bound while a thread sleeps.
Over ==
  /\ \/ calls = MaxCalls /\ \A t \in Threads : pc[t] = "idle"
     \/ now = MaxTime /\ \E t \in Threads : Asleep(t)
  /\ UNCHANGED vars

Step(t) ==
  \/ Acquire(t)
  \/ TakeSlot(t)
  \/ SleepForSlot(t)
  \/ WakeForSlot(t)
  \/ Send(t)
  \/ \E o \in Outcomes : Answer(t, o)
  \/ Retry(t)
  \/ Return(t)

Next ==
  \/ \E t \in Threads, f \in BOOLEAN : Fetch(t, f)
  \/ \E t \in Threads : Step(t)
  \/ Tick
  \/ Over

Spec == Init /\ [][Next]_vars

(***************************************************************************)
(* Fairness: a runnable thread is scheduled, a request ends because the    *)
(* client has a timeout, and time passes as long as somebody sleeps.  It   *)
(* need not pass otherwise: a fetch never waits for the clock alone.       *)
(* Acquiring the gate is only weakly fair: a semaphore is not a queue.     *)
(***************************************************************************)
SleepEnds == (\E t \in Threads : Asleep(t)) /\ Tick

FairSpec == Spec /\ WF_vars(SleepEnds) /\ \A t \in Threads : WF_vars(Step(t))

(***************************************************************************)
(* Properties.                                                             *)
(***************************************************************************)
TypeOK ==
  /\ now \in Nat
  /\ calls \in Nat
  /\ pc \in [Threads -> Phases]
  /\ failover \in [Threads -> BOOLEAN]
  /\ provider \in [Threads -> Providers]
  /\ tries \in [Threads -> [Providers -> Nat]]
  /\ wakeAt \in [Threads -> Nat]
  /\ free \in Nat
  /\ lock \in Threads \cup {None}
  /\ nextAt \in Nat
  /\ slot \in Nat \cup {None}

\* The gate bounds the requests on the wire for all providers and endpoints
\* together, and a failed, refused or raising attempt always gives its permit
\* back: the permits left and the threads inside the gate add up.
GateConserved ==
  free + Cardinality({t \in Threads : pc[t] \in Gated}) = Permits

\* No more than _PROVIDER_REQUEST_CONCURRENCY requests are outstanding.
BoundedOutbound == Cardinality({t \in Threads : pc[t] = "inflight"}) <= Permits

\* Start slots of any two requests are at least the minimum interval apart,
\* across threads, retries and the change of provider.
SlotsSpaced ==
  [][slot' # slot /\ slot # None => slot' >= slot + MinInterval]_vars

\* Slots are not booked ahead: whoever sleeps for one sleeps at most one
\* interval, however many threads queue behind it.
ThrottleBounded ==
  \A t \in Threads : pc[t] = "sleeping" => wakeAt[t] <= now + MinInterval

\* One fetch sends at most max_attempts requests to each provider, and only a
\* live fetch whose primary failed sends any to the secondary.
AttemptsBounded ==
  \A t \in Threads :
    /\ tries[t]["primary"] <= PrimaryAttempts
    /\ tries[t]["secondary"] <= IF failover[t] THEN SecondaryAttempts ELSE 0

\* Every fetch ends, whatever mix of failures, retries and contention it meets:
\* no permit and no schedule lock is lost on any path.  A behaviour in which the
\* bounded clock runs out says nothing, and time is only forced on by sleepers.
EveryFetchEnds ==
  \A t \in Threads : pc[t] # "idle" ~> (pc[t] = "idle" \/ now = MaxTime)

=============================================================================
