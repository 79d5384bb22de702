----------------------------- MODULE AircraftApi -----------------------------
(***************************************************************************)
(* GET /api/v1/aircraft (src/nightazimuth/api_aircraft.py) over the        *)
(* snapshot cache: a request reads the wall clock once, before it asks the *)
(* cache, and projects the snapshot it is given to that instant            *)
(* (aircraft_live.py, aircraft_motion.py).                                 *)
(*                                                                         *)
(* A snapshot stands for one aircraft: what differs between aircraft is    *)
(* only how long before the snapshot their position was fixed (seen_pos    *)
(* and the age of the provider's own clock).  Wall clock and monotonic     *)
(* clock advance together.  clear() is left out: only tests call it.       *)
(***************************************************************************)
EXTENDS AircraftSnapshotCache, Integers

CONSTANTS
  Predicted,       \* prediction_limit_seconds of AircraftMotionHistory, in ticks
  MaxPositionAge,  \* _MAX_RECENT_POSITION_AGE_SECONDS, in ticks
  MaxSeen          \* bound: the greatest age of a position inside its snapshot

ASSUME ApiAssumption ==
  /\ Predicted \in Nat
  /\ MaxPositionAge \in Nat
  /\ MaxSeen \in Nat

VARIABLES
  observedAt,  \* observed_at of the request each thread serves
  reply,       \* the last response of each thread, with the instant of the position
  newest,      \* history: the newest usable snapshot replied with, by key
  floor        \* history: newest for its key when each thread's request arrived

apiVars == <<vars, observedAt, reply, newest, floor>>

ApiInit ==
  /\ Init
  /\ observedAt = [t \in Threads |-> 0]
  /\ reply = [t \in Threads |-> [verdict |-> "none"]]
  /\ newest = [k \in Keys |-> 0]
  /\ floor = [t \in Threads |-> 0]

Request(t, k) ==
  /\ Call(t, k)
  /\ observedAt' = [observedAt EXCEPT ![t] = now]
  /\ reply' = [reply EXCEPT ![t] = [verdict |-> "none"]]
  /\ floor' = [floor EXCEPT ![t] = newest[k]]
  /\ UNCHANGED newest

\* _normalise_record, _payload_time: the record says how long before the clock of
\* the provider, or of the request where it gives none, the position was fixed; a
\* record without a position stands for no aircraft.
PositionObservedAt(snap, seen) == snap.born - seen

\* position_age_seconds: an age is never negative.
Age(fixed, at) == IF at < fixed THEN 0 ELSE at - fixed

\* build_sky_aircraft with a history that holds this one fix: positions beyond
\* the age limit are left out, and AircraftMotionHistory.resolve knows nothing
\* of an instant before its first fix.
Verdict(fixed, at) ==
  IF Age(fixed, at) > MaxPositionAge \/ at < fixed THEN "omitted"
  ELSE IF at > fixed + Predicted THEN "stale" ELSE "shown"

\* The rest of the handler: UNAVAILABLE is answered with a 503, an exception a 500.
Answer(t, seen) ==
  LET snap  == result[t].snap
      fixed == PositionObservedAt(snap, seen)
      ok    == IF snap = None THEN FALSE ELSE snap.ok
  IN  /\ Respond(t)
      /\ \/ /\ ~ok
            /\ reply' = [reply EXCEPT ![t] = [verdict |-> "error"]]
            /\ UNCHANGED newest
         \/ /\ ok
            /\ reply' = [reply EXCEPT ![t] =
                 [verdict |-> Verdict(fixed, observedAt[t]), fixed |-> fixed]]
            /\ newest' = [newest EXCEPT ![key[t]] = IF @ < snap.born THEN snap.born ELSE @]
      /\ UNCHANGED <<observedAt, floor>>

CacheStep(t) ==
  \/ Hit(t)
  \/ Wait(t)
  \/ BeginLoad(t)
  \/ \E ok \in BOOLEAN : FetchReturns(t, ok)
  \/ FetchRaises(t)
  \/ Publish(t)
  \/ Abandon(t)

ApiNext ==
  \/ \E t \in Threads, k \in Keys : Request(t, k)
  \/ \E t \in Threads, seen \in 0..MaxSeen : Answer(t, seen)
  \/ /\ \/ \E t \in Threads : CacheStep(t)
        \/ Tick
        \/ AllServed
     /\ UNCHANGED <<observedAt, reply, newest, floor>>

ApiSpec == ApiInit /\ [][ApiNext]_apiVars

(***************************************************************************)
(* Properties.                                                             *)
(***************************************************************************)
\* The sky never goes back in time: a request is not answered with a snapshot
\* older than one some earlier request for the same scope was answered with
\* before this one arrived, whatever expires, fails, falls back or is evicted
\* between the two.
RepliesNeverGoBack ==
  \A t \in Threads :
    pc[t] = "done" /\ result[t].snap # None =>
      (result[t].snap.ok => result[t].snap.born >= floor[t])

\* A position of the accepted age is not silently dropped from the response.
RecentNotDropped ==
  \A t \in Threads : reply[t].verdict = "omitted" =>
    Age(reply[t].fixed, observedAt[t]) > MaxPositionAge

==============================================================================
