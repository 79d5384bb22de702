---------------------------- MODULE LookupCaches ----------------------------
(***************************************************************************)
(* The four caches of facts about one object: the route of a callsign      *)
(* (aircraft_routes.py), the photo of an airframe (api_aircraft_photo.py),  *)
(* the description of a satellite (satellite_metadata.py) and the position  *)
(* of the Tesla Roadster from a place (roadster_ephemeris.py).  All read    *)
(* the clock, look under a lock, fetch WITHOUT it, and store under it with  *)
(* an expiry counted from the clock read first; so lookups of one key run   *)
(* side by side and the last to end is the one kept.  They differ in how    *)
(* long a failure is kept and in what is done when a fetch fails.           *)
(*                                                                         *)
(* The cache is the insertion-ordered dict of the code: storing under a key *)
(* it has leaves the key's position.                                        *)
(***************************************************************************)
EXTENDS Naturals, Sequences

CONSTANTS
  Threads, Keys,
  Kept,          \* lifetime of a fact: 6 h, 1 h, 12 h, 10 min
  KeptFailure,   \* lifetime of a failed route lookup: 30 min
  Capacity,      \* RoadsterEphemerisProvider._max_cache_entries
  MaxClock       \* bound

LookupAssumption ==
  /\ Kept \in Nat /\ KeptFailure \in Nat /\ Capacity \in Nat /\ MaxClock \in Nat

VARIABLES
  about,    \* which of the four caches
  cache,    \* sequence of [key, value, asked, until], asked being only the model's
  calls,    \* per thread: [pc, key, asked, found, value, answered, owners]
  owners,   \* SatelliteMetadataProvider._owner_descriptions: "unset", "table", or "nothing"
  clock

vars == <<about, cache, calls, owners, clock>>

NoEntry == [key |-> "none", value |-> "none", asked |-> 0, until |-> 0]
Resting == [pc |-> "idle", key |-> "none", asked |-> 0, found |-> NoEntry, value |-> "none",
            answered |-> "no", owners |-> "unset"]

Places(c, k) == {i \in DOMAIN c : c[i].key = k}
Entry(c, k) == IF Places(c, k) = {} THEN NoEntry ELSE c[CHOOSE i \in Places(c, k) : TRUE]

\* What a fetch comes back with.  A route that is not known, not answered or
\* not parsed is None; the photo likewise; a satellite is always described, by
\* its name and number if nothing else is known; only the Roadster's provider
\* raises.
RouteOutcomes == {"fact", "nothing"}
PhotoOutcomes == {"fact", "nothing"}
MetadataOutcomes == {"fact", "nothing"}
RoadsterOutcomes == {"fact", "error"}

Outcomes ==
  CASE about = "route" -> RouteOutcomes
    [] about = "photo" -> PhotoOutcomes
    [] about = "metadata" -> MetadataOutcomes
    [] OTHER -> RoadsterOutcomes

\* Of the four only the routes keep a failure shorter than a fact.
Lifetime(value) == IF about = "route" /\ value = "nothing" THEN KeptFailure ELSE Kept

Stored(c, e) ==
  IF Places(c, e.key) = {} THEN Append(c, e)
  ELSE [c EXCEPT ![CHOOSE i \in Places(c, e.key) : TRUE] = e]

Without(c, j) == [i \in 1 .. Len(c) - 1 |-> IF i < j THEN c[i] ELSE c[i + 1]]

\* The oldest insertion goes, but never the key just stored.
Trimmed(c, k) ==
  IF about # "roadster" \/ Len(c) <= Capacity THEN c
  ELSE Without(c, IF c[1].key = k /\ Len(c) > 1 THEN 2 ELSE 1)

\* An entry counts until its expiry.
\* Slip: at its expiry, too.
CountsLonger(e) == e # NoEntry /\ e.until >= clock
Counts(e) == e # NoEntry /\ e.until > clock

Look(t, k) ==
  /\ calls[t].pc = "idle"
  /\ LET e == Entry(cache, k)
         call == [Resting EXCEPT !.key = k, !.asked = clock, !.found = e]
     IN calls' = [calls EXCEPT ![t] = IF Counts(e)
                                        THEN [call EXCEPT !.pc = "done", !.value = e.value, !.answered = "cache"]
                                        ELSE [call EXCEPT !.pc = "fetching"]]
  /\ UNCHANGED <<about, cache, owners, clock>>

\* _owner_description: read under the lock, fetched without it, and kept if no
\* other thread has kept one meanwhile.
OwnersRead(t) ==
  /\ about = "metadata" /\ calls[t].pc = "fetching" /\ calls[t].owners = "unset"
  /\ owners # "unset"
  /\ calls' = [calls EXCEPT ![t].owners = owners]
  /\ UNCHANGED <<about, cache, owners, clock>>

OwnersAsked(t) ==
  /\ about = "metadata" /\ calls[t].pc = "fetching" /\ calls[t].owners = "unset"
  /\ owners = "unset"
  /\ calls' = [calls EXCEPT ![t].pc = "owners"]
  /\ UNCHANGED <<about, cache, owners, clock>>

OwnersArrive(t, got) ==
  /\ calls[t].pc = "owners"
  /\ owners' = IF owners = "unset" THEN got ELSE owners
  /\ calls' = [calls EXCEPT ![t].pc = "fetching", ![t].owners = owners']
  /\ UNCHANGED <<about, cache, clock>>

Ended(t, value) ==
  [calls EXCEPT ![t] = [Resting EXCEPT !.pc = "done", !.value = value, !.owners = calls[t].owners]]

\* The fetch ends: the value is stored and returned, an error gives the entry
\* found before, however old, or nothing.
Fetched(t, value) ==
  LET c == calls[t]
      e == [key |-> c.key, value |-> value, asked |-> c.asked, until |-> c.asked + Lifetime(value)]
  IN /\ c.pc = "fetching" /\ value \in Outcomes
     /\ IF value = "error"
          THEN calls' = Ended(t, c.found.value) /\ UNCHANGED cache
          ELSE /\ cache' = Trimmed(Stored(cache, e), c.key)
               /\ calls' = Ended(t, value)
     /\ UNCHANGED <<about, owners, clock>>

Return(t) ==
  /\ calls[t].pc = "done"
  /\ calls' = [calls EXCEPT ![t] = Resting]
  /\ UNCHANGED <<about, cache, owners, clock>>

Tick == clock < MaxClock /\ clock' = clock + 1 /\ UNCHANGED <<about, cache, calls, owners>>

Init ==
  /\ about \in {"route", "photo", "metadata", "roadster"}
  /\ cache = <<>>
  /\ calls = [t \in Threads |-> Resting]
  /\ owners = "unset" /\ clock = 0

Next ==
  \/ \E t \in Threads :
       \/ \E k \in Keys : Look(t, k)
       \/ OwnersRead(t) \/ OwnersAsked(t) \/ Return(t)
       \/ \E got \in {"table", "nothing"} : OwnersArrive(t, got)
       \/ \E value \in {"fact", "nothing", "error"} : Fetched(t, value)
  \/ Tick

Spec == Init /\ [][Next]_vars

(***************************************************************************)
(* Properties.                                                             *)
(***************************************************************************)
\* However lookups overlap, overwrite and fail, what is answered from the cache
\* was asked for within its lifetime before the lookup began: half an hour for a
\* route said to be unknown.  Only the Roadster is given an older position, when
\* JPL has failed this very lookup; and its cache keeps within its capacity.
AnswersInTime ==
  /\ \A t \in Threads :
       LET c == calls[t]
       IN c.pc = "done" /\ c.answered = "cache" =>
            c.found.asked + Lifetime(c.value) > c.asked
  /\ about = "roadster" => Len(cache) <= Capacity

\* A lookup that fails late does replace the answer of a faster one, but only of
\* one that overlapped it: what was in the cache when a lookup began and still
\* counts is never replaced by it.
FreshNotReplaced ==
  \A t \in Threads :
    calls[t].pc = "fetching" /\ calls'[t].pc = "done" /\ Counts(Entry(cache, calls[t].key))
      => calls[t].found # Entry(cache, calls[t].key)

\* The first table of owners that arrives is the one all descriptions use, also
\* the one of a thread that fetched another meanwhile.
OneOwnerTable ==
  \A t \in Threads : calls[t].owners \in {"unset", owners}

(***************************************************************************)
(* What AnswersInTime rests on.                                            *)
(***************************************************************************)
Answer == {"fact", "nothing", "none"}

\* An entry expires a lifetime after it was asked for.
Dated(e) == e.until = e.asked + Lifetime(e.value)

Entries == [key : Keys, value : {"fact", "nothing"}, asked : Nat, until : Nat]

Calls == [pc : {"idle", "fetching", "owners", "done"}, key : Keys \cup {"none"}, asked : Nat,
          found : Entries \cup {NoEntry}, value : Answer, answered : {"no", "cache"},
          owners : {"unset", "table", "nothing"}]

TypeOK ==
  /\ about \in {"route", "photo", "metadata", "roadster"}
  /\ cache \in Seq(Entries)
  /\ calls \in [Threads -> Calls]
  /\ owners \in {"unset", "table", "nothing"}
  /\ clock \in Nat

LookupInv ==
  /\ TypeOK
  /\ \A i \in DOMAIN cache : Dated(cache[i])
  /\ \A t \in Threads : calls[t].pc \in {"fetching", "owners"} => calls[t].key \in Keys
  /\ AnswersInTime /\ OneOwnerTable
=============================================================================
