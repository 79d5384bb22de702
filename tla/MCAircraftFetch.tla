--------------------------- MODULE MCAircraftFetch ---------------------------
(***************************************************************************)
(* How aircraft requests end: those to the ADS-B providers, and those to   *)
(* the snapshot cache above them.  A behaviour chooses one of the two at   *)
(* the start and is a behaviour of its module.  While the cache runs, the  *)
(* providers stand still.                                                  *)
(***************************************************************************)
EXTENDS AdsbProvider

CONSTANTS Callers, key1, CacheCalls

VARIABLES slice, time, asked, entries, phase, key, fallback, fetched, result

cacheVars == <<time, asked, entries, phase, key, fallback, fetched, result>>

mcVars == <<slice, vars, cacheVars>>

\* Three callers of one key, with clear() at any step.
Cache == INSTANCE AircraftSnapshotCache WITH
  Threads <- Callers, Keys <- {key1}, Ttl <- 1, FallbackMaxAge <- 2, MaxEntries <- 1,
  ClearEnabled <- TRUE, MaxTime <- 1, MaxCalls <- CacheCalls,
  now <- time, calls <- asked, pc <- phase

MCInit == slice \in {"provider", "cache"} /\ Init /\ Cache!Init

ProviderDoes(A) == slice = "provider" /\ A /\ UNCHANGED <<slice, cacheVars>>
CacheDoes(A) == slice = "cache" /\ A /\ UNCHANGED <<slice, vars>>

MCNext == ProviderDoes(Next) \/ CacheDoes(Cache!Next)

\* The fairness of FairSpec of both modules.
MCSpec ==
  /\ MCInit
  /\ [][MCNext]_mcVars
  /\ WF_mcVars(ProviderDoes(SleepEnds))
  /\ \A t \in Threads : WF_mcVars(ProviderDoes(Step(t)))
  /\ \A t \in Callers : WF_mcVars(CacheDoes(Cache!Step(t)))

\* Whatever fails, and clear() at any step, every call of get_or_fetch returns:
\* no caller is left blocked on the Condition.  As a behaviour has only so many
\* calls, in the end nobody is inside.
EveryCallReturns ==
  <>[](slice = "cache" => \A t \in Callers : phase[t] = "idle")
=============================================================================
