---------------------------- MODULE WeatherService ----------------------------
(***************************************************************************)
(* The weather and observing endpoints (src/nightazimuth/api_weather.py,   *)
(* api_observing.py) over the in-memory cache and the MET Norway provider  *)
(* with its disk cache: the loader of the memory cache is one load of the  *)
(* provider, run by the same thread.  Each action is a step of the memory  *)
(* cache, a step of the provider, or a call or a return between the two.   *)
(***************************************************************************)
EXTENDS WeatherSnapshotCache

CONSTANTS Stripes, StripeOf, DiskMaxAge, MaxFiles

VARIABLES
  stage, got, outcome, stripe, files, overdue,  \* see MetNorwayWeatherProvider
  newest,  \* history: the newest unmarked forecast answered with, by key
  floor    \* history: newest for its key when each thread's request arrived

providerVars == <<stage, got, outcome, stripe, files, overdue>>

answers == <<newest, floor>>

Met == INSTANCE MetNorwayWeatherProvider WITH want <- key

ASSUME WeatherAssumption == WeatherCacheAssumption /\ Met!ProviderAssumption

serviceVars == <<vars, providerVars, answers>>

ServiceInit ==
  /\ Init
  /\ Met!Init
  /\ newest = [k \in Keys |-> 0]
  /\ floor = [t \in Threads |-> 0]

Request(t, k) ==
  /\ Call(t, k)
  /\ floor' = [floor EXCEPT ![t] = newest[k]]
  /\ UNCHANGED <<providerVars, newest>>

StartLoad(t) ==
  /\ BeginLoad(t)
  /\ Met!Load(t, key[t])
  /\ UNCHANGED answers

RunLoad(t) ==
  /\ Met!LoadStep(t)
  /\ UNCHANGED <<vars, answers>>

EndLoad(t) ==
  /\ Met!Return(t)
  /\ \/ outcome[t] # None /\ LoadReturns(t, outcome[t])
     \/ outcome[t] = None /\ LoadRaises(t)
  /\ UNCHANGED answers

\* A forecast is answered with a 200, an exception of the loader with an error.
Answer(t) ==
  LET snap == result[t].snap
  IN  /\ Respond(t)
      /\ newest' = [newest EXCEPT ![key[t]] =
           IF snap = None THEN @
           ELSE IF ~snap.fb /\ @ < snap.born THEN snap.born ELSE @]
      /\ UNCHANGED <<providerVars, floor>>

Serve(t) ==
  \/ StartLoad(t)
  \/ RunLoad(t)
  \/ EndLoad(t)
  \/ Answer(t)
  \/ /\ Hit(t) \/ Wait(t) \/ Publish(t) \/ Abandon(t)
     /\ UNCHANGED <<providerVars, answers>>

\* The process ends and starts again: memory is lost, the disk is not.
RestartService ==
  /\ Met!Restart
  /\ entries' = NoEntries
  /\ pc' = [t \in Threads |-> "idle"]
  /\ loaded' = [t \in Threads |-> None]
  /\ result' = [t \in Threads |-> None]
  /\ UNCHANGED <<calls, answers>>

SpoilFile ==
  /\ \E k \in Keys : Met!Spoil(k)
  /\ UNCHANGED <<calls, entries, pc, loaded, result, answers>>

ServiceNext ==
  \/ \E t \in Threads, k \in Keys : Request(t, k)
  \/ \E t \in Threads : Serve(t)
  \/ RestartService
  \/ SpoilFile
  \/ Tick /\ UNCHANGED <<providerVars, answers>>

ServiceSpec == ServiceInit /\ [][ServiceNext]_serviceVars

(***************************************************************************)
(* Properties.                                                             *)
(***************************************************************************)
\* Simultaneous requests for one observer make one download, and a request waits
\* only for a loader that is still running for its observer and will wake it.
SingleDownload == Met!SingleDownload /\ WaiterHasLoader

\* The forecast never silently goes back in time: an answer without the
\* fallback mark is not older than an unmarked one given for that observer
\* before the request arrived, across both caches, failed writes, pruning,
\* unreadable files and restarts.
UnmarkedNeverGoesBack ==
  \A t \in Threads :
    pc[t] = "done" /\ result[t].snap # None =>
      (~result[t].snap.fb => result[t].snap.born >= floor[t])

\* Memory and disk are well typed and within their bounds, and a fallback kept in
\* memory is dropped early enough to notice that the provider has recovered.
WeatherCachesSound ==
  /\ TypeOK /\ Met!TypeOK
  /\ IdleBounded /\ Met!FilesBounded
  /\ FallbackRetriedSoon

\* The weather cache keeps the promise of the shared-load contract, for as long
\* as the process lives.
ImplementsSharedLoad == [][RestartService \/ SharesLoads]_serviceVars

==============================================================================
