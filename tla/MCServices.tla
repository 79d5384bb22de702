----------------------------- MODULE MCServices -----------------------------
(***************************************************************************)
(* The weather endpoints, the satellite catalogue and the admission of      *)
(* astronomy requests: services that share no state, each checked on its    *)
(* own.  A behaviour chooses one at the start and is a behaviour of its     *)
(* module, so that their states add up instead of multiplying: the weather  *)
(* with its own variables, the other two with s1 .. s12.                   *)
(***************************************************************************)
EXTENDS WeatherService, Sequences

CONSTANTS active, visual, r1, r2, k1, k2, k3, k4,
          Groups, Requested, HostedMerge, GroupStripe, Workers, MaxParsed, MaxAge, MaxRounds,
          Astronomers, BurstKeys, BurstOf, BurstTtl, BurstEntries, BurstTime, MaxRequests

VARIABLES slice, s1, s2, s3, s4, s5, s6, s7, s8, s9, s10, s11, s12

mcVars == <<slice, s1, s2, s3, s4, s5, s6, s7, s8, s9, s10, s11, s12, serviceVars>>

Idle == "idle"

Catalogue == INSTANCE SatelliteCatalogue WITH
  StripeOf <- GroupStripe, MaxRequests <- MaxRounds,
  now <- s1, disk <- s2, parsed <- s3, hot <- s4, merged <- s5, prepared <- s6,
  stripe <- s7, executor <- s8, tasks <- s9, pipeline <- s10, rounds <- s11, answered <- s12

Astronomy == INSTANCE AstronomyAdmission WITH
  Requests <- Astronomers, Keys <- BurstKeys, CacheOf <- BurstOf, Ttl <- BurstTtl,
  MaxEntries <- BurstEntries, MaxTime <- BurstTime,
  now <- s1, holder <- s2, queue <- s3, request <- s4, burst <- s5, served <- s6

\* A primary and a supplementary group, each with its own stripe; requests with
\* and without identification detail.
Hosted == <<active, visual>>
WithDetailAndWithout == {Hosted, <<active>>}
OwnStripes == [x \in Groups |-> x]

\* Three sky keys for a cache of two entries, one satellite key, and answers that
\* are kept for one tick of a clock of one: five requests reach an eviction after
\* a hit.
ThreeAndOne == [x \in BurstKeys |-> IF x = k4 THEN "satellites" ELSE "sky"]

\* Two observers on one stripe, the case in which loads of different observers
\* exclude each other; room for one in memory and for one on disk.
OneStripe == [x \in Keys |-> 1]

ASSUME CatalogueAssumption == Catalogue!CatalogueAssumption
ASSUME AdmissionAssumption == Astronomy!AdmissionAssumption

Front == <<s1, s2, s3, s4, s5, s6>>
Back == <<s7, s8, s9, s10, s11, s12>>

FrontIdle == s1 = Idle /\ s2 = Idle /\ s3 = Idle /\ s4 = Idle /\ s5 = Idle /\ s6 = Idle
BackIdle == s7 = Idle /\ s8 = Idle /\ s9 = Idle /\ s10 = Idle /\ s11 = Idle /\ s12 = Idle
WeatherIdle == ServiceInit /\ key = [t \in Threads |-> k1]

MCInit ==
  \/ slice = "catalogue" /\ Catalogue!Init /\ WeatherIdle
  \/ slice = "astronomy" /\ Astronomy!Init /\ BackIdle /\ WeatherIdle
  \/ slice = "weather" /\ FrontIdle /\ BackIdle /\ ServiceInit

\* One service takes a step.
CatalogueStep(A) == slice = "catalogue" /\ A /\ UNCHANGED <<slice, serviceVars>>
AstronomyStep(A) == slice = "astronomy" /\ A /\ UNCHANGED <<slice, Back, serviceVars>>
WeatherStep(A) == slice = "weather" /\ A /\ UNCHANGED <<slice, Front, Back>>

MCNext ==
  \/ CatalogueStep(Catalogue!Next)
  \/ AstronomyStep(Astronomy!Next)
  \/ WeatherStep(ServiceNext)

\* While a service has a thread or a task that can go on, one of them does:
\* downloads and computations end, and nobody is promised a turn or a lock before
\* the others.
Fairness ==
  /\ WF_mcVars(CatalogueStep(\/ Catalogue!Start \/ Catalogue!PipelineStep
                             \/ \E t \in Catalogue!TaskIds : Catalogue!TaskStep(t)))
  /\ WF_mcVars(AstronomyStep(\E r \in Astronomers : Astronomy!Work(r)))
  /\ WF_mcVars(WeatherStep(\E t \in Threads : Serve(t)))

MCSpec == MCInit /\ [][MCNext]_mcVars /\ Fairness

(***************************************************************************)
(* The properties of the services; those of the weather are in its module.  *)
(***************************************************************************)
\* An answer is made of the payloads its request gathered, and every payload is
\* filed under its own generation; old ones only while CelesTrak refuses new ones.
AnswerIsExact ==
  slice = "catalogue" =>
    Catalogue!AnswerIsExact /\ Catalogue!GenerationIsContent /\ Catalogue!StaleOnlyIfRefused
\* No list goes back to an older one, and no file is replaced before it has aged.
AnswersNeverGoBack ==
  [][slice = "catalogue" => Catalogue!Advances /\ Catalogue!ReplacesAgedOnly]_mcVars
\* One request computes at a time, and none repeats what the burst cache holds.
NoRepeatedWork == slice = "astronomy" => Astronomy!OneInside /\ Astronomy!NoRepeatedWork
\* Whatever fails, every request ends: as a behaviour has only so many, in the
\* end none is under way.
EveryRequestEnds ==
  <>[](/\ slice = "catalogue" => s10 = None
       /\ slice = "astronomy" => \A r \in Astronomers : s4[r] = Astronomy!Idle
       /\ \A t \in Threads : pc[t] = "idle")
=============================================================================
