---------------------------- MODULE MCAircraftApi ----------------------------
(***************************************************************************)
(* TLC instances of AircraftApi.  MCSpec explores two depths side by side: *)
(* "cache", the snapshot cache alone under many calls, and "api", the      *)
(* endpoint over it under fewer.                                           *)
(***************************************************************************)
EXTENDS AircraftApi, TLC

CONSTANT MaxRequests  \* bound: the number of requests to the endpoint

VARIABLE slice

mcVars == <<slice, apiVars>>

MCInit == slice \in {"cache", "api"} /\ ApiInit

MCNext ==
  \/ slice = "cache" /\ Next /\ UNCHANGED <<slice, observedAt, reply, newest, floor>>
  \/ slice = "api" /\ ApiNext /\ calls' <= MaxRequests /\ UNCHANGED slice

MCSpec == MCInit /\ [][MCNext]_mcVars

\* Threads are interchangeable, and so are keys.
Symmetry == Permutations(Threads) \cup Permutations(Keys)
==============================================================================
