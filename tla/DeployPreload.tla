---------------------------- MODULE DeployPreload ----------------------------
(***************************************************************************)
(* The build command of the hosted API (render.yaml): preload_sky.py, then  *)
(* preload_satellites.py, then preload_airports.py, each only if the one    *)
(* before succeeded.  A sky resource is downloaded to a temporary file,     *)
(* verified and moved into place, with one retry.  The process may be       *)
(* killed at any step and the build run again over what it left.            *)
(***************************************************************************)
EXTENDS Naturals, Sequences

CONSTANTS
  Resources,   \* SKY_RESOURCES, a sequence
  Optional,    \* SUPPLEMENTARY_GROUPS, a sequence
  MaxBuilds    \* bound

PreloadAssumption == Resources \in Seq(STRING) /\ Optional \in Seq(STRING)

VARIABLES
  stage,    \* "sky", "satellites", "airports", "ready", or "failed"
  at,       \* the resource or the group that is next
  attempt,  \* attempt of _seed_resource
  temp,     \* the temporary file of the attempt: "none", "open", "right" or "wrong"
  files,    \* each resource at its destination: "absent", "exact", "other"
  builds,   \* builds begun so far
  history   \* [found, killed, left]: files before the first build, kills, temporaries left

vars == <<stage, at, attempt, temp, files, builds, history>>

Init ==
  /\ stage = "sky" /\ at = 1 /\ attempt = 1 /\ temp = "none" /\ builds = 1
  /\ files \in [DOMAIN Resources -> {"absent", "exact", "other"}]
  /\ history = [found |-> files, killed |-> 0, left |-> 0]

\* To the next resource, or to the next script, unless _load_static_resources
\* cannot read what is in place.
NextResource ==
  /\ attempt' = 1
  /\ \/ at < Len(Resources) /\ at' = at + 1 /\ UNCHANGED stage
     \/ at = Len(Resources) /\ at' = 0 /\ stage' \in {"satellites", "failed"}

\* A file whose digest is right is kept.
InCache ==
  /\ stage = "sky" /\ temp = "none" /\ attempt = 1 /\ files[at] = "exact"
  /\ NextResource
  /\ UNCHANGED <<temp, files, builds, history>>

Wanted == stage = "sky" /\ (attempt = 2 \/ files[at] # "exact")

OpenTemporary ==
  /\ Wanted /\ temp = "none"
  /\ temp' = "open"
  /\ UNCHANGED <<stage, at, attempt, files, builds, history>>

Download(bytes) ==
  /\ stage = "sky" /\ temp = "open"
  /\ temp' = bytes
  /\ UNCHANGED <<stage, at, attempt, files, builds, history>>

\* Slip: the file is moved before its digest is compared.
MoveUnverified ==
  /\ stage = "sky" /\ temp \in {"right", "wrong"}
  /\ temp' = "none"
  /\ files' = [files EXCEPT ![at] = IF temp = "right" THEN "exact" ELSE "other"]
  /\ NextResource
  /\ UNCHANGED <<builds, history>>

\* The digest is right and os.replace succeeds.
Move ==
  /\ stage = "sky" /\ temp = "right"
  /\ temp' = "none"
  /\ files' = [files EXCEPT ![at] = "exact"]
  /\ NextResource
  /\ UNCHANGED <<builds, history>>

\* An HTTP error, a wrong digest or an OSError, also of opening the temporary file:
\* it is removed if there is one, and the second time the build fails.
Failed ==
  /\ Wanted
  /\ temp' = "none"
  /\ IF attempt = 2 THEN stage' = "failed" /\ UNCHANGED attempt
     ELSE attempt' = 2 /\ UNCHANGED stage
  /\ UNCHANGED <<at, files, builds, history>>

\* preload_satellites.main: the primary group must have objects ...
Primary(o) ==
  /\ stage = "satellites" /\ at = 0
  /\ IF o = "objects" THEN at' = 1 /\ UNCHANGED stage ELSE stage' = "failed" /\ UNCHANGED at
  /\ UNCHANGED <<attempt, temp, files, builds, history>>

\* ... and the others are optional, loaded or refused, although an OSError is not
\* caught.
Supplementary(o) ==
  /\ stage = "satellites" /\ at \in DOMAIN Optional
  /\ IF o = "error" THEN stage' = "failed" /\ UNCHANGED at ELSE at' = at + 1 /\ UNCHANGED stage
  /\ UNCHANGED <<attempt, temp, files, builds, history>>

SatellitesDone ==
  /\ stage = "satellites" /\ at > Len(Optional)
  /\ stage' = "airports"
  /\ UNCHANGED <<at, attempt, temp, files, builds, history>>

\* preload_airports.main: an empty catalogue, or an error, fails the build.
Airports(count) ==
  /\ stage = "airports"
  /\ stage' = IF count > 0 THEN "ready" ELSE "failed"
  /\ UNCHANGED <<at, attempt, temp, files, builds, history>>

Killed ==
  /\ stage \notin {"ready", "failed"}
  /\ stage' = "failed"
  /\ temp' = "none"
  /\ history' = [history EXCEPT !.killed = @ + 1, !.left = IF temp = "none" THEN @ ELSE @ + 1]
  /\ UNCHANGED <<at, attempt, files, builds>>

\* The build is started again, over the directory as it was left.
Rebuild ==
  /\ stage = "failed" /\ builds < MaxBuilds
  /\ stage' = "sky" /\ at' = 1 /\ attempt' = 1 /\ builds' = builds + 1
  /\ UNCHANGED <<temp, files, history>>

Next ==
  \/ InCache \/ OpenTemporary \/ Move \/ Failed
  \/ \E bytes \in {"right", "wrong"} : Download(bytes)
  \/ \E o \in {"objects", "empty", "error"} : Primary(o) \/ Supplementary(o)
  \/ SatellitesDone
  \/ \E count \in {0, 1} : Airports(count)
  \/ Killed \/ Rebuild

(***************************************************************************)
(* Properties.                                                             *)
(***************************************************************************)
\* A build that succeeds has put every sky resource in place byte for byte,
\* whatever earlier builds and their ends left behind; no build replaces a
\* resource by anything else; and only one that is killed leaves a temporary file.
PreloadSound ==
  /\ stage \in {"satellites", "airports", "ready"} => \A r \in DOMAIN Resources : files[r] = "exact"
  /\ \A r \in DOMAIN Resources : files[r] \in {history.found[r], "exact"}
  /\ history.left <= history.killed

\* What PreloadSound rests on: the resources before the next one are in place.
PreloadInv ==
  /\ at \in Nat
  /\ DOMAIN files = DOMAIN Resources
  /\ stage \in {"sky", "satellites", "airports", "ready", "failed"}
  /\ history.left \in Nat /\ history.killed \in Nat
  /\ DOMAIN history = {"found", "killed", "left"}
  /\ stage = "sky" => at > 0 /\ \A r \in DOMAIN Resources : r < at => files[r] = "exact"
  /\ PreloadSound
=============================================================================
