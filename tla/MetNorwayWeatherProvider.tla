----------------------- MODULE MetNorwayWeatherProvider -----------------------
(***************************************************************************)
(* MetNorwayWeatherProvider.load (src/nightazimuth/weather.py): a point    *)
(* forecast from a fresh file of the disk cache, from a download, or from  *)
(* a stale file when the download fails.  A striped lock is held for the   *)
(* whole load; the lock of the cache directory is held only for one block  *)
(* at a time, so that each of those blocks is one action.                  *)
(*                                                                         *)
(* The process may be restarted at any step: the disk survives.  A file is *)
(* replaced atomically, so a restart leaves the old file or the new one.   *)
(***************************************************************************)
EXTENDS Naturals, FiniteSets, Functions

CONSTANTS
  Threads, Keys,
  Stripes,     \* the indices of _LOAD_LOCKS
  StripeOf,    \* hash(cache_path) % len(_LOAD_LOCKS): a function from Keys
  DiskMaxAge,  \* cache_max_age_minutes, in clock ticks
  MaxFiles,    \* cache_max_files
  MaxTime,     \* bound: the last instant of the modelled clock
  None

ProviderAssumption ==
  /\ StripeOf \in [Keys -> Stripes]
  /\ DiskMaxAge \in Nat
  /\ MaxFiles \in Nat \ {0}
  /\ MaxTime \in Nat
  /\ None \notin Threads

VARIABLES
  now,
  stage,     \* where each thread is in load
  want,      \* the observer of each load
  got,       \* when the payload being stored was downloaded
  outcome,   \* what load returned: a snapshot, None when it raised
  stripe,    \* the holder of each lock of _LOAD_LOCKS, or None
  files,     \* the disk cache: a partial function from Keys
  overdue    \* history: the last write was not followed by a complete pruning

\* readable: _read_cache can parse the file.
File == [mtime: Nat, readable: BOOLEAN]

\* parse_met_no_locationforecast: what a response or a file is parsed to.
Snapshot == [key: Keys, born: Nat, fb: BOOLEAN]

Locked == {"probing", "downloading", "storing", "salvaging"}

Stages == {"idle", "acquiring", "returned"} \cup Locked

NoFiles == [k \in {} |-> None]

Init ==
  /\ stage = [t \in Threads |-> "idle"]
  /\ want \in [Threads -> Keys]
  /\ got = [t \in Threads |-> 0]
  /\ outcome = [t \in Threads |-> None]
  /\ stripe = [s \in Stripes |-> None]
  /\ files = NoFiles
  /\ overdue = FALSE

(***************************************************************************)
(* The disk cache.                                                         *)
(***************************************************************************)
Fresh(k) == k \in DOMAIN files /\ now <= files[k].mtime + DiskMaxAge

Readable(k) == k \in DOMAIN files /\ files[k].readable

Written(k) ==
  [j \in DOMAIN files \cup {k} |->
     IF j = k THEN [mtime |-> now, readable |-> TRUE] ELSE files[j]]

Excess(fs) == IF Cardinality(DOMAIN fs) <= MaxFiles
              THEN 0 ELSE Cardinality(DOMAIN fs) - MaxFiles

\* _prune_cache after n unlinks: the oldest files go first, never the kept one.
PrunedBy(fs, keep, n) ==
  {Restrict(fs, DOMAIN fs \ V) : V \in
     {W \in SUBSET (DOMAIN fs \ {keep}) :
        /\ Cardinality(W) = n
        /\ \A v \in W, w \in DOMAIN fs \ (W \cup {keep}) : fs[v].mtime <= fs[w].mtime}}

\* The new file is in place and the pruning is not complete.
StoreCutShort(k) ==
  LET full == Written(k)
  IN  /\ \E n \in 0..(Excess(full) - 1) : files' \in PrunedBy(full, k, n)
      /\ overdue' = TRUE

(***************************************************************************)
(* Actions.                                                                *)
(***************************************************************************)
Load(t, k) ==
  /\ stage[t] = "idle"
  /\ stage' = [stage EXCEPT ![t] = "acquiring"]
  /\ want' = [want EXCEPT ![t] = k]
  /\ UNCHANGED <<now, got, outcome, stripe, files, overdue>>

Acquire(t) ==
  /\ stage[t] = "acquiring"
  /\ stripe[StripeOf[want[t]]] = None
  /\ stripe' = [stripe EXCEPT ![StripeOf[want[t]]] = t]
  /\ stage' = [stage EXCEPT ![t] = "probing"]
  /\ UNCHANGED <<now, want, got, outcome, files, overdue>>

\* Slip: a load that raises keeps its lock.
FinishHolding(t, result) ==
  /\ stage' = [stage EXCEPT ![t] = "returned"]
  /\ outcome' = [outcome EXCEPT ![t] = result]
  /\ got' = [got EXCEPT ![t] = 0]
  /\ stripe' = IF result = None THEN stripe ELSE [stripe EXCEPT ![StripeOf[want[t]]] = None]

\* Leaving the "with" block, by a return or by an exception.
Finish(t, result) ==
  /\ stage' = [stage EXCEPT ![t] = "returned"]
  /\ outcome' = [outcome EXCEPT ![t] = result]
  /\ got' = [got EXCEPT ![t] = 0]
  /\ stripe' = [stripe EXCEPT ![StripeOf[want[t]]] = None]

FromDisk(k, fb) == [key |-> k, born |-> files[k].mtime, fb |-> fb]

\* An unreadable fresh file is a miss.
Probe(t) ==
  /\ stage[t] = "probing"
  /\ \/ /\ Fresh(want[t]) /\ Readable(want[t])
        /\ Finish(t, FromDisk(want[t], FALSE))
     \/ /\ ~(Fresh(want[t]) /\ Readable(want[t]))
        /\ stage' = [stage EXCEPT ![t] = "downloading"]
        /\ UNCHANGED <<got, outcome, stripe>>
  /\ UNCHANGED <<now, want, files, overdue>>

\* The download and the parsing, and how they end: a snapshot, one of the
\* exceptions load catches, or any other.
Download(t, o) ==
  /\ stage[t] = "downloading"
  /\ \/ /\ o = "parsed"
        /\ stage' = [stage EXCEPT ![t] = "storing"]
        /\ got' = [got EXCEPT ![t] = now]
        /\ UNCHANGED <<outcome, stripe>>
     \/ /\ o = "failed"
        /\ stage' = [stage EXCEPT ![t] = "salvaging"]
        /\ UNCHANGED <<got, outcome, stripe>>
     \/ /\ o = "raised"
        /\ Finish(t, None)
  /\ UNCHANGED <<now, want, files, overdue>>

\* An OSError of the write or, after some unlinks, of the pruning is ignored:
\* the downloaded snapshot is returned all the same.
Store(t, o) ==
  LET k    == want[t]
      full == Written(k)
  IN  /\ stage[t] = "storing"
      /\ \/ /\ o = "stored"
            /\ files' \in PrunedBy(full, k, Excess(full))
            /\ overdue' = FALSE
         \/ /\ o = "prune failed"
            /\ StoreCutShort(k)
         \/ /\ o = "write failed"
            /\ UNCHANGED <<files, overdue>>
      /\ Finish(t, [key |-> k, born |-> got[t], fb |-> FALSE])
      /\ UNCHANGED <<now, want>>

\* Slip: a stale forecast is not marked.
SalvageUnmarked(t) ==
  /\ stage[t] = "salvaging"
  /\ Finish(t, IF Readable(want[t]) THEN FromDisk(want[t], FALSE) ELSE None)
  /\ UNCHANGED <<now, want, files, overdue>>

\* A file of any age will do; without a readable one the load raises.
Salvage(t) ==
  /\ stage[t] = "salvaging"
  /\ Finish(t, IF Readable(want[t]) THEN FromDisk(want[t], TRUE) ELSE None)
  /\ UNCHANGED <<now, want, files, overdue>>

Return(t) ==
  /\ stage[t] = "returned"
  /\ stage' = [stage EXCEPT ![t] = "idle"]
  /\ outcome' = [outcome EXCEPT ![t] = None]
  /\ UNCHANGED <<now, want, got, stripe, files, overdue>>

\* A file becomes unreadable: a power loss after an unsynced write, a bad disk.
Spoil(k) ==
  /\ Readable(k)
  /\ files' = [files EXCEPT ![k].readable = FALSE]
  /\ UNCHANGED <<now, stage, want, got, outcome, stripe, overdue>>

\* The process ends, perhaps in the middle of a store, and starts again.
Restart ==
  /\ \/ UNCHANGED <<files, overdue>>
     \/ \E t \in Threads : stage[t] = "storing" /\ StoreCutShort(want[t])
  /\ stage' = [t \in Threads |-> "idle"]
  /\ got' = [t \in Threads |-> 0]
  /\ outcome' = [t \in Threads |-> None]
  /\ stripe' = [s \in Stripes |-> None]
  /\ UNCHANGED <<now, want>>

\* The steps of load between its start and its return.
LoadStep(t) ==
  \/ Acquire(t)
  \/ Probe(t)
  \/ \E o \in {"parsed", "failed", "raised"} : Download(t, o)
  \/ \E o \in {"stored", "prune failed", "write failed"} : Store(t, o)
  \/ Salvage(t)

(***************************************************************************)
(* Properties.                                                             *)
(***************************************************************************)
TypeOK ==
  /\ now \in Nat
  /\ stage \in [Threads -> Stages]
  /\ want \in [Threads -> Keys]
  /\ got \in [Threads -> Nat]
  /\ outcome \in [Threads -> Snapshot \cup {None}]
  /\ stripe \in [Stripes -> Threads \cup {None}]
  /\ files \in [DOMAIN files -> File]
  /\ overdue \in BOOLEAN

\* Simultaneous requests for one observer make a single download: nobody else
\* downloads or stores the observer's forecast, and no usable fresh file has
\* appeared since the probe that found none.
SingleDownload ==
  \A t \in Threads : stage[t] \in {"downloading", "storing"} =>
    /\ ~(Fresh(want[t]) /\ Readable(want[t]))
    /\ \A s \in Threads \ {t} :
         stage[s] \in {"downloading", "storing"} => want[s] # want[t]

\* The directory holds at most cache_max_files forecasts, unless an OSError or
\* a restart cut the last pruning short; the next complete one makes up for it.
FilesBounded == overdue \/ Cardinality(DOMAIN files) <= MaxFiles

==============================================================================
