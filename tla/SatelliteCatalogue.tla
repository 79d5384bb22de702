--------------------------- MODULE SatelliteCatalogue ---------------------------
(***************************************************************************)
(* The catalogues behind /satellites: the pipeline of api_satellites.py,   *)
(* which serves one request at a time, gathers the requested groups from   *)
(* its hot cache or from tasks of a shared executor, merges them and keeps *)
(* the merged and the prepared list (tracker.py); and the CelesTrak client *)
(* (celestrak.py), whose files, locked by stripes, survive restarts.       *)
(*                                                                         *)
(* A generation (modification time and size) is the number of the write.   *)
(* The content of a file is named by the generation it was written as, so  *)
(* that a payload whose two numbers differ has been filed under the wrong  *)
(* generation.  Positions, payload fields and timings are left out.        *)
(***************************************************************************)
EXTENDS Naturals, Sequences, SequencesExt, FiniteSetsExt

CONSTANTS
  Groups,       \* CelesTrak groups
  Requested,    \* the lists of groups requests ask for, the primary one first
  HostedMerge,  \* _HOSTED_MERGE_GROUPS: the list whose merged catalogue is kept
  StripeOf,     \* the lock stripe of a group
  Workers,      \* max_workers of the executor
  MaxParsed,    \* _PARSED_CACHE_MAX_ENTRIES
  MaxAge,       \* cache_max_age_minutes
  MaxTime,      \* bound: the last instant of the modelled clock
  MaxRequests,  \* bound: the number of requests of a behaviour
  None

Files == [gen : Nat \ {0}, readable : BOOLEAN, at : Nat]
Payloads == [gen : Nat \ {0}, content : Nat \ {0}, at : Nat]

CatalogueAssumption ==
  /\ \A list \in Requested : list \in Seq(Groups) /\ list # <<>>
  /\ DOMAIN StripeOf = Groups
  /\ None \notin Files \cup Payloads \cup (Nat \X Groups)
  /\ Workers \in Nat \ {0} /\ MaxParsed \in Nat \ {0} /\ MaxAge \in Nat
  /\ MaxTime \in Nat /\ MaxRequests \in Nat

VARIABLES
  now,
  disk,      \* per group its file: generation, whether readable, time of writing
  parsed,    \* _PARSED_CACHE, the least recently used entry first
  hot,       \* _GROUP_HOT_CACHE
  merged,    \* _MERGED_CATALOGUE_CACHE: key and content
  prepared,  \* _PREPARED_CATALOGUE: key and content
  stripe,    \* per stripe the task that holds its lock
  executor,  \* the queue of tasks not yet started
  tasks,     \* the submitted tasks that are not forgotten
  pipeline,  \* the request inside the pipeline lock, or None
  rounds,    \* how many requests have entered the pipeline
  answered   \* history: the content of each group in the last answer that had it

memory == <<parsed, hot, merged, prepared>>
vars == <<now, disk, memory, stripe, executor, tasks, pipeline, rounds, answered>>

NoneOf(S) == [x \in S |-> None]

LockedStripes == {StripeOf[g] : g \in Groups}

Init ==
  /\ now = 0
  /\ disk = NoneOf(Groups)
  /\ parsed = <<>>
  /\ hot = NoneOf(Groups)
  /\ merged = None /\ prepared = None
  /\ stripe = NoneOf(LockedStripes)
  /\ executor = <<>>
  /\ tasks = NoneOf({})
  /\ pipeline = None
  /\ rounds = 0
  /\ answered = [g \in Groups |-> 0]

(***************************************************************************)
(* The CelesTrak client, run by the tasks of the executor.                 *)
(***************************************************************************)
Done == {t \in DOMAIN tasks : tasks[t].phase \in {"loaded", "unavailable", "oserror"}}

Running == {t \in DOMAIN tasks \ Done : tasks[t].phase # "queued"}

\* A worker takes the first task of the queue.
Start ==
  /\ executor # <<>>
  /\ Cardinality(Running) < Workers
  /\ tasks' = [tasks EXCEPT ![Head(executor)] = [group |-> @.group, phase |-> "locking"]]
  /\ executor' = Tail(executor)
  /\ UNCHANGED <<now, disk, memory, stripe, pipeline, rounds, answered>>

LockOf(t) == StripeOf[tasks[t].group]

\* load_group_versioned takes the stripe of the group.
Acquire(t) ==
  /\ tasks[t].phase = "locking"
  /\ stripe[LockOf(t)] = None
  /\ stripe' = [stripe EXCEPT ![LockOf(t)] = t]
  /\ tasks' = [tasks EXCEPT ![t].phase = "probing"]
  /\ UNCHANGED <<now, disk, memory, executor, pipeline, rounds, answered>>

Unlocked(t) == [stripe EXCEPT ![LockOf(t)] = None]

\* Whether somebody still waits for the task: its request may have been given up.
Awaited(t) == pipeline # None /\ t[1] = rounds

\* The task ends "loaded" with a payload, "unavailable" or in an "oserror".
End(t, phase, payload, refused) ==
  /\ stripe' = Unlocked(t)
  /\ tasks' = IF Awaited(t)
              THEN [tasks EXCEPT ![t] = [group |-> tasks[t].group, phase |-> phase,
                                         payload |-> payload, refused |-> refused]]
              ELSE [u \in DOMAIN tasks \ {t} |-> tasks[u]]

Places(g) == {i \in DOMAIN parsed : parsed[i].group = g}

Without(g) == IF Places(g) = {} THEN parsed ELSE RemoveAt(parsed, CHOOSE i \in Places(g) : TRUE)

\* _remember_cached_json: one payload per file, the least recently used give way.
Remembered(g, gen, content) ==
  LET all == Append(Without(g), [group |-> g, gen |-> gen, content |-> content])
  IN  SubSeq(all, Len(all) - Min({Len(all), MaxParsed}) + 1, Len(all))

Parsed(g) == {e \in ToSet(parsed) : e.group = g /\ e.gen = disk[g].gen}

Payload(g, content) == [gen |-> disk[g].gen, content |-> content, at |-> disk[g].at]

\* _read_cache: the parsed payload of this generation, else the file.
Read(t, refused) ==
  LET g == tasks[t].group
  IN  \/ \E e \in Parsed(g) :
           /\ parsed' = Remembered(g, e.gen, e.content)
           /\ End(t, "loaded", Payload(g, e.content), refused)
      \/ /\ Parsed(g) = {} /\ disk[g].readable
         /\ parsed' = Remembered(g, disk[g].gen, disk[g].gen)
         /\ End(t, "loaded", Payload(g, disk[g].gen), refused)
      \/ /\ Parsed(g) = {} /\ ~disk[g].readable
         /\ End(t, "unavailable", None, refused)
         /\ UNCHANGED parsed

IsFresh(g) == disk[g] # None /\ now <= disk[g].at + MaxAge

\* load_group: a fresh file is read, else the group is requested from CelesTrak.
Probe(t) ==
  /\ tasks[t].phase = "probing"
  /\ IF IsFresh(tasks[t].group)
     THEN Read(t, FALSE)
     ELSE /\ tasks' = [tasks EXCEPT ![t].phase = "downloading"]
          /\ UNCHANGED <<parsed, stripe>>
  /\ UNCHANGED <<now, disk, hot, merged, prepared, executor, pipeline, rounds, answered>>

\* CelesTrak answers with a list.
Downloaded(t) ==
  /\ tasks[t].phase = "downloading"
  /\ tasks' = [tasks EXCEPT ![t].phase = "writing"]
  /\ UNCHANGED <<now, disk, memory, stripe, executor, pipeline, rounds, answered>>

\* CelesTrak refuses (403), fails or times out: an older file is used whatever
\* its age; without one the mirror is asked.
Refused(t) ==
  /\ tasks[t].phase = "downloading"
  /\ IF disk[tasks[t].group] # None
     THEN Read(t, TRUE)
     ELSE /\ tasks' = [tasks EXCEPT ![t].phase = "mirroring"]
          /\ UNCHANGED <<parsed, stripe>>
  /\ UNCHANGED <<now, disk, hot, merged, prepared, executor, pipeline, rounds, answered>>

Mirrored(t) ==
  /\ tasks[t].phase = "mirroring"
  /\ \/ tasks' = [tasks EXCEPT ![t].phase = "writing"] /\ UNCHANGED stripe
     \/ End(t, "unavailable", None, TRUE)
  /\ UNCHANGED <<now, disk, memory, executor, pipeline, rounds, answered>>

\* _write_cache replaces the file and its parsed payload, and the generation of
\* the new file is returned with the list.
Write(t) ==
  /\ tasks[t].phase = "writing"
  /\ LET g   == tasks[t].group
         gen == IF disk[g] = None THEN 1 ELSE disk[g].gen + 1
     IN  /\ disk' = [disk EXCEPT ![g] = [gen |-> gen, readable |-> TRUE, at |-> now]]
         /\ parsed' = Remembered(g, gen, gen)
         /\ End(t, "loaded", [gen |-> gen, content |-> gen, at |-> now], FALSE)
  /\ UNCHANGED <<now, hot, merged, prepared, executor, pipeline, rounds, answered>>

\* _write_cache raises OSError: the list that was downloaded is lost.
WriteFails(t) ==
  /\ tasks[t].phase = "writing"
  /\ End(t, "oserror", None, FALSE)
  /\ UNCHANGED <<now, disk, memory, executor, pipeline, rounds, answered>>

TaskIds == (1..MaxRequests) \X Groups

TaskStep(t) ==
  /\ t \in DOMAIN tasks
  /\ Acquire(t) \/ Probe(t) \/ Downloaded(t) \/ Refused(t) \/ Mirrored(t) \/ Write(t) \/ WriteFails(t)

(***************************************************************************)
(* The pipeline of api_satellites.py.                                      *)
(***************************************************************************)
\* _HOSTED_HOT_GROUPS, the groups of the hosted list; a request may name others.
HotGroups == ToSet(HostedMerge)

\* Slip: a hot group is used for as long as the process lives.
StillHotForEver(g) == g \in HotGroups /\ hot[g] # None

StillHot(g) == g \in HotGroups /\ hot[g] # None /\ now <= hot[g].at + MaxAge

\* A request enters the pipeline: hot groups are taken as they are, expired ones
\* are dropped, and a task is submitted for every other requested group.
Enter(list) ==
  /\ pipeline = None
  /\ rounds < MaxRequests
  /\ LET asked == ToSet(list)
         hits  == {g \in asked : StillHot(g)}
         cold  == asked \ hits
         task(g) == <<rounds + 1, g>>
         new   == {task(g) : g \in cold}
     IN  /\ hot' = [g \in Groups |-> IF g \in cold THEN None ELSE hot[g]]
         /\ executor' = executor \o SelectSeq([i \in DOMAIN list |-> task(list[i])], LAMBDA t : t \in new)
         /\ tasks' = [t \in DOMAIN tasks \cup new |->
                        IF t \in new THEN [group |-> t[2], phase |-> "queued"] ELSE tasks[t]]
         /\ pipeline' = [list |-> list, begun |-> now, pending |-> cold,
                          payload |-> [g \in hits |-> hot[g]], refused |-> {}]
  /\ rounds' = rounds + 1
  /\ UNCHANGED <<now, disk, parsed, merged, prepared, stripe, answered>>

\* The task the request awaits for a group has ended in this way.
Finished(g, phase) ==
  /\ pipeline # None
  /\ g \in pipeline.pending
  /\ tasks[<<rounds, g>>].phase = phase

WithoutTask(g) == [t \in DOMAIN tasks \ {<<rounds, g>>} |-> tasks[t]]

\* A finished task's payload is taken, and kept hot if its group is hosted.
Collect(g) ==
  /\ Finished(g, "loaded")
  /\ LET task == tasks[<<rounds, g>>]
     IN  /\ hot' = IF g \in HotGroups THEN [hot EXCEPT ![g] = task.payload] ELSE hot
         /\ pipeline' = [pipeline EXCEPT
              !.pending = @ \ {g},
              !.refused = IF task.refused THEN @ \cup {g} ELSE @,
              !.payload = [h \in DOMAIN @ \cup {g} |-> IF h = g THEN task.payload ELSE @[h]]]
  /\ tasks' = WithoutTask(g)
  /\ UNCHANGED <<now, disk, parsed, merged, prepared, stripe, executor, rounds, answered>>

\* CelestrakError or ValueError: the request goes on without the group.
GoWithout(g) ==
  /\ Finished(g, "unavailable")
  /\ pipeline' = [pipeline EXCEPT !.pending = @ \ {g}]
  /\ tasks' = WithoutTask(g)
  /\ UNCHANGED <<now, disk, memory, stripe, executor, rounds, answered>>

\* An OSError is not caught: the request ends, its other tasks run on unwatched.
GiveUp(g) ==
  /\ Finished(g, "oserror")
  /\ pipeline' = None
  /\ tasks' = [t \in DOMAIN tasks \ Done |-> tasks[t]]
  /\ UNCHANGED <<now, disk, memory, stripe, executor, rounds, answered>>

Gathered == DOMAIN pipeline.payload

Content == [g \in Gathered |-> pipeline.payload[g].content]

\* Slip: only the primary group's generation takes part in the key.
CacheKeyOfPrimary == <<Head(pipeline.list), pipeline.payload[Head(pipeline.list)].gen>>

\* Slip: the key names the groups and forgets their generations.
CacheKeyOfNames == pipeline.list

\* catalogue_cache_key: the generations of all requested groups.
CacheKey == [i \in DOMAIN pipeline.list |->
  LET g == pipeline.list[i]
  IN  <<g, IF g \in Gathered THEN pipeline.payload[g].gen ELSE 0>>]

CanCacheMerge == pipeline.list = HostedMerge /\ Gathered = ToSet(HostedMerge)

\* _merged_catalogue_for and _build_merged_catalogue.
Merged ==
  IF CanCacheMerge /\ merged # None /\ merged.key = CacheKey THEN merged.content ELSE Content

\* _prepared_catalogue_for compares the number of elements too (element_count); lists
\* of the same groups are taken to be equally long, whatever their generations.
SameLength(content) == DOMAIN content = DOMAIN Merged

Prepared ==
  IF prepared # None /\ prepared.key = CacheKey /\ SameLength(prepared.content)
    THEN prepared.content ELSE Merged

PrimaryAvailable == Head(pipeline.list) \in Gathered

\* All tasks are in: the lists are merged and prepared, and the request is answered.
Answer ==
  /\ pipeline # None /\ pipeline.pending = {}
  /\ PrimaryAvailable
  /\ merged' = IF CanCacheMerge THEN [key |-> CacheKey, content |-> Merged] ELSE merged
  /\ prepared' = [key |-> CacheKey, content |-> Prepared]
  /\ answered' = [g \in Groups |-> IF g \in DOMAIN Prepared THEN Prepared[g] ELSE answered[g]]
  /\ pipeline' = None
  /\ UNCHANGED <<now, disk, parsed, hot, stripe, executor, tasks, rounds>>

\* Without its primary group a request is answered with 503.
AnswerUnavailable ==
  /\ pipeline # None /\ pipeline.pending = {}
  /\ ~PrimaryAvailable
  /\ pipeline' = None
  /\ UNCHANGED <<now, disk, memory, stripe, executor, tasks, rounds, answered>>

PipelineStep ==
  \/ \E g \in Groups : Collect(g) \/ GoWithout(g) \/ GiveUp(g)
  \/ Answer
  \/ AnswerUnavailable

(***************************************************************************)
(* The environment.                                                        *)
(***************************************************************************)
\* The process restarts; the files survive it.
Restart ==
  /\ pipeline # None \/ parsed # <<>>
  /\ parsed' = <<>> /\ hot' = NoneOf(Groups) /\ merged' = None /\ prepared' = None
  /\ stripe' = NoneOf(LockedStripes) /\ executor' = <<>> /\ tasks' = NoneOf({})
  /\ pipeline' = None
  /\ UNCHANGED <<now, disk, rounds, answered>>

\* A file is cut short on the disk: another size, the same age.
Spoil(g) ==
  /\ disk[g] # None /\ disk[g].readable
  /\ disk' = [disk EXCEPT ![g] = [gen |-> @.gen + 1, readable |-> FALSE, at |-> @.at]]
  /\ UNCHANGED <<now, memory, stripe, executor, tasks, pipeline, rounds, answered>>

Tick ==
  /\ now < MaxTime
  /\ now' = now + 1
  /\ UNCHANGED <<disk, memory, stripe, executor, tasks, pipeline, rounds, answered>>

Next ==
  \/ Start
  \/ \E t \in TaskIds : TaskStep(t)
  \/ \E list \in Requested : Enter(list)
  \/ PipelineStep
  \/ Restart
  \/ \E g \in Groups : Spoil(g)
  \/ Tick

Spec == Init /\ [][Next]_vars

(***************************************************************************)
(* Properties.                                                             *)
(***************************************************************************)
\* Concurrent refreshes (load_group, tests/test_celestrak.py): a group's file is
\* not replaced again before it has aged, whoever asks, in whatever order.
ReplacesAgedOnly ==
  \A g \in Groups :
    disk[g] # None /\ disk'[g] # disk[g] /\ disk'[g].readable => disk[g].at + MaxAge < now

\* The answer is made of the payloads this request gathered, although the merged
\* and the prepared list may come from caches filled by earlier requests.
AnswerIsExact ==
  pipeline # None /\ pipeline.pending = {} /\ PrimaryAvailable => Prepared = Content

\* A payload is never filed under another generation than its own.
GenerationIsContent ==
  /\ \A g \in Groups : hot[g] # None => hot[g].gen = hot[g].content
  /\ \A e \in ToSet(parsed) : e.gen = e.content

\* A request uses a payload that was already too old when the request began only
\* if CelesTrak refused that group during this very request.
StaleOnlyIfRefused ==
  pipeline # None =>
    \A g \in Gathered : \/ pipeline.begun <= pipeline.payload[g].at + MaxAge
                        \/ g \in pipeline.refused

\* The list of a group never goes back to an older one: not through the hot,
\* merged or prepared lists, late tasks of an abandoned request, or a restart.
Advances == \A g \in Groups : answered'[g] >= answered[g]

(***************************************************************************)
(* What these properties rest on.                                          *)
(***************************************************************************)
Entries == [group : Groups, gen : Nat \ {0}, content : Nat \ {0}]
Unfinished ==
  [group : Groups, phase : {"queued", "locking", "probing", "downloading", "mirroring", "writing"}]
Loaded == [group : Groups, phase : {"loaded"}, payload : Payloads, refused : BOOLEAN]
Failed == [group : Groups, phase : {"unavailable", "oserror"}, payload : {None}, refused : BOOLEAN]
Progress ==
  [list : Requested, begun : Nat, pending : SUBSET Groups, payload : [Gathered -> Payloads],
   refused : SUBSET Groups]

TypeOK ==
  /\ now \in Nat /\ rounds \in Nat
  /\ disk \in [Groups -> {None} \cup Files]
  /\ parsed \in Seq(Entries)
  /\ hot \in [Groups -> {None} \cup Payloads]
  /\ DOMAIN stripe = LockedStripes
  /\ \A t \in DOMAIN tasks :
       /\ t \in (1..rounds) \X Groups
       /\ tasks[t] \in Unfinished \cup Loaded \cup Failed
       /\ tasks[t].group = t[2]
  /\ pipeline # None => pipeline \in Progress /\ Gathered \subseteq Groups
  /\ answered \in [Groups -> Nat]

\* A task of the request inside has loaded its group.
LoadedNow(t) == pipeline # None /\ t[1] = rounds /\ tasks[t].phase = "loaded"

\* Every payload, wherever it is, is filed under its own generation.
Exact ==
  /\ GenerationIsContent
  /\ \A t \in DOMAIN tasks :
       tasks[t].phase = "loaded" => tasks[t].payload.gen = tasks[t].payload.content
  /\ pipeline # None =>
       \A g \in Gathered : pipeline.payload[g].gen = pipeline.payload[g].content

\* The tasks of the request inside are those it waits for, of groups that are not
\* hot, and a group it has gathered is hot with nothing else.
Tracked ==
  pipeline # None =>
    /\ pipeline.pending \cup Gathered \subseteq ToSet(pipeline.list)
    /\ \A g \in pipeline.pending : <<rounds, g>> \in DOMAIN tasks
    /\ \A t \in DOMAIN tasks : t[1] = rounds => t[2] \in pipeline.pending
    /\ \A g \in pipeline.pending : hot[g] = None
    /\ \A g \in Gathered : hot[g] = None \/ hot[g] = pipeline.payload[g]

\* A kept list holds the groups its key has a generation of, in that generation.
ListOf(key, content) ==
  /\ content = [g \in {key[i][1] : i \in {i \in DOMAIN key : key[i][2] > 0}} |-> content[g]]
  /\ \A i \in DOMAIN key : key[i][2] > 0 => content[key[i][1]] = key[i][2]

KeysTell ==
  /\ merged # None => ListOf(merged.key, merged.content)
  /\ prepared # None => ListOf(prepared.key, prepared.content)

FreshOrRefused ==
  /\ StaleOnlyIfRefused
  /\ pipeline # None => pipeline.begun <= now
  /\ \A t \in DOMAIN tasks :
       LoadedNow(t) => tasks[t].refused \/ pipeline.begun <= tasks[t].payload.at + MaxAge

\* The task at work on a file holds its stripe, and downloads what has aged.
LocksHeld ==
  \A t \in DOMAIN tasks :
    /\ tasks[t].phase \in {"probing", "downloading", "mirroring", "writing"} =>
         stripe[LockOf(t)] = t
    /\ tasks[t].phase \in {"downloading", "mirroring", "writing"} => ~IsFresh(tasks[t].group)

\* Nothing is newer than its file or older than what was answered last.
Between(g, gen) == disk[g] # None /\ answered[g] <= gen /\ gen <= disk[g].gen

NoneOlder ==
  /\ \A g \in Groups : answered[g] > 0 => Between(g, answered[g])
  /\ \A g \in Groups : hot[g] # None => Between(g, hot[g].gen)
  /\ pipeline # None => \A g \in Gathered : Between(g, pipeline.payload[g].gen)
  /\ \A t \in DOMAIN tasks : LoadedNow(t) => Between(tasks[t].group, tasks[t].payload.gen)

CatalogueInv ==
  TypeOK /\ Exact /\ Tracked /\ KeysTell /\ FreshOrRefused /\ LocksHeld /\ NoneOlder
==============================================================================
