-------------------------- MODULE ObservabilityStore --------------------------
(***************************************************************************)
(* The process-local request telemetry (src/nightazimuth/observability.py).*)
(* record_request runs on the event loop at the end of every request; the  *)
(* report runs in a worker thread, which reads the clock first and takes   *)
(* the lock afterwards, so that requests are recorded in between.          *)
(*                                                                         *)
(* Counters are kept by whole seconds, latency samples by exact instants:  *)
(* a clock tick is a fraction of a second.                                 *)
(***************************************************************************)
EXTENDS Naturals, Sequences, FiniteSets, Functions

CONSTANTS
  TicksPerSecond,  \* resolution of the modelled clock
  Window,          \* the reporting window: 300 seconds
  MaxSamples,      \* max_latency_samples
  MaxTime,         \* bound: the last instant of the modelled clock
  MaxRecords,      \* bound: the number of requests recorded in a behaviour
  None

StoreAssumption ==
  /\ TicksPerSecond \in Nat \ {0}
  /\ Window \in Nat
  /\ MaxSamples \in Nat \ {0}
  /\ MaxTime \in Nat
  /\ MaxRecords \in Nat

VARIABLES
  now,
  samples,   \* self._latency_samples: when each sampled request ended
  buckets,   \* self._request_buckets: second -> requests and errors
  asked,     \* the reporter's clock reading, None when no report is being made
  log        \* history: every recorded request since the start

vars == <<now, samples, buckets, asked, log>>

Second(tick) == tick \div TicksPerSecond

Init ==
  /\ now = 0
  /\ samples = <<>>
  /\ buckets = [s \in {} |-> 0]
  /\ asked = None
  /\ log = <<>>

\* Slip: a bucket is dropped one second early.
KeptEarly(s) == s + Window > Second(now)

\* The buckets record_request leaves in place.
KeptBucket(s) == s + Window >= Second(now)

\* The deque of latency samples: the oldest gives way.
Sampled(all) == IF Len(all) > MaxSamples THEN Tail(all) ELSE all

\* record_request: the sample, the counters, the purge.
\* Its clock cannot be late: the event loop is its only caller.
Record(isError) ==
  /\ Len(log) < MaxRecords
  /\ LET s   == Second(now)
         old == IF s \in DOMAIN buckets THEN buckets[s] ELSE [requests |-> 0, errors |-> 0]
         new == [requests |-> old.requests + 1, errors |-> old.errors + IF isError THEN 1 ELSE 0]
     IN  /\ samples' = Sampled(Append(samples, now))
         /\ buckets' = [b \in {c \in DOMAIN buckets \cup {s} : KeptBucket(c)} |->
                          IF b = s THEN new ELSE buckets[b]]
  /\ log' = Append(log, [at |-> now, error |-> isError])
  /\ UNCHANGED <<now, asked>>

\* snapshot() reads the clock.
Ask ==
  /\ asked = None
  /\ asked' = now
  /\ UNCHANGED <<now, samples, buckets, log>>

\* The buckets a report counts; one filled after the clock reading is counted too.
Counted == {s \in DOMAIN buckets : Second(asked) <= s + Window}

Total(field) == FoldFunctionOnSet(LAMBDA b, n : n + b[field], 0, buckets, Counted)

SampledSince ==
  Cardinality({i \in DOMAIN samples : asked <= samples[i] + Window * TicksPerSecond})

Truncated == Total("requests") > SampledSince

\* snapshot() copies samples and buckets under the lock, summarises the copy by
\* Total, SampledSince and Truncated, and returns: the properties speak of the
\* report that would be made now.
Summarise ==
  /\ asked # None
  /\ asked' = None
  /\ UNCHANGED <<now, samples, buckets, log>>

Tick ==
  /\ now < MaxTime
  /\ now' = now + 1
  /\ UNCHANGED <<samples, buckets, asked, log>>

Next ==
  \/ \E isError \in BOOLEAN : Record(isError)
  \/ Ask
  \/ Summarise
  \/ Tick

Spec == Init /\ [][Next]_vars

(***************************************************************************)
(* Properties.                                                             *)
(***************************************************************************)
\* The recorded requests inside the window of a clock reading t, by whole seconds.
InWindow(t) == {i \in DOMAIN log : Second(t) <= Second(log[i].at) + Window}

\* What the window of the report and that of the last recorded request share.
Reportable == InWindow(asked) \cap InWindow(log[Len(log)].at)

\* A report counts exactly the recorded requests that are inside the window of
\* its clock reading and of the last request before its copy, and among them the
\* errors: the race between the clock and the lock and the purge lose nothing
\* else, and the limit on samples never touches the counts.
ReportCountsLog ==
  asked # None /\ log # <<>> =>
    /\ Total("requests") = Cardinality(Reportable)
    /\ Total("errors") = Cardinality({i \in Reportable : log[i].error})

\* The percentiles of an unflagged report are those of every reportable request
\* that ended inside the exact window: samples are never dropped without the flag.
UnflaggedIsComplete ==
  asked # None /\ log # <<>> /\ ~Truncated =>
    SampledSince >= Cardinality({i \in Reportable :
                                   asked <= log[i].at + Window * TicksPerSecond})

\* What the counts rest on: the buckets are the seconds of the log that the purge of
\* the last request kept, each with all requests of its second.
OfSecond(s) == {i \in DOMAIN log : Second(log[i].at) = s}

Errors(requests) == {i \in requests : log[i].error}

StoreInv ==
  /\ now \in Nat /\ (asked # None => asked \in Nat)
  /\ samples \in Seq(Nat) /\ log \in Seq([at : Nat, error : BOOLEAN])
  /\ \A i, j \in DOMAIN log : i <= j => log[i].at <= log[j].at
  /\ \A i \in DOMAIN log : log[i].at <= now
  /\ DOMAIN buckets = {Second(log[i].at) : i \in IF log = <<>> THEN {} ELSE InWindow(log[Len(log)].at)}
  /\ \A s \in DOMAIN buckets : buckets[s] = [requests |-> Cardinality(OfSecond(s)),
                                             errors |-> Cardinality(Errors(OfSecond(s)))]
==============================================================================
