-------------------------- MODULE AdsbProviderProofs --------------------------
(***************************************************************************)
(* Proofs about AdsbProvider for every finite set of threads and every     *)
(* number of permits, interval, delay and attempt bound.                   *)
(***************************************************************************)
EXTENDS AdsbProvider, FiniteSetTheorems, TLAPS

\* The threads inside the gate.
Inside == {t \in Threads : pc[t] \in Gated}

\* Whoever sleeps for a slot holds the schedule lock and sleeps until nextAt.
LockHeld ==
  \A t \in Threads : pc[t] = "sleeping" => lock = t /\ wakeAt[t] = nextAt

\* nextAt is one interval after the latest slot, and never further ahead.
SlotBooked ==
  /\ slot = None => nextAt = 0
  /\ slot # None => nextAt = slot + MinInterval /\ slot <= now

\* Who is about to send has an attempt left, and has a right to its provider.
AttemptLeft ==
  \A t \in Threads :
    /\ pc[t] \in {"acquiring", "scheduling", "sleeping", "starting", "backoff"} =>
         tries[t][provider[t]] < MaxAttempts(provider[t])
    /\ provider[t] = "secondary" => failover[t]
    /\ provider[t] = "primary" => tries[t]["secondary"] = 0

IInv == TypeOK /\ GateConserved /\ LockHeld /\ SlotBooked /\ AttemptLeft /\ AttemptsBounded

LEMMA InitInv == Init => IInv
<1> SUFFICES ASSUME Init PROVE IInv
  OBVIOUS
<1>1. TypeOK BY ProviderAssumption DEF Init, TypeOK, Phases, Providers
<1>2. GateConserved
  <2>1. {t \in Threads : pc[t] \in Gated} = {} BY DEF Init, Gated
  <2> QED BY <2>1, FS_EmptySet, ProviderAssumption DEF GateConserved, Init
<1>3. LockHeld /\ SlotBooked /\ AttemptLeft /\ AttemptsBounded
  BY ProviderAssumption
  DEF Init, LockHeld, SlotBooked, AttemptLeft, AttemptsBounded, MaxAttempts, Providers
<1> QED BY <1>1, <1>2, <1>3 DEF IInv

\* Natural numbers are closed under sums and products: cited where SMT would
\* otherwise meet the product of two variables.
LEMMA Product == \A m, n \in Nat : m * n \in Nat
OBVIOUS

LEMMA Sum == \A m, n \in Nat : m + n \in Nat
OBVIOUS

LEMMA StepType == TypeOK /\ [Next]_vars => TypeOK'
<1> SUFFICES ASSUME TypeOK, [Next]_vars PROVE TypeOK'
  OBVIOUS
<1> USE ProviderAssumption DEF TypeOK, Phases, Gated, Providers
<1>1. ASSUME NEW t \in Threads, NEW f \in BOOLEAN, Fetch(t, f) PROVE TypeOK'
  BY <1>1 DEF Fetch
<1>2. ASSUME NEW t \in Threads, Acquire(t) PROVE TypeOK' BY <1>2 DEF Acquire
<1>3. ASSUME NEW t \in Threads, TakeSlot(t) PROVE TypeOK' BY <1>3 DEF TakeSlot
<1>4. ASSUME NEW t \in Threads, SleepForSlot(t) PROVE TypeOK' BY <1>4 DEF SleepForSlot
<1>5. ASSUME NEW t \in Threads, WakeForSlot(t) PROVE TypeOK' BY <1>5 DEF WakeForSlot
<1>6. ASSUME NEW t \in Threads, Send(t) PROVE TypeOK' BY <1>6 DEF Send
<1>7. ASSUME NEW t \in Threads, NEW o \in Outcomes, Answer(t, o) PROVE TypeOK'
  <2>1. tries[t][provider[t]] \in Nat /\ RetryDelay \in Nat OBVIOUS
  <2>2. RetryDelay * tries[t][provider[t]] \in Nat BY <2>1, Product, Zenon
  <2>3. BackoffEnd(t) \in Nat BY <2>2, Sum, Zenon DEF BackoffEnd, TypeOK
  <2>4. pc' \in [Threads -> Phases] /\ provider' \in [Threads -> Providers]
    BY <1>7 DEF Answer
  <2>5. wakeAt' \in [Threads -> Nat]
    <3>1. wakeAt' = wakeAt \/ wakeAt' = [wakeAt EXCEPT ![t] = BackoffEnd(t)]
      BY <1>7 DEF Answer
    <3> QED BY <2>3, <3>1
  <2> QED BY <1>7, <2>4, <2>5 DEF Answer, PermitsAfter
<1>8. ASSUME NEW t \in Threads, Retry(t) PROVE TypeOK' BY <1>8 DEF Retry
<1>9. ASSUME NEW t \in Threads, Return(t) PROVE TypeOK' BY <1>9 DEF Return
<1>10. CASE Tick BY <1>10 DEF Tick
<1>11. CASE Over \/ UNCHANGED vars BY <1>11 DEF Over, vars
<1> QED
  BY <1>1, <1>2, <1>3, <1>4, <1>5, <1>6, <1>7, <1>8, <1>9, <1>10, <1>11 DEF Next, Step

(***************************************************************************)
(* The gate.                                                               *)
(***************************************************************************)
\* A thread that enters or leaves the gate changes its population by one.
LEMMA GatePopulation ==
  ASSUME NEW t \in Threads, TypeOK, TypeOK',
         \A s \in Threads \ {t} : pc'[s] = pc[s]
  PROVE  /\ pc[t] \notin Gated /\ pc'[t] \in Gated =>
              Cardinality(Inside') = Cardinality(Inside) + 1
         /\ pc[t] \in Gated /\ pc'[t] \notin Gated =>
              Cardinality(Inside') = Cardinality(Inside) - 1
         /\ (pc[t] \in Gated <=> pc'[t] \in Gated) => Inside' = Inside
         /\ Cardinality(Inside) \in Nat /\ Cardinality(Inside') \in Nat
<1>1. IsFiniteSet(Inside) /\ IsFiniteSet(Inside')
  <2>1. Inside \subseteq Threads /\ Inside' \subseteq Threads BY DEF Inside
  <2> QED BY <2>1, ProviderAssumption, FS_Subset
<1>2. CASE pc[t] \notin Gated /\ pc'[t] \in Gated
  <2>1. Inside' = Inside \cup {t} /\ t \notin Inside BY <1>2 DEF Inside
  <2> QED BY <1>1, <1>2, <2>1, FS_AddElement, FS_CardinalityType
<1>3. CASE pc[t] \in Gated /\ pc'[t] \notin Gated
  <2>1. Inside' = Inside \ {t} /\ t \in Inside BY <1>3 DEF Inside
  <2> QED BY <1>1, <1>3, <2>1, FS_RemoveElement, FS_CardinalityType
<1>4. CASE pc[t] \in Gated <=> pc'[t] \in Gated
  <2>1. Inside' = Inside BY <1>4 DEF Inside
  <2> QED BY <1>1, <1>4, <2>1, FS_CardinalityType
<1> QED BY <1>2, <1>3, <1>4

LEMMA StepGate == TypeOK /\ TypeOK' /\ GateConserved /\ [Next]_vars => GateConserved'
<1> SUFFICES ASSUME TypeOK, TypeOK', GateConserved, [Next]_vars PROVE GateConserved'
  OBVIOUS
<1>i. free + Cardinality(Inside) = Permits /\ free \in Nat /\ Permits \in Nat
  BY ProviderAssumption DEF GateConserved, Inside, TypeOK
<1>q. ASSUME free' + Cardinality(Inside') = Permits PROVE GateConserved'
  BY <1>q DEF GateConserved, Inside
<1>1. ASSUME NEW t \in Threads, UNCHANGED free, \A s \in Threads \ {t} : pc'[s] = pc[s],
             pc[t] \in Gated <=> pc'[t] \in Gated
      PROVE  GateConserved'
  BY <1>1, <1>i, <1>q, GatePopulation
<1>2. ASSUME NEW t \in Threads, NEW f \in BOOLEAN, Fetch(t, f) PROVE GateConserved'
  BY <1>1, <1>2 DEF Fetch, TypeOK, Gated
<1>3. ASSUME NEW t \in Threads, Acquire(t) PROVE GateConserved'
  <2>1. pc[t] \notin Gated /\ pc'[t] \in Gated /\ \A s \in Threads \ {t} : pc'[s] = pc[s]
    BY <1>3 DEF Acquire, TypeOK, Gated
  <2>2. Cardinality(Inside') = Cardinality(Inside) + 1 /\ Cardinality(Inside) \in Nat
    BY <2>1, GatePopulation
  <2> QED BY <1>3, <1>i, <1>q, <2>2 DEF Acquire
<1>4. ASSUME NEW t \in Threads, TakeSlot(t) \/ SleepForSlot(t) \/ WakeForSlot(t) \/ Send(t)
      PROVE  GateConserved'
  <2>1. UNCHANGED free /\ (\A s \in Threads \ {t} : pc'[s] = pc[s])
        /\ pc[t] \in Gated /\ pc'[t] \in Gated
    BY <1>4 DEF TakeSlot, SleepForSlot, WakeForSlot, Send, TypeOK, Gated
  <2> QED BY <1>1, <2>1
<1>5. ASSUME NEW t \in Threads, NEW o \in Outcomes, Answer(t, o) PROVE GateConserved'
  <2>1. pc[t] \in Gated /\ pc'[t] \notin Gated /\ \A s \in Threads \ {t} : pc'[s] = pc[s]
    BY <1>5 DEF Answer, TypeOK, Gated
  <2>2. Cardinality(Inside') = Cardinality(Inside) - 1 /\ Cardinality(Inside) \in Nat
    BY <2>1, GatePopulation
  <2> QED BY <1>5, <1>i, <1>q, <2>2 DEF Answer, PermitsAfter
<1>6. ASSUME NEW t \in Threads, Retry(t) \/ Return(t) PROVE GateConserved'
  <2>1. UNCHANGED free /\ (\A s \in Threads \ {t} : pc'[s] = pc[s])
        /\ pc[t] \notin Gated /\ pc'[t] \notin Gated
    BY <1>6 DEF Retry, Return, TypeOK, Gated
  <2> QED BY <1>1, <2>1
<1>7. CASE Tick \/ Over \/ UNCHANGED vars
  BY <1>7 DEF Tick, Over, vars, GateConserved
<1> QED BY <1>2, <1>3, <1>4, <1>5, <1>6, <1>7 DEF Next, Step

(***************************************************************************)
(* Slots and attempts.                                                     *)
(***************************************************************************)
LEMMA StepSlots ==
  TypeOK /\ LockHeld /\ SlotBooked /\ [Next]_vars => LockHeld' /\ SlotBooked'
<1> SUFFICES ASSUME TypeOK, LockHeld, SlotBooked, [Next]_vars
             PROVE  LockHeld' /\ SlotBooked'
  OBVIOUS
<1> USE ProviderAssumption DEF TypeOK, LockHeld, SlotBooked
<1>1. ASSUME NEW t \in Threads, NEW f \in BOOLEAN, Fetch(t, f) PROVE LockHeld' /\ SlotBooked'
  BY <1>1 DEF Fetch
<1>2. ASSUME NEW t \in Threads, Acquire(t) PROVE LockHeld' /\ SlotBooked'
  BY <1>2 DEF Acquire
<1>3. ASSUME NEW t \in Threads, TakeSlot(t) PROVE LockHeld' /\ SlotBooked'
  BY <1>3 DEF TakeSlot
<1>4. ASSUME NEW t \in Threads, SleepForSlot(t) PROVE LockHeld' /\ SlotBooked'
  BY <1>4 DEF SleepForSlot
<1>5. ASSUME NEW t \in Threads, WakeForSlot(t) PROVE LockHeld' /\ SlotBooked'
  BY <1>5 DEF WakeForSlot
<1>6. ASSUME NEW t \in Threads, Send(t) PROVE LockHeld' /\ SlotBooked' BY <1>6 DEF Send
<1>7. ASSUME NEW t \in Threads, NEW o \in Outcomes, Answer(t, o) PROVE LockHeld' /\ SlotBooked'
  <2>1. UNCHANGED <<now, lock, nextAt, slot>> /\ pc[t] = "inflight" BY <1>7 DEF Answer
  <2>2. \A s \in Threads : pc'[s] = "sleeping" =>
          pc[s] = "sleeping" /\ wakeAt'[s] = wakeAt[s]
    <3> SUFFICES ASSUME NEW s \in Threads, pc'[s] = "sleeping"
                 PROVE  pc[s] = "sleeping" /\ wakeAt'[s] = wakeAt[s]
      OBVIOUS
    <3>1. s # t BY <1>7 DEF Answer
    <3>2. pc'[s] = pc[s] BY <1>7, <3>1 DEF Answer
    <3>3. wakeAt'[s] = wakeAt[s] BY <1>7, <3>1 DEF Answer
    <3> QED BY <3>2, <3>3
  <2> QED BY <2>1, <2>2
<1>8. ASSUME NEW t \in Threads, Retry(t) \/ Return(t) PROVE LockHeld' /\ SlotBooked'
  BY <1>8 DEF Retry, Return
<1>9. CASE Tick
  <2>1. now <= now' /\ UNCHANGED <<pc, lock, wakeAt, nextAt, slot>> BY <1>9 DEF Tick
  <2>2. LockHeld' BY <2>1
  <2>3. SlotBooked' BY <1>9 DEF Tick
  <2> QED BY <2>2, <2>3
<1>10. CASE Over \/ UNCHANGED vars BY <1>10 DEF Over, vars
<1> QED
  BY <1>1, <1>2, <1>3, <1>4, <1>5, <1>6, <1>7, <1>8, <1>9, <1>10 DEF Next, Step

LEMMA StepAttempts ==
  TypeOK /\ AttemptLeft /\ AttemptsBounded /\ [Next]_vars => AttemptLeft' /\ AttemptsBounded'
<1> SUFFICES ASSUME TypeOK, AttemptLeft, AttemptsBounded, [Next]_vars
             PROVE  AttemptLeft' /\ AttemptsBounded'
  OBVIOUS
<1> USE ProviderAssumption DEF TypeOK, AttemptLeft, AttemptsBounded, MaxAttempts, Providers
<1>1. ASSUME NEW t \in Threads, NEW f \in BOOLEAN, Fetch(t, f)
      PROVE  AttemptLeft' /\ AttemptsBounded'
  BY <1>1 DEF Fetch
<1>2. ASSUME NEW t \in Threads,
             Acquire(t) \/ TakeSlot(t) \/ SleepForSlot(t) \/ WakeForSlot(t) \/ Retry(t) \/ Return(t)
      PROVE  AttemptLeft' /\ AttemptsBounded'
  BY <1>2 DEF Acquire, TakeSlot, SleepForSlot, WakeForSlot, Retry, Return
<1>3. ASSUME NEW t \in Threads, Send(t) PROVE AttemptLeft' /\ AttemptsBounded'
  BY <1>3 DEF Send
<1>4. ASSUME NEW t \in Threads, NEW o \in Outcomes, Answer(t, o)
      PROVE  AttemptLeft' /\ AttemptsBounded'
  <2>1. UNCHANGED <<failover, tries>> /\ pc[t] = "inflight" BY <1>4 DEF Answer
  <2>2. \A s \in Threads \ {t} : pc'[s] = pc[s] /\ provider'[s] = provider[s]
    BY <1>4 DEF Answer
  <2>3. CASE pc'[t] = "backoff" /\ Retries(t, o) /\ provider' = provider
    BY <2>1, <2>2, <2>3 DEF Retries
  <2>4. CASE pc'[t] \in {"served", "raised", "unavailable"} /\ provider'[t] = provider[t]
    BY <2>1, <2>2, <2>4
  <2>5. CASE pc'[t] = "acquiring" /\ GoesOn(t) /\ provider'[t] = "secondary"
    BY <2>1, <2>2, <2>5 DEF GoesOn
  <2>6. \/ pc'[t] = "backoff" /\ Retries(t, o) /\ provider' = provider
        \/ pc'[t] \in {"served", "raised", "unavailable"} /\ provider'[t] = provider[t]
        \/ pc'[t] = "acquiring" /\ GoesOn(t) /\ provider'[t] = "secondary"
    BY <1>4 DEF Answer
  <2> QED BY <2>3, <2>4, <2>5, <2>6
<1>5. CASE Tick \/ Over \/ UNCHANGED vars BY <1>5 DEF Tick, Over, vars
<1> QED BY <1>1, <1>2, <1>3, <1>4, <1>5 DEF Next, Step

(***************************************************************************)
(* The theorems.                                                           *)
(***************************************************************************)
LEMMA Inductive == Spec => []IInv
<1>1. IInv /\ [Next]_vars => IInv'
  BY StepType, StepGate, StepSlots, StepAttempts DEF IInv
<1> QED BY <1>1, InitInv, PTL DEF Spec

\* Every variable keeps its type (aircraft_adsb_lol.py, fetch_snapshot).
THEOREM TypeCorrect == Spec => []TypeOK
BY Inductive, PTL DEF IInv

\* Every path through an attempt, an exception included, gives its permit back.
THEOREM GateAlwaysConserved == Spec => []GateConserved
BY Inductive, PTL DEF IInv

\* The requests on the wire never outnumber the permits of the gate.
THEOREM OutboundBounded == Spec => []BoundedOutbound
<1>1. IInv => BoundedOutbound
  <2> SUFFICES ASSUME IInv PROVE BoundedOutbound
    OBVIOUS
  <2> DEFINE wire == {t \in Threads : pc[t] = "inflight"}
  <2>1. wire \subseteq Inside /\ Inside \subseteq Threads BY DEF Inside, Gated
  <2>2. IsFiniteSet(Inside) BY <2>1, ProviderAssumption, FS_Subset
  <2>3. IsFiniteSet(wire) /\ Cardinality(wire) <= Cardinality(Inside)
    BY <2>1, <2>2, FS_Subset
  <2>4. Cardinality(wire) \in Nat /\ Cardinality(Inside) \in Nat
    BY <2>2, <2>3, FS_CardinalityType
  <2>5. free + Cardinality(Inside) = Permits /\ free \in Nat
    BY DEF IInv, GateConserved, Inside, TypeOK
  <2> HIDE DEF wire
  <2>6. Cardinality(wire) <= Permits BY <2>3, <2>4, <2>5, ProviderAssumption
  <2> QED BY <2>6 DEF wire, BoundedOutbound
<1> QED BY <1>1, Inductive, PTL

\* Start slots are one interval apart for every pair of requests, whatever the
\* number of permits: the schedule lock alone is enough.
THEOREM SlotsAreSpaced == Spec => SlotsSpaced
<1>1. IInv /\ [Next]_vars => [slot' # slot /\ slot # None => slot' >= slot + MinInterval]_vars
  <2> SUFFICES ASSUME IInv, Next, slot' # slot, slot # None PROVE slot' >= slot + MinInterval
    BY DEF vars
  <2>1. PICK t \in Threads : TakeSlot(t) \/ WakeForSlot(t)
    BY DEF Next, Step, Fetch, Acquire, SleepForSlot, Send, Answer, Retry, Return, Tick, Over, vars
  <2> QED BY <2>1, ProviderAssumption
          DEF IInv, TypeOK, LockHeld, SlotBooked, TakeSlot, WakeForSlot
<1> QED BY <1>1, Inductive, PTL DEF Spec, SlotsSpaced

\* A thread that sleeps for a slot sleeps at most one interval.
THEOREM ThrottleIsBounded == Spec => []ThrottleBounded
<1>1. IInv => ThrottleBounded
  BY ProviderAssumption DEF IInv, TypeOK, LockHeld, SlotBooked, ThrottleBounded
<1> QED BY <1>1, Inductive, PTL

\* A fetch stays within max_attempts of each provider, and only a live fetch
\* ever reaches the secondary one.
THEOREM AttemptsStayBounded == Spec => []AttemptsBounded
BY Inductive, PTL DEF IInv

===============================================================================
