----------------------------- MODULE SharedLoad -----------------------------
(***************************************************************************)
(* What the two in-process snapshot caches of the hosted API promise to    *)
(* their callers, without Conditions, expiries or eviction.                *)
(*                                                                         *)
(* A thread asks for a key.  It is answered from the shelf, or it becomes  *)
(* the one loader of that key: while it loads, nobody else loads the key   *)
(* and nobody is answered for it.  A load that succeeds puts the loader's  *)
(* own answer on the shelf; one that fails leaves the shelf empty.  What   *)
(* is on the shelf may vanish at any step, but is never altered.           *)
(***************************************************************************)
EXTENDS TLAPS

CONSTANTS Threads, Keys, Values, None

VARIABLES
  phase,   \* where each thread is: idle, asking, loading or done
  want,    \* the key each thread asked for
  shelf,   \* the value each key can be answered with, or None
  answer   \* what each thread was answered, None when its load failed

vars == <<phase, want, shelf, answer>>

Init ==
  /\ phase = [t \in Threads |-> "idle"]
  /\ want \in [Threads -> Keys]
  /\ shelf = [k \in Keys |-> None]
  /\ answer = [t \in Threads |-> None]

Shelves == [Keys -> Values \cup {None}]

\* Keys outside S keep their value or lose it.
DecaysOutside(S) ==
  /\ shelf' \in Shelves
  /\ \A k \in Keys \ S : shelf'[k] \in {shelf[k], None}

Ask(t, k) ==
  /\ phase[t] = "idle"
  /\ phase' = [phase EXCEPT ![t] = "asking"]
  /\ want' = [want EXCEPT ![t] = k]
  /\ UNCHANGED <<shelf, answer>>

Share(t) ==
  /\ phase[t] = "asking"
  /\ shelf[want[t]] # None
  /\ DecaysOutside({want[t]})
  /\ shelf'[want[t]] = shelf[want[t]]
  /\ phase' = [phase EXCEPT ![t] = "done"]
  /\ answer' = [answer EXCEPT ![t] = shelf[want[t]]]
  /\ UNCHANGED want

Start(t) ==
  /\ phase[t] = "asking"
  /\ \A s \in Threads : ~(phase[s] = "loading" /\ want[s] = want[t])
  /\ DecaysOutside({want[t]})
  /\ shelf'[want[t]] = None
  /\ phase' = [phase EXCEPT ![t] = "loading"]
  /\ UNCHANGED <<want, answer>>

Deliver(t) ==
  /\ phase[t] = "loading"
  /\ DecaysOutside({want[t]})
  /\ shelf'[want[t]] # None
  /\ phase' = [phase EXCEPT ![t] = "done"]
  /\ answer' = [answer EXCEPT ![t] = shelf'[want[t]]]
  /\ UNCHANGED want

Fail(t) ==
  /\ phase[t] = "loading"
  /\ phase' = [phase EXCEPT ![t] = "done"]
  /\ answer' = [answer EXCEPT ![t] = None]
  /\ UNCHANGED <<want, shelf>>

Reply(t) ==
  /\ phase[t] = "done"
  /\ phase' = [phase EXCEPT ![t] = "idle"]
  /\ answer' = [answer EXCEPT ![t] = None]
  /\ UNCHANGED <<want, shelf>>

Forget ==
  /\ DecaysOutside({})
  /\ UNCHANGED <<phase, want, answer>>

Next ==
  \/ \E t \in Threads, k \in Keys : Ask(t, k)
  \/ \E t \in Threads :
       Share(t) \/ Start(t) \/ Deliver(t) \/ Fail(t) \/ Reply(t)
  \/ Forget

Spec == Init /\ [][Next]_vars

(***************************************************************************)
(* Properties.                                                             *)
(***************************************************************************)
\* get_or_fetch and get_or_load run at most one loader per key at a time.
OneLoaderPerKey ==
  \A s, t \in Threads :
    phase[s] = "loading" /\ phase[t] = "loading" /\ want[s] = want[t] => s = t

\* Nobody is answered for a key while its value is being replaced.
NothingSharedWhileLoading ==
  \A t \in Threads : phase[t] = "loading" => shelf[want[t]] = None

(***************************************************************************)
(* Proofs.  The two properties are inductive together with the domains.    *)
(***************************************************************************)
Inv ==
  /\ phase \in [Threads -> {"idle", "asking", "loading", "done"}]
  /\ want \in [Threads -> Keys]
  /\ shelf \in Shelves
  /\ OneLoaderPerKey
  /\ NothingSharedWhileLoading

\* A step of the contract keeps loads exclusive and loaded keys off the shelf.
LEMMA InvKept == Inv /\ [Next]_vars => Inv'
<1> SUFFICES ASSUME Inv, [Next]_vars PROVE Inv'
  OBVIOUS
<1> USE DEF Inv, OneLoaderPerKey, NothingSharedWhileLoading, Shelves
<1>1. ASSUME NEW t \in Threads, NEW k \in Keys, Ask(t, k) PROVE Inv'
  BY <1>1 DEF Ask
<1>2. ASSUME NEW t \in Threads, Share(t) PROVE Inv'
  BY <1>2 DEF Share, DecaysOutside
<1>3. ASSUME NEW t \in Threads, Start(t) PROVE Inv'
  BY <1>3 DEF Start, DecaysOutside
<1>4. ASSUME NEW t \in Threads, Deliver(t) PROVE Inv'
  BY <1>4 DEF Deliver, DecaysOutside
<1>5. ASSUME NEW t \in Threads, Fail(t) PROVE Inv'
  BY <1>5 DEF Fail
<1>6. ASSUME NEW t \in Threads, Reply(t) PROVE Inv'
  BY <1>6 DEF Reply
<1>7. ASSUME Forget PROVE Inv'
  BY <1>7 DEF Forget, DecaysOutside
<1>8. CASE UNCHANGED vars
  BY <1>8 DEF vars
<1> QED
  BY <1>1, <1>2, <1>3, <1>4, <1>5, <1>6, <1>7, <1>8 DEF Next

\* Whatever implements the contract runs at most one loader per key.
THEOREM LoadsAreExclusive == Spec => []OneLoaderPerKey
<1>1. Init => Inv
  BY DEF Init, Inv, Shelves, OneLoaderPerKey, NothingSharedWhileLoading
<1>2. Inv => OneLoaderPerKey
  BY DEF Inv
<1> QED
  BY <1>1, <1>2, InvKept, PTL DEF Spec

\* Whatever implements the contract answers nobody for a key being loaded.
THEOREM LoadingHidesOldValue == Spec => []NothingSharedWhileLoading
<1>1. Init => Inv
  BY DEF Init, Inv, Shelves, OneLoaderPerKey, NothingSharedWhileLoading
<1>2. Inv => NothingSharedWhileLoading
  BY DEF Inv
<1> QED
  BY <1>1, <1>2, InvKept, PTL DEF Spec
=============================================================================
