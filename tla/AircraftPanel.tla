--------------------------- MODULE AircraftPanel ---------------------------
(***************************************************************************)
(* The aircraft of the desktop window (gui_stage19.py,                      *)
(* gui_stage20_clean.py) and the coordinator that keeps their last good     *)
(* snapshot (aircraft_sources.py).  One worker thread asks at a time; a     *)
(* request made meanwhile is repeated a second later.  The worker writes    *)
(* the last good snapshot itself, so the selector's clear_last_good may run *)
(* before that; and the windows' "save", "use" and "delete" clear nothing,  *)
(* nor does a choice that could not be saved.                               *)
(* The coordinator does not know the place a snapshot was taken for, so the *)
(* module keeps it next to the snapshot.                                    *)
(***************************************************************************)
EXTENDS Places

VARIABLES
  air,       \* [busy, job, stray, loads]: _aircraft_fetch_in_progress, whether the timer
             \* of _aircraft_refresh_job is set, or one whose handle was overwritten,
             \* and the worker with what it has posted
  shown,     \* [of, live]: the place of _aircraft_contacts, and whether they came fresh
  lastGood   \* the place of AircraftSourceCoordinator._last_good, within its grace

vars == <<profiles, selected, saved, air, shown, lastGood>>

NoContacts == [of |-> NoPlace, live |-> FALSE]
Asking(p) == [at |-> p, now |-> TRUE, stage |-> "asking", got |-> NoContacts]

\* after(), which overwrites the handle of a timer that is still set.
Timed(a) == [a EXCEPT !.job = TRUE, !.stray = @ \/ a.job]

\* _refresh_aircraft: it cancels the timer of the handle, and starts a worker
\* unless one is at work or no place is selected.
Refresh(a, ps, n) ==
  LET free == [a EXCEPT !.job = FALSE]
  IN IF a.busy \/ Find(ps, n) = NoPlace THEN Timed(free)
     ELSE [free EXCEPT !.busy = TRUE, !.loads = @ \cup {Asking(Find(ps, n))}]

\* ... in which case nothing is shown.
Shown(a, ps, n, s) == IF ~a.busy /\ Find(ps, n) = NoPlace THEN NoContacts ELSE s

RefreshNow(a) ==
  /\ air' = Refresh(a, profiles, selected)
  /\ shown' = Shown(a, profiles, selected, shown)

\* _on_location_changed of stage 19: a new generation.
Choosing ==
  /\ \E n \in Names : Choose(n, TRUE)
  /\ air' = Refresh([air EXCEPT !.loads = {[l EXCEPT !.now = FALSE] : l \in @}], profiles', selected')
  /\ shown' = NoContacts
  /\ lastGood' = NoPlace

\* The settings window tells the aircraft nothing.
Editing ==
  /\ \/ \E ok \in BOOLEAN, row \in Rows, p \in Profile : Save(row, p, ok) \/ Use(row, p, ok)
     \/ \E ok \in BOOLEAN, row \in Rows : Delete(row, ok)
     \/ \E n \in Names : Choose(n, FALSE)
  /\ UNCHANGED <<air, shown, lastGood>>

TimerFires ==
  /\ air.job
  /\ RefreshNow([air EXCEPT !.job = FALSE])
  /\ UNCHANGED <<places, lastGood>>

\* There may be several stray timers.
StrayFires ==
  /\ air.stray
  /\ \E more \in BOOLEAN : RefreshNow([air EXCEPT !.stray = more])
  /\ UNCHANGED <<places, lastGood>>

Posted(l, got) == [l EXCEPT !.stage = "posted", !.got = got]
Answer(l, next) == air' = [air EXCEPT !.loads = (@ \ {l}) \cup {next}] /\ UNCHANGED <<places, shown>>

\* fetch_snapshot in the worker: a usable snapshot is remembered, whether any
\* of its aircraft is above the horizon or not ...
SourceAnswers(l) ==
  /\ l \in air.loads /\ l.stage = "asking"
  /\ \E got \in {NoContacts, [of |-> l.at, live |-> TRUE]} : Answer(l, Posted(l, got))
  /\ lastGood' = l.at

\* ... otherwise the last good one is repeated as stale, if there is one; from
\* this place none of its aircraft may be up.
SourceUnavailable(l) ==
  /\ l \in air.loads /\ l.stage = "asking"
  /\ \E got \in {NoContacts, [of |-> lastGood, live |-> FALSE]} : Answer(l, Posted(l, got))
  /\ UNCHANGED lastGood

\* Anything the worker raises is posted as a failure.
SourceRaises(l) ==
  /\ l \in air.loads /\ l.stage = "asking"
  /\ Answer(l, [l EXCEPT !.stage = "failed"])
  /\ UNCHANGED lastGood

Landed(l) == [air EXCEPT !.busy = FALSE, !.loads = @ \ {l}]
Mine(l) == l.now /\ l.at = Here

\* _apply_aircraft_snapshot of another generation or place: ask again at once.
SnapshotOfAnother(l) ==
  /\ l \in air.loads /\ l.stage = "posted" /\ ~Mine(l)
  /\ air' = Timed(Landed(l))
  /\ UNCHANGED <<places, shown, lastGood>>

\* Slip: the place is not compared.
AppliedByGeneration(l) ==
  /\ l \in air.loads /\ l.stage = "posted" /\ l.now
  /\ air' = Timed(Landed(l))
  /\ shown' = IF l.got.of = NoPlace /\ shown.of # NoPlace THEN shown ELSE l.got
  /\ UNCHANGED <<places, lastGood>>

\* _apply_aircraft_snapshot; the clean window holds contacts over an empty one.
SnapshotApplied(l) ==
  /\ l \in air.loads /\ l.stage = "posted" /\ Mine(l)
  /\ air' = Timed(Landed(l))
  /\ shown' = IF l.got.of = NoPlace /\ shown.of # NoPlace THEN shown ELSE l.got
  /\ UNCHANGED <<places, lastGood>>

\* _aircraft_refresh_failed: an older generation leaves it to the repeated request.
RefreshFailed(l) ==
  /\ l \in air.loads /\ l.stage = "failed"
  /\ air' = IF l.now THEN Timed(Landed(l)) ELSE Landed(l)
  /\ UNCHANGED <<places, shown, lastGood>>

\* stale_grace_seconds have passed since the last good snapshot.
LastGoodAges ==
  /\ lastGood # NoPlace
  /\ lastGood' = NoPlace
  /\ UNCHANGED <<places, air, shown>>

Init ==
  /\ \E p \in Profile :
       /\ profiles = <<p>> /\ selected = p.name /\ saved = "always"
       /\ air = [busy |-> TRUE, job |-> FALSE, stray |-> FALSE, loads |-> {Asking(p)}]
  /\ shown = NoContacts /\ lastGood = NoPlace

Next ==
  \/ Choosing \/ Editing \/ TimerFires \/ StrayFires \/ LastGoodAges
  \/ \E l \in air.loads :
       \/ SourceAnswers(l) \/ SourceUnavailable(l) \/ SourceRaises(l)
       \/ SnapshotOfAnother(l) \/ SnapshotApplied(l) \/ RefreshFailed(l)

\* Timers fire, and the requests of a worker time out.
Spec ==
  Init /\ [][Next]_vars
    /\ WF_vars(TimerFires) /\ WF_vars(StrayFires)
    /\ WF_vars(\E l \in air.loads : SourceAnswers(l) \/ SourceUnavailable(l) \/ SourceRaises(l))
    /\ WF_vars(\E l \in air.loads : SnapshotOfAnother(l) \/ SnapshotApplied(l) \/ RefreshFailed(l))

(***************************************************************************)
(* Properties.                                                             *)
(***************************************************************************)
\* The refreshing of aircraft never stops and never doubles: one worker at most
\* is at work, exactly while the application believes so, and otherwise a timer
\* is set, although failures of an older generation set none and timers whose
\* handle was overwritten cannot be cancelled.
AircraftRefreshAlive ==
  /\ air.busy <=> air.loads # {}
  /\ \A l, k \in air.loads : l = k
  /\ air.busy \/ air.job \/ air.stray
  /\ (\E l \in air.loads : ~l.now) => air.job \/ air.stray

\* Contacts that replace others and are called live were asked for the place
\* that is selected when they are shown.
ShownLiveHere == shown' # shown /\ shown'.live => shown'.of = Here

\* What these rest on: a worker's answer that is called live is of its own place.
AircraftInv ==
  /\ DOMAIN air = {"busy", "job", "stray", "loads"}
  /\ air.busy \in BOOLEAN /\ air.job \in BOOLEAN /\ air.stray \in BOOLEAN
  /\ \A l \in air.loads :
       /\ DOMAIN l = {"at", "now", "stage", "got"} /\ l.now \in BOOLEAN
       /\ l.got.live => l.got.of = l.at
  /\ AircraftRefreshAlive
=============================================================================
