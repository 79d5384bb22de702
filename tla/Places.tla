------------------------------- MODULE Places -------------------------------
(***************************************************************************)
(* The observing places of the desktop application: the list of location   *)
(* profiles, the name of the selected one, and the four ways a user has of *)
(* changing them (the selector in the header and the three buttons of the  *)
(* settings window).  A profile is a name and the coordinates it stands    *)
(* for; the code compares the pair (its "location key") when it wants to   *)
(* know whether a result still belongs to the selected place.              *)
(*                                                                         *)
(* Every handler of the application runs to completion on the Tk thread,   *)
(* so one user event is one step.  It writes the list to a file first; if  *)
(* that fails, the exception ends the handler with the list and the name   *)
(* changed and before any panel is told.  The modules that extend this one *)
(* add what the event makes a panel do, written as a function from the     *)
(* panel's state to its next state because a handler may call another one  *)
(* twice.                                                                  *)
(***************************************************************************)
EXTENDS Naturals, Sequences

CONSTANTS
  Names,        \* names a user may give to a profile
  Coords,       \* coordinates a user may type
  Home,         \* bound: the coordinates of the names that are not in ...
  Edited,       \* ... the names whose coordinates a user edits
  MaxProfiles,  \* bound: profiles in the list
  FailAgain     \* bound: whether a save may fail after one that failed

NoName == "no name"

ASSUME PlacesAssumption ==
  /\ Names # {} /\ Coords # {} /\ NoName \notin Names
  /\ Home \in Coords /\ MaxProfiles \in Nat \ {0} /\ FailAgain \in BOOLEAN

VARIABLES
  profiles,     \* NightAzimuthApp.profiles
  selected,     \* NightAzimuthApp.selected_name, or NoName
  saved         \* of the changes so far, which the store wrote to its file: "always"
                \* all, "again" the last one but not all, "not" not the last one

places == <<profiles, selected, saved>>

Profile == {p \in [name : Names, at : Coords] : p.name \in Edited \/ p.at = Home}
NoPlace == [name |-> NoName, at |-> "nowhere"]

\* The position of the first profile of a name: two may share one.
Positions(ps, n) == {i \in DOMAIN ps : ps[i].name = n}
FirstOf(S) == CHOOSE i \in S : \A j \in S : i <= j

\* LocationProfile of a name, and its location key (the whole profile).
Find(ps, n) ==
  IF Positions(ps, n) = {} THEN NoPlace ELSE ps[FirstOf(Positions(ps, n))]

Here == Find(profiles, selected)

\* A selected name that is in the list stays, else the first profile is taken.
Reselect(ps, n) ==
  IF Positions(ps, n) # {} THEN n ELSE IF ps = <<>> THEN NoName ELSE ps[1].name

\* SettingsWindow._save_profile: a selected row is replaced, else the profile
\* of that name, else the profile is added.  Row 0 stands for no selection.
SavedList(ps, row, p) ==
  LET same == Positions(ps, p.name)
  IN IF row # 0 THEN [ps EXCEPT ![row] = p]
     ELSE IF same # {} THEN [ps EXCEPT ![FirstOf(same)] = p]
     ELSE Append(ps, p)

SavedName(ps, n, row, p) ==
  IF n = NoName \/ (row # 0 /\ n = ps[row].name) THEN p.name ELSE n

RemovedList(ps, row) ==
  [i \in 1 .. Len(ps) - 1 |-> IF i < row THEN ps[i] ELSE ps[i + 1]]

RemovedName(ps, n, row) ==
  LET rest == RemovedList(ps, row)
  IN IF n = ps[row].name THEN IF rest = <<>> THEN NoName ELSE rest[1].name ELSE n

\* Rows a settings window may have selected, and bounded additions.
Rows == 0 .. Len(profiles)
MaySave(row, p) ==
  row # 0 \/ Positions(profiles, p.name) # {} \/ Len(profiles) < MaxProfiles

\* LocationStore.save
Stored(ok) ==
  /\ ok \/ saved = "always" \/ FailAgain
  /\ saved' = IF ~ok THEN "not" ELSE IF saved = "always" THEN "always" ELSE "again"

\* The panels have been told of the places as they are.
Told == saved # "not"

\* The events, without what the panels make of them.
Choose(n, ok) ==                    \* NightAzimuthApp._on_location_changed
  /\ Positions(profiles, n) # {}
  /\ selected' = n
  /\ Stored(ok)
  /\ UNCHANGED profiles

Save(row, p, ok) ==                 \* SettingsWindow._save_profile
  /\ MaySave(row, p)
  /\ profiles' = SavedList(profiles, row, p)
  /\ LET n == SavedName(profiles, selected, row, p)
     IN selected' = IF ok THEN Reselect(profiles', n) ELSE n
  /\ Stored(ok)

\* _use_profile saves twice.  If the first write fails it ends like _save_profile;
\* if the second one does, the panels have been told of the name between.
Between(row, p) ==
  Reselect(SavedList(profiles, row, p), SavedName(profiles, selected, row, p))

Use(row, p, ok) ==                  \* SettingsWindow._use_profile
  /\ MaySave(row, p)
  /\ profiles' = SavedList(profiles, row, p)
  /\ selected' = p.name
  /\ Stored(ok)

Delete(row, ok) ==                  \* SettingsWindow._delete_profile
  /\ row # 0
  /\ profiles' = RemovedList(profiles, row)
  /\ LET n == RemovedName(profiles, selected, row)
     IN selected' = IF ok THEN Reselect(profiles', n) ELSE n
  /\ Stored(ok)

\* Those that reach the panels, and those of which they hear nothing.
Event(ok) ==
  \/ \E n \in Names : Choose(n, ok)
  \/ \E row \in Rows, p \in Profile : Save(row, p, ok)
  \/ \E row \in Rows : Delete(row, ok)
Changed == Event(TRUE) \/ \E row \in Rows, p \in Profile : Use(row, p, TRUE)
ChangedUntold == Event(FALSE)

\* What the panels rely on: the selected name is that of a profile in the list.
PlacesInv ==
  /\ profiles \in Seq(Profile)
  /\ saved \in {"always", "again", "not"}
  /\ selected # NoName => Positions(profiles, selected) # {}
=============================================================================
