------------------------------ MODULE TileFiles ------------------------------
(***************************************************************************)
(* One downloaded file of the desktop's disk caches, used by threads that   *)
(* know nothing of each other: a map tile, a radar tile or the list of      *)
(* radar frames (weather_map.py), a cloud picture (cloud_imagery.py), a     *)
(* terrain tile (terrain_horizon.py), and the airport catalogue of the API  *)
(* (stage20_rc_airports.py).  The first four are written to a temporary     *)
(* file that is renamed; its NAME is the same for every thread, so a rename *)
(* may publish a file another thread is still writing.  The last two are    *)
(* written in place.  A file outlives the process, which may die anywhere,   *)
(* and the disk may refuse any part of what is written.                      *)
(***************************************************************************)
EXTENDS Naturals, FiniteSets

CONSTANT Threads

VARIABLES
  kind,     \* which file
  path,     \* the file of the cache: [there, whole, writers, mixed, short, fresh]
  temp,     \* the temporary file likewise
  act,      \* per thread: "idle", "asking", "got", "writing", "renaming" or "ended"
  served,   \* per thread, of its last request: "none", "whole", "torn" or "error"
  cause     \* why a torn file may be at the path: a crash, overlapping writers, a full disk

vars == <<kind, path, temp, act, served, cause>>

NoFile == [there |-> FALSE, whole |-> FALSE, writers |-> {},
           mixed |-> FALSE, short |-> FALSE, fresh |-> FALSE]

InPlace == {"terrain", "airports"}            \* write_bytes, write_text
Expiring == {"map", "cloud", "frames"}        \* _cache_is_fresh
Kinds == InPlace \cup Expiring \cup {"radar"} \* the rest is kept for ever

\* Slip: the age is not looked at.
FreshWhatever(f) == f.there

\* A radar tile, a terrain tile and the airport catalogue count as long as they
\* are there.
Fresh(f) == f.there /\ (kind \in Expiring => f.fresh)

\* What a reader makes of the file: a picture or a JSON text that is not whole
\* cannot be decoded, of the catalogue the rows that are there are taken.
Reading(f) == IF f.whole THEN "whole" ELSE IF kind = "airports" THEN "torn" ELSE "error"

\* The airports are loaded under the provider's lock, and once they are loaded
\* the process has them in memory.
MayLoad ==
  kind = "airports" => \A u \in Threads : act[u] = "idle" /\ served[u] \in {"none", "error"}

\* A request starts.  A catalogue cut inside a character cannot be read, and one
\* cut before its first airport is downloaded again.
Ask(t) ==
  /\ act[t] = "idle" /\ MayLoad
  /\ \/ /\ Fresh(path)
        /\ served' = [served EXCEPT ![t] = Reading(path)]
        /\ UNCHANGED act
     \/ /\ kind = "airports" /\ path.there /\ ~path.whole
        /\ served' = [served EXCEPT ![t] = "error"]
        /\ UNCHANGED act
     \/ /\ ~Fresh(path) \/ (kind = "airports" /\ ~path.whole)
        /\ act' = [act EXCEPT ![t] = "asking"]
        /\ UNCHANGED served
  /\ UNCHANGED <<kind, path, temp, cause>>

\* The network answers; an answer that cannot be decoded counts as none for the
\* terrain, the clouds and the airports, which are decoded before they are written.
Answered(t) ==
  /\ act[t] = "asking"
  /\ act' = [act EXCEPT ![t] = "got"]
  /\ UNCHANGED <<kind, path, temp, served, cause>>

\* A failed download: the old file, if there is one.
FallBack(t) ==
  IF path.there /\ kind \in Expiring \cup {"radar"} THEN Reading(path) ELSE "error"

Failed(t) ==
  /\ act[t] = "asking"
  /\ act' = [act EXCEPT ![t] = "idle"]
  /\ served' = [served EXCEPT ![t] = FallBack(t)]
  /\ UNCHANGED <<kind, path, temp, cause>>

Opened(f, t) == [there |-> TRUE, whole |-> FALSE, writers |-> f.writers \cup {t},
                 mixed |-> f.writers # {}, short |-> f.short /\ f.writers # {}, fresh |-> TRUE]

\* Slip: no temporary file.
OpensThePath(t) ==
  /\ act[t] = "got"
  /\ path' = Opened(path, t)
  /\ act' = [act EXCEPT ![t] = "writing"]
  /\ UNCHANGED <<kind, temp, served, cause>>

\* _write_bytes, _write_json, _write_image: open() truncates what another thread
\* may be writing.
Opens(t) ==
  /\ act[t] = "got"
  /\ act' = [act EXCEPT ![t] = "writing"]
  /\ IF kind \in InPlace
       THEN path' = Opened(path, t) /\ UNCHANGED temp
       ELSE temp' = Opened(temp, t) /\ UNCHANGED path
  /\ cause' = IF \E u \in Threads : act[u] \in {"writing", "renaming"} THEN cause \cup {"overlap"}
              ELSE cause
  /\ UNCHANGED <<kind, served>>

\* The writer closes the file, wherever it was renamed to: it is whole when the
\* last writer has closed it, for all write the same bytes - but for the list of
\* frames, of which two may differ, and for a writer that stopped short after it
\* had truncated what the others wrote.
Closed(f, t, same) ==
  IF t \notin f.writers THEN f
  ELSE [f EXCEPT !.writers = @ \ {t},
                 !.whole = f.writers = {t} /\ (same \/ ~(f.short \/ (kind = "frames" /\ f.mixed)))]

Closes(t) ==
  /\ act[t] = "writing"
  /\ \E same \in BOOLEAN : path' = Closed(path, t, same) /\ temp' = Closed(temp, t, same)
  /\ act' = [act EXCEPT ![t] = IF kind \in InPlace THEN "ended" ELSE "renaming"]
  /\ UNCHANGED <<kind, served, cause>>

\* An OSError once the download is in hand: the airports are served from memory
\* and so is a list of frames no file of which is there, the others fall back.
Despite(t) ==
  IF kind = "airports" \/ (kind = "frames" /\ ~path.there) THEN "whole" ELSE FallBack(t)

\* What a writer leaves that could not write everything.
Cut(f, t) == IF t \in f.writers THEN [f EXCEPT !.writers = @ \ {t}, !.short = TRUE] ELSE f

\* mkdir, open or write raises OSError: the file stays as it is by then, the
\* temporary one is not renamed.
WriteFails(t) ==
  /\ act[t] \in {"got", "writing"}
  /\ path' = Cut(path, t) /\ temp' = Cut(temp, t)
  /\ cause' = IF act[t] = "writing" THEN cause \cup {"full"} ELSE cause
  /\ act' = [act EXCEPT ![t] = "idle"]
  /\ served' = [served EXCEPT ![t] = Despite(t)]
  /\ UNCHANGED kind

\* Path.replace: it fails if another thread has renamed the file already, and
\* on Windows also while another one has it open.
Renamed(t) ==
  /\ act[t] = "renaming" /\ temp.there
  /\ path' = temp /\ temp' = NoFile
  /\ act' = [act EXCEPT ![t] = "ended"]
  /\ UNCHANGED <<kind, served, cause>>

RenameFails(t) ==
  /\ act[t] = "renaming" /\ (~temp.there \/ temp.writers # {})
  /\ act' = [act EXCEPT ![t] = "idle"]
  /\ served' = [served EXCEPT ![t] = Despite(t)]
  /\ UNCHANGED <<kind, path, temp, cause>>

\* The request ends: tiles are read back, the others serve what they downloaded.
Ends(t) ==
  /\ act[t] = "ended"
  /\ act' = [act EXCEPT ![t] = "idle"]
  /\ served' = [served EXCEPT ![t] = IF kind \in {"map", "radar"} THEN Reading(path) ELSE "whole"]
  /\ UNCHANGED <<kind, path, temp, cause>>

\* Ten minutes, half an hour or a week pass.
Ages ==
  /\ kind \in Expiring /\ path.fresh
  /\ path' = [path EXCEPT !.fresh = FALSE]
  /\ UNCHANGED <<kind, temp, act, served, cause>>

\* The process ends, whatever its threads are doing.
Left(f) == [f EXCEPT !.writers = {}]
Dies ==
  /\ cause' = IF path.writers \cup temp.writers # {} THEN cause \cup {"crash"} ELSE cause
  /\ path' = Left(path) /\ temp' = Left(temp)
  /\ act' = [t \in Threads |-> "idle"]
  /\ served' = [t \in Threads |-> "none"]
  /\ UNCHANGED kind

Init ==
  /\ kind \in Kinds
  /\ path = NoFile /\ temp = NoFile
  /\ act = [t \in Threads |-> "idle"] /\ served = [t \in Threads |-> "none"]
  /\ cause = {}

Step(t) ==
  \/ Ask(t) \/ Answered(t) \/ Failed(t) \/ Opens(t) \/ Closes(t)
  \/ WriteFails(t) \/ Renamed(t) \/ RenameFails(t) \/ Ends(t)
Next == (\E t \in Threads : Step(t)) \/ Ages \/ Dies

Busy(t) == Closes(t) \/ Renamed(t) \/ RenameFails(t) \/ Ends(t) \/ Opens(t)

\* Requests are made again and again, files age, threads go on, the network answers
\* now and then, and a rename that can succeed does so now and then.
Fairness ==
  /\ WF_vars(Ages)
  /\ \A t \in Threads : WF_vars(Busy(t)) /\ SF_vars(Ask(t)) /\ SF_vars(Answered(t))
                        /\ SF_vars(Renamed(t))

Spec == Init /\ [][Next]_vars /\ Fairness

(***************************************************************************)
(* Properties.                                                             *)
(***************************************************************************)
\* What is served is a whole file or an error, except for the reasons the code
\* leaves open.  A file written in place is torn while it is written and after a
\* crash or a full disk.  One written under a temporary name is torn only once
\* two writers have overlapped: while one of them is at it, and after that if it
\* is the list of frames, or if one of them died or could not write everything.
\* Only the airports are ever served in part.
TornExplained ==
  /\ path.there /\ ~path.whole =>
       \/ kind \in InPlace /\ (path.writers # {} \/ cause \cap {"crash", "full"} # {})
       \/ /\ "overlap" \in cause
          /\ path.writers # {} \/ kind = "frames" \/ cause \cap {"crash", "full"} # {}
  /\ \A t \in Threads :
       served[t] = "torn" => kind = "airports" /\ cause \cap {"crash", "full"} # {}

\* A map tile or a cloud picture that was torn is whole again in the end, once the
\* process no longer dies and the disk takes what is written: it ages, is
\* downloaded again, and the writers cannot tear it for ever.
Mended == kind \in {"map", "cloud"} => path.whole
Mishap == Dies \/ \E t \in Threads : WriteFails(t)
Heals == <>[][~Mishap]_vars => []<>Mended
=============================================================================
