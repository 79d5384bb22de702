--------------------------- MODULE TileFilesProofs ---------------------------
(***************************************************************************)
(* Proofs about TileFiles for every set of threads: what a torn file at    *)
(* the path of a cache can come from, and what is served of it.            *)
(*                                                                         *)
(* TornExplained is not inductive.  TInv adds where the writers of a file  *)
(* are, that two threads at work on one file have overlapped, and the fact *)
(* that makes a rename safe: while any thread is between open() and        *)
(* replace(), what a crash or a full disk left under the temporary name is *)
(* gone, for that thread has truncated it - unless the writer that failed  *)
(* overlapped it.                                                          *)
(***************************************************************************)
EXTENDS TileFiles, TLAPS

File == [there: BOOLEAN, whole: BOOLEAN, writers: SUBSET Threads,
         mixed: BOOLEAN, short: BOOLEAN, fresh: BOOLEAN]

Acts == {"idle", "asking", "got", "writing", "renaming", "ended"}

TypeOK ==
  /\ kind \in Kinds
  /\ path \in File /\ temp \in File
  /\ act \in [Threads -> Acts]
  /\ served \in [Threads -> {"none", "whole", "torn", "error"}]
  /\ cause \in SUBSET {"crash", "overlap", "full"}

\* A thread that has a file open is writing.
WritersWrite == \A t \in path.writers \cup temp.writers : act[t] = "writing"

\* An open file is half written.
HalfWritten ==
  /\ path.writers # {} => path.there /\ ~path.whole
  /\ temp.writers # {} => temp.there /\ ~temp.whole

AtWork(t) == act[t] \in {"writing", "renaming"}

\* Two threads at work at once have overlapped.
OverlapNoted ==
  \A t, u \in Threads : AtWork(t) /\ AtWork(u) /\ t # u => "overlap" \in cause

\* So have two that had one temporary file open, wherever it is now.
MixedNoted ==
  kind \notin InPlace => (path.mixed \/ temp.mixed => "overlap" \in cause)

\* A writer that stopped short met a full disk, and overlapped those still at it.
ShortNoted ==
  \A f \in {path, temp} :
    f.short => /\ "full" \in cause
               /\ f.writers # {} => "overlap" \in cause

\* No temporary name for what is written in place.
NoTemp == kind \in InPlace => temp = NoFile

\* While a thread is at work the temporary file is no leftover of a crash, and of a
\* full disk only if the two overlapped.
NoLeftover ==
  kind \notin InPlace /\ (\E t \in Threads : AtWork(t)) /\ temp.there /\ ~temp.whole =>
    \/ temp.writers # {}
    \/ kind = "frames" /\ temp.mixed
    \/ {"overlap", "full"} \subseteq cause

TInv ==
  /\ TypeOK
  /\ WritersWrite /\ HalfWritten
  /\ OverlapNoted /\ MixedNoted /\ ShortNoted
  /\ NoTemp /\ NoLeftover
  /\ TornExplained

LEMMA InitT == Init => TInv
BY DEF Init, TInv, TypeOK, WritersWrite, HalfWritten, OverlapNoted, MixedNoted,
       ShortNoted, NoTemp, NoLeftover, TornExplained, NoFile, File, Acts, AtWork, Kinds, InPlace, Expiring

\* A file a thread opens or closes is a file, and each does what its name says.
LEMMA OpenedFile ==
  ASSUME NEW f \in File, NEW t \in Threads
  PROVE  /\ Opened(f, t) \in File
         /\ Opened(f, t).writers = f.writers \cup {t}
         /\ Opened(f, t).there /\ ~Opened(f, t).whole
         /\ Opened(f, t).mixed <=> f.writers # {}
         /\ Opened(f, t).short <=> f.short /\ f.writers # {}
BY DEF Opened, File

LEMMA ClosedFile ==
  ASSUME NEW f \in File, NEW t \in Threads, NEW same \in BOOLEAN
  PROVE  /\ Closed(f, t, same) \in File
         /\ Closed(f, t, same).writers = f.writers \ {t}
         /\ Closed(f, t, same).there <=> f.there
         /\ Closed(f, t, same).mixed <=> f.mixed
         /\ Closed(f, t, same).short <=> f.short
         /\ f.writers = {t} /\ ~Closed(f, t, same).whole =>
              f.short \/ (kind = "frames" /\ f.mixed)
         /\ f.writers # {t} /\ t \in f.writers => ~Closed(f, t, same).whole
         /\ t \notin f.writers => Closed(f, t, same) = f
BY DEF Closed, File

LEMMA CutFile ==
  ASSUME NEW f \in File, NEW t \in Threads
  PROVE  /\ Cut(f, t) \in File
         /\ Cut(f, t).writers = f.writers \ {t}
         /\ (Cut(f, t).there <=> f.there) /\ (Cut(f, t).whole <=> f.whole)
         /\ Cut(f, t).mixed <=> f.mixed
         /\ Cut(f, t).short <=> f.short \/ t \in f.writers
         /\ t \notin f.writers => Cut(f, t) = f
BY DEF Cut, File

\* No file serves as torn but the airports, and that one only when it is not whole.
LEMMA ReadingKinds ==
  ASSUME NEW f
  PROVE  /\ Reading(f) \in {"whole", "torn", "error"}
         /\ Reading(f) = "torn" => ~f.whole /\ kind = "airports"
BY DEF Reading

LEMMA FallBackKinds ==
  ASSUME NEW t PROVE FallBack(t) \in {"whole", "error"}
BY DEF FallBack, Reading, Expiring

LEMMA DespiteKinds ==
  ASSUME NEW t PROVE Despite(t) \in {"whole", "error"}
BY FallBackKinds DEF Despite

\* What a step leaves of the invariant when no file and no thread at work moves.
LEMMA AtRest ==
  ASSUME TInv, TypeOK', UNCHANGED <<kind, path, temp, cause>>,
         \A t \in Threads : AtWork(t)' => act'[t] = act[t],
         \A t \in Threads : act[t] = "writing" => act'[t] = "writing",
         \A t \in Threads : served'[t] = "torn" => kind = "airports" /\ cause \cap {"crash", "full"} # {}
  PROVE  TInv'
<1> USE DEF TInv, AtWork
<1>1. WritersWrite' BY DEF WritersWrite, TypeOK, File
<1>2. HalfWritten' /\ MixedNoted' /\ NoTemp' BY DEF HalfWritten, MixedNoted, NoTemp, NoFile
<1>3. OverlapNoted' /\ ShortNoted' BY DEF OverlapNoted, ShortNoted
<1>4. NoLeftover' BY DEF NoLeftover
<1>5. TornExplained' BY DEF TornExplained
<1> QED BY <1>1, <1>2, <1>3, <1>4, <1>5

LEMMA OpensT == ASSUME TInv, NEW t \in Threads, Opens(t) PROVE TInv'
<1> DEFINE over == \E u \in Threads : act[u] \in {"writing", "renaming"}
<1>t. TypeOK BY DEF TInv
<1>1. act[t] = "got" /\ act' = [act EXCEPT ![t] = "writing"] /\ UNCHANGED <<kind, served>>
      /\ cause' = (IF over THEN cause \cup {"overlap"} ELSE cause)
  BY DEF Opens
<1>2. \/ kind \in InPlace /\ path' = Opened(path, t) /\ temp' = temp
      \/ kind \notin InPlace /\ temp' = Opened(temp, t) /\ path' = path
  BY DEF Opens
<1>f. path \in File /\ temp \in File BY <1>t DEF TypeOK
<1>3. TypeOK' BY <1>t, <1>1, <1>2, OpenedFile DEF TypeOK, Acts
<1>4. WritersWrite' BY <1>t, <1>1, <1>2, OpenedFile DEF TInv, WritersWrite, TypeOK, File
<1>5. HalfWritten' BY <1>t, <1>2, OpenedFile DEF TInv, HalfWritten, TypeOK
<1>6. OverlapNoted' BY <1>t, <1>1 DEF TInv, OverlapNoted, AtWork, TypeOK
<1>7. MixedNoted'
  <2>1. temp.writers # {} => "overlap" \in cause'
    BY <1>t, <1>1 DEF TInv, WritersWrite, TypeOK, File
  <2>2. kind \notin InPlace => path' = path /\ (temp'.mixed <=> temp.writers # {})
    BY <1>2, <1>f, OpenedFile
  <2>3. kind \notin InPlace /\ path.mixed => "overlap" \in cause' BY <1>1 DEF TInv, MixedNoted
  <2> QED BY <1>1, <2>1, <2>2, <2>3 DEF MixedNoted
<1>8. NoTemp' BY <1>1, <1>2 DEF TInv, NoTemp, NoFile
<1>11. ShortNoted'
  <2>1. \A f \in {path, temp} : f.short /\ f.writers # {} => {"full", "overlap"} \subseteq cause
    BY DEF TInv, ShortNoted
  <2>2. cause \subseteq cause' BY <1>1
  <2>3. \A f \in {path, temp} : Opened(f, t).short => {"full", "overlap"} \subseteq cause'
    BY <1>f, <2>1, <2>2, OpenedFile
  <2>4. \A f \in {path, temp} :
          f.short => "full" \in cause' /\ (f.writers # {} => "overlap" \in cause')
    BY <2>2 DEF TInv, ShortNoted
  <2> QED BY <1>2, <2>3, <2>4 DEF ShortNoted
<1>9. NoLeftover'
  <2>1. kind \notin InPlace => temp'.writers = temp.writers \cup {t}
    BY <1>t, <1>2, OpenedFile DEF TypeOK
  <2> QED BY <1>1, <2>1 DEF NoLeftover
<1>10. TornExplained'
  <2>1. cause \subseteq cause' BY <1>1
  <2>2. CASE kind \in InPlace
    <3>1. path' = Opened(path, t) BY <1>2, <2>2
    <3>2. path'.writers = path.writers \cup {t} BY <1>t, <3>1, OpenedFile DEF TypeOK
    <3> QED BY <1>1, <2>1, <2>2, <3>2 DEF TInv, TornExplained
  <2>3. CASE kind \notin InPlace
    BY <1>1, <1>2, <2>1, <2>3 DEF TInv, TornExplained
  <2> QED BY <2>2, <2>3
<1> QED BY <1>3, <1>4, <1>5, <1>6, <1>7, <1>8, <1>9, <1>10, <1>11 DEF TInv

LEMMA ClosesT == ASSUME TInv, NEW t \in Threads, Closes(t) PROVE TInv'
<1>t. TypeOK BY DEF TInv
<1>1. PICK same \in BOOLEAN : path' = Closed(path, t, same) /\ temp' = Closed(temp, t, same)
  BY DEF Closes
<1>2. act[t] = "writing" /\ UNCHANGED <<kind, served, cause>>
      /\ act' = [act EXCEPT ![t] = IF kind \in InPlace THEN "ended" ELSE "renaming"]
  BY DEF Closes
<1>3. TypeOK' BY <1>t, <1>1, <1>2, ClosedFile DEF TypeOK, Acts
<1>4. WritersWrite' BY <1>t, <1>1, <1>2, ClosedFile DEF TInv, WritersWrite, TypeOK, File
<1>5. HalfWritten'
  <2>1. path \in File /\ temp \in File BY <1>t DEF TypeOK
  <2>2. ASSUME NEW f \in File, f.writers # {} => f.there /\ ~f.whole, Closed(f, t, same).writers # {}
        PROVE  Closed(f, t, same).there /\ ~Closed(f, t, same).whole
    BY <2>2, ClosedFile
  <2> QED BY <1>1, <2>1, <2>2 DEF TInv, HalfWritten
<1>6. OverlapNoted' BY <1>t, <1>2 DEF TInv, OverlapNoted, AtWork, TypeOK
<1>7. MixedNoted' BY <1>t, <1>1, <1>2, ClosedFile DEF TInv, MixedNoted, TypeOK
<1>8. NoTemp' BY <1>1, <1>2, ClosedFile, <1>t DEF TInv, NoTemp, NoFile, TypeOK
<1>11. ShortNoted' BY <1>t, <1>1, <1>2, ClosedFile DEF TInv, ShortNoted, TypeOK
<1>9. NoLeftover'
  <2> SUFFICES ASSUME kind \notin InPlace, temp'.there, ~temp'.whole, temp'.writers = {}
               PROVE  (kind = "frames" /\ temp'.mixed) \/ {"overlap", "full"} \subseteq cause
    BY <1>2 DEF NoLeftover
  <2>1. CASE temp.writers = {t}
    <3>1. temp.short => {"overlap", "full"} \subseteq cause BY <2>1 DEF TInv, ShortNoted
    <3> QED BY <1>t, <1>1, <2>1, <3>1, ClosedFile DEF TypeOK
  <2>2. CASE temp.writers # {t}
    <3>1. temp' = temp BY <1>t, <1>1, <2>2, ClosedFile DEF TypeOK
    <3> QED BY <1>2, <3>1 DEF TInv, NoLeftover, AtWork
  <2> QED BY <2>1, <2>2
<1>10. TornExplained'
  <2>1. CASE t \notin path.writers
    <3>1. path' = path BY <1>t, <1>1, <2>1, ClosedFile DEF TypeOK
    <3> QED BY <1>2, <3>1 DEF TInv, TornExplained
  <2>2. CASE t \in path.writers
    <3>1. path.there /\ ~path.whole BY <2>2 DEF TInv, HalfWritten
    <3>2. CASE path.writers = {t}
      <4>1. ~path'.whole => path.short \/ (kind = "frames" /\ path.mixed)
        BY <1>t, <1>1, <3>2, ClosedFile DEF TypeOK
      <4>2. kind = "frames" /\ path.mixed => "overlap" \in cause
        BY DEF TInv, MixedNoted, InPlace
      <4>3. path.short => {"full", "overlap"} \subseteq cause
        BY <3>2 DEF TInv, ShortNoted
      <4> QED BY <1>2, <4>1, <4>2, <4>3 DEF TInv, TornExplained
    <3>3. CASE path.writers # {t}
      <4>1. path'.writers # {} BY <1>t, <1>1, <2>2, <3>3, ClosedFile DEF TypeOK, File
      <4>2. kind \in InPlace \/ "overlap" \in cause
        BY <2>2, <3>1 DEF TInv, TornExplained
      <4> QED BY <1>2, <4>1, <4>2 DEF TInv, TornExplained
    <3> QED BY <3>2, <3>3
  <2> QED BY <2>1, <2>2
<1> QED BY <1>3, <1>4, <1>5, <1>6, <1>7, <1>8, <1>9, <1>10, <1>11 DEF TInv

\* A full disk ends a write in the middle.
LEMMA FailsT == ASSUME TInv, NEW t \in Threads, WriteFails(t) PROVE TInv'
<1>t. TypeOK BY DEF TInv
<1>1. /\ act[t] \in {"got", "writing"} /\ kind' = kind
      /\ path' = Cut(path, t) /\ temp' = Cut(temp, t)
      /\ cause' = (IF act[t] = "writing" THEN cause \cup {"full"} ELSE cause)
      /\ act' = [act EXCEPT ![t] = "idle"]
      /\ served' = [served EXCEPT ![t] = Despite(t)]
  BY DEF WriteFails
<1>2. cause \subseteq cause' BY <1>1
<1>3. TypeOK' BY <1>t, <1>1, CutFile, DespiteKinds DEF TypeOK, Acts
<1>4. WritersWrite' BY <1>t, <1>1, CutFile DEF TInv, WritersWrite, TypeOK, File
<1>5. HalfWritten'
  <2>1. path \in File /\ temp \in File BY <1>t DEF TypeOK
  <2>2. ASSUME NEW f \in File, f.writers # {} => f.there /\ ~f.whole, Cut(f, t).writers # {}
        PROVE  Cut(f, t).there /\ ~Cut(f, t).whole
    BY <2>2, CutFile
  <2> QED BY <1>1, <2>1, <2>2 DEF TInv, HalfWritten
<1>6. OverlapNoted' BY <1>t, <1>1, <1>2 DEF TInv, OverlapNoted, AtWork, TypeOK
<1>7. MixedNoted' BY <1>t, <1>1, <1>2, CutFile DEF TInv, MixedNoted, TypeOK
<1>8. NoTemp'
  <2>1. NoFile.writers = {} BY DEF NoFile
  <2> QED BY <1>t, <1>1, <2>1, CutFile DEF TInv, NoTemp, TypeOK
<1>9. ASSUME NEW f \in {path, temp}, t \in f.writers
      PROVE  /\ act[t] = "writing" /\ "full" \in cause'
             /\ \A u \in Threads \ {t} : AtWork(u) => "overlap" \in cause'
  <2>1. act[t] = "writing" BY <1>9 DEF TInv, WritersWrite
  <2> QED BY <1>1, <1>2, <2>1 DEF TInv, OverlapNoted, AtWork
<1>10. ShortNoted'
  <2> SUFFICES ASSUME NEW f \in {path, temp}, Cut(f, t).short
               PROVE  "full" \in cause' /\ (Cut(f, t).writers # {} => "overlap" \in cause')
    BY <1>1 DEF ShortNoted
  <2>1. f \in File BY <1>t DEF TypeOK
  <2>2. CASE t \notin f.writers BY <1>2, <2>1, <2>2, CutFile DEF TInv, ShortNoted
  <2>3. CASE t \in f.writers
    <3>1. \A u \in f.writers : u \in Threads /\ AtWork(u)
      BY <1>t, <2>1 DEF TInv, WritersWrite, AtWork, File
    <3> QED BY <1>9, <2>1, <2>3, <3>1, CutFile
  <2> QED BY <2>2, <2>3
<1>11. NoLeftover'
  <2> SUFFICES ASSUME kind \notin InPlace, temp'.there, ~temp'.whole, temp'.writers = {},
                      NEW u \in Threads, AtWork(u)'
               PROVE  (kind = "frames" /\ temp'.mixed) \/ {"overlap", "full"} \subseteq cause'
    BY <1>1 DEF NoLeftover
  <2>1. u # t /\ AtWork(u) BY <1>t, <1>1 DEF AtWork, TypeOK
  <2>2. CASE t \in temp.writers BY <1>9, <2>1, <2>2
  <2>3. CASE t \notin temp.writers
    <3>1. temp' = temp BY <1>t, <1>1, <2>3, CutFile DEF TypeOK
    <3> QED BY <1>2, <2>1, <3>1 DEF TInv, NoLeftover
  <2> QED BY <2>2, <2>3
<1>12. TornExplained'
  <2>1. \A u \in Threads :
          served'[u] = "torn" => kind = "airports" /\ cause' \cap {"crash", "full"} # {}
    BY <1>t, <1>1, <1>2, DespiteKinds DEF TInv, TornExplained, TypeOK
  <2>2. CASE t \notin path.writers
    <3>1. path' = path BY <1>t, <1>1, <2>2, CutFile DEF TypeOK
    <3> QED BY <1>1, <1>2, <2>1, <3>1 DEF TInv, TornExplained
  <2>3. CASE t \in path.writers
    <3>1. "full" \in cause' BY <1>9, <2>3
    <3>2. kind \in InPlace \/ "overlap" \in cause'
      BY <1>2, <2>3 DEF TInv, HalfWritten, TornExplained
    <3> QED BY <1>1, <2>1, <3>1, <3>2 DEF TornExplained
  <2> QED BY <2>2, <2>3
<1> QED BY <1>3, <1>4, <1>5, <1>6, <1>7, <1>8, <1>10, <1>11, <1>12 DEF TInv

\* A rename publishes a torn file only if another thread has it open, and then
\* the two have overlapped.
LEMMA RenamedT == ASSUME TInv, NEW t \in Threads, Renamed(t) PROVE TInv'
<1>t. TypeOK BY DEF TInv
<1>1. act[t] = "renaming" /\ temp.there /\ path' = temp /\ temp' = NoFile
      /\ act' = [act EXCEPT ![t] = "ended"] /\ UNCHANGED <<kind, served, cause>>
  BY DEF Renamed
<1>2. kind \notin InPlace BY <1>1 DEF TInv, NoTemp, NoFile
<1>3. TypeOK' BY <1>t, <1>1 DEF TypeOK, Acts, File, NoFile
<1>4. WritersWrite' BY <1>t, <1>1 DEF TInv, WritersWrite, TypeOK, File, NoFile
<1>5. HalfWritten' BY <1>1 DEF TInv, HalfWritten, NoFile
<1>6. OverlapNoted' BY <1>t, <1>1 DEF TInv, OverlapNoted, AtWork, TypeOK
<1>7. MixedNoted' BY <1>1 DEF TInv, MixedNoted, NoFile
<1>8. NoTemp' /\ NoLeftover' BY <1>1, <1>2 DEF NoTemp, NoLeftover, NoFile
<1>10. ShortNoted' BY <1>1 DEF TInv, ShortNoted, NoFile
<1>9. TornExplained'
  <2>1. CASE temp.whole BY <1>1, <2>1 DEF TInv, TornExplained
  <2>2. CASE ~temp.whole
    <3>1. \/ temp.writers # {} \/ (kind = "frames" /\ temp.mixed)
          \/ {"overlap", "full"} \subseteq cause
      BY <1>1, <1>2, <2>2 DEF TInv, NoLeftover, AtWork
    <3>2. "overlap" \in cause
      <4>1. CASE temp.mixed BY <1>2, <4>1 DEF TInv, MixedNoted
      <4>2. CASE temp.writers # {}
        <5>1. PICK u \in temp.writers : TRUE BY <4>2
        <5>2. act[u] = "writing" /\ u \in Threads
          BY <1>t, <5>1 DEF TInv, WritersWrite, TypeOK, File
        <5> QED BY <1>1, <5>2 DEF TInv, OverlapNoted, AtWork
      <4> QED BY <3>1, <4>1, <4>2
    <3> QED BY <1>1, <3>1, <3>2 DEF TInv, TornExplained
  <2> QED BY <2>1, <2>2
<1> QED BY <1>3, <1>4, <1>5, <1>6, <1>7, <1>8, <1>9, <1>10 DEF TInv

LEMMA DiesT == ASSUME TInv, Dies PROVE TInv'
<1>t. TypeOK BY DEF TInv
<1>1. path' = Left(path) /\ temp' = Left(temp) /\ kind' = kind
      /\ act' = [t \in Threads |-> "idle"] /\ served' = [t \in Threads |-> "none"]
      /\ cause' = (IF path.writers \cup temp.writers # {} THEN cause \cup {"crash"} ELSE cause)
  BY DEF Dies
<1>2. ASSUME NEW f \in File
      PROVE  Left(f) \in File /\ Left(f).writers = {} /\ Left(f).there = f.there
             /\ Left(f).whole = f.whole /\ Left(f).mixed = f.mixed
             /\ Left(f).short = f.short
  BY DEF Left, File
<1>3. TypeOK' BY <1>t, <1>1, <1>2 DEF TypeOK, Acts
<1>4. WritersWrite' /\ HalfWritten' /\ OverlapNoted' /\ NoLeftover'
  BY <1>t, <1>1, <1>2 DEF WritersWrite, HalfWritten, OverlapNoted, NoLeftover, AtWork, TypeOK
<1>5. MixedNoted' /\ ShortNoted'
  BY <1>t, <1>1, <1>2 DEF TInv, MixedNoted, ShortNoted, TypeOK
<1>6. NoTemp'
  <2>1. Left(NoFile) = NoFile BY DEF Left, NoFile
  <2> QED BY <1>1, <2>1 DEF TInv, NoTemp
<1>7. TornExplained' BY <1>t, <1>1, <1>2 DEF TInv, TornExplained, TypeOK
<1> QED BY <1>3, <1>4, <1>5, <1>6, <1>7 DEF TInv

LEMMA StepT == TInv /\ [Next]_vars => TInv'
<1> SUFFICES ASSUME TInv, [Next]_vars PROVE TInv'
  OBVIOUS
<1>t. TypeOK BY DEF TInv
<1>s. \A t \in Threads : served[t] = "torn" => kind = "airports" /\ cause \cap {"crash", "full"} # {}
  BY DEF TInv, TornExplained
<1>1. ASSUME NEW t \in Threads, Ask(t) PROVE TInv'
  <2>1. Reading(path) = "torn" /\ Fresh(path) => kind = "airports" /\ cause \cap {"crash", "full"} # {}
    <3> SUFFICES ASSUME Fresh(path), Reading(path) = "torn"
                 PROVE  kind = "airports" /\ cause \cap {"crash", "full"} # {}
      OBVIOUS
    <3>1. kind = "airports" /\ ~path.whole /\ path.there BY ReadingKinds DEF Fresh
    <3>2. kind \in InPlace /\ kind # "frames" BY <3>1 DEF InPlace
    <3>3. path.writers = {}
      BY <1>t, <1>1, <3>1 DEF Ask, MayLoad, TInv, WritersWrite, TypeOK, File
    <3> QED BY <3>1, <3>2, <3>3 DEF TInv, TornExplained
  <2>2. TypeOK' BY <1>t, <1>1, ReadingKinds DEF Ask, TypeOK, Acts
  <2>3. \A u \in Threads : served'[u] = "torn" => kind = "airports" /\ cause \cap {"crash", "full"} # {}
    <3>1. \/ Fresh(path) /\ served' = [served EXCEPT ![t] = Reading(path)]
          \/ served' = [served EXCEPT ![t] = "error"]
          \/ served' = served
      BY <1>1 DEF Ask
    <3> QED BY <1>t, <1>s, <2>1, <3>1 DEF TypeOK
  <2>4. \A u \in Threads : act'[u] # act[u] => act[u] = "idle" /\ act'[u] = "asking"
    BY <1>t, <1>1 DEF Ask, TypeOK
  <2>5. UNCHANGED <<kind, path, temp, cause>> BY <1>1 DEF Ask
  <2> QED BY <2>2, <2>3, <2>4, <2>5, AtRest DEF AtWork
<1>2. ASSUME NEW t \in Threads, Answered(t) PROVE TInv'
  <2>1. TypeOK' BY <1>t, <1>2 DEF Answered, TypeOK, Acts
  <2> QED BY <1>t, <1>s, <1>2, <2>1, AtRest DEF Answered, AtWork, TypeOK
<1>3. ASSUME NEW t \in Threads, Failed(t) \/ RenameFails(t) PROVE TInv'
  <2>1. FallBack(t) \in {"whole", "error"} /\ Despite(t) \in {"whole", "error"}
    BY FallBackKinds, DespiteKinds
  <2>2. TypeOK' BY <1>t, <1>3, <2>1 DEF Failed, RenameFails, TypeOK, Acts
  <2>3. \A u \in Threads : served'[u] = "torn" => served[u] = "torn"
    BY <1>t, <1>3, <2>1 DEF Failed, RenameFails, TypeOK
  <2> QED BY <1>t, <1>s, <1>3, <2>2, <2>3, AtRest DEF Failed, RenameFails, AtWork, TypeOK
<1>4. ASSUME NEW t \in Threads, Ends(t) PROVE TInv'
  <2>1. kind \in {"map", "radar"} => Reading(path) \in {"whole", "error"} BY ReadingKinds
  <2>2. TypeOK' BY <1>t, <1>4, <2>1 DEF Ends, TypeOK, Acts
  <2>3. \A u \in Threads : served'[u] = "torn" => served[u] = "torn"
    BY <1>t, <1>4, <2>1 DEF Ends, TypeOK
  <2> QED BY <1>t, <1>s, <1>4, <2>2, <2>3, AtRest DEF Ends, AtWork, TypeOK
<1>5. CASE Ages
  <2>1. UNCHANGED <<kind, temp, act, served, cause>> /\ path' \in File
        /\ path'.there = path.there /\ path'.whole = path.whole
        /\ path'.writers = path.writers /\ path'.mixed = path.mixed
        /\ path'.short = path.short
    BY <1>t, <1>5 DEF Ages, TypeOK, File
  <2>2. TypeOK' BY <1>t, <2>1 DEF TypeOK
  <2>3. WritersWrite' /\ HalfWritten' /\ OverlapNoted' /\ MixedNoted' /\ NoTemp' /\ NoLeftover'
        /\ ShortNoted'
    BY <2>1 DEF TInv, WritersWrite, HalfWritten, OverlapNoted, MixedNoted, NoTemp, NoLeftover,
                ShortNoted, AtWork, NoFile
  <2>4. TornExplained' BY <2>1 DEF TInv, TornExplained
  <2> QED BY <2>2, <2>3, <2>4 DEF TInv
<1>6. CASE UNCHANGED vars
  <2>1. TypeOK' BY <1>t, <1>6 DEF vars, TypeOK
  <2> QED BY <1>s, <1>6, <2>1, AtRest DEF vars, AtWork
<1> QED
  BY <1>1, <1>2, <1>3, <1>4, <1>5, <1>6, OpensT, ClosesT, FailsT, RenamedT, DiesT DEF Next, Step

\* What is torn at the path of a cache is torn for one of the reasons the code
\* leaves open, and nothing torn is served but an airport catalogue that a crash
\* cut short, whatever the threads are and whenever the process dies.
THEOREM TornIsExplained == Spec => []TornExplained
<1>1. TInv => TornExplained BY DEF TInv
<1> QED BY <1>1, InitT, StepT, PTL DEF Spec

==============================================================================
