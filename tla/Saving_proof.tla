----------------------------- MODULE Saving_proof -----------------------------
(***************************************************************************)
(* Proofs about files that are written beside their place first: those of  *)
(* the data directory (DataDirectory), a server's file that is edited here *)
(* (FileEdit), and the ssh config files (ConfigFiles). The three have no   *)
(* state in common; each theorem is about one of them.                     *)
(*                                                                         *)
(* DataDirectory, for any machines, folders and bounds: the types, that on *)
(* Windows at most one of the NativeTerms of a directory believes to be    *)
(* alone, and that what was chosen is kept where a directory is used by one *)
(* at a time.                                                              *)
(*                                                                         *)
(* FileEdit, for any number of saves here, saves of others and faults: the *)
(* types, that a conflict is shown only where others saved, and that what  *)
(* others saved isn't replaced unasked.                                    *)
(*                                                                         *)
(* ConfigFiles, for any hosts, operations, imports, changes by others and  *)
(* crashes: the types.                                                     *)
(***************************************************************************)
EXTENDS DataDirectory, FileEdit, ConfigFiles, TLAPS, WellFoundedInduction

-----------------------------------------------------------------------------
(* The data directory (DataDirectory).                                     *)

NTStates == [at : {"off", "read", "lock", "try", "runs", "saves", "renames",
                   "points", "removes"},
             dir : Dirs, values : Values, problem : BOOLEAN,
             opened : Files \cup {NoFile}, alone : BOOLEAN,
             into : {"temp", "file", "gone"}, next : {"off", "lock", "runs"},
             to : Dirs]

\* A lock that is being tried is a file opened on Unix.
Trying == \A m \in Machines : nt[m].at = "try" => ~windows /\ nt[m].opened \in Files

\* A directory in use isn't empty, so none is moved there.
InUse == \A m \in Machines : Up(m) => Dir(m) \in used

\* On Windows the file a NativeTerm is alone with is still the one by the
\* name of the lock: nobody removes it, and nobody makes another.
StillNamed ==
    windows => \A m \in Machines : nt[m].alone => path[Dir(m)] = nt[m].opened

\* Only a NativeTerm past its start, and not yet at its end, is alone.
Settled(s) == \/ s.at \in {"runs", "points"}
              \/ s.at \in {"saves", "renames"} /\ s.next = "runs"
OnlySettled == \A m \in Machines : nt[m].alone => Settled(nt[m])

IInv == TypeOK /\ Trying /\ InUse /\ OnlySettled /\ StillNamed

-----------------------------------------------------------------------------
(* The parts of a step. *)

LEMMA OffType ==
    ASSUME Dirs # {}
    PROVE  Off \in NTStates /\ ~Off.alone /\ Off.at = "off"
  BY DataDirectoryAssumption DEF Off, NTStates, Values, Start0, Files, NoFile

LEMMA TextsType ==
    /\ Absent \in Texts /\ Half \in Texts /\ Broken \in Texts
    /\ \A v \in Values : Whole(v) \in Texts
  BY DataDirectoryAssumption DEF Absent, Half, Broken, Whole, Texts, Values, Start0

\* A new file is no file any NativeTerm holds, and none by a name.
LEMMA NewFile ==
    ASSUME NEW f \in New
    PROVE  /\ f \in Files
           /\ held[f] = Nobody
           /\ \A d \in Dirs : path[d] # f
           /\ \A m \in Machines : nt[m].opened # f
  BY DEF New, IsNew

LEMMA FilesAreNot0 == NoFile \notin Files
  BY DEF Files, NoFile

-----------------------------------------------------------------------------
(* The types (TypeOK) in three parts: what each NativeTerm keeps, the rest *)
(* of the state, and that who is alone holds the file it opened.           *)

NtType == nt \in [Machines -> NTStates]

RestType ==
    /\ windows \in BOOLEAN /\ together \in BOOLEAN
    /\ pointer \in [Machines -> Dirs]
    /\ file \in [Dirs -> Texts] /\ temp \in [Dirs -> Texts]
    /\ used \subseteq Dirs /\ legacy \subseteq Dirs
    /\ path \in [Dirs -> Files \cup {NoFile}]
    /\ held \in [Files -> Machines \cup {Nobody}]
    /\ starts \in 0..MaxStarts /\ acts \in 0..MaxActs
    /\ saved \in [Machines -> 0..MaxChoices]

AloneHolds ==
    \A m \in Machines : nt[m].alone => nt[m].opened \in Files /\ held[nt[m].opened] = m

LEMMA TypeParts == TypeOK <=> NtType /\ RestType /\ AloneHolds
  BY Zenon DEF TypeOK, NtType, NTStates, RestType, AloneHolds

Ats == {"off", "read", "lock", "try", "runs", "saves", "renames", "points", "removes"}

\* A step of one NativeTerm changes only what it keeps.
LEMMA OneChanges ==
    ASSUME NtType, NEW m \in Machines, NEW s \in NTStates
    PROVE  [nt EXCEPT ![m] = s] \in [Machines -> NTStates]
  BY DEF NtType

\* Where it is changes alone, or with what is to be written, or with a lock.
LEMMA StateKept ==
    ASSUME NEW s \in NTStates, NEW at \in Ats
    PROVE  /\ [s EXCEPT !.at = at] \in NTStates
           /\ \A values \in Values, then \in {"off", "lock", "runs"} :
                 [s EXCEPT !.at = at, !.into = "temp", !.next = then, !.values = values] \in NTStates
           /\ \A f \in Files \cup {NoFile}, alone \in BOOLEAN :
                 [s EXCEPT !.at = at, !.alone = alone, !.opened = f] \in NTStates
           /\ \A f \in Files \cup {NoFile} : [s EXCEPT !.at = at, !.opened = f] \in NTStates
           /\ \A values \in Values : [s EXCEPT !.values = values] \in NTStates
           /\ \A then \in {"off", "lock", "runs"}, into \in {"temp", "file", "gone"} :
                 [s EXCEPT !.at = at, !.next = then, !.into = into] \in NTStates
           /\ \A to \in Dirs : [s EXCEPT !.at = at, !.to = to] \in NTStates
<1>1. [s EXCEPT !.at = at] \in NTStates
  BY DEF NTStates, Ats
<1>2. ASSUME NEW values \in Values, NEW then \in {"off", "lock", "runs"}
      PROVE  [s EXCEPT !.at = at, !.into = "temp", !.next = then, !.values = values] \in NTStates
  BY DEF NTStates, Ats
<1>3. ASSUME NEW f \in Files \cup {NoFile}, NEW alone \in BOOLEAN
      PROVE  [s EXCEPT !.at = at, !.alone = alone, !.opened = f] \in NTStates
  BY DEF NTStates, Ats
<1>4. ASSUME NEW f \in Files \cup {NoFile}
      PROVE  [s EXCEPT !.at = at, !.opened = f] \in NTStates
  BY DEF NTStates, Ats
<1>5. ASSUME NEW values \in Values
      PROVE  [s EXCEPT !.values = values] \in NTStates
  BY DEF NTStates, Ats
<1>6. ASSUME NEW then \in {"off", "lock", "runs"}, NEW into \in {"temp", "file", "gone"}
      PROVE  [s EXCEPT !.at = at, !.next = then, !.into = into] \in NTStates
  BY DEF NTStates, Ats
<1>7. ASSUME NEW to \in Dirs
      PROVE  [s EXCEPT !.at = at, !.to = to] \in NTStates
  BY DEF NTStates, Ats
<1> QED BY <1>1, <1>2, <1>3, <1>4, <1>5, <1>6, <1>7

\* What each NativeTerm keeps stays of its type.
LEMMA NtStep == NtType /\ RestType /\ Trying /\ [Next]_vars => NtType'
<1> SUFFICES ASSUME NtType, RestType, Trying, [Next]_vars
             PROVE  NtType'
  OBVIOUS
<1> USE DataDirectoryAssumption
<1>0. ASSUME NEW m \in Machines, NEW at \in Ats, Go(m, at) PROVE NtType'
  <2>1. [nt[m] EXCEPT !.at = at] \in NTStates
    BY StateKept DEF NtType
  <2>2. nt' = [nt EXCEPT ![m] = [nt[m] EXCEPT !.at = at]]
    BY <1>0 DEF Go, NtType
  <2> QED BY <2>1, <2>2, OneChanges DEF NtType
<1>s. ASSUME NEW m \in Machines, NEW values \in Values, NEW then \in {"off", "lock", "runs"},
             Save(m, values, then)
      PROVE  NtType'
  <2>1. [nt[m] EXCEPT !.at = "saves", !.into = "temp", !.next = then, !.values = values] \in NTStates
    BY StateKept DEF NtType, Ats
  <2> QED BY <1>s, <2>1, OneChanges DEF Save, NtType
<1>1. ASSUME NEW m \in Machines, Open(m) PROVE NtType'
  <2> DEFINE d == pointer[m]
  <2>1. d \in Dirs /\ file[d] \in Texts
    BY DEF RestType
  <2>2. Off \in NTStates
    BY <2>1, OffType
  <2>3. file[d].values \in Values /\ (file[d] \in Unread) \in BOOLEAN
    BY <2>1 DEF Texts
  <2> HIDE DEF d
  <2>4. [Off EXCEPT !.at = "read", !.dir = d, !.problem = file[d] \in Unread,
                    !.values = file[d].values] \in NTStates
    BY <2>1, <2>2, <2>3 DEF NTStates
  <2> USE DEF d
  <2> QED BY <1>1, <2>4 DEF Open, NtType
<1>2. ASSUME NEW m \in Machines, TakeOver(m) PROVE NtType'
  <2>1. nt[m].values \in Values
    BY DEF NtType, NTStates
  <2> QED BY <1>0, <1>2, <1>s, <2>1 DEF TakeOver, Ats
<1>3. ASSUME NEW m \in Machines, NEW f \in Files, Take(m, f) PROVE NtType'
  <2> DEFINE free == Free(Dir(m), f)
  <2>1. free \in BOOLEAN
    BY DEF Free
  <2> HIDE DEF free
  <2>2. [nt[m] EXCEPT !.at = "runs", !.alone = free, !.opened = IF free THEN f ELSE NoFile] \in NTStates
    BY <2>1, StateKept DEF NtType, Ats
  <2> USE DEF free
  <2> QED BY <1>3, <2>2, OneChanges DEF Take, NtType
<1>4. ASSUME NEW m \in Machines, TakeLock(m) \/ OpenLock(m) PROVE NtType'
  <2>1. Opens(Dir(m)) \subseteq Files
    BY NewFile DEF Opens, RestType, NtType, NTStates, Dir
  <2>2. CASE TakeLock(m)
    BY <2>1, <2>2, <1>3 DEF TakeLock
  <2>3. CASE OpenLock(m)
    <3>1. PICK f \in Files : nt' = [nt EXCEPT ![m].at = "try", ![m].opened = f]
      BY <2>1, <2>3 DEF OpenLock
    <3>2. [nt[m] EXCEPT !.at = "try", !.opened = f] \in NTStates
      BY StateKept DEF NtType, Ats
    <3>3. nt' = [nt EXCEPT ![m] = [nt[m] EXCEPT !.at = "try", !.opened = f]]
      BY <3>1 DEF NtType
    <3> QED BY <3>2, <3>3, OneChanges DEF NtType
  <2> QED BY <1>4, <2>2, <2>3
<1>5. ASSUME NEW m \in Machines, TryLock(m) PROVE NtType'
  BY <1>3, <1>5 DEF TryLock, Trying
<1>6. ASSUME NEW m \in Machines, Set(m) PROVE NtType'
  <2> DEFINE values == [nt[m].values EXCEPT ![m] = @ + 1]
  <2>1. nt[m].values \in [Machines -> 0..MaxChoices] /\ nt[m].values[m] < MaxChoices
    BY <1>6 DEF Set, NtType, NTStates, Values
  <2>2. values \in Values
    BY <2>1 DEF Values
  <2> HIDE DEF values
  <2>3. CASE nt' = [nt EXCEPT ![m].values = values]
    <3>1. [nt[m] EXCEPT !.values = values] \in NTStates
      BY <2>2, StateKept DEF NtType, Ats
    <3>2. nt' = [nt EXCEPT ![m] = [nt[m] EXCEPT !.values = values]]
      BY <2>3 DEF NtType
    <3> QED BY <3>1, <3>2, OneChanges DEF NtType
  <2>4. CASE Save(m, values, "runs")
    BY <1>s, <2>2, <2>4
  <2> USE DEF values
  <2> QED BY <1>6, <2>3, <2>4 DEF Set
<1>7. ASSUME NEW m \in Machines, Write(m) PROVE NtType'
  BY <1>0, <1>7 DEF Write, Ats
<1>8. ASSUME NEW m \in Machines, Rename(m) PROVE NtType'
  <2>1. nt[m].next \in {"off", "lock", "runs"}
    BY DEF NtType, NTStates
  <2>2. CASE temp[Dir(m)] = Absent
    <3>1. [nt[m] EXCEPT !.at = nt[m].next, !.next = "off", !.into = "gone"] \in NTStates
      BY <2>1, StateKept DEF NtType, Ats
    <3> QED BY <1>8, <2>2, <3>1, OneChanges DEF Rename, NtType
  <2>3. CASE temp[Dir(m)] # Absent
    <3>1. \A o \in Machines : Moved(m, o) \in {"temp", "file", "gone"}
      BY DEF Moved, NtType, NTStates
    <3>2. \A o \in Machines :
              [nt[o] EXCEPT !.into = Moved(m, o),
                            !.at = IF o = m THEN nt[m].next ELSE @,
                            !.next = IF o = m THEN "off" ELSE @] \in NTStates
      <4> TAKE o \in Machines
      <4> DEFINE into == Moved(m, o)
                 at == IF o = m THEN nt[m].next ELSE nt[o].at
                 then == IF o = m THEN "off" ELSE nt[o].next
      <4>1. nt[o] \in NTStates /\ into \in {"temp", "file", "gone"} /\ at \in Ats
            /\ then \in {"off", "lock", "runs"}
        BY <2>1, <3>1 DEF NtType, NTStates, Ats
      <4> HIDE DEF into, at, then
      <4>2. [nt[o] EXCEPT !.into = into, !.at = at, !.next = then] \in NTStates
        BY <4>1 DEF NTStates, Ats
      <4> QED BY <4>2 DEF into, at, then
    <3> QED BY <1>8, <2>3, <3>2 DEF Rename, NtType
  <2> QED BY <2>2, <2>3
<1>9. ASSUME NEW m \in Machines, Quit(m) \/ RemoveLock(m) \/ Crash(m) PROVE NtType'
  <2>1. Off \in NTStates
    BY OffType DEF NtType, NTStates
  <2>2. [nt[m] EXCEPT !.at = "removes", !.alone = FALSE] \in NTStates
    BY DEF NtType, NTStates
  <2> QED BY <1>9, <2>1, <2>2 DEF Quit, RemoveLock, Crash, NtType
<1>10. ASSUME NEW m \in Machines, NEW d \in Dirs, Copy(m, d) PROVE NtType'
  <2>1. [nt[m] EXCEPT !.at = "points", !.to = d] \in NTStates
    BY StateKept DEF NtType, Ats
  <2>2. nt' = [nt EXCEPT ![m] = [nt[m] EXCEPT !.at = "points", !.to = d]]
    BY <1>10 DEF Copy, NtType
  <2> QED BY <2>1, <2>2, OneChanges DEF NtType
<1>12. ASSUME NEW m \in Machines, Point(m) \/ PointFails(m) PROVE NtType'
  <2> DEFINE to == Off.to
  <2>1. to \in Dirs
    BY OffType DEF NtType, NTStates
  <2>2. nt' = [nt EXCEPT ![m] = [nt[m] EXCEPT !.at = "runs", !.to = to]]
    BY <1>12 DEF Point, PointFails
  <2> HIDE DEF to
  <2>3. [nt[m] EXCEPT !.at = "runs", !.to = to] \in NTStates
    BY <2>1, StateKept DEF NtType, Ats
  <2> QED BY <2>2, <2>3, OneChanges DEF NtType
<1>11. CASE (\E d \in Dirs : Mistype(d)) \/ UNCHANGED vars
  BY <1>11 DEF Mistype, vars, NtType
<1> QED BY <1>1, <1>2, <1>4, <1>5, <1>6, <1>7, <1>8, <1>9, <1>10, <1>11, <1>12 DEF Next

\* So does the rest.
LEMMA RestStep == NtType /\ RestType /\ Trying /\ [Next]_vars => RestType'
<1> SUFFICES ASSUME NtType, RestType, Trying, [Next]_vars
             PROVE  RestType'
  OBVIOUS
<1> USE DataDirectoryAssumption
<1>0. \A m \in Machines : nt[m].dir \in Dirs /\ Dir(m) \in Dirs /\ Render(m) \in Values /\ nt[m].values[m] \in 0..MaxChoices
  BY DEF NtType, NTStates, Dir, Render, Values
<1>1. ASSUME NEW m \in Machines, Open(m) PROVE RestType'
  BY <1>1 DEF Open, RestType
<1>2. ASSUME NEW m \in Machines, TakeOver(m) PROVE RestType'
  BY <1>0, <1>2, TextsType DEF TakeOver, Save, RestType
<1>3. ASSUME NEW m \in Machines, NEW f \in Files, Take(m, f)
      PROVE  held' \in [Files -> Machines \cup {Nobody}]
  BY <1>3 DEF Take, RestType
<1>4. ASSUME NEW m \in Machines, TakeLock(m) \/ OpenLock(m) PROVE RestType'
  <2>1. Opens(Dir(m)) \subseteq Files
    BY <1>0, NewFile DEF Opens, RestType
  <2>2. CASE TakeLock(m)
    BY <1>0, <1>3, <2>1, <2>2 DEF TakeLock, RestType
  <2>3. CASE OpenLock(m)
    BY <1>0, <2>1, <2>3 DEF OpenLock, RestType
  <2> QED BY <1>4, <2>2, <2>3
<1>5. ASSUME NEW m \in Machines, TryLock(m) PROVE RestType'
  BY <1>3, <1>5 DEF TryLock, Trying, RestType
<1>6. ASSUME NEW m \in Machines, Set(m) PROVE RestType'
  BY <1>0, <1>6, TextsType DEF Set, Save, RestType
<1>7. ASSUME NEW m \in Machines, Write(m) PROVE RestType'
  BY <1>0, <1>7, TextsType DEF Write, RestType
<1>8. ASSUME NEW m \in Machines, Rename(m) PROVE RestType'
  BY <1>0, <1>8, TextsType DEF Rename, RestType
<1>9. ASSUME NEW m \in Machines, Quit(m) \/ RemoveLock(m) \/ Crash(m) PROVE RestType'
  <2>1. Released(m) \in [Files -> Machines \cup {Nobody}]
    BY DEF Released, RestType
  <2> QED BY <1>0, <1>9, <2>1 DEF Quit, RemoveLock, Crash, Act, RestType
<1>10. ASSUME NEW m \in Machines, NEW d \in Dirs, Copy(m, d) PROVE RestType'
  <2>1. path' \in [Dirs -> Files \cup {NoFile}]
    BY <1>10, NewFile DEF Copy, RestType
  <2>2. used' \subseteq Dirs /\ legacy' \subseteq Dirs
    BY <1>10 DEF Copy, RestType
  <2>3. file' \in [Dirs -> Texts] /\ temp' \in [Dirs -> Texts]
    BY <1>0, <1>10 DEF Copy, RestType
  <2>4. acts' \in 0..MaxActs
    BY <1>10 DEF Copy, Act, RestType
  <2> QED BY <1>10, <2>1, <2>2, <2>3, <2>4 DEF Copy, RestType
<1>11. ASSUME NEW m \in Machines, Point(m) \/ PointFails(m) PROVE RestType'
  <2>1. nt[m].to \in Dirs
    BY DEF NtType, NTStates
  <2> QED BY <1>0, <1>11, <2>1 DEF Point, PointFails, Act, RestType
<1>12. ASSUME NEW d \in Dirs, Mistype(d) PROVE RestType'
  BY <1>12, TextsType DEF Mistype, Act, RestType
<1>13. CASE UNCHANGED vars
  BY <1>13 DEF vars, RestType
<1> QED BY <1>1, <1>2, <1>4, <1>5, <1>6, <1>7, <1>8, <1>9, <1>10, <1>11, <1>12, <1>13 DEF Next

-----------------------------------------------------------------------------
(* Who is alone. *)

Locks == AloneHolds /\ Trying /\ InUse /\ OnlySettled /\ StillNamed

\* What the locks tell of a NativeTerm.
SameLock(o) == /\ nt'[o].dir = nt[o].dir
               /\ nt'[o].alone = nt[o].alone
               /\ nt'[o].opened = nt[o].opened

\* A step that takes no lock and leaves the files of the locks.
LEMMA QuietStep ==
    ASSUME NtType, RestType, Locks, UNCHANGED <<windows, path, held>>, used \subseteq used',
           \A o \in Machines :
               /\ SameLock(o)
               /\ nt'[o].at = "try" => nt[o].at = "try"
               /\ Up(o)' => Up(o)
               /\ nt[o].alone /\ Settled(nt[o]) => Settled(nt'[o])
    PROVE  Locks'
<1>1. AloneHolds' /\ Trying'
  BY DEF Locks, AloneHolds, Trying, SameLock
<1>2. InUse'
  BY DEF Locks, InUse, SameLock, Dir
<1>3. OnlySettled'
  BY Zenon DEF Locks, OnlySettled, SameLock
<1>4. StillNamed'
  BY DEF Locks, StillNamed, SameLock, Dir
<1> QED BY <1>1, <1>2, <1>3, <1>4 DEF Locks

\* A step that ends what m has opened, or lets it start, in a directory in use.
LEMMA LooseStep ==
    ASSUME NtType, RestType, Locks, UNCHANGED windows, used \subseteq used',
           NEW m \in Machines,
           \A o \in Machines \ {m} : nt'[o] = nt[o],
           ~nt'[m].alone,
           nt'[m].at = "try" => ~windows /\ nt'[m].opened \in Files,
           Up(m)' => Dir(m)' \in used',
           \A f \in Files : held[f] \in Machines \ {m} => held'[f] = held[f],
           windows => \A o \in Machines \ {m} :
                         nt[o].alone => path'[Dir(o)] = path[Dir(o)]
    PROVE  Locks'
<1>1. \A o \in Machines \ {m} : Dir(o)' = Dir(o) /\ (Up(o)' <=> Up(o))
  BY DEF Dir, Up
<1>2. AloneHolds'
  BY DEF Locks, AloneHolds
<1>3. Trying' /\ OnlySettled'
  BY DEF Locks, Trying, OnlySettled
<1>4. InUse'
  BY <1>1 DEF Locks, InUse
<1>5. StillNamed'
  BY <1>1 DEF Locks, StillNamed
<1> QED BY <1>2, <1>3, <1>4, <1>5 DEF Locks

LEMMA LocksStep == NtType /\ RestType /\ Locks /\ [Next]_vars => Locks'
<1> SUFFICES ASSUME NtType, RestType, Locks, [Next]_vars
             PROVE  Locks'
  OBVIOUS
<1> USE DataDirectoryAssumption
<1>g. ASSUME NEW m \in Machines, NEW at \in Ats \ {"try"}, Go(m, at), Up(m),
             nt[m].alone => Settled([nt[m] EXCEPT !.at = at]),
             UNCHANGED <<windows, path, held>>, used \subseteq used'
      PROVE  Locks'
  <2>1. nt'[m] = [nt[m] EXCEPT !.at = at] /\ \A o \in Machines \ {m} : nt'[o] = nt[o]
    BY <1>g DEF Go, NtType
  <2>2. SameLock(m) /\ nt'[m].at = at
    BY <2>1 DEF NtType, NTStates, SameLock
  <2>3. \A o \in Machines \ {m} : SameLock(o) /\ (Up(o)' <=> Up(o))
    BY <2>1 DEF SameLock, Up
  <2> QED BY <1>g, <2>1, <2>2, <2>3, QuietStep
<1>s. ASSUME NEW m \in Machines, NEW values \in Values, NEW then \in {"lock", "runs"},
             Save(m, values, then), Up(m), nt[m].alone => then = "runs",
             UNCHANGED <<windows, path, held, used>>
      PROVE  Locks'
  <2>1. /\ nt'[m] = [nt[m] EXCEPT !.at = "saves", !.into = "temp", !.next = then, !.values = values]
        /\ \A o \in Machines \ {m} : nt'[o] = nt[o]
    BY <1>s DEF Save, NtType
  <2>2. SameLock(m) /\ nt'[m].at = "saves" /\ nt'[m].next = then
    BY <2>1 DEF NtType, NTStates, SameLock
  <2>3. \A o \in Machines \ {m} : SameLock(o) /\ (Up(o)' <=> Up(o))
    BY <2>1 DEF SameLock, Up
  <2>4. nt[m].alone => Settled(nt'[m])
    BY <1>s, <2>2 DEF Settled
  <2> QED BY <1>s, <2>1, <2>2, <2>3, <2>4, QuietStep

<1>1. ASSUME NEW m \in Machines, Open(m) PROVE Locks'
  <2>1. Off \in NTStates /\ ~Off.alone
    BY OffType DEF RestType
  <2>2. /\ nt'[m] = [Off EXCEPT !.at = "read", !.dir = pointer[m],
                                !.problem = file[pointer[m]] \in Unread,
                                !.values = file[pointer[m]].values]
        /\ \A o \in Machines \ {m} : nt'[o] = nt[o]
    BY <1>1 DEF Open, NtType
  <2>3. nt'[m].at = "read" /\ nt'[m].dir = pointer[m] /\ ~nt'[m].alone
    BY <2>1, <2>2 DEF NTStates
  <2>4. Dir(m)' \in used'
    BY <1>1, <2>3 DEF Open, Dir
  <2> QED BY <1>1, <2>2, <2>3, <2>4, LooseStep DEF Open
<1>2. ASSUME NEW m \in Machines, TakeOver(m) PROVE Locks'
  <2>1. ~nt[m].alone /\ Up(m) /\ nt[m].values \in Values
    BY <1>2 DEF TakeOver, Locks, OnlySettled, Settled, Up, NtType, NTStates
  <2> QED BY <1>2, <1>g, <1>s, <2>1 DEF TakeOver, Ats
<1>3. ASSUME NEW m \in Machines, NEW f \in Files, Take(m, f),
             \/ windows /\ nt[m].at = "lock" /\ f \in Opens(Dir(m)) /\ path' = [path EXCEPT ![Dir(m)] = f]
             \/ ~windows /\ nt[m].at = "try" /\ UNCHANGED path,
             UNCHANGED <<windows, used>>
      PROVE  Locks'
  <2> DEFINE free == Free(Dir(m), f)
             g == IF free THEN f ELSE NoFile
  <2>1. /\ nt'[m] = [nt[m] EXCEPT !.at = "runs", !.alone = free, !.opened = g]
        /\ \A o \in Machines \ {m} : nt'[o] = nt[o]
        /\ held' = IF free THEN [held EXCEPT ![f] = m] ELSE held
        /\ free <=> held[f] = Nobody
    BY <1>3 DEF Take, NtType, Free
  <2> HIDE DEF free
  <2>2. /\ nt'[m].at = "runs" /\ nt'[m].alone = free
        /\ nt'[m].dir = nt[m].dir /\ nt'[m].opened = g
    BY <2>1 DEF NtType, NTStates
  <2>3. \A h \in Files : held'[h] = IF free /\ h = f THEN m ELSE held[h]
    BY <2>1 DEF RestType
  <2>g. nt'[m].alone => free /\ nt'[m].opened = f
    BY <2>2
  <2>4. AloneHolds'
    <3>1. nt'[m].alone => nt'[m].opened \in Files /\ held'[nt'[m].opened] = m
      BY <2>3, <2>g
    <3>2. ASSUME NEW o \in Machines \ {m}, nt'[o].alone
          PROVE  nt'[o].opened \in Files /\ held'[nt'[o].opened] = o
      <4>1. nt'[o] = nt[o] /\ nt[o].opened \in Files /\ held[nt[o].opened] = o
        BY <2>1, <3>2 DEF Locks, AloneHolds
      <4>2. free => nt[o].opened # f
        BY <2>1, <4>1 DEF Nobody
      <4> QED BY <2>3, <4>1, <4>2
    <3> QED BY <3>1, <3>2 DEF AloneHolds
  <2>5. Trying' /\ OnlySettled'
    <3>1. Trying'
      BY <1>3, <2>1, <2>2 DEF Locks, Trying
    <3>2. Settled(nt'[m])
      BY <2>2 DEF Settled
    <3>3. OnlySettled'
      BY <2>1, <3>2 DEF Locks, OnlySettled
    <3> QED BY <3>1, <3>3
  <2>6. InUse'
    BY <1>3, <2>1, <2>2 DEF Locks, InUse, Up, Dir
  <2>7. StillNamed'
    <3>1. CASE windows
      <4>1. \A o \in Machines : nt[o].dir \in Dirs
        BY DEF NtType, NTStates
      <4>2. path'[nt[m].dir] = f /\ \A d \in Dirs : d # nt[m].dir => path'[d] = path[d]
        BY <1>3, <3>1, <4>1 DEF RestType, Dir
      <4>3. path[nt[m].dir] # NoFile => path[nt[m].dir] = f
        BY <1>3, <3>1 DEF Opens, Dir
      <4>4. ASSUME NEW o \in Machines, nt'[o].alone PROVE path'[nt'[o].dir] = nt'[o].opened
        <5>1. CASE o = m
          BY <2>2, <4>2, <4>4, <5>1
        <5>2. CASE o # m
          <6>1. nt'[o] = nt[o] /\ nt[o].opened # NoFile /\ path[nt[o].dir] = nt[o].opened
            BY <2>1, <3>1, <4>4, <5>2, FilesAreNot0 DEF Locks, AloneHolds, StillNamed, Dir
          <6> QED BY <4>1, <4>2, <4>3, <6>1
        <5> QED BY <5>1, <5>2
      <4> QED BY <4>4 DEF StillNamed, Dir
    <3>2. CASE ~windows
      BY <1>3, <3>2 DEF StillNamed
    <3> QED BY <3>1, <3>2 DEF RestType
  <2> QED BY <2>4, <2>5, <2>6, <2>7 DEF Locks
<1>4. ASSUME NEW m \in Machines, TakeLock(m) PROVE Locks'
  <2>1. PICK f \in Opens(Dir(m)) : path' = [path EXCEPT ![Dir(m)] = f] /\ Take(m, f)
    BY <1>4 DEF TakeLock
  <2>2. Opens(Dir(m)) \subseteq Files
    BY NewFile DEF Opens, RestType, NtType, NTStates, Dir
  <2> QED BY <1>3, <1>4, <2>1, <2>2 DEF TakeLock
<1>5. ASSUME NEW m \in Machines, OpenLock(m) PROVE Locks'
  <2>1. PICK f \in Opens(Dir(m)) : nt' = [nt EXCEPT ![m].at = "try", ![m].opened = f]
    BY <1>5 DEF OpenLock
  <2>2. f \in Files
    BY NewFile DEF Opens, RestType, NtType, NTStates, Dir
  <2>3. /\ nt'[m] = [nt[m] EXCEPT !.at = "try", !.opened = f]
        /\ \A o \in Machines \ {m} : nt'[o] = nt[o]
    BY <2>1 DEF NtType
  <2>4. /\ nt'[m].at = "try" /\ nt'[m].opened = f
        /\ nt'[m].alone = nt[m].alone /\ nt'[m].dir = nt[m].dir
    BY <2>2, <2>3 DEF NtType, NTStates
  <2>5. ~nt[m].alone /\ Up(m) /\ ~windows
    BY <1>5 DEF OpenLock, Locks, OnlySettled, Settled, Up
  <2>6. Dir(m)' \in used'
    BY <1>5, <2>4, <2>5 DEF OpenLock, Locks, InUse, Dir
  <2> QED BY <1>5, <2>2, <2>3, <2>4, <2>5, <2>6, LooseStep DEF OpenLock
<1>6. ASSUME NEW m \in Machines, TryLock(m) PROVE Locks'
  <2>1. nt[m].opened \in Files /\ ~windows
    BY <1>6 DEF TryLock, Locks, Trying
  <2> QED BY <1>3, <1>6, <2>1 DEF TryLock
<1>7. ASSUME NEW m \in Machines, Set(m) PROVE Locks'
  <2> DEFINE values == [nt[m].values EXCEPT ![m] = @ + 1]
  <2>1. nt[m].values \in [Machines -> 0..MaxChoices] /\ nt[m].values[m] < MaxChoices
    BY <1>7 DEF Set, NtType, NTStates, Values
  <2>2. values \in Values /\ Up(m)
    BY <1>7, <2>1 DEF Set, Values, Up
  <2> HIDE DEF values
  <2>3. CASE nt' = [nt EXCEPT ![m].values = values]
    <3>1. /\ nt'[m] = [nt[m] EXCEPT !.values = values]
          /\ \A o \in Machines \ {m} : nt'[o] = nt[o]
      BY <2>3 DEF NtType
    <3>2. SameLock(m) /\ nt'[m].at = nt[m].at /\ nt'[m].next = nt[m].next
      BY <3>1 DEF NtType, NTStates, SameLock
    <3>3. \A o \in Machines : SameLock(o) /\ nt'[o].at = nt[o].at /\ nt'[o].next = nt[o].next
      BY <3>1, <3>2 DEF SameLock
    <3> QED BY <1>7, <3>3, QuietStep DEF Set, Up, Settled
  <2>4. CASE Save(m, values, "runs")
    BY <1>7, <1>s, <2>2, <2>4 DEF Set
  <2> USE DEF values
  <2> QED BY <1>7, <2>3, <2>4 DEF Set
<1>8. ASSUME NEW m \in Machines, Write(m) PROVE Locks'
  <2>1. [nt[m] EXCEPT !.at = "renames"].at = "renames"
        /\ [nt[m] EXCEPT !.at = "renames"].next = nt[m].next
    BY DEF NtType, NTStates
  <2>2. nt[m].alone => Settled([nt[m] EXCEPT !.at = "renames"])
    BY <1>8, <2>1 DEF Write, Locks, OnlySettled, Settled
  <2> QED BY <1>8, <1>g, <2>2 DEF Write, Ats, Up
<1>9. ASSUME NEW m \in Machines, Rename(m) PROVE Locks'
  <2>1. /\ nt'[m].at = nt[m].next /\ SameLock(m)
        /\ \A o \in Machines \ {m} : SameLock(o) /\ nt'[o].at = nt[o].at /\ nt'[o].next = nt[o].next
    <3>1. CASE temp[Dir(m)] = Absent
      <4>1. /\ nt'[m] = [nt[m] EXCEPT !.at = nt[m].next, !.next = "off", !.into = "gone"]
            /\ \A o \in Machines \ {m} : nt'[o] = nt[o]
        BY <1>9, <3>1 DEF Rename, NtType
      <4> QED BY <4>1 DEF NtType, NTStates, SameLock
    <3>2. CASE temp[Dir(m)] # Absent
      <4>1. \A o \in Machines :
               nt'[o] = [nt[o] EXCEPT !.into = Moved(m, o),
                                      !.at = IF o = m THEN nt[m].next ELSE @,
                                      !.next = IF o = m THEN "off" ELSE @]
        BY <1>9, <3>2 DEF Rename
      <4>2. /\ nt'[m] = [nt[m] EXCEPT !.into = Moved(m, m), !.at = nt[m].next, !.next = "off"]
            /\ \A o \in Machines \ {m} :
                  nt'[o] = [nt[o] EXCEPT !.into = Moved(m, o), !.at = nt[o].at, !.next = nt[o].next]
        BY <4>1
      <4>3. SameLock(m) /\ nt'[m].at = nt[m].next
        <5> DEFINE into == Moved(m, m)
                   then == nt[m].next
        <5>1. nt[m] \in NTStates /\ nt'[m] = [nt[m] EXCEPT !.into = into, !.at = then, !.next = "off"]
          BY <4>2 DEF NtType
        <5> HIDE DEF into, then
        <5>2. SameLock(m) /\ nt'[m].at = then
          BY <5>1 DEF NTStates, SameLock
        <5> QED BY <5>2 DEF then
      <4>4. ASSUME NEW o \in Machines \ {m}
            PROVE  SameLock(o) /\ nt'[o].at = nt[o].at /\ nt'[o].next = nt[o].next
        <5> DEFINE into == Moved(m, o)
                   at == nt[o].at
                   then == nt[o].next
        <5>1. nt[o] \in NTStates /\ nt'[o] = [nt[o] EXCEPT !.into = into, !.at = at, !.next = then]
          BY <4>2 DEF NtType
        <5> HIDE DEF into, at, then
        <5>2. SameLock(o) /\ nt'[o].at = at /\ nt'[o].next = then
          BY <5>1 DEF NTStates, SameLock
        <5> QED BY <5>2 DEF at, then
      <4> QED BY <4>3, <4>4
    <3> QED BY <3>1, <3>2
  <2>2. nt[m].alone => nt[m].next = "runs"
    BY <1>9 DEF Rename, Locks, OnlySettled, Settled
  <2>3. nt[m].next # "try" /\ Up(m)
    BY <1>9 DEF Rename, NtType, NTStates, Up
  <2> QED BY <1>9, <2>1, <2>2, <2>3, QuietStep DEF Rename, Up, Settled
<1>10. ASSUME NEW m \in Machines, Quit(m) \/ RemoveLock(m) \/ Crash(m) PROVE Locks'
  <2>1. Off.at = "off" /\ ~Off.alone
    BY OffType DEF RestType
  <2>2. \A o \in Machines \ {m} : nt'[o] = nt[o]
    BY <1>10 DEF Quit, RemoveLock, Crash, NtType
  <2>3. \/ nt'[m].at = "off" /\ ~nt'[m].alone
        \/ nt'[m].at = "removes" /\ ~nt'[m].alone /\ nt'[m].dir = nt[m].dir
    <3>1. nt'[m] \in {[nt[m] EXCEPT !.at = "removes", !.alone = FALSE], Off}
      BY <1>10 DEF Quit, RemoveLock, Crash, NtType
    <3>2. CASE nt'[m] = [nt[m] EXCEPT !.at = "removes", !.alone = FALSE]
      BY <3>2 DEF NtType, NTStates
    <3> QED BY <2>1, <3>1, <3>2
  <2>4. Up(m)' => Dir(m)' \in used'
    BY <1>10, <2>3 DEF Quit, RemoveLock, Crash, Locks, InUse, Up, Dir
  <2>5. \A f \in Files : held[f] \in Machines \ {m} => held'[f] = held[f]
    BY <1>10 DEF Quit, RemoveLock, Crash, Released
  <2>6. ASSUME windows, NEW o \in Machines \ {m}, nt[o].alone
        PROVE  path'[Dir(o)] = path[Dir(o)]
    <3>1. CASE RemoveLock(m)
      <4>1. path[Dir(o)] \in Files /\ held[path[Dir(o)]] = o
        BY <2>6 DEF Locks, AloneHolds, StillNamed
      <4>2. ~Removes(path[Dir(o)])
        BY <2>6, <4>1 DEF Removes, Nobody
      <4> QED BY <3>1, <4>2 DEF RemoveLock, RestType
    <3> QED BY <1>10, <3>1 DEF Quit, Crash
  <2> QED BY <1>10, <2>2, <2>3, <2>4, <2>5, <2>6, LooseStep DEF Quit, RemoveLock, Crash
<1>11. ASSUME NEW m \in Machines, NEW d \in Dirs, Copy(m, d) PROVE Locks'
  <2>1. \A e \in Dirs : e # d => path'[e] = path[e]
    BY <1>11 DEF Copy, RestType
  <2>2. /\ nt'[m] = [nt[m] EXCEPT !.at = "points", !.to = d]
        /\ \A o \in Machines \ {m} : nt'[o] = nt[o]
    BY <1>11 DEF Copy, NtType
  <2>3. nt'[m].at = "points" /\ SameLock(m)
    BY <2>2 DEF NtType, NTStates, SameLock
  <2>4. \A o \in Machines : SameLock(o) /\ (Up(o)' <=> Up(o)) /\ Dir(o)' = Dir(o)
    BY <1>11, <2>2, <2>3 DEF Copy, SameLock, Up, Dir
  <2>5. AloneHolds' /\ Trying' /\ OnlySettled'
    <3>1. AloneHolds'
      BY <1>11, <2>4 DEF Copy, Locks, AloneHolds, SameLock
    <3>2. Trying'
      BY <1>11, <2>2, <2>3, <2>4 DEF Copy, Locks, Trying, SameLock
    <3>3. Settled(nt'[m])
      BY <2>3 DEF Settled
    <3>4. OnlySettled'
      BY <2>2, <3>3 DEF Locks, OnlySettled
    <3> QED BY <3>1, <3>2, <3>4
  <2>6. InUse'
    BY <1>11, <2>4 DEF Copy, Locks, InUse
  <2>7. ASSUME windows', NEW o \in Machines, nt'[o].alone PROVE path'[Dir(o)'] = nt'[o].opened
    <3>1. windows /\ nt[o].alone /\ Up(o)
      BY <1>11, <2>4, <2>7 DEF Copy, SameLock, Locks, OnlySettled, Settled, Up
    <3>2. Dir(o) \in used /\ Dir(o) # d /\ Dir(o) \in Dirs
      BY <1>11, <3>1 DEF Copy, Empty, Locks, InUse, NtType, NTStates, Dir
    <3> QED BY <2>1, <2>4, <3>1, <3>2 DEF Locks, StillNamed, SameLock
  <2>8. StillNamed'
    BY <2>7 DEF StillNamed
  <2> QED BY <2>5, <2>6, <2>8 DEF Locks
<1>12. ASSUME NEW m \in Machines, Point(m) \/ PointFails(m) PROVE Locks'
  <2> DEFINE to == Off.to
  <2>1. /\ nt'[m] = [nt[m] EXCEPT !.at = "runs", !.to = to]
        /\ \A o \in Machines \ {m} : nt'[o] = nt[o]
    BY <1>12 DEF Point, PointFails, NtType
  <2> HIDE DEF to
  <2>2. nt'[m].at = "runs" /\ SameLock(m)
    BY <2>1 DEF NtType, NTStates, SameLock
  <2>3. \A o \in Machines \ {m} : SameLock(o) /\ (Up(o)' <=> Up(o))
    BY <2>1 DEF SameLock, Up
  <2>4. Up(m) /\ UNCHANGED <<windows, path, held, used>>
    BY <1>12 DEF Point, PointFails, Up
  <2> QED BY <2>1, <2>2, <2>3, <2>4, QuietStep DEF Settled
<1>13. CASE (\E d \in Dirs : Mistype(d)) \/ UNCHANGED vars
  <2>1. UNCHANGED <<windows, path, held, nt, used>>
    BY <1>13 DEF Mistype, vars
  <2> QED BY <2>1 DEF Locks, AloneHolds, Trying, InUse, OnlySettled, StillNamed, Up, Dir
<1> QED BY <1>1, <1>2, <1>4, <1>5, <1>6, <1>7, <1>8, <1>9, <1>10, <1>11, <1>12, <1>13 DEF Next

-----------------------------------------------------------------------------
(* What was chosen.  As long as no two NativeTerms used a directory at     *)
(* once, each of what follows holds.                                       *)

Saving(m) == nt[m].at \in {"saves", "renames"}

\* A directory is used by one NativeTerm.
UsedAlone == \A m, o \in Machines : Up(m) /\ Up(o) /\ Dir(m) = Dir(o) => m = o

\* What is written goes to the temporary file, which is whole when it is to be
\* renamed.  Nothing is saved over settings that couldn't be read.
WritesWhole ==
    \A m \in Machines :
        /\ nt[m].into # "file"
        /\ nt[m].at = "saves" => nt[m].into = "temp"
        /\ Saving(m) => ~nt[m].problem
        /\ nt[m].at = "renames" => temp[Dir(m)] = Whole(nt[m].values)

\* The directory of the next start has what was saved last.
SavedThere ==
    \A m \in Machines :
        file[pointer[m]] \notin Unread => file[pointer[m]].values[m] = saved[m]

\* A NativeTerm has what is in its directory, apart from its own choice until
\* that is saved.
KnowsAll ==
    \A o \in Machines : Up(o) /\ ~nt[o].problem =>
        /\ file[Dir(o)] \notin Unread
        /\ \A x \in Machines : x # o \/ ~Saving(o) => file[Dir(o)].values[x] = nt[o].values[x]

\* What couldn't be read still can't be.
Unreadable == \A o \in Machines : Up(o) /\ nt[o].problem => file[Dir(o)] \in Unread

\* A copy has what was saved until then, and nobody else uses it.
Copied ==
    \A m \in Machines : nt[m].at = "points" =>
        /\ nt[m].to \in used
        /\ file[nt[m].to] \notin Unread => file[nt[m].to].values[m] = nt[m].values[m]
        /\ \A o \in Machines :
              /\ pointer[o] # nt[m].to
              /\ Up(o) => Dir(o) # nt[m].to
              /\ nt[o].at = "points" /\ o # m => nt[o].to # nt[m].to

EachChoice == UsedAlone /\ WritesWhole /\ NeverHalfWritten /\ SavedThere /\ KnowsAll
           /\ Unreadable /\ Copied

\* Where someone starts has been used, once someone started: no copy goes there.
Pointed ==
    \/ \A m \in Machines : pointer[m] \in used
    \/ /\ \A m \in Machines : ~Up(m)
       /\ \A m, o \in Machines : pointer[m] = pointer[o]

\* What the choices tell of a NativeTerm is the same.
SameChoice(o) ==
    /\ nt'[o].at = nt[o].at /\ nt'[o].dir = nt[o].dir
    /\ nt'[o].values = nt[o].values /\ nt'[o].problem = nt[o].problem
    /\ nt'[o].into = nt[o].into /\ nt'[o].to = nt[o].to

LEMMA WholeIs ==
    ASSUME NEW values
    PROVE  /\ Whole(values) # Half /\ Whole(values) # Absent /\ Whole(values) \notin Unread
           /\ Whole(values).values = values
           /\ Broken # Half /\ Broken \in Unread /\ Half \in Unread /\ Absent # Half
           /\ Absent.values = Start0 /\ Absent \notin Unread
<1>1. /\ Whole(values).is = "whole" /\ Half.is = "half" /\ Absent.is = "absent"
      /\ Broken.is = "broken" /\ Whole(values).values = values /\ Absent.values = Start0
  BY DEF Whole, Half, Absent, Broken
<1> QED BY <1>1 DEF Unread

\* A NativeTerm goes on, or ends, without a word to the settings.
DirQuiet(o) ==
    /\ nt'[o].into \in {nt[o].into, "gone"}
    /\ nt'[o].at = "saves" => nt[o].at = "saves" /\ nt'[o].into = nt[o].into
    /\ nt'[o].at = "renames" => nt[o].at = "renames"
    /\ nt'[o].at = "points" => nt[o].at = "points" /\ nt'[o].to = nt[o].to
    /\ Up(o)' => /\ Up(o) /\ nt'[o].dir = nt[o].dir /\ nt'[o].problem = nt[o].problem
                 /\ Saving(o)' <=> Saving(o)
                 /\ \/ nt'[o].values = nt[o].values
                    \/ nt[o].problem /\ nt[o].at = "runs" /\ nt'[o].at = "runs"

\* A step that touches no settings.
LEMMA QuietChoices ==
    ASSUME NtType, RestType, InUse, EachChoice, Pointed,
           UNCHANGED <<file, temp, pointer, saved, used>>,
           \A o \in Machines : DirQuiet(o)
    PROVE  EachChoice' /\ Pointed'
<1> USE DEF DirQuiet
<1>1. UsedAlone' /\ NeverHalfWritten' /\ SavedThere'
  BY DEF EachChoice, UsedAlone, NeverHalfWritten, SavedThere, Dir
<1>2. WritesWhole'
  <2> SUFFICES ASSUME NEW m \in Machines
               PROVE  /\ nt'[m].into # "file"
                      /\ nt'[m].at = "saves" => nt'[m].into = "temp"
                      /\ Saving(m)' => ~nt'[m].problem
                      /\ nt'[m].at = "renames" => temp'[Dir(m)'] = Whole(nt'[m].values)
    BY DEF WritesWhole
  <2>1. Saving(m)' => Up(m)' /\ nt'[m].at # "runs"
    BY DEF Saving, Up
  <2>2. nt'[m].into # "file" /\ (nt'[m].at = "saves" => nt'[m].into = "temp")
    BY DEF EachChoice, WritesWhole
  <2>3. Saving(m)' => ~nt'[m].problem
    BY <2>1 DEF EachChoice, WritesWhole
  <2>4. nt'[m].at = "renames" => temp'[Dir(m)'] = Whole(nt'[m].values)
    BY <2>1 DEF EachChoice, WritesWhole, Dir, Saving
  <2> QED BY <2>2, <2>3, <2>4
<1>3. KnowsAll'
  BY DEF EachChoice, KnowsAll, Dir
<1>4. Unreadable'
  BY DEF EachChoice, Unreadable, Dir
<1>5. Copied'
  <2> SUFFICES ASSUME NEW m \in Machines, nt'[m].at = "points"
               PROVE  /\ nt'[m].to \in used
                      /\ file[nt'[m].to] \notin Unread => file[nt'[m].to].values[m] = nt'[m].values[m]
                      /\ \A o \in Machines :
                            /\ pointer[o] # nt'[m].to
                            /\ Up(o)' => Dir(o)' # nt'[m].to
                            /\ nt'[o].at = "points" /\ o # m => nt'[o].to # nt'[m].to
    BY DEF Copied
  <2>1. nt[m].at = "points" /\ nt'[m].to = nt[m].to /\ nt'[m].values = nt[m].values
    BY DEF Up
  <2>2. \A o \in Machines : Up(o)' => Up(o) /\ Dir(o)' = Dir(o)
    BY DEF Dir
  <2> QED BY <2>1, <2>2 DEF EachChoice, Copied
<1>6. Pointed'
  BY DEF Pointed
<1> QED BY <1>1, <1>2, <1>3, <1>4, <1>5, <1>6 DEF EachChoice

\* Somebody else's folder is another.
LEMMA OthersElsewhere ==
    ASSUME UsedAlone, NEW m \in Machines, Up(m), NEW o \in Machines, Up(o), o # m
    PROVE  Dir(o) # Dir(m)
  BY DEF UsedAlone

\* A save begins: the temporary file is emptied.
LEMMA SaveChoices ==
    ASSUME NtType, RestType, EachChoice, Pointed, NEW m \in Machines,
           NEW values \in Values, NEW then \in {"off", "lock", "runs"}, Save(m, values, then),
           Up(m), ~nt[m].problem, nt[m].at \in {"read", "runs"},
           \A x \in Machines : x # m => values[x] = nt[m].values[x],
           UNCHANGED <<pointer, saved, used>>
    PROVE  EachChoice' /\ Pointed'
<1>1. /\ nt'[m] = [nt[m] EXCEPT !.at = "saves", !.into = "temp", !.next = then, !.values = values]
      /\ \A o \in Machines \ {m} : nt'[o] = nt[o]
  BY DEF Save, NtType
<1>2. /\ nt'[m].at = "saves" /\ nt'[m].into = "temp" /\ nt'[m].values = values
      /\ nt'[m].dir = nt[m].dir /\ nt'[m].problem = nt[m].problem
  BY <1>1 DEF NtType, NTStates
<1>3. \A o \in Machines : Dir(o)' = Dir(o) /\ (Up(o)' <=> Up(o)) /\ Dir(o) \in Dirs
  BY <1>1, <1>2 DEF Dir, Up, NtType, NTStates
<1>4. file' = file /\ \A d \in Dirs : d # Dir(m) => temp'[d] = temp[d]
  BY DEF Save, RestType
<1>5. UsedAlone'
  BY <1>3 DEF EachChoice, UsedAlone
<1>6. WritesWhole'
  <2>1. ASSUME NEW o \in Machines \ {m}
        PROVE  /\ nt'[o].into # "file"
               /\ nt'[o].at = "saves" => nt'[o].into = "temp"
               /\ Saving(o)' => ~nt'[o].problem
               /\ nt'[o].at = "renames" => temp'[Dir(o)'] = Whole(nt'[o].values)
    <3>1. nt'[o] = nt[o] /\ Dir(o)' = Dir(o)
      BY <1>1, <1>3
    <3>2. nt[o].at = "renames" => temp'[Dir(o)] = temp[Dir(o)]
      BY <1>3, <1>4, OthersElsewhere DEF EachChoice, Up
    <3> QED BY <3>1, <3>2 DEF EachChoice, WritesWhole, Saving
  <2>2. /\ nt'[m].into # "file"
        /\ nt'[m].at = "saves" => nt'[m].into = "temp"
        /\ Saving(m)' => ~nt'[m].problem
        /\ nt'[m].at = "renames" => temp'[Dir(m)'] = Whole(nt'[m].values)
    BY <1>2
  <2> QED BY <2>1, <2>2 DEF WritesWhole
<1>7. NeverHalfWritten' /\ SavedThere'
  BY <1>4 DEF EachChoice, NeverHalfWritten, SavedThere
<1>8. KnowsAll'
  <2>1. ASSUME NEW o \in Machines \ {m}, Up(o)', ~nt'[o].problem
        PROVE  /\ file'[Dir(o)'] \notin Unread
               /\ \A x \in Machines : x # o \/ ~Saving(o)' => file'[Dir(o)'].values[x] = nt'[o].values[x]
    BY <1>1, <1>3, <1>4, <2>1 DEF EachChoice, KnowsAll, Saving
  <2>2. /\ file'[Dir(m)'] \notin Unread
        /\ \A x \in Machines : x # m \/ ~Saving(m)' => file'[Dir(m)'].values[x] = nt'[m].values[x]
    BY <1>2, <1>3, <1>4 DEF EachChoice, KnowsAll, Saving
  <2> QED BY <2>1, <2>2 DEF KnowsAll
<1>9. Unreadable'
  BY <1>1, <1>2, <1>3, <1>4 DEF EachChoice, Unreadable
<1>10. Copied'
  <2>1. \A o \in Machines : nt'[o].at = "points" => o # m /\ nt'[o] = nt[o]
    BY <1>1, <1>2
  <2> QED BY <1>3, <1>4, <2>1 DEF EachChoice, Copied
<1>11. Pointed'
  BY <1>3 DEF Pointed
<1> QED BY <1>5, <1>6, <1>7, <1>8, <1>9, <1>10, <1>11 DEF EachChoice

\* What is saved is written, to the temporary file alone.
LEMMA WriteChoices ==
    ASSUME NtType, RestType, EachChoice, Pointed, NEW m \in Machines, Write(m)
    PROVE  EachChoice' /\ Pointed'
<1>1. /\ nt'[m] = [nt[m] EXCEPT !.at = "renames"]
      /\ \A o \in Machines \ {m} : nt'[o] = nt[o]
      /\ nt[m].at = "saves" /\ nt[m].into = "temp" /\ ~nt[m].problem /\ Up(m)
  BY DEF Write, Go, NtType, EachChoice, WritesWhole, Saving, Up
<1>2. /\ nt'[m].at = "renames" /\ nt'[m].into = "temp" /\ nt'[m].values = nt[m].values
      /\ nt'[m].dir = nt[m].dir /\ nt'[m].problem = nt[m].problem
  BY <1>1 DEF NtType, NTStates
<1>3. \A o \in Machines : Dir(o)' = Dir(o) /\ (Up(o)' <=> Up(o)) /\ Dir(o) \in Dirs
  BY <1>1, <1>2 DEF Dir, Up, NtType, NTStates
<1>4. /\ file' = file /\ temp'[Dir(m)] = Whole(nt[m].values)
      /\ \A d \in Dirs : d # Dir(m) => temp'[d] = temp[d]
  <2>1. file' = [file EXCEPT ![Dir(m)] = file[Dir(m)]]
    BY <1>1 DEF Write
  <2>2. file' = file
    BY <1>3, <2>1 DEF RestType
  <2>3. temp' = [temp EXCEPT ![Dir(m)] = Whole(nt[m].values)]
    BY <1>1 DEF Write, Render
  <2> QED BY <1>3, <2>2, <2>3 DEF RestType
<1>5. UNCHANGED <<pointer, saved, used>>
  BY DEF Write
<1>6. WritesWhole'
  <2>1. ASSUME NEW o \in Machines \ {m}
        PROVE  /\ nt'[o].into # "file"
               /\ nt'[o].at = "saves" => nt'[o].into = "temp"
               /\ Saving(o)' => ~nt'[o].problem
               /\ nt'[o].at = "renames" => temp'[Dir(o)'] = Whole(nt'[o].values)
    <3>1. nt'[o] = nt[o] /\ Dir(o)' = Dir(o)
      BY <1>1, <1>3
    <3>2. nt[o].at = "renames" => temp'[Dir(o)] = temp[Dir(o)]
      BY <1>1, <1>3, <1>4, OthersElsewhere DEF EachChoice, Up
    <3> QED BY <3>1, <3>2 DEF EachChoice, WritesWhole, Saving
  <2>2. /\ nt'[m].into # "file"
        /\ nt'[m].at = "saves" => nt'[m].into = "temp"
        /\ Saving(m)' => ~nt'[m].problem
        /\ nt'[m].at = "renames" => temp'[Dir(m)'] = Whole(nt'[m].values)
    BY <1>1, <1>2, <1>3, <1>4
  <2> QED BY <2>1, <2>2 DEF WritesWhole
<1>7. UsedAlone' /\ NeverHalfWritten' /\ SavedThere'
  BY <1>3, <1>4, <1>5 DEF EachChoice, UsedAlone, NeverHalfWritten, SavedThere
<1>8. KnowsAll'
  <2>1. \A o \in Machines : Saving(o)' <=> Saving(o)
    BY <1>1, <1>2 DEF Saving
  <2>2. \A o \in Machines : nt'[o].values = nt[o].values /\ nt'[o].problem = nt[o].problem
    BY <1>1, <1>2
  <2> QED BY <1>3, <1>4, <2>1, <2>2 DEF EachChoice, KnowsAll
<1>9. Unreadable'
  BY <1>1, <1>2, <1>3, <1>4 DEF EachChoice, Unreadable
<1>10. Copied'
  <2>1. \A o \in Machines : nt'[o].at = "points" => o # m /\ nt'[o] = nt[o]
    BY <1>1, <1>2
  <2> QED BY <1>3, <1>4, <1>5, <2>1 DEF EachChoice, Copied
<1>11. Pointed'
  BY <1>3, <1>5 DEF Pointed
<1> QED BY <1>6, <1>7, <1>8, <1>9, <1>10, <1>11 DEF EachChoice

\* The temporary file is renamed: it is the one that was written.
LEMMA RenameChoices ==
    ASSUME NtType, RestType, EachChoice, Pointed, NEW m \in Machines, Rename(m)
    PROVE  EachChoice' /\ Pointed'
<1>1. /\ nt[m].at = "renames" /\ Up(m) /\ Saving(m) /\ ~nt[m].problem
      /\ temp[Dir(m)] = Whole(nt[m].values) /\ Dir(m) \in Dirs
  BY DEF Rename, EachChoice, WritesWhole, Saving, Up, NtType, NTStates, Dir
<1>2. /\ file' = [file EXCEPT ![Dir(m)] = Whole(nt[m].values)]
      /\ temp' = [temp EXCEPT ![Dir(m)] = Absent]
      /\ nt' = [o \in Machines |-> [nt[o] EXCEPT !.into = Moved(m, o),
                                                 !.at = IF o = m THEN nt[m].next ELSE @,
                                                 !.next = IF o = m THEN "off" ELSE @]]
      /\ saved' = IF Dir(m) = pointer[m] THEN [saved EXCEPT ![m] = nt[m].values[m]] ELSE saved
      /\ UNCHANGED <<pointer, used>>
  BY <1>1, WholeIs DEF Rename
<1>3. ASSUME NEW o \in Machines \ {m} PROVE SameChoice(o)
  <2>1. Moved(m, o) = nt[o].into
    <3>1. nt[o].at = "saves" => Dir(o) # Dir(m)
      BY <1>1, OthersElsewhere DEF EachChoice, Up
    <3> QED BY <3>1 DEF Moved
  <2> DEFINE into == nt[o].into
             at == nt[o].at
             then == nt[o].next
  <2>2. nt[o] \in NTStates /\ nt'[o] = [nt[o] EXCEPT !.into = into, !.at = at, !.next = then]
    BY <1>2, <2>1 DEF NtType
  <2> HIDE DEF into, at, then
  <2>3. /\ nt'[o].into = into /\ nt'[o].at = at /\ nt'[o].dir = nt[o].dir
        /\ nt'[o].values = nt[o].values /\ nt'[o].problem = nt[o].problem
        /\ nt'[o].to = nt[o].to
    BY <2>2 DEF NTStates
  <2> QED BY <2>3 DEF SameChoice, into, at
<1>4. /\ nt'[m].into = "gone" /\ nt'[m].at \in {"off", "lock", "runs"} /\ nt'[m].dir = nt[m].dir
      /\ nt'[m].values = nt[m].values /\ nt'[m].problem = nt[m].problem
  <2> DEFINE then == nt[m].next
  <2>1. Moved(m, m) = "gone"
    BY DEF Moved
  <2>2. nt[m] \in NTStates /\ nt'[m] = [nt[m] EXCEPT !.into = "gone", !.at = then, !.next = "off"]
        /\ then \in {"off", "lock", "runs"}
    BY <1>2, <2>1 DEF NtType, NTStates
  <2> HIDE DEF then
  <2> QED BY <2>2 DEF NTStates
<1>5. \A o \in Machines : Dir(o)' = Dir(o) /\ (Up(o)' => Up(o)) /\ Dir(o) \in Dirs
  BY <1>1, <1>3, <1>4 DEF Dir, Up, NtType, NTStates, SameChoice
<1>6. /\ file'[Dir(m)] = Whole(nt[m].values)
      /\ \A d \in Dirs : d # Dir(m) => file'[d] = file[d] /\ temp'[d] = temp[d]
  BY <1>1, <1>2 DEF RestType
<1>7. UsedAlone'
  BY <1>5 DEF EachChoice, UsedAlone
<1>8. WritesWhole'
  <2>1. ASSUME NEW o \in Machines \ {m}
        PROVE  /\ nt'[o].into # "file"
               /\ nt'[o].at = "saves" => nt'[o].into = "temp"
               /\ Saving(o)' => ~nt'[o].problem
               /\ nt'[o].at = "renames" => temp'[Dir(o)'] = Whole(nt'[o].values)
    <3>1. SameChoice(o) /\ Dir(o)' = Dir(o)
      BY <1>3, <1>5
    <3>2. nt[o].at = "renames" => temp'[Dir(o)] = temp[Dir(o)]
      BY <1>1, <1>5, <1>6, OthersElsewhere DEF EachChoice, Up
    <3> QED BY <3>1, <3>2 DEF EachChoice, WritesWhole, Saving, SameChoice
  <2>2. /\ nt'[m].into # "file"
        /\ nt'[m].at # "saves" /\ ~Saving(m)' /\ nt'[m].at # "renames"
    BY <1>4 DEF Saving
  <2> QED BY <2>1, <2>2 DEF WritesWhole
<1>9. NeverHalfWritten'
  BY <1>6, WholeIs DEF EachChoice, NeverHalfWritten
<1>10. SavedThere'
  <2> SUFFICES ASSUME NEW x \in Machines, file'[pointer[x]] \notin Unread
               PROVE  file'[pointer[x]].values[x] = saved'[x]
    BY <1>2 DEF SavedThere
  <2>1. pointer[x] \in Dirs
    BY DEF RestType
  <2>2. saved'[x] = IF x = m /\ Dir(m) = pointer[m] THEN nt[m].values[m] ELSE saved[x]
    BY <1>2 DEF RestType
  <2>3. CASE pointer[x] = Dir(m)
    <3>1. file'[pointer[x]].values[x] = nt[m].values[x]
      BY <1>6, <2>3, WholeIs
    <3>2. x # m => file[Dir(m)] \notin Unread /\ file[Dir(m)].values[x] = nt[m].values[x]
      BY <1>1 DEF EachChoice, KnowsAll
    <3> QED BY <2>2, <2>3, <3>1, <3>2 DEF EachChoice, SavedThere
  <2>4. CASE pointer[x] # Dir(m)
    BY <1>6, <2>1, <2>2, <2>4 DEF EachChoice, SavedThere
  <2> QED BY <2>3, <2>4
<1>11. KnowsAll'
  <2>1. ASSUME NEW o \in Machines \ {m}, Up(o)', ~nt'[o].problem
        PROVE  /\ file'[Dir(o)'] \notin Unread
               /\ \A x \in Machines : x # o \/ ~Saving(o)' => file'[Dir(o)'].values[x] = nt'[o].values[x]
    <3>1. Dir(o) # Dir(m) /\ Up(o)
      BY <1>1, <1>5, <2>1, OthersElsewhere DEF EachChoice
    <3>2. file'[Dir(o)'] = file[Dir(o)]
      BY <1>5, <1>6, <3>1
    <3> QED BY <1>3, <2>1, <3>1, <3>2 DEF EachChoice, KnowsAll, Saving, SameChoice
  <2>2. /\ file'[Dir(m)'] \notin Unread
        /\ \A x \in Machines : file'[Dir(m)'].values[x] = nt'[m].values[x]
    BY <1>4, <1>5, <1>6, WholeIs
  <2> QED BY <2>1, <2>2 DEF KnowsAll
<1>12. Unreadable'
  <2> SUFFICES ASSUME NEW o \in Machines, Up(o)', nt'[o].problem
               PROVE  file'[Dir(o)'] \in Unread
    BY DEF Unreadable
  <2>1. o # m /\ nt[o].problem /\ Up(o)
    BY <1>1, <1>3, <1>4, <1>5 DEF SameChoice
  <2> QED BY <1>1, <1>5, <1>6, <2>1, OthersElsewhere DEF EachChoice, Unreadable
<1>13. Copied'
  <2> SUFFICES ASSUME NEW x \in Machines, nt'[x].at = "points"
               PROVE  /\ nt'[x].to \in used
                      /\ file'[nt'[x].to] \notin Unread => file'[nt'[x].to].values[x] = nt'[x].values[x]
                      /\ \A o \in Machines :
                            /\ pointer[o] # nt'[x].to
                            /\ Up(o)' => Dir(o)' # nt'[x].to
                            /\ nt'[o].at = "points" /\ o # x => nt'[o].to # nt'[x].to
    BY <1>2 DEF Copied
  <2>1. x # m /\ nt[x].at = "points" /\ nt'[x].to = nt[x].to /\ nt'[x].values = nt[x].values
    BY <1>3, <1>4 DEF SameChoice
  <2>2. nt[x].to # Dir(m) /\ nt[x].to \in Dirs
    BY <1>1, <2>1 DEF EachChoice, Copied, NtType, NTStates
  <2>3. file'[nt'[x].to] = file[nt[x].to]
    BY <1>6, <2>1, <2>2
  <2>4. ASSUME NEW o \in Machines, nt'[o].at = "points", o # x
        PROVE  nt'[o].to # nt'[x].to
    BY <1>3, <1>4, <2>1, <2>4 DEF EachChoice, Copied, SameChoice
  <2>5. \A o \in Machines : pointer[o] # nt[x].to /\ (Up(o)' => Dir(o)' # nt[x].to)
    BY <1>5, <2>1 DEF EachChoice, Copied
  <2> QED BY <2>1, <2>3, <2>4, <2>5 DEF EachChoice, Copied
<1>14. Pointed'
  BY <1>2, <1>5 DEF Pointed
<1> QED BY <1>7, <1>8, <1>9, <1>10, <1>11, <1>12, <1>13, <1>14 DEF EachChoice

\* A start reads the settings; nobody else uses the directory.
LEMMA OpenChoices ==
    ASSUME NtType, RestType, EachChoice, Pointed, NEW m \in Machines, Open(m), ~together'
    PROVE  EachChoice' /\ Pointed'
<1> DEFINE d == pointer[m]
           bad == file[d] \in Unread
           values == file[d].values
           to == Off.to
<1>1. /\ d \in Dirs /\ bad \in BOOLEAN
      /\ Off \in NTStates /\ Off.into = "gone"
  BY OffType DEF RestType, Off
<1>2. /\ nt'[m] = [Off EXCEPT !.at = "read", !.dir = d, !.problem = bad, !.values = values]
      /\ \A o \in Machines \ {m} : nt'[o] = nt[o]
      /\ \A o \in Machines : Up(o) => Dir(o) # d
      /\ ~Up(m) /\ UNCHANGED <<file, temp, pointer, saved>>
      /\ used' = used \cup {d}
  BY DEF Open, NtType
<1> HIDE DEF d, bad, values, to
<1>3. /\ nt'[m].at = "read" /\ nt'[m].dir = d /\ nt'[m].problem = bad
      /\ nt'[m].values = values /\ nt'[m].into = "gone"
  BY <1>1, <1>2 DEF NTStates
<1>4. /\ Dir(m)' = d
      /\ \A o \in Machines \ {m} : Dir(o)' = Dir(o) /\ (Up(o)' <=> Up(o)) /\ (Saving(o)' <=> Saving(o))
  BY <1>2, <1>3 DEF Dir, Up, Saving
<1>5. UsedAlone'
  <2> SUFFICES ASSUME NEW x \in Machines, NEW o \in Machines, Up(x)', Up(o)', Dir(x)' = Dir(o)'
               PROVE  x = o
    BY DEF UsedAlone
  <2>1. CASE x # m /\ o # m
    BY <1>4, <2>1 DEF EachChoice, UsedAlone
  <2>2. CASE x = m \/ o = m
    BY <1>2, <1>4, <2>2
  <2> QED BY <2>1, <2>2
<1>6. WritesWhole'
  <2>1. ~Saving(m)' /\ nt'[m].at # "saves" /\ nt'[m].at # "renames" /\ nt'[m].into # "file"
    BY <1>3 DEF Saving
  <2>2. ASSUME NEW o \in Machines \ {m}
        PROVE  /\ nt'[o].into # "file"
               /\ nt'[o].at = "saves" => nt'[o].into = "temp"
               /\ Saving(o)' => ~nt'[o].problem
               /\ nt'[o].at = "renames" => temp'[Dir(o)'] = Whole(nt'[o].values)
    BY <1>2, <1>4 DEF EachChoice, WritesWhole
  <2> QED BY <2>1, <2>2 DEF WritesWhole
<1>7. NeverHalfWritten' /\ SavedThere'
  BY <1>2 DEF EachChoice, NeverHalfWritten, SavedThere
<1>8. KnowsAll'
  <2>1. ASSUME NEW o \in Machines \ {m}, Up(o)', ~nt'[o].problem
        PROVE  /\ file'[Dir(o)'] \notin Unread
               /\ \A x \in Machines : x # o \/ ~Saving(o)' => file'[Dir(o)'].values[x] = nt'[o].values[x]
    BY <1>2, <1>4, <2>1 DEF EachChoice, KnowsAll
  <2>2. ASSUME ~nt'[m].problem
        PROVE  /\ file'[Dir(m)'] \notin Unread
               /\ \A x \in Machines : file'[Dir(m)'].values[x] = nt'[m].values[x]
    BY <1>2, <1>3, <1>4, <2>2 DEF bad, values
  <2> QED BY <2>1, <2>2 DEF KnowsAll
<1>9. Unreadable'
  <2>1. nt'[m].problem => file'[Dir(m)'] \in Unread
    BY <1>2, <1>3, <1>4 DEF bad
  <2> QED BY <1>2, <1>4, <2>1 DEF EachChoice, Unreadable
<1>10. Copied'
  <2>1. \A o \in Machines : nt'[o].at = "points" => o # m /\ nt'[o] = nt[o]
    BY <1>2, <1>3
  <2>2. \A o \in Machines : nt[o].at = "points" => nt[o].to # d
    BY DEF EachChoice, Copied, d
  <2> QED BY <1>2, <1>4, <2>1, <2>2 DEF EachChoice, Copied
<1>11. Pointed'
  <2>1. \A o \in Machines : pointer[o] \in used' 
    BY <1>2 DEF Pointed, d
  <2> QED BY <1>2, <2>1 DEF Pointed
<1> QED BY <1>5, <1>6, <1>7, <1>8, <1>9, <1>10, <1>11 DEF EachChoice

\* The data directory is copied to a folder nobody has used.
LEMMA CopyChoices ==
    ASSUME NtType, RestType, InUse, EachChoice, Pointed,
           NEW m \in Machines, NEW d \in Dirs, Copy(m, d)
    PROVE  EachChoice' /\ Pointed'
<1>1. /\ nt'[m] = [nt[m] EXCEPT !.at = "points", !.to = d]
      /\ \A o \in Machines \ {m} : nt'[o] = nt[o]
      /\ nt[m].at = "runs" /\ Up(m) /\ ~Saving(m)
      /\ d \notin used /\ used' = used \cup {d}
      /\ UNCHANGED <<pointer, saved>>
  BY DEF Copy, Empty, NtType, Up, Saving
<1>2. /\ nt'[m].at = "points" /\ nt'[m].to = d /\ nt'[m].values = nt[m].values
      /\ nt'[m].dir = nt[m].dir /\ nt'[m].problem = nt[m].problem /\ nt'[m].into = nt[m].into
  BY <1>1 DEF NtType, NTStates
<1>3. /\ \A o \in Machines : Dir(o)' = Dir(o) /\ (Up(o)' <=> Up(o)) /\ Dir(o) \in Dirs
      /\ \A o \in Machines : Saving(o)' <=> Saving(o)
      /\ \A o \in Machines : nt'[o].values = nt[o].values /\ nt'[o].problem = nt[o].problem
                             /\ nt'[o].into = nt[o].into
  BY <1>1, <1>2 DEF Dir, Up, Saving, NtType, NTStates
<1>4. /\ file'[d] = file[Dir(m)] /\ \A e \in Dirs : e # d => file'[e] = file[e] /\ temp'[e] = temp[e]
  BY DEF Copy, RestType
<1>5. \A o \in Machines : pointer[o] # d /\ pointer[o] \in Dirs /\ (Up(o) => Dir(o) # d)
  BY <1>1 DEF Pointed, InUse, RestType
<1>6. UsedAlone'
  BY <1>3 DEF EachChoice, UsedAlone
<1>7. WritesWhole'
  <2> SUFFICES ASSUME NEW o \in Machines
               PROVE  /\ nt'[o].into # "file"
                      /\ nt'[o].at = "saves" => nt'[o].into = "temp"
                      /\ Saving(o)' => ~nt'[o].problem
                      /\ nt'[o].at = "renames" => temp'[Dir(o)'] = Whole(nt'[o].values)
    BY DEF WritesWhole
  <2>1. (nt'[o].at = "saves" => nt[o].at = "saves") /\ (nt'[o].at = "renames" => nt[o].at = "renames")
    BY <1>1, <1>2
  <2>2. nt[o].at = "renames" => Up(o)
    BY DEF Up
  <2> QED BY <1>3, <1>4, <1>5, <2>1, <2>2 DEF EachChoice, WritesWhole
<1>8. NeverHalfWritten'
  BY <1>3, <1>4 DEF EachChoice, NeverHalfWritten
<1>9. SavedThere'
  BY <1>1, <1>4, <1>5 DEF EachChoice, SavedThere
<1>10. KnowsAll' /\ Unreadable'
  <2>1. \A o \in Machines : Up(o) => file'[Dir(o)'] = file[Dir(o)]
    BY <1>3, <1>4, <1>5
  <2>2. KnowsAll'
    BY <1>3, <2>1 DEF EachChoice, KnowsAll
  <2>3. Unreadable'
    BY <1>3, <2>1 DEF EachChoice, Unreadable
  <2> QED BY <2>2, <2>3
<1>11. Copied'
  <2>1. ASSUME NEW x \in Machines \ {m}, nt'[x].at = "points"
        PROVE  /\ nt'[x].to \in used'
               /\ file'[nt'[x].to] \notin Unread => file'[nt'[x].to].values[x] = nt'[x].values[x]
               /\ \A o \in Machines :
                     /\ pointer'[o] # nt'[x].to
                     /\ Up(o)' => Dir(o)' # nt'[x].to
                     /\ nt'[o].at = "points" /\ o # x => nt'[o].to # nt'[x].to
    <3>1. nt'[x] = nt[x] /\ nt[x].to \in used /\ nt[x].to # d /\ nt[x].to \in Dirs
      BY <1>1, <2>1 DEF EachChoice, Copied, NtType, NTStates
    <3>2. file'[nt[x].to] = file[nt[x].to]
      BY <1>4, <3>1
    <3>3. \A o \in Machines : nt'[o].at = "points" /\ o # x => nt'[o].to # nt'[x].to
      <4>1. nt'[m].to # nt'[x].to
        BY <1>2, <3>1
      <4>2. \A o \in Machines \ {m} : nt[o].at = "points" /\ o # x => nt[o].to # nt[x].to
        BY <2>1, <3>1 DEF EachChoice, Copied
      <4>3. \A o \in Machines \ {m} : nt'[o] = nt[o]
        BY <1>1
      <4> HIDE DEF EachChoice
      <4> QED BY <3>1, <4>1, <4>2, <4>3
    <3> QED BY <1>1, <1>3, <2>1, <3>1, <3>2, <3>3 DEF EachChoice, Copied
  <2>2. /\ nt'[m].to \in used'
        /\ file'[nt'[m].to] \notin Unread => file'[nt'[m].to].values[m] = nt'[m].values[m]
    <3>1. file[Dir(m)] \notin Unread => file[Dir(m)].values[m] = nt[m].values[m]
      BY <1>1 DEF EachChoice, KnowsAll, Unreadable
    <3> QED BY <1>1, <1>2, <1>4, <3>1
  <2>3. ASSUME NEW o \in Machines
        PROVE  /\ pointer'[o] # nt'[m].to
               /\ Up(o)' => Dir(o)' # nt'[m].to
               /\ nt'[o].at = "points" /\ o # m => nt'[o].to # nt'[m].to
    <3>1. nt[o].at = "points" /\ o # m => nt'[o].to = nt[o].to /\ nt[o].to # d
      BY <1>1 DEF EachChoice, Copied
    <3> QED BY <1>1, <1>2, <1>3, <1>5, <3>1
  <2> QED BY <2>1, <2>2, <2>3 DEF Copied
<1>12. Pointed'
  BY <1>1 DEF Pointed
<1> QED BY <1>6, <1>7, <1>8, <1>9, <1>10, <1>11, <1>12 DEF EachChoice

\* The next start is pointed at the copy.
LEMMA PointChoices ==
    ASSUME NtType, RestType, EachChoice, Pointed, NEW m \in Machines, Point(m)
    PROVE  EachChoice' /\ Pointed'
<1> DEFINE off == Off.to
<1>1. /\ nt'[m] = [nt[m] EXCEPT !.at = "runs", !.to = off]
      /\ \A o \in Machines \ {m} : nt'[o] = nt[o]
      /\ nt[m].at = "points" /\ Up(m)
      /\ UNCHANGED <<file, temp, used>>
      /\ pointer' = [pointer EXCEPT ![m] = nt[m].to]
      /\ saved' = [saved EXCEPT ![m] = nt[m].values[m]]
  BY DEF Point, NtType, Up
<1> HIDE DEF off
<1>2. /\ nt'[m].at = "runs" /\ nt'[m].values = nt[m].values
      /\ nt'[m].dir = nt[m].dir /\ nt'[m].problem = nt[m].problem /\ nt'[m].into = nt[m].into
  BY <1>1 DEF NtType, NTStates
<1>3. /\ \A o \in Machines : Dir(o)' = Dir(o) /\ (Up(o)' <=> Up(o))
      /\ \A o \in Machines : Saving(o)' <=> Saving(o)
      /\ \A o \in Machines : nt'[o].values = nt[o].values /\ nt'[o].problem = nt[o].problem
                             /\ nt'[o].into = nt[o].into
      /\ \A o \in Machines : nt'[o].at \in {"saves", "renames"} => nt'[o].at = nt[o].at
  BY <1>1, <1>2 DEF Dir, Up, Saving
<1>4. /\ pointer'[m] = nt[m].to /\ saved'[m] = nt[m].values[m]
      /\ \A o \in Machines : o # m => pointer'[o] = pointer[o] /\ saved'[o] = saved[o]
  BY <1>1 DEF RestType
<1>5. UsedAlone' /\ NeverHalfWritten'
  BY <1>1, <1>3 DEF EachChoice, UsedAlone, NeverHalfWritten
<1>6. WritesWhole'
  BY <1>1, <1>3 DEF EachChoice, WritesWhole
<1>7. SavedThere'
  <2>1. file[nt[m].to] \notin Unread => file[nt[m].to].values[m] = nt[m].values[m]
    BY <1>1 DEF EachChoice, Copied
  <2> QED BY <1>1, <1>4, <2>1 DEF EachChoice, SavedThere
<1>8. KnowsAll' /\ Unreadable'
  BY <1>1, <1>3 DEF EachChoice, KnowsAll, Unreadable
<1>9. Copied'
  <2> SUFFICES ASSUME NEW x \in Machines, nt'[x].at = "points"
               PROVE  /\ nt'[x].to \in used
                      /\ file[nt'[x].to] \notin Unread => file[nt'[x].to].values[x] = nt'[x].values[x]
                      /\ \A o \in Machines :
                            /\ pointer'[o] # nt'[x].to
                            /\ Up(o)' => Dir(o)' # nt'[x].to
                            /\ nt'[o].at = "points" /\ o # x => nt'[o].to # nt'[x].to
    BY <1>1 DEF Copied
  <2>1. x # m /\ nt'[x] = nt[x] /\ nt[x].at = "points"
    BY <1>1, <1>2
  <2>2. nt[m].to # nt[x].to
    BY <1>1, <2>1 DEF EachChoice, Copied
  <2>3. \A o \in Machines : pointer'[o] # nt'[x].to
    BY <1>4, <2>1, <2>2 DEF EachChoice, Copied
  <2>4. \A o \in Machines : nt'[o].at = "points" => nt'[o] = nt[o]
    BY <1>1, <1>2
  <2> QED BY <1>3, <2>1, <2>3, <2>4 DEF EachChoice, Copied
<1>10. Pointed'
  <2>1. nt[m].to \in used /\ \A o \in Machines : pointer[o] \in used
    BY <1>1 DEF EachChoice, Copied, Pointed
  <2> QED BY <1>1, <1>4, <2>1 DEF Pointed
<1> QED BY <1>5, <1>6, <1>7, <1>8, <1>9, <1>10 DEF EachChoice

\* Someone mistypes the file while none runs.
LEMMA MistypeChoices ==
    ASSUME NtType, RestType, EachChoice, Pointed, NEW d \in Dirs, Mistype(d)
    PROVE  EachChoice' /\ Pointed'
<1>1. /\ \A m \in Machines : ~Up(m) /\ nt[m].at = "off"
      /\ UNCHANGED <<nt, temp, pointer, saved, used>>
      /\ file'[d] = Broken /\ \A e \in Dirs : e # d => file'[e] = file[e]
  BY DEF Mistype, Up, RestType
<1>2. \A m \in Machines : ~Up(m)' /\ ~Saving(m)' /\ nt'[m].at = "off"
  BY <1>1 DEF Up, Saving
<1>3. UsedAlone' /\ KnowsAll' /\ Unreadable' /\ Copied'
  BY <1>2 DEF UsedAlone, KnowsAll, Unreadable, Copied
<1>4. WritesWhole'
  BY <1>1, <1>2 DEF EachChoice, WritesWhole
<1>5. NeverHalfWritten' /\ SavedThere'
  BY <1>1, WholeIs DEF EachChoice, NeverHalfWritten, SavedThere, RestType
<1>6. Pointed'
  BY <1>1, <1>2 DEF Pointed
<1> QED BY <1>3, <1>4, <1>5, <1>6 DEF EachChoice

\* Each step keeps the choices, as long as nobody uses another's directory.
LEMMA ChoicesStep ==
    ASSUME NtType, RestType, Trying, InUse, Pointed, EachChoice, [Next]_vars, ~together'
    PROVE  EachChoice' /\ Pointed'
<1> USE DataDirectoryAssumption
<1>g. ASSUME NEW m \in Machines, NEW at \in Ats \ {"saves", "renames", "points"}, Go(m, at),
             nt[m].at \in Ats \ {"off", "saves", "renames"},
             UNCHANGED <<file, temp, pointer, saved, used>>
      PROVE  EachChoice' /\ Pointed'
  <2>1. nt'[m] = [nt[m] EXCEPT !.at = at] /\ \A o \in Machines \ {m} : nt'[o] = nt[o]
    BY <1>g DEF Go, NtType
  <2>2. /\ nt'[m].at = at /\ nt'[m].dir = nt[m].dir /\ nt'[m].values = nt[m].values
        /\ nt'[m].problem = nt[m].problem /\ nt'[m].into = nt[m].into
    BY <2>1 DEF NtType, NTStates
  <2>3. Up(m) /\ ~Saving(m) /\ ~Saving(m)'
    BY <1>g, <2>2 DEF Up, Saving, Ats
  <2>4. \A o \in Machines \ {m} : (Up(o)' <=> Up(o)) /\ (Saving(o)' <=> Saving(o))
    BY <2>1 DEF Up, Saving
  <2>q1. \A o \in Machines : DirQuiet(o)
    BY <1>g, <2>1, <2>2, <2>3, <2>4 DEF DirQuiet
  <2> QED BY <1>g, <2>1, <2>2, <2>3, <2>4, <2>q1, QuietChoices
<1>1. ASSUME NEW m \in Machines, Open(m) PROVE EachChoice' /\ Pointed'
  BY <1>1, OpenChoices
<1>2. ASSUME NEW m \in Machines, TakeOver(m) PROVE EachChoice' /\ Pointed'
  <2>1. nt[m].values \in Values /\ Up(m) /\ nt[m].at = "read"
    BY <1>2 DEF TakeOver, Up, NtType, NTStates
  <2>2. CASE Go(m, "lock") /\ UNCHANGED <<file, temp>>
    BY <1>2, <1>g, <2>1, <2>2 DEF TakeOver, Ats
  <2>3. CASE ~nt[m].problem /\ Save(m, nt[m].values, "lock")
    BY <1>2, <2>1, <2>3, SaveChoices DEF TakeOver
  <2> QED BY <1>2, <2>2, <2>3 DEF TakeOver
<1>3. ASSUME NEW m \in Machines, TakeLock(m) \/ OpenLock(m) \/ TryLock(m) PROVE EachChoice' /\ Pointed'
  <2>1. PICK at \in {"runs", "try"}, alone \in BOOLEAN, f \in Files \cup {NoFile} :
            nt' = [nt EXCEPT ![m] = [nt[m] EXCEPT !.at = at, !.alone = alone, !.opened = f]]
    <3>1. ASSUME NEW f \in Files, Take(m, f)
          PROVE  \E alone \in BOOLEAN, g \in Files \cup {NoFile} :
                    nt' = [nt EXCEPT ![m] = [nt[m] EXCEPT !.at = "runs", !.alone = alone, !.opened = g]]
      <4> DEFINE free == Free(Dir(m), f)
      <4>1. nt' = [nt EXCEPT ![m] = [nt[m] EXCEPT !.at = "runs", !.alone = free,
                                                  !.opened = IF free THEN f ELSE NoFile]]
        BY <3>1 DEF Take
      <4>2. free \in BOOLEAN
        BY DEF Free
      <4> HIDE DEF free
      <4> QED BY <4>1, <4>2
    <3>2. Opens(Dir(m)) \subseteq Files
      BY NewFile DEF Opens, RestType, NtType, NTStates, Dir
    <3>3. CASE TakeLock(m)
      <4>1. PICK f \in Opens(Dir(m)) : Take(m, f)
        BY <3>3 DEF TakeLock
      <4> QED BY <3>1, <3>2, <4>1
    <3>4. CASE OpenLock(m)
      <4>1. PICK f \in Opens(Dir(m)) : nt' = [nt EXCEPT ![m].at = "try", ![m].opened = f]
        BY <3>4 DEF OpenLock
      <4>2. nt[m] \in NTStates /\ nt' = [nt EXCEPT ![m] = [nt[m] EXCEPT !.at = "try", !.opened = f]]
        BY <4>1 DEF NtType
      <4>3. [nt[m] EXCEPT !.at = "try", !.opened = f]
              = [nt[m] EXCEPT !.at = "try", !.alone = nt[m].alone, !.opened = f]
        BY <4>2 DEF NTStates
      <4>4. nt[m].alone \in BOOLEAN /\ f \in Files
        BY <3>2, <4>2 DEF NTStates
      <4> QED BY <4>2, <4>3, <4>4
    <3>5. CASE TryLock(m)
      BY <3>1, <3>5 DEF TryLock, Trying
    <3> QED BY <1>3, <3>3, <3>4, <3>5
  <2>2. /\ nt'[m] = [nt[m] EXCEPT !.at = at, !.alone = alone, !.opened = f]
        /\ \A o \in Machines \ {m} : nt'[o] = nt[o]
    BY <2>1 DEF NtType
  <2>3. /\ nt'[m].at = at /\ nt'[m].dir = nt[m].dir /\ nt'[m].values = nt[m].values
        /\ nt'[m].problem = nt[m].problem /\ nt'[m].into = nt[m].into
    BY <2>2 DEF NtType, NTStates
  <2>4. Up(m) /\ ~Saving(m) /\ ~Saving(m)'
    BY <1>3, <2>3 DEF TakeLock, OpenLock, TryLock, Up, Saving
  <2>5. \A o \in Machines \ {m} : (Up(o)' <=> Up(o)) /\ (Saving(o)' <=> Saving(o))
    BY <2>2 DEF Up, Saving
  <2>6. UNCHANGED <<file, temp, pointer, saved, used>>
    BY <1>3 DEF TakeLock, OpenLock, TryLock
  <2>q1. \A o \in Machines : DirQuiet(o)
    BY <2>2, <2>3, <2>4, <2>5, <2>6 DEF DirQuiet
  <2> QED BY <2>2, <2>3, <2>4, <2>5, <2>6, <2>q1, QuietChoices
<1>4. ASSUME NEW m \in Machines, Set(m) PROVE EachChoice' /\ Pointed'
  <2> DEFINE values == [nt[m].values EXCEPT ![m] = @ + 1]
  <2>1. nt[m].values \in [Machines -> 0..MaxChoices] /\ nt[m].values[m] < MaxChoices
    BY <1>4 DEF Set, NtType, NTStates, Values
  <2>2. values \in Values /\ \A x \in Machines : x # m => values[x] = nt[m].values[x]
    BY <2>1 DEF Values
  <2>3. Up(m) /\ nt[m].at = "runs" /\ UNCHANGED <<pointer, saved, used>>
    BY <1>4 DEF Set, Up
  <2>4. CASE nt[m].problem
    <3>1. nt' = [nt EXCEPT ![m].values = values] /\ UNCHANGED <<file, temp>>
      BY <1>4, <2>4 DEF Set
    <3> HIDE DEF values
    <3>2. nt'[m] = [nt[m] EXCEPT !.values = values] /\ \A o \in Machines \ {m} : nt'[o] = nt[o]
      BY <3>1 DEF NtType
    <3>3. /\ nt'[m].at = nt[m].at /\ nt'[m].dir = nt[m].dir
          /\ nt'[m].problem = nt[m].problem /\ nt'[m].into = nt[m].into
      BY <3>2 DEF NtType, NTStates
    <3>4. \A o \in Machines : (Up(o)' <=> Up(o)) /\ (Saving(o)' <=> Saving(o))
      BY <3>2, <3>3 DEF Up, Saving
    <3>q1. \A o \in Machines : DirQuiet(o)
      BY <2>3, <2>4, <3>1, <3>2, <3>3, <3>4 DEF DirQuiet
    <3> QED BY <2>3, <2>4, <3>1, <3>2, <3>3, <3>4, <3>q1, QuietChoices
  <2>5. CASE ~nt[m].problem
    <3>1. Save(m, values, "runs")
      BY <1>4, <2>5 DEF Set
    <3> HIDE DEF values
    <3> QED BY <2>2, <2>3, <2>5, <3>1, SaveChoices
  <2> QED BY <2>4, <2>5
<1>5. ASSUME NEW m \in Machines, Write(m) \/ Rename(m) PROVE EachChoice' /\ Pointed'
  BY <1>5, WriteChoices, RenameChoices
<1>6. ASSUME NEW m \in Machines, Quit(m) \/ RemoveLock(m) \/ Crash(m) PROVE EachChoice' /\ Pointed'
  <2>1. Off.at = "off" /\ Off.into = "gone"
    BY DEF Off
  <2>2. \A o \in Machines \ {m} : nt'[o] = nt[o]
    BY <1>6 DEF Quit, RemoveLock, Crash, NtType
  <2>3. \/ nt'[m].at = "off" /\ nt'[m].into = "gone"
        \/ /\ nt'[m].at = "removes" /\ nt[m].at = "runs"
           /\ nt'[m].dir = nt[m].dir /\ nt'[m].values = nt[m].values
           /\ nt'[m].problem = nt[m].problem /\ nt'[m].into = nt[m].into
    <3>1. nt'[m] = Off \/ (nt[m].at = "runs" /\ nt'[m] = [nt[m] EXCEPT !.at = "removes", !.alone = FALSE])
      BY <1>6 DEF Quit, RemoveLock, Crash, NtType
    <3>2. CASE nt[m].at = "runs" /\ nt'[m] = [nt[m] EXCEPT !.at = "removes", !.alone = FALSE]
      BY <3>2 DEF NtType, NTStates
    <3> QED BY <2>1, <3>1, <3>2
  <2>4. \A o \in Machines \ {m} : (Up(o)' <=> Up(o)) /\ (Saving(o)' <=> Saving(o))
    BY <2>2 DEF Up, Saving
  <2>5. UNCHANGED <<file, temp, pointer, saved, used>>
    BY <1>6 DEF Quit, RemoveLock, Crash
  <2>6. Up(m)' => Up(m) /\ ~Saving(m) /\ ~Saving(m)'
    BY <2>3 DEF Up, Saving
  <2>7. nt'[m].at \notin {"saves", "renames", "points"}
    BY <2>3
  <2>q1. \A o \in Machines : DirQuiet(o)
    BY <2>2, <2>3, <2>4, <2>5, <2>6, <2>7 DEF DirQuiet, Up
  <2> QED BY <2>2, <2>3, <2>4, <2>5, <2>6, <2>7, <2>q1, QuietChoices DEF Up
<1>7. ASSUME NEW m \in Machines, NEW d \in Dirs, Copy(m, d) PROVE EachChoice' /\ Pointed'
  BY <1>7, CopyChoices
<1>8. ASSUME NEW m \in Machines, Point(m) PROVE EachChoice' /\ Pointed'
  BY <1>8, PointChoices
<1>9. ASSUME NEW m \in Machines, PointFails(m) PROVE EachChoice' /\ Pointed'
  <2> DEFINE off == Off.to
  <2>1. nt'[m] = [nt[m] EXCEPT !.at = "runs", !.to = off] /\ \A o \in Machines \ {m} : nt'[o] = nt[o]
    BY <1>9 DEF PointFails, NtType
  <2> HIDE DEF off
  <2>2. /\ nt'[m].at = "runs" /\ nt'[m].dir = nt[m].dir /\ nt'[m].values = nt[m].values
        /\ nt'[m].problem = nt[m].problem /\ nt'[m].into = nt[m].into
    BY <2>1 DEF NtType, NTStates
  <2>3. Up(m) /\ ~Saving(m) /\ ~Saving(m)' /\ UNCHANGED <<file, temp, pointer, saved, used>>
    BY <1>9, <2>2 DEF PointFails, Up, Saving
  <2>4. \A o \in Machines \ {m} : (Up(o)' <=> Up(o)) /\ (Saving(o)' <=> Saving(o))
    BY <2>1 DEF Up, Saving
  <2>q1. \A o \in Machines : DirQuiet(o)
    BY <2>1, <2>2, <2>3, <2>4 DEF DirQuiet
  <2> QED BY <2>1, <2>2, <2>3, <2>4, <2>q1, QuietChoices
<1>10. ASSUME NEW d \in Dirs, Mistype(d) PROVE EachChoice' /\ Pointed'
  BY <1>10, MistypeChoices
<1>11. CASE UNCHANGED vars
  <2>1. \A o \in Machines : (Up(o)' <=> Up(o)) /\ (Saving(o)' <=> Saving(o))
    BY <1>11 DEF Up, Saving, vars
  <2>q1. \A o \in Machines : DirQuiet(o)
    BY <1>11, <2>1 DEF DirQuiet, vars
  <2> QED BY <1>11, <2>1, <2>q1, QuietChoices DEF vars
<1> QED BY <1>1, <1>2, <1>3, <1>4, <1>5, <1>6, <1>7, <1>8, <1>9, <1>10, <1>11 DEF Next

-----------------------------------------------------------------------------
(* The theorems. *)

LEMMA Initially == Init => IInv
<1> SUFFICES ASSUME Init
             PROVE  IInv
  OBVIOUS
<1>1. Dirs # {}
  BY DEF Init
<1>2. Off \in NTStates /\ ~Off.alone /\ Off.at = "off"
  BY <1>1, OffType
<1>3. NtType
  BY <1>2 DEF Init, NtType
<1>4. RestType
  <2>1. pointer \in [Machines -> Dirs] /\ legacy \subseteq Dirs /\ used \subseteq Dirs
    BY DEF Init
  <2>2. file \in [Dirs -> Texts] /\ temp \in [Dirs -> Texts]
    BY TextsType DEF Init
  <2>3. path \in [Dirs -> Files \cup {NoFile}] /\ held \in [Files -> Machines \cup {Nobody}]
    BY DEF Init
  <2>4. starts \in 0..MaxStarts /\ acts \in 0..MaxActs /\ saved \in [Machines -> 0..MaxChoices]
    BY DataDirectoryAssumption DEF Init
  <2> QED BY <2>1, <2>2, <2>3, <2>4 DEF Init, RestType
<1>5. AloneHolds /\ Trying /\ InUse /\ OnlySettled /\ StillNamed
  BY <1>2 DEF Init, AloneHolds, Trying, InUse, OnlySettled, StillNamed, Up
<1> QED BY <1>3, <1>4, <1>5, TypeParts DEF IInv

LEMMA EditKept == IInv /\ [Next]_vars => IInv'
<1> SUFFICES ASSUME IInv, [Next]_vars
             PROVE  IInv'
  OBVIOUS
<1>1. NtType /\ RestType /\ Trying /\ Locks
  BY TypeParts DEF IInv, Locks
<1>2. NtType' /\ RestType' /\ Locks'
  BY <1>1, NtStep, RestStep, LocksStep
<1>3. TypeOK'
  BY Zenon, <1>2 DEF TypeOK, NtType, NTStates, RestType, AloneHolds, Locks
<1> QED BY <1>2, <1>3 DEF IInv, Locks

LEMMA Always == Spec => []IInv
  BY Initially, EditKept, PTL DEF Spec

\* The state of the data directory, of its settings and of its lock is
\* always of its type, and a NativeTerm that believes to be alone holds the
\* lock file it opened (data_lock.rs).
THEOREM DataTypeCorrect == Spec => []TypeOK
<1>1. IInv => TypeOK
  BY DEF IInv
<1> QED BY <1>1, Always, PTL

\* On Windows at most one of the NativeTerms of a directory believes to be
\* alone, through starts, ends, crashes and moves of it: two would be alone
\* with the file that has the lock's name, which only one holds.
THEOREM OneHolderEver == Spec => []OneHolder
<1>1. IInv => OneHolder
  <2> SUFFICES ASSUME IInv, windows, NEW m \in Machines, NEW o \in Machines,
                      nt[m].alone, nt[o].alone, Dir(m) = Dir(o)
               PROVE  m = o
    BY DEF OneHolder
  <2>1. nt[m].opened = nt[o].opened
    BY DEF IInv, StillNamed
  <2> QED BY <2>1, TypeParts DEF IInv, AloneHolds
<1> QED BY <1>1, Always, PTL

\* A directory used by one NativeTerm at a time keeps what each machine saved
\* last, through crashes and moves, and its file is never half written
\* (settings.rs, Settings::save; app.rs, move_data).
THEOREM ChosenIsKeptEver == Spec => []ChosenIsKept
<1> DEFINE Safe == Pointed /\ EachChoice
<1>1. Init => (~together => Safe)
  <2> SUFFICES ASSUME Init
               PROVE  Safe
    OBVIOUS
  <2>1. PICK d \in Dirs : pointer = [m \in Machines |-> d]
    BY DEF Init
  <2>2. Off.at = "off" /\ Off.into = "gone"
    BY DEF Off
  <2>3. \A m \in Machines : nt[m].at = "off" /\ nt[m].into = "gone" /\ ~Up(m) /\ ~Saving(m)
    BY <2>2 DEF Init, Up, Saving
  <2>4. Pointed
    BY <2>1, <2>3 DEF Pointed
  <2>5. UsedAlone /\ KnowsAll /\ Unreadable /\ Copied /\ WritesWhole
    BY <2>3 DEF UsedAlone, KnowsAll, Unreadable, Copied, WritesWhole
  <2>6. \A e \in Dirs : file[e] = Absent
    BY DEF Init
  <2>7. NeverHalfWritten
    BY <2>6, WholeIs DEF NeverHalfWritten
  <2>8. SavedThere
    BY <2>1, <2>6, WholeIs DEF SavedThere, Init, Start0
  <2> QED BY <2>4, <2>5, <2>7, <2>8 DEF EachChoice
<1>2. IInv /\ (~together => Safe) /\ [Next]_vars => (~together' => Safe')
  <2> SUFFICES ASSUME IInv, ~together => Safe, [Next]_vars, ~together'
               PROVE  Safe'
    OBVIOUS
  <2>1. ~together
    BY DEF Next, vars, Open, TakeOver, TakeLock, OpenLock, TryLock, Set, Write, Rename, Point,
           PointFails, Quit, RemoveLock, Crash, Copy, Mistype
  <2>2. NtType /\ RestType /\ Trying /\ InUse
    BY TypeParts DEF IInv
  <2> QED BY <2>1, <2>2, ChoicesStep
<1>3. (~together => Safe) => ChosenIsKept
  BY DEF ChosenIsKept, EachChoice, NeverHalfWritten, SavedThere
<1> HIDE DEF Safe
<1>4. Spec => [](~together => Safe)
  <2>1. Init => (~together => Safe)
    BY <1>1
  <2>2. IInv /\ (~together => Safe) /\ [Next]_vars => (~together => Safe)'
    BY <1>2
  <2> QED BY <2>1, <2>2, Always, PTL DEF Spec
<1> QED BY <1>3, <1>4, PTL

-----------------------------------------------------------------------------
(* A file edited here (FileEdit).                                          *)

\* Until the file is here nothing has been saved here; from then on what was
\* downloaded is whole, and the copy's time is even where no save is under way.
Opening ==
    /\ pc \in {"open", "download"} =>
         server.file.by = "theirs" /\ server.file.whole /\ base = Nothing
    /\ pc \notin {"open", "download", "ended"} => base # Nothing
    /\ base = Nothing => local.time = 0
    /\ base # Nothing => local.time % 2 = (IF local.file.whole THEN 0 ELSE 1)

\* Times go up; the one known is of an earlier file or of this.
Times == attrs <= server.time

\* Where nobody else saved and nothing failed, the time known is the one the
\* file has, but for an upload on its way.
Clean ==
    /\ closed => faults > 0
    /\ others = 0 /\ faults = 0 =>
         /\ ~conflict
         /\ pc \in {"download", "loop", "sleep", "stat", "upload", "rename", "in place"} =>
              attrs = server.time

\* The copies here and beside the file hold what was downloaded, or what was
\* saved here.
Copies ==
    /\ pc \in {"open", "download"} => beside = Nothing
    /\ base # Nothing => base.whole
    /\ base = Nothing => local.file = Nothing
    /\ local.file.by = "theirs" => local.file = base
    /\ beside.by = "theirs" => beside = base

\* What others saved, and not while an upload was under way, is what was
\* downloaded wherever its time is the one known; an upload that wasn't forced
\* found it so.
Known ==
    server.file.by = "theirs" /\ ~late =>
        /\ pc \in {"loop", "sleep", "stat", "upload", "rename",
            "in place"} /\ server.time = attrs =>
             server.file = base
        /\ pc \in {"upload", "rename", "in place"} /\ ~forced => server.file = base
        /\ pc \in {"write", "restat"} => server.file = base

EditInv == EditTypeOK /\ Opening /\ Times /\ Clean /\ Copies /\ Known

-----------------------------------------------------------------------------
(* Contents and times. *)

\* The contents there are.
LEMMA Contents ==
    /\ Nothing \in File /\ ~Nothing.whole /\ Nothing.by = "ours"
    /\ \A n \in 0 .. MaxForeign : Theirs(n) \in File /\ Theirs(n).whole /\ Theirs(n).by = "theirs"
    /\ \A n \in 1 .. MaxSaves : Torn(Ours(n)) \in File /\ ~Torn(Ours(n)).whole
    /\ \A c \in File : [c EXCEPT !.whole = TRUE] \in File /\ [c EXCEPT !.whole = TRUE].whole
<1>1. 0 \in 0 .. MaxSaves + MaxForeign /\ 0 .. MaxForeign \subseteq 0 .. MaxSaves + MaxForeign
      /\ 1 .. MaxSaves \subseteq 0 .. MaxSaves + MaxForeign
  BY FileEditAssumption
<1>. QED  BY <1>1 DEF Nothing, Torn, Ours, Theirs, File

\* The time of a save that begins, and of one that ends.
LEMMA SaveTimes ==
    ASSUME NEW t \in 0 .. 2 * MaxSaves
    PROVE  /\ t < 2 * MaxSaves => t \div 2 + 1 \in 1 .. MaxSaves /\ t + 1 \in 0 .. 2 * MaxSaves
           /\ t % 2 = 0 => (t + 1) % 2 = 1
           /\ t % 2 = 1 => (t + 1) % 2 = 0 /\ t < 2 * MaxSaves
  BY FileEditAssumption

\* The types, one variable at a time.
Bools ==
    /\ pending \in BOOLEAN /\ forced \in BOOLEAN /\ conflict \in BOOLEAN /\ overwrite \in BOOLEAN
    /\ stop \in BOOLEAN /\ closed \in BOOLEAN /\ late \in BOOLEAN /\ mayReplace \in BOOLEAN

Place == pc \in {"open", "download", "loop", "sleep", "stat", "upload", "rename",
                 "in place", "write", "restat", "ended"}

Counts == /\ looked \in 0 .. 1
          /\ others \in 0 .. MaxForeign
          /\ faults \in 0 .. MaxFaults

EditFiles == /\ server.file \in File /\ beside \in File /\ local.file \in File /\ base \in File
         /\ server = [file |-> server.file, time |-> server.time]
         /\ local = [file |-> local.file, time |-> local.time]

Clocks == /\ server.time \in Nat /\ attrs \in Nat
          /\ local.time \in 0 .. 2 * MaxSaves /\ seen \in 0 .. 2 * MaxSaves

\* They are EditTypeOK.
LEMMA EditTypeParts == EditTypeOK <=> Bools /\ Place /\ Counts /\ EditFiles /\ Clocks
  BY DEF EditTypeOK, Bools, Place, Counts, EditFiles, Clocks

\* A request that works or fails counts at most one more fault.
LEMMA FaultCounted ==
    ASSUME Counts
    PROVE  /\ Fails \/ Full \/ Works => faults' \in 0 .. MaxFaults
           /\ faults < MaxFaults => faults + 1 \in 0 .. MaxFaults
           /\ others < MaxForeign => others + 1 \in 0 .. MaxForeign
  BY FileEditAssumption DEF Counts, Fails, Full, Works

\* A file saved on the server has a later time.
LEMMA SavedIs ==
    ASSUME NEW f, Saved(f), server.time \in Nat
    PROVE  /\ server'.file = f /\ server'.time = server.time + 1 /\ server'.time \in Nat
           /\ server' = [file |-> server'.file, time |-> server'.time]
  BY DEF Saved

\* The copy here while a save begins, and when it ends.
LEMMA SaveBeginsIs ==
    ASSUME Clocks, SaveBegins
    PROVE  \E n \in 1 .. MaxSaves :
             /\ local' = [file |-> Torn(Ours(n)), time |-> local.time + 1]
             /\ local'.file = Torn(Ours(n)) /\ local'.time = local.time + 1
             /\ local'.time \in 0 .. 2 * MaxSaves
  BY SaveTimes DEF SaveBegins, Clocks

\* The copy here when a save ends.
LEMMA SaveEndsIs ==
    ASSUME SaveEnds
    PROVE  /\ local' = [file |-> [local.file EXCEPT !.whole = TRUE], time |-> local.time + 1]
           /\ local'.file = [local.file EXCEPT !.whole = TRUE]
           /\ local'.time = local.time + 1
  BY DEF SaveEnds

-----------------------------------------------------------------------------
(* The types are kept. *)

\* The flags stay flags.
LEMMA BoolsStep == Bools /\ [EditNext]_editVars => Bools'
<1>. SUFFICES ASSUME Bools, [EditNext]_editVars PROVE Bools'  OBVIOUS
<1>. USE DEF Bools
<1>1. CASE OpenStat  BY <1>1, Zenon DEF OpenStat, Keeps, Flags
<1>2. CASE OpenDownload  BY <1>2, Zenon DEF OpenDownload, Flags
<1>3. CASE Loop  BY <1>3, Zenon DEF Loop, Keeps, Flags
<1>4. CASE Look  BY <1>4, Zenon DEF Look, Looks
<1>5. CASE Stat  BY <1>5, Zenon DEF Stat, Keeps
<1>6. CASE Upload  BY <1>6, Zenon DEF Upload, Works, Fails, Full, Flags
<1>7. CASE RenameOver  BY <1>7, Zenon DEF RenameOver, Saved, Keeps, Flags
<1>8. CASE InPlace  BY <1>8, Zenon DEF InPlace, Works, Fails, Full, Saved, Flags
<1>9. CASE WriteInPlace  BY <1>9, Zenon DEF WriteInPlace, Works, Fails, Full, Saved, Flags
<1>10. CASE Restat  BY <1>10, Zenon DEF Restat, Keeps, Flags
<1>11. CASE SaveBegins  BY <1>11, Zenon DEF SaveBegins, Opened, Flags
<1>12. CASE SaveEnds  BY <1>12, Zenon DEF SaveEnds, Opened, Keeps, Flags
<1>13. CASE Foreign
  <2>1. late' \in BOOLEAN
    <3>1. late' = Uploading  BY <1>13 DEF Foreign
    <3>2. Uploading \in BOOLEAN  BY DEF Uploading
    <3>. QED  BY <3>1, <3>2, Zenon
  <2>. QED  BY <1>13, <2>1, Zenon DEF Foreign, Flags
<1>14. CASE Overwrite  BY <1>14, Zenon DEF Overwrite, Keeps
<1>15. CASE CloseEdit  BY <1>15, Zenon DEF CloseEdit, Flags
<1>16. CASE Lose  BY <1>16, Zenon DEF Lose, Flags
<1>17. CASE UNCHANGED editVars  BY <1>17, Zenon DEF editVars
<1>. QED  BY <1>1, <1>2, <1>3, <1>4, <1>5, <1>6, <1>7, <1>8, <1>9, <1>10, <1>11, <1>12,
    <1>13, <1>14, <1>15, <1>16, <1>17, Zenon DEF EditNext, Thread

\* The thread is where it can be.
LEMMA PlaceStep == Place /\ [EditNext]_editVars => Place'
<1>. SUFFICES ASSUME Place, [EditNext]_editVars PROVE Place'  OBVIOUS
<1>. USE DEF Place
<1>1. CASE OpenStat  BY <1>1 DEF OpenStat, Keeps, Flags
<1>2. CASE OpenDownload  BY <1>2 DEF OpenDownload, Flags
<1>3. CASE Loop  BY <1>3 DEF Loop, Keeps, Flags
<1>4. CASE Look  BY <1>4 DEF Look, Looks
<1>5. CASE Stat  BY <1>5 DEF Stat, Keeps
<1>6. CASE Upload  BY <1>6 DEF Upload, Works, Fails, Full, Flags
<1>7. CASE RenameOver  BY <1>7 DEF RenameOver, Saved, Keeps, Flags
<1>8. CASE InPlace  BY <1>8 DEF InPlace, Works, Fails, Full, Saved, Flags
<1>9. CASE WriteInPlace  BY <1>9 DEF WriteInPlace, Works, Fails, Full, Saved, Flags
<1>10. CASE Restat  BY <1>10 DEF Restat, Keeps, Flags
<1>11. CASE SaveBegins  BY <1>11 DEF SaveBegins, Opened, Flags
<1>12. CASE SaveEnds  BY <1>12 DEF SaveEnds, Opened, Keeps, Flags
<1>13. CASE Foreign  BY <1>13 DEF Foreign, Saved, Flags
<1>14. CASE Overwrite  BY <1>14 DEF Overwrite, Keeps
<1>15. CASE CloseEdit  BY <1>15 DEF CloseEdit, Flags
<1>16. CASE Lose  BY <1>16 DEF Lose, Flags
<1>17. CASE UNCHANGED editVars  BY <1>17, Zenon DEF editVars
<1>. QED  BY <1>1, <1>2, <1>3, <1>4, <1>5, <1>6, <1>7, <1>8, <1>9, <1>10, <1>11, <1>12,
    <1>13, <1>14, <1>15, <1>16, <1>17, Zenon DEF EditNext, Thread

\* The counts stay within their bounds.
LEMMA CountsStep == Counts /\ [EditNext]_editVars => Counts'
<1>. SUFFICES ASSUME Counts, [EditNext]_editVars PROVE Counts'  OBVIOUS
<1>. USE DEF Counts
<1>1. CASE OpenStat  BY <1>1, Contents DEF OpenStat, Keeps, Flags
<1>2. CASE OpenDownload  BY <1>2, Contents DEF OpenDownload, Flags
<1>3. CASE Loop  BY <1>3, Contents DEF Loop, Keeps, Flags
<1>4. CASE Look  BY <1>4, Contents DEF Look, Looks
<1>5. CASE Stat  BY <1>5, Contents DEF Stat, Keeps
<1>6. CASE Upload
  <2>1. Fails \/ Full \/ Works  BY <1>6, Zenon DEF Upload
  <2>2. looked' = looked /\ others' = others  BY <1>6, Zenon DEF Upload
  <2>. QED  BY <2>1, <2>2, FaultCounted
<1>7. CASE RenameOver  BY <1>7, Contents DEF RenameOver, Saved, Keeps, Flags
<1>8. CASE InPlace
  <2>1. Fails \/ Full \/ Works  BY <1>8, Zenon DEF InPlace
  <2>2. looked' = looked /\ others' = others  BY <1>8, Zenon DEF InPlace
  <2>. QED  BY <2>1, <2>2, FaultCounted
<1>9. CASE WriteInPlace
  <2>1. Fails \/ Full \/ Works  BY <1>9, Zenon DEF WriteInPlace
  <2>2. looked' = looked /\ others' = others  BY <1>9, Zenon DEF WriteInPlace
  <2>. QED  BY <2>1, <2>2, FaultCounted
<1>10. CASE Restat  BY <1>10, Contents DEF Restat, Keeps, Flags
<1>11. CASE SaveBegins  BY <1>11, Contents DEF SaveBegins, Opened, Flags
<1>12. CASE SaveEnds  BY <1>12, Contents DEF SaveEnds, Opened, Keeps, Flags
<1>13. CASE Foreign
  <2>1. looked' = looked /\ faults' = faults /\ others < MaxForeign /\ others' = others + 1
    BY <1>13, Zenon DEF Foreign
  <2>. QED  BY <2>1, FaultCounted
<1>14. CASE Overwrite  BY <1>14, Contents DEF Overwrite, Keeps
<1>15. CASE CloseEdit  BY <1>15, Contents DEF CloseEdit, Flags
<1>16. CASE Lose
  <2>1. looked' = looked /\ others' = others /\ faults < MaxFaults /\ faults' = faults + 1
    BY <1>16, Zenon DEF Lose
  <2>. QED  BY <2>1, FaultCounted
<1>17. CASE UNCHANGED editVars  BY <1>17, Zenon DEF editVars
<1>. QED  BY <1>1, <1>2, <1>3, <1>4, <1>5, <1>6, <1>7, <1>8, <1>9, <1>10, <1>11, <1>12,
    <1>13, <1>14, <1>15, <1>16, <1>17, Zenon DEF EditNext, Thread

\* The files hold contents there are.
LEMMA FilesStep == EditFiles /\ Clocks /\ Counts /\ Opening /\ [EditNext]_editVars => EditFiles'
<1>. SUFFICES ASSUME EditFiles /\ Clocks /\ Counts /\ Opening, [EditNext]_editVars PROVE EditFiles'  OBVIOUS
<1>. USE DEF EditFiles, Clocks, Counts, Opening
<1>1. CASE OpenStat  BY <1>1, Contents DEF OpenStat, Keeps, Flags
<1>2. CASE OpenDownload  BY <1>2, Contents DEF OpenDownload, Flags
<1>3. CASE Loop  BY <1>3, Contents DEF Loop, Keeps, Flags
<1>4. CASE Look  BY <1>4, Contents DEF Look, Looks
<1>5. CASE Stat  BY <1>5, Contents DEF Stat, Keeps
<1>6. CASE Upload  BY <1>6, Contents DEF Upload, Works, Fails, Full, Flags
<1>7. CASE RenameOver
  <2>1. local' = local /\ base' = base /\ attrs' = attrs /\ seen' = seen
    BY <1>7, Zenon DEF RenameOver, Keeps
  <2>2. server' = server \/ Saved(beside)  BY <1>7, Zenon DEF RenameOver
  <2>3. beside' \in {beside, Nothing}  BY <1>7, Zenon DEF RenameOver, Keeps
  <2>4. CASE server' = server  BY <2>1, <2>3, <2>4, Contents
  <2>5. CASE Saved(beside)  BY <2>1, <2>3, <2>5, SavedIs, Contents
  <2>. QED  BY <2>2, <2>4, <2>5
<1>8. CASE InPlace
  <2>1. local' = local /\ base' = base /\ attrs' = attrs /\ seen' = seen
    BY <1>8, Zenon DEF InPlace, Keeps
  <2>2. server' = server \/ Saved(Nothing)  BY <1>8, Zenon DEF InPlace
  <2>3. beside' \in {beside, Nothing}  BY <1>8, Zenon DEF InPlace, Keeps
  <2>4. CASE server' = server  BY <2>1, <2>3, <2>4, Contents
  <2>5. CASE Saved(Nothing)  BY <2>1, <2>3, <2>5, SavedIs, Contents
  <2>. QED  BY <2>2, <2>4, <2>5
<1>9. CASE WriteInPlace  BY <1>9, Contents DEF WriteInPlace, Works, Fails, Full, Saved, Flags
<1>10. CASE Restat  BY <1>10, Contents DEF Restat, Keeps, Flags
<1>11. CASE SaveBegins
  <2>1. server' = server /\ base' = base /\ beside' = beside  BY <1>11, Zenon DEF SaveBegins
  <2>2. local'.file \in File /\ local' = [file |-> local'.file, time |-> local'.time]
    BY <1>11, SaveBeginsIs, Contents
  <2>. QED  BY <2>1, <2>2
<1>12. CASE SaveEnds  BY <1>12, Contents DEF SaveEnds, Opened, Keeps, Flags
<1>13. CASE Foreign
  <2>1. local' = local /\ base' = base /\ beside' = beside /\ Saved(Theirs(others + 1))
    BY <1>13, Zenon DEF Foreign
  <2>2. others + 1 \in 0 .. MaxForeign  BY <1>13, FaultCounted DEF Foreign
  <2>3. Theirs(others + 1) \in File  BY <2>2, Contents
  <2>. QED  BY <2>1, <2>3, SavedIs
<1>14. CASE Overwrite  BY <1>14, Contents DEF Overwrite, Keeps
<1>15. CASE CloseEdit  BY <1>15, Contents DEF CloseEdit, Flags
<1>16. CASE Lose  BY <1>16, Contents DEF Lose, Flags
<1>17. CASE UNCHANGED editVars  BY <1>17, Zenon DEF editVars
<1>. QED  BY <1>1, <1>2, <1>3, <1>4, <1>5, <1>6, <1>7, <1>8, <1>9, <1>10, <1>11, <1>12,
    <1>13, <1>14, <1>15, <1>16, <1>17, Zenon DEF EditNext, Thread

\* The times are numbers within their bounds.
LEMMA ClocksStep == Clocks /\ Opening /\ [EditNext]_editVars => Clocks'
<1>. SUFFICES ASSUME Clocks /\ Opening, [EditNext]_editVars PROVE Clocks'  OBVIOUS
<1>. USE DEF Clocks, Opening
<1>1. CASE OpenStat  BY <1>1, Contents DEF OpenStat, Keeps, Flags
<1>2. CASE OpenDownload  BY <1>2, Contents DEF OpenDownload, Flags
<1>3. CASE Loop  BY <1>3, Contents DEF Loop, Keeps, Flags
<1>4. CASE Look  BY <1>4, Contents DEF Look, Looks
<1>5. CASE Stat  BY <1>5, Contents DEF Stat, Keeps
<1>6. CASE Upload  BY <1>6, Contents DEF Upload, Works, Fails, Full, Flags
<1>7. CASE RenameOver
  <2>1. local' = local /\ base' = base /\ attrs' = attrs /\ seen' = seen
    BY <1>7, Zenon DEF RenameOver, Keeps
  <2>2. server' = server \/ Saved(beside)  BY <1>7, Zenon DEF RenameOver
  <2>3. beside' \in {beside, Nothing}  BY <1>7, Zenon DEF RenameOver, Keeps
  <2>4. CASE server' = server  BY <2>1, <2>4
  <2>5. CASE Saved(beside)  BY <2>1, <2>5, SavedIs
  <2>. QED  BY <2>2, <2>4, <2>5
<1>8. CASE InPlace
  <2>1. local' = local /\ base' = base /\ attrs' = attrs /\ seen' = seen
    BY <1>8, Zenon DEF InPlace, Keeps
  <2>2. server' = server \/ Saved(Nothing)  BY <1>8, Zenon DEF InPlace
  <2>3. beside' \in {beside, Nothing}  BY <1>8, Zenon DEF InPlace, Keeps
  <2>4. CASE server' = server  BY <2>1, <2>4
  <2>5. CASE Saved(Nothing)  BY <2>1, <2>5, SavedIs
  <2>. QED  BY <2>2, <2>4, <2>5
<1>9. CASE WriteInPlace  BY <1>9, Contents DEF WriteInPlace, Works, Fails, Full, Saved, Flags
<1>10. CASE Restat  BY <1>10, Contents DEF Restat, Keeps, Flags
<1>11. CASE SaveBegins
  <2>1. server' = server /\ attrs' = attrs /\ seen' = seen  BY <1>11, Zenon DEF SaveBegins
  <2>2. local'.time \in 0 .. 2 * MaxSaves  BY <1>11, SaveBeginsIs
  <2>. QED  BY <2>1, <2>2
<1>12. CASE SaveEnds
  <2>1. server' = server /\ attrs' = attrs /\ seen' = seen  BY <1>12, Zenon DEF SaveEnds, Keeps
  <2>2. local.time % 2 = 1  BY <1>12 DEF SaveEnds, Opened
  <2>3. local'.time \in 0 .. 2 * MaxSaves  BY <1>12, <2>2, SaveEndsIs, SaveTimes
  <2>. QED  BY <2>1, <2>3
<1>13. CASE Foreign  BY <1>13, Contents DEF Foreign, Saved, Flags
<1>14. CASE Overwrite  BY <1>14, Contents DEF Overwrite, Keeps
<1>15. CASE CloseEdit  BY <1>15, Contents DEF CloseEdit, Flags
<1>16. CASE Lose  BY <1>16, Contents DEF Lose, Flags
<1>17. CASE UNCHANGED editVars  BY <1>17, Zenon DEF editVars
<1>. QED  BY <1>1, <1>2, <1>3, <1>4, <1>5, <1>6, <1>7, <1>8, <1>9, <1>10, <1>11, <1>12,
    <1>13, <1>14, <1>15, <1>16, <1>17, Zenon DEF EditNext, Thread

\* A request that fails, or finds the disk full, is a fault.
LEMMA FaultsKnown ==
    ASSUME Counts, closed => faults > 0
    PROVE  /\ Fails \/ Full => faults' > 0
           /\ Fails \/ Full \/ Works =>
                /\ (closed => faults' > 0)
                /\ (faults' = 0 => faults = 0)
           /\ faults + 1 > 0 /\ faults + 1 # 0 /\ others + 1 # 0
           /\ \A n : n > 0 => n # 0
  BY DEF Counts, Fails, Full, Works

-----------------------------------------------------------------------------
(* The rest of the invariant is kept. *)

\* Before the file is here and after.
LEMMA OpeningStep == Opening /\ EditFiles /\ Clocks /\ Counts /\ [EditNext]_editVars => Opening'
<1>. SUFFICES ASSUME Opening /\ EditFiles /\ Clocks /\ Counts, [EditNext]_editVars PROVE Opening'  OBVIOUS
<1>. USE DEF Opening, Clocks, EditFiles
<1>1. CASE OpenStat  BY <1>1, Contents DEF OpenStat, Keeps, Flags
<1>2. CASE OpenDownload  BY <1>2, Contents DEF OpenDownload, Flags
<1>3. CASE Loop  BY <1>3, Contents DEF Loop, Keeps, Flags
<1>4. CASE Look  BY <1>4, Contents DEF Look, Looks
<1>5. CASE Stat  BY <1>5, Contents DEF Stat, Keeps
<1>6. CASE Upload  BY <1>6, Contents DEF Upload, Works, Fails, Full, Flags
<1>7. CASE RenameOver  BY <1>7, Contents DEF RenameOver, Saved, Keeps, Flags
<1>8. CASE InPlace  BY <1>8, Contents DEF InPlace, Works, Fails, Full, Saved, Flags
<1>9. CASE WriteInPlace  BY <1>9, Contents DEF WriteInPlace, Works, Fails, Full, Saved, Flags
<1>10. CASE Restat  BY <1>10, Contents DEF Restat, Keeps, Flags
<1>11. CASE SaveBegins
  <2>1. pc' = pc /\ server' = server /\ base' = base /\ base # Nothing /\ local.file.whole
        /\ local.time < 2 * MaxSaves
    BY <1>11, Zenon DEF SaveBegins, Opened
  <2>2. ~local'.file.whole /\ local'.time = local.time + 1  BY <1>11, SaveBeginsIs, Contents
  <2>3. local'.time % 2 = 1  BY <2>1, <2>2, SaveTimes
  <2>. QED  BY <2>1, <2>2, <2>3, Zenon
<1>12. CASE SaveEnds
  <2>1. pc' = pc /\ server' = server /\ base' = base /\ base # Nothing /\ ~local.file.whole
    BY <1>12 DEF SaveEnds, Opened, Keeps
  <2>2. local'.file.whole /\ local'.time = local.time + 1  BY <1>12, SaveEndsIs, Contents
  <2>3. local.time % 2 = 1  BY <2>1
  <2>4. local'.time % 2 = 0  BY <2>2, <2>3, SaveTimes
  <2>. QED  BY <2>1, <2>2, <2>4, Zenon
<1>13. CASE Foreign
  <2>1. pc' = pc /\ local' = local /\ base' = base /\ others < MaxForeign /\ Saved(Theirs(others + 1))
    BY <1>13, Zenon DEF Foreign
  <2>2. others + 1 \in 0 .. MaxForeign  BY <2>1, FaultCounted
  <2>3. server'.file.by = "theirs" /\ server'.file.whole
    BY <2>1, <2>2, SavedIs, Contents
  <2>. QED  BY <2>1, <2>3, Zenon
<1>14. CASE Overwrite  BY <1>14, Contents DEF Overwrite, Keeps
<1>15. CASE CloseEdit  BY <1>15, Contents DEF CloseEdit, Flags
<1>16. CASE Lose  BY <1>16, Contents DEF Lose, Flags
<1>17. CASE UNCHANGED editVars  BY <1>17, Zenon DEF editVars
<1>. QED  BY <1>1, <1>2, <1>3, <1>4, <1>5, <1>6, <1>7, <1>8, <1>9, <1>10, <1>11, <1>12,
    <1>13, <1>14, <1>15, <1>16, <1>17, Zenon DEF EditNext, Thread

\* The known time is never later than the file's.
LEMMA TimesStep == Times /\ Clocks /\ [EditNext]_editVars => Times'
<1>. SUFFICES ASSUME Times /\ Clocks, [EditNext]_editVars PROVE Times'  OBVIOUS
<1>. USE DEF Times, Clocks
<1>1. CASE OpenStat  BY <1>1, Contents DEF OpenStat, Keeps, Flags
<1>2. CASE OpenDownload  BY <1>2, Contents DEF OpenDownload, Flags
<1>3. CASE Loop  BY <1>3, Contents DEF Loop, Keeps, Flags
<1>4. CASE Look  BY <1>4, Contents DEF Look, Looks
<1>5. CASE Stat  BY <1>5, Contents DEF Stat, Keeps
<1>6. CASE Upload  BY <1>6, Contents DEF Upload, Works, Fails, Full, Flags
<1>7. CASE RenameOver
  <2>1. attrs' = attrs  BY <1>7, Zenon DEF RenameOver
  <2>2. server' = server \/ Saved(beside)  BY <1>7, Zenon DEF RenameOver
  <2>3. CASE server' = server  BY <2>1, <2>3
  <2>4. CASE Saved(beside)  BY <2>1, <2>4, SavedIs
  <2>. QED  BY <2>2, <2>3, <2>4
<1>8. CASE InPlace
  <2>1. attrs' = attrs  BY <1>8, Zenon DEF InPlace
  <2>2. server' = server \/ Saved(Nothing)  BY <1>8, Zenon DEF InPlace
  <2>3. CASE server' = server  BY <2>1, <2>3
  <2>4. CASE Saved(Nothing)  BY <2>1, <2>4, SavedIs
  <2>. QED  BY <2>2, <2>3, <2>4
<1>9. CASE WriteInPlace  BY <1>9, Contents DEF WriteInPlace, Works, Fails, Full, Saved, Flags
<1>10. CASE Restat  BY <1>10, Contents DEF Restat, Keeps, Flags
<1>11. CASE SaveBegins  BY <1>11, Contents DEF SaveBegins, Opened, Flags
<1>12. CASE SaveEnds  BY <1>12, Contents DEF SaveEnds, Opened, Keeps, Flags
<1>13. CASE Foreign
  <2>1. attrs' = attrs  BY <1>13, Zenon DEF Foreign
  <2>2. server' = server \/ Saved(Theirs(others + 1))  BY <1>13, Zenon DEF Foreign
  <2>3. CASE server' = server  BY <2>1, <2>3
  <2>4. CASE Saved(Theirs(others + 1))  BY <2>1, <2>4, SavedIs
  <2>. QED  BY <2>2, <2>3, <2>4
<1>14. CASE Overwrite  BY <1>14, Contents DEF Overwrite, Keeps
<1>15. CASE CloseEdit  BY <1>15, Contents DEF CloseEdit, Flags
<1>16. CASE Lose  BY <1>16, Contents DEF Lose, Flags
<1>17. CASE UNCHANGED editVars  BY <1>17, Zenon DEF editVars
<1>. QED  BY <1>1, <1>2, <1>3, <1>4, <1>5, <1>6, <1>7, <1>8, <1>9, <1>10, <1>11, <1>12,
    <1>13, <1>14, <1>15, <1>16, <1>17, Zenon DEF EditNext, Thread

\* Nobody saved and nothing failed.
LEMMA CleanStep == Clean /\ Clocks /\ Counts /\ [EditNext]_editVars => Clean'
<1>. SUFFICES ASSUME Clean /\ Clocks /\ Counts, [EditNext]_editVars PROVE Clean'  OBVIOUS
<1>. USE DEF Clean, Clocks, Counts
<1>1. CASE OpenStat  BY <1>1, Contents DEF OpenStat, Keeps, Flags
<1>2. CASE OpenDownload  BY <1>2, Contents DEF OpenDownload, Flags
<1>3. CASE Loop  BY <1>3, Contents DEF Loop, Keeps, Flags
<1>4. CASE Look  BY <1>4, Contents DEF Look, Looks
<1>5. CASE Stat
  <2>1. others' = others /\ faults' = faults /\ closed' = closed /\ server' = server /\ attrs' = attrs
    BY <1>5, Zenon DEF Stat, Keeps
  <2>2. pc = "stat" /\ (pc' = "loop" \/ pc' = "upload")  BY <1>5, Zenon DEF Stat
  <2>3. others = 0 /\ faults = 0 => ~closed /\ attrs = server.time  BY <2>2
  <2>4. others = 0 /\ faults = 0 => ~conflict'
    <3>1. conflict' = (~forced /\ (closed \/ server.time # attrs))  BY <1>5 DEF Stat
    <3>. QED  BY <2>3, <3>1
  <2>. QED  BY <2>1, <2>3, <2>4
<1>6. CASE Upload
  <2>1. others' = others /\ closed' = closed /\ server' = server /\ attrs' = attrs /\ conflict' = conflict
    BY <1>6, Zenon DEF Upload, Flags
  <2>2. pc = "upload" /\ (Fails \/ Full \/ Works)  BY <1>6, Zenon DEF Upload
  <2>3. closed => faults > 0  OBVIOUS
  <2>4. (closed => faults' > 0) /\ (faults' = 0 => faults = 0)
    BY <2>2, <2>3 DEF Fails, Full, Works
  <2>. QED  BY <2>1, <2>2, <2>4
<1>7. CASE RenameOver  BY <1>7, Contents DEF RenameOver, Saved, Keeps, Flags
<1>8. CASE InPlace
  <2>1. others' = others /\ closed' = closed /\ conflict' = conflict
    BY <1>8, Zenon DEF InPlace, Flags
  <2>2. (Works /\ pc' = "write") \/ ((Fails \/ Full) /\ pc' = "loop")  BY <1>8,
      Zenon DEF InPlace
  <2>3. closed => faults > 0  OBVIOUS
  <2>4. (closed => faults' > 0) /\ (faults' = 0 => faults = 0)
    <3>1. Fails \/ Full \/ Works  BY <2>2, Zenon
    <3>2. CASE Fails  BY <2>3, <3>2 DEF Fails
    <3>3. CASE Full
      <4>1. faults' = faults + 1  BY <3>3 DEF Full
      <4>2. faults + 1 > 0 /\ faults + 1 # 0  BY <2>3, FaultsKnown
      <4>. QED  BY <4>1, <4>2
    <3>4. CASE Works  BY <2>3, <3>4 DEF Works
    <3>. QED  BY <3>1, <3>2, <3>3, <3>4
  <2>5. CASE Works /\ pc' = "write"  BY <2>1, <2>4, <2>5
  <2>6. CASE (Fails \/ Full) /\ pc' = "loop"
    <3>1. faults' > 0 /\ faults' # 0  BY <2>6, FaultsKnown
    <3>. QED  BY <2>1, <3>1, Zenon
  <2>. QED  BY <2>2, <2>5, <2>6
<1>9. CASE WriteInPlace
  <2>1. others' = others /\ closed' = closed /\ conflict' = conflict
    BY <1>9, Zenon DEF WriteInPlace, Flags
  <2>2. (Works /\ pc' = "restat") \/ ((Fails \/ Full) /\ pc' = "loop")  BY <1>9, Zenon DEF WriteInPlace
  <2>3. closed => faults > 0  OBVIOUS
  <2>4. (closed => faults' > 0) /\ (faults' = 0 => faults = 0)
    <3>1. Fails \/ Full \/ Works  BY <2>2, Zenon
    <3>2. CASE Fails  BY <2>3, <3>2 DEF Fails
    <3>3. CASE Full
      <4>1. faults' = faults + 1  BY <3>3 DEF Full
      <4>2. faults + 1 > 0 /\ faults + 1 # 0  BY <2>3, FaultsKnown
      <4>. QED  BY <4>1, <4>2
    <3>4. CASE Works  BY <2>3, <3>4 DEF Works
    <3>. QED  BY <3>1, <3>2, <3>3, <3>4
  <2>5. CASE Works /\ pc' = "restat"  BY <2>1, <2>4, <2>5
  <2>6. CASE (Fails \/ Full) /\ pc' = "loop"
    <3>1. faults' > 0 /\ faults' # 0  BY <2>6, FaultsKnown
    <3>. QED  BY <2>1, <3>1, Zenon
  <2>. QED  BY <2>2, <2>5, <2>6
<1>10. CASE Restat  BY <1>10, Contents DEF Restat, Keeps, Flags
<1>11. CASE SaveBegins  BY <1>11, Contents DEF SaveBegins, Opened, Flags
<1>12. CASE SaveEnds  BY <1>12, Contents DEF SaveEnds, Opened, Keeps, Flags
<1>13. CASE Foreign
  <2>1. others' = others + 1 /\ faults' = faults /\ closed' = closed
    BY <1>13, Zenon DEF Foreign
  <2>2. others' # 0  BY <2>1, FaultsKnown
  <2>. QED  BY <2>1, <2>2, Zenon
<1>14. CASE Overwrite  BY <1>14, Contents DEF Overwrite, Keeps
<1>15. CASE CloseEdit  BY <1>15, Contents DEF CloseEdit, Flags
<1>16. CASE Lose
  <2>1. faults' = faults + 1  BY <1>16, Zenon DEF Lose
  <2>2. faults' > 0 /\ faults' # 0  BY <2>1, FaultsKnown
  <2>. QED  BY <2>2, Zenon
<1>17. CASE UNCHANGED editVars  BY <1>17, Zenon DEF editVars
<1>. QED  BY <1>1, <1>2, <1>3, <1>4, <1>5, <1>6, <1>7, <1>8, <1>9, <1>10, <1>11, <1>12,
    <1>13, <1>14, <1>15, <1>16, <1>17, Zenon DEF EditNext, Thread

\* The copies hold what was downloaded or saved here.
LEMMA CopiesStep == Copies /\ EditFiles /\ Clocks /\ Opening /\ [EditNext]_editVars => Copies'
<1>. SUFFICES ASSUME Copies /\ EditFiles /\ Clocks /\ Opening, [EditNext]_editVars PROVE Copies'  OBVIOUS
<1>. USE DEF Copies, Opening
<1>1. CASE OpenStat  BY <1>1, Contents DEF OpenStat, Keeps, Flags
<1>2. CASE OpenDownload  BY <1>2, Contents DEF OpenDownload, Flags
<1>3. CASE Loop  BY <1>3, Contents DEF Loop, Keeps, Flags
<1>4. CASE Look  BY <1>4, Contents DEF Look, Looks
<1>5. CASE Stat  BY <1>5, Contents DEF Stat, Keeps
<1>6. CASE Upload  BY <1>6, Contents DEF Upload, Works, Fails, Full, Flags
<1>7. CASE RenameOver  BY <1>7, Contents DEF RenameOver, Saved, Keeps, Flags
<1>8. CASE InPlace  BY <1>8, Contents DEF InPlace, Works, Fails, Full, Saved, Flags
<1>9. CASE WriteInPlace  BY <1>9, Contents DEF WriteInPlace, Works, Fails, Full, Saved, Flags
<1>10. CASE Restat  BY <1>10, Contents DEF Restat, Keeps, Flags
<1>11. CASE SaveBegins
  <2>1. pc' = pc /\ beside' = beside /\ base' = base /\ base # Nothing  BY <1>11,
      Zenon DEF SaveBegins, Opened
  <2>2. PICK n \in 1 .. MaxSaves : local'.file = Torn(Ours(n))  BY <1>11, SaveBeginsIs
  <2>3. local'.file.by = "ours"  BY <2>2 DEF Torn, Ours
  <2>. QED  BY <2>1, <2>3
<1>12. CASE SaveEnds
  <2>1. pc' = pc /\ beside' = beside /\ base' = base /\ base # Nothing /\ ~local.file.whole
    BY <1>12 DEF SaveEnds, Opened, Keeps
  <2>2. local'.file.by = local.file.by  BY <1>12, SaveEndsIs DEF EditFiles, File
  <2>3. local.file.by # "theirs"  BY <2>1
  <2>. QED  BY <2>1, <2>2, <2>3
<1>13. CASE Foreign  BY <1>13, Contents DEF Foreign, Saved, Flags
<1>14. CASE Overwrite  BY <1>14, Contents DEF Overwrite, Keeps
<1>15. CASE CloseEdit  BY <1>15, Contents DEF CloseEdit, Flags
<1>16. CASE Lose  BY <1>16, Contents DEF Lose, Flags
<1>17. CASE UNCHANGED editVars  BY <1>17, Zenon DEF editVars
<1>. QED  BY <1>1, <1>2, <1>3, <1>4, <1>5, <1>6, <1>7, <1>8, <1>9, <1>10, <1>11, <1>12,
    <1>13, <1>14, <1>15, <1>16, <1>17, Zenon DEF EditNext, Thread

\* What is saved on the server now has a time that isn't known yet.
LEMMA Later ==
    ASSUME Clocks, Times, NEW f, Saved(f), attrs' = attrs
    PROVE  server'.time # attrs'
<1>1. server'.time = server.time + 1  BY SavedIs DEF Clocks
<1>. QED  BY <1>1 DEF Clocks, Times

\* What is at the known time was downloaded.
LEMMA KnownStep == Known /\ EditFiles /\ Clocks /\ Counts /\ Times /\ Opening /\ Copies /\ [EditNext]_editVars => Known'
<1>. SUFFICES ASSUME Known /\ EditFiles /\ Clocks /\ Counts /\ Times /\ Opening /\ Copies,
    [EditNext]_editVars PROVE Known'  OBVIOUS
<1>. USE DEF Known, Opening, Copies
<1>1. CASE OpenStat  BY <1>1, Contents DEF OpenStat, Keeps, Flags
<1>2. CASE OpenDownload  BY <1>2, Contents DEF OpenDownload, Flags
<1>3. CASE Loop  BY <1>3, Contents DEF Loop, Keeps, Flags
<1>4. CASE Look  BY <1>4, Contents DEF Look, Looks
<1>5. CASE Stat  BY <1>5, Contents DEF Stat, Keeps
<1>6. CASE Upload  BY <1>6, Contents DEF Upload, Works, Fails, Full, Flags
<1>7. CASE RenameOver
  <2>1. pc = "rename" /\ forced' = forced /\ base' = base /\ attrs' = attrs /\ pc' \in {"in place", "restat"}
    BY <1>7, Zenon DEF RenameOver, Keeps
  <2>2. CASE UNCHANGED <<server, late>> /\ pc' = "in place"  BY <2>1, <2>2
  <2>3. CASE Saved(beside) /\ pc' = "restat"
    <3>1. server'.file = beside  BY <2>3, SavedIs DEF Clocks
    <3>. QED  BY <2>1, <2>3, <3>1
  <2>. QED  BY <1>7, <2>2, <2>3, Zenon DEF RenameOver
<1>8. CASE InPlace
  <2>1. pc = "in place" /\ forced' = forced /\ base' = base /\ attrs' = attrs
    BY <1>8, Zenon DEF InPlace
  <2>2. CASE UNCHANGED <<server, late>> /\ pc' = "loop"
    <3>. QED  BY <2>1, <2>2
  <2>3. CASE Saved(Nothing)
    <3>1. server'.file.by = "ours"  BY <2>3, SavedIs, Contents DEF Clocks
    <3>. QED  BY <3>1
  <2>. QED  BY <1>8, <2>2, <2>3, Zenon DEF InPlace
<1>9. CASE WriteInPlace
  <2>1. pc = "write" /\ base' = base  BY <1>9, Zenon DEF WriteInPlace
  <2>2. CASE UNCHANGED <<server, late>> /\ pc' = "loop"  BY <2>1, <2>2
  <2>3. CASE Saved(local.file) /\ pc' = "restat"
    <3>1. server'.file = local.file  BY <2>3, SavedIs DEF Clocks
    <3>. QED  BY <2>1, <2>3, <3>1
  <2>. QED  BY <1>9, <2>2, <2>3, Zenon DEF WriteInPlace
<1>10. CASE Restat  BY <1>10, Contents DEF Restat, Keeps, Flags
<1>11. CASE SaveBegins  BY <1>11, Contents DEF SaveBegins, Opened, Flags
<1>12. CASE SaveEnds  BY <1>12, Contents DEF SaveEnds, Opened, Keeps, Flags
<1>13. CASE Foreign
  <2>1. pc' = pc /\ attrs' = attrs /\ Saved(Theirs(others + 1))  BY <1>13, Zenon DEF Foreign
  <2>3. late' = Uploading  BY <1>13, Zenon DEF Foreign
  <2>4. pc \in {"upload", "rename", "in place", "write", "restat"} => late'
    BY <2>3 DEF Uploading
  <2>5. server'.time # attrs'  BY <2>1, Later
  <2>. QED  BY <2>1, <2>4, <2>5
<1>14. CASE Overwrite  BY <1>14, Contents DEF Overwrite, Keeps
<1>15. CASE CloseEdit  BY <1>15, Contents DEF CloseEdit, Flags
<1>16. CASE Lose  BY <1>16, Contents DEF Lose, Flags
<1>17. CASE UNCHANGED editVars  BY <1>17, Zenon DEF editVars
<1>. QED  BY <1>1, <1>2, <1>3, <1>4, <1>5, <1>6, <1>7, <1>8, <1>9, <1>10, <1>11, <1>12,
    <1>13, <1>14, <1>15, <1>16, <1>17, Zenon DEF EditNext, Thread

-----------------------------------------------------------------------------
\* It begins so.
LEMMA Begins == EditInit => EditInv
<1>. SUFFICES ASSUME EditInit PROVE EditInv  OBVIOUS
<1>1. Bools  BY DEF EditInit, Bools
<1>2. Place  BY DEF EditInit, Place
<1>3. Counts  BY FileEditAssumption DEF EditInit, Counts
<1>4. EditFiles
  <2>1. 0 \in 0 .. MaxForeign  BY FileEditAssumption
  <2>2. Theirs(0) \in File  BY <2>1, Contents
  <2>. QED  BY <2>2, Contents DEF EditInit, EditFiles
<1>5. Clocks  BY FileEditAssumption DEF EditInit, Clocks
<1>6. Opening
  <2>1. 0 \in 0 .. MaxForeign  BY FileEditAssumption
  <2>2. Theirs(0).by = "theirs" /\ Theirs(0).whole  BY <2>1, Contents
  <2>. QED  BY <2>2, Zenon DEF EditInit, Opening
<1>7. Times /\ Clean /\ Copies /\ Known
  BY Contents DEF EditInit, Times, Clean, Copies, Known
<1>. QED  BY <1>1, <1>2, <1>3, <1>4, <1>5, <1>6, <1>7, EditTypeParts DEF EditInv

\* And goes on so.
LEMMA EditGoes == EditInv /\ [EditNext]_editVars => EditInv'
<1>. SUFFICES ASSUME EditInv, [EditNext]_editVars PROVE EditInv'  OBVIOUS
<1>1. Bools /\ Place /\ Counts /\ EditFiles /\ Clocks  BY EditTypeParts DEF EditInv
<1>2. Bools' /\ Place' /\ Counts' /\ EditFiles' /\ Clocks'
  BY <1>1, BoolsStep, PlaceStep, CountsStep, FilesStep, ClocksStep DEF EditInv
<1>3. EditTypeOK'  BY <1>2 DEF EditTypeOK, Bools, Place, Counts, EditFiles, Clocks
<1>4. Opening' /\ Times' /\ Clean' /\ Copies' /\ Known'
  BY <1>1, OpeningStep, TimesStep, CleanStep, CopiesStep, KnownStep DEF EditInv
<1>. QED  BY <1>3, <1>4 DEF EditInv

\* The invariant.
LEMMA EditAlways == EditSpec => []EditInv
  BY Begins, EditGoes, PTL DEF EditSpec

\* Every state of an edited file, of its copies and of the flags shared with the
\* window is of its types.
THEOREM EditTypeCorrect == EditSpec => []EditTypeOK
<1>1. EditInv => EditTypeOK  BY DEF EditInv
<1>. QED  BY EditAlways, <1>1, PTL

\* A step that puts a file of this side in the place of theirs does so where it
\* may: asked for, what was there when the file was opened, or saved while the
\* upload was under way.
LEMMA OthersAreKeptStep ==
    ASSUME EditInv, [EditNext]_editVars, server.file.by = "theirs", server'.file.by = "ours"
    PROVE  forced \/ late \/ server.file = base
<1>1. CASE pc \in {"upload", "rename", "in place", "write", "restat"}
  BY <1>1 DEF EditInv, Known
<1>2. CASE pc \notin {"upload", "rename", "in place", "write", "restat"}
  <2>1. server' = server \/ Foreign
    BY <1>2 DEF EditNext, Thread, editVars, OpenStat, OpenDownload, Loop, Look, Looks, Stat, Upload,
        RenameOver,
       InPlace, WriteInPlace, Restat, SaveBegins, SaveEnds, Overwrite, CloseEdit, Lose
  <2>2. CASE Foreign
    <3>1. Clocks /\ Counts  BY EditTypeParts DEF EditInv
    <3>2. others + 1 \in 0 .. MaxForeign /\ Saved(Theirs(others + 1))
      BY <2>2, <3>1, FaultCounted DEF Foreign
    <3>3. server'.file.by = "theirs"  BY <3>1, <3>2, SavedIs, Contents DEF Clocks
    <3>. QED  BY <3>3
  <2>. QED  BY <2>1, <2>2
<1>. QED  BY <1>1, <1>2

\* A conflict is shown only where others saved or something failed, and what
\* others saved is never replaced unless the person asked for it.
THEOREM ConflictsAreRealEver == EditSpec => ConflictsAreReal
<1>1. EditInv => NoFalseConflict
  <2>. SUFFICES ASSUME EditInv, conflict PROVE others > 0 \/ faults > 0  BY DEF NoFalseConflict
  <2>1. ~(others = 0 /\ faults = 0)  BY DEF EditInv, Clean
  <2>2. others \in Nat /\ faults \in Nat  BY EditTypeParts DEF EditInv, Counts
  <2>. QED  BY <2>1, <2>2
<1>2. EditInv /\ [EditNext]_editVars =>
        [server.file.by = "theirs" /\ server'.file.by = "ours" =>
            forced \/ late \/ server.file = base]_editVars
  BY OthersAreKeptStep
<1>. QED  BY EditAlways, <1>1, <1>2, PTL DEF EditSpec, ConflictsAreReal, OthersAreKept

-----------------------------------------------------------------------------
(* The ssh config files (ConfigFiles): types.                                                                  *)

Blks == [name : Nat, keys : BOOLEAN, tag : Tag]
HostLists == [Alias -> Seq(Blks)]
Docs == [there : BOOLEAN, ignore : BOOLEAN, include : Seq(Folders), keys : BOOLEAN,
         options : BOOLEAN, hosts : HostLists]

HostKinds == {"add", "copy", "update", "id", "delete", "remove", "withdraw"}
MainKinds == {"header", "include", "ignore"}
NewKinds == {"clone", "create", "drop"}
Kinds == HostKinds \cup MainKinds \cup NewKinds \cup {"label", "options", "plain"}

\* An edit of a host names it, one of the head is of the main config, and a
\* file that is made or dropped isn't the main config.
Shaped(e) ==
    /\ e.kind \in HostKinds => e.alias \in Alias
    /\ e.kind \in MainKinds => e.file = "main"
    /\ e.kind \in NewKinds => e.file \in Folders

LastEdits == {e \in [kind : Kinds, file : ConfigFile, alias : Alias \cup {NoAlias}, block : Blks,
                     check : {"nothing", "parse", "name", "hosts"}, undo : {<<>>},
                     from : Folders, to : Folders, hosts : SUBSET Alias] : Shaped(e)}
Edits == {e \in [kind : Kinds, file : ConfigFile, alias : Alias \cup {NoAlias}, block : Blks,
                 check : {"nothing", "parse", "name", "hosts"},
                 undo : {<<>>} \cup {<<x>> : x \in LastEdits},
                 from : Folders, to : Folders, hosts : SUBSET Alias] : Shaped(e)}

WriterStates == [todo : Seq(Edits), step : {"idle", "read", "compare", "replace", "check"},
                 text : Docs, new : Docs]

ConfigTypes ==
    /\ files \in [ConfigFile -> Docs]
    /\ tree \subseteq [alias : Alias, file : ConfigFile, name : Nat]
    /\ dir \in Folders
    /\ writer \in [Writers -> WriterStates]
    /\ events \in Nat /\ fresh \in Nat
    /\ known \in [Alias -> {Gone} \cup Nat]

-----------------------------------------------------------------------------
(* Documents: what an edit leaves of one.                                  *)

\* A missing file is an empty document.
LEMMA NoDocType == NoDoc \in Docs /\ EmptyDoc \in Docs /\ EmptyDoc.there /\ ~NoDoc.there
  <1>1. [a \in Alias |-> <<>>] \in HostLists
    BY DEF HostLists
  <1>2. NoDoc \in Docs /\ ~NoDoc.there
    BY <1>1 DEF NoDoc, Docs
  <1> QED BY <1>2 DEF EmptyDoc, Docs

\* The parts of a document.
LEMMA DocParts ==
    ASSUME NEW d \in Docs
    PROVE  /\ d.there \in BOOLEAN /\ d.ignore \in BOOLEAN /\ d.include \in Seq(Folders)
           /\ d.keys \in BOOLEAN /\ d.options \in BOOLEAN /\ d.hosts \in [Alias -> Seq(Blks)]
           /\ \A a \in Alias : d.hosts[a] \in Seq(Blks)
  BY DEF Docs, HostLists

\* Tags change nothing else.
LEMMA TaggedSame ==
    ASSUME NEW b \in Blks
    PROVE  /\ Tagged(b) \in Blks /\ Tagged(b).name = b.name /\ Tagged(b).keys = b.keys
           /\ Untag(b) \in Blks /\ Untag(b).name = b.name /\ Untag(b).keys = b.keys
  BY DEF Tagged, Untag, Blks, Tag

\* The blocks of one host as those of another document, but for their Tags.
SameBlocks(s, t) ==
    /\ s \in Seq(Blks) /\ t \in Seq(Blks)
    /\ Len(s) = Len(t)
    /\ \A i \in 1 .. Len(s) : s[i].name = t[i].name /\ s[i].keys = t[i].keys

\* Arrange gives Tags and changes nothing else.
LEMMA ArrangeSame ==
    ASSUME NEW d \in Docs
    PROVE  /\ Arrange(d) \in Docs
           /\ Arrange(d).there = d.there /\ Arrange(d).ignore = d.ignore
           /\ Arrange(d).include = d.include /\ Arrange(d).keys = d.keys
           /\ Arrange(d).options = d.options
           /\ \A a \in Alias : SameBlocks(Arrange(d).hosts[a], d.hosts[a])
  <1>1. CASE ~d.options
    <2>1. Arrange(d) = d
      BY <1>1 DEF Arrange
    <2> QED BY <2>1, DocParts DEF SameBlocks
  <1>2. CASE d.options
    <2> DEFINE hs == [a \in Alias |-> [i \in DOMAIN d.hosts[a] |-> Tagged(d.hosts[a][i])]]
    <2>1. Arrange(d) = [d EXCEPT !.hosts = hs]
      BY <1>2 DEF Arrange
    <2>2. ASSUME NEW a \in Alias PROVE hs[a] \in Seq(Blks) /\ SameBlocks(hs[a], d.hosts[a])
      <3>1. d.hosts[a] \in Seq(Blks) /\ hs[a] = [i \in 1 .. Len(d.hosts[a]) |-> Tagged(d.hosts[a][i])]
        BY DocParts
      <3>2. \A i \in 1 .. Len(d.hosts[a]) : d.hosts[a][i] \in Blks
        BY <3>1
      <3>3. hs[a] \in Seq(Blks) /\ Len(hs[a]) = Len(d.hosts[a])
        BY <3>1, <3>2, TaggedSame
      <3> QED BY <3>1, <3>2, <3>3, TaggedSame DEF SameBlocks
    <2>3. hs \in HostLists
      BY <2>2 DEF HostLists
    <2> HIDE DEF hs
    <2> QED BY <2>1, <2>2, <2>3 DEF Docs
  <1> QED BY <1>1, <1>2, DocParts

\* Options given and taken away change Tags only.
LEMMA OptionsSame ==
    ASSUME NEW d \in Docs, NEW r, r = WithOptions(d) \/ r = WithoutOptions(d)
    PROVE  /\ r \in Docs
           /\ r.there = d.there /\ r.ignore = d.ignore /\ r.include = d.include /\ r.keys = d.keys
           /\ \A a \in Alias : SameBlocks(r.hosts[a], d.hosts[a])
  <1>1. CASE r = WithOptions(d)
    <2> DEFINE o == [d EXCEPT !.options = TRUE]
    <2>1. o \in Docs /\ o.hosts = d.hosts /\ o.there = d.there /\ o.ignore = d.ignore
          /\ o.include = d.include /\ o.keys = d.keys
      BY DEF Docs
    <2>2. r = Arrange(o)
      BY <1>1 DEF WithOptions
    <2> HIDE DEF o
    <2> QED BY <2>1, <2>2, ArrangeSame
  <1>2. CASE r = WithoutOptions(d)
    <2> DEFINE hs == [a \in Alias |-> [i \in DOMAIN d.hosts[a] |-> Untag(d.hosts[a][i])]]
    <2>1. r = [d EXCEPT !.options = FALSE, !.hosts = hs]
      BY <1>2 DEF WithoutOptions
    <2>2. ASSUME NEW a \in Alias PROVE hs[a] \in Seq(Blks) /\ SameBlocks(hs[a], d.hosts[a])
      <3>1. d.hosts[a] \in Seq(Blks) /\ hs[a] = [i \in 1 .. Len(d.hosts[a]) |-> Untag(d.hosts[a][i])]
        BY DocParts
      <3>2. \A i \in 1 .. Len(d.hosts[a]) : d.hosts[a][i] \in Blks
        BY <3>1
      <3>3. hs[a] \in Seq(Blks) /\ Len(hs[a]) = Len(d.hosts[a])
        BY <3>1, <3>2, TaggedSame
      <3> QED BY <3>1, <3>2, <3>3, TaggedSame DEF SameBlocks
    <2>3. hs \in HostLists
      BY <2>2 DEF HostLists
    <2> HIDE DEF hs
    <2> QED BY <2>1, <2>2, <2>3 DEF Docs
  <1> QED BY <1>1, <1>2

\* Header and Include lines are all that such an edit changes, and ssh ignores
\* NativeTerm keys after it.
LEMMA HeaderSame ==
    ASSUME NEW d \in Docs, NEW x \in Folders
    PROVE  /\ WithHeader(d, x) \in Docs
           /\ WithHeader(d, x).ignore
           /\ WithHeader(d, x).there = d.there /\ WithHeader(d, x).keys = d.keys
           /\ WithHeader(d, x).options = d.options /\ WithHeader(d, x).hosts = d.hosts
           /\ \/ x \in ToSet(d.include) /\ WithHeader(d, x).include = d.include
              \/ x \notin ToSet(d.include) /\ WithHeader(d, x).include = <<x>> \o d.include
  <1>1. (IF Contains(d.include, x) THEN d.include ELSE <<x>> \o d.include) \in Seq(Folders)
    BY DocParts
  <1>2. Contains(d.include, x) <=> x \in ToSet(d.include)
    BY DocParts DEF Contains, ToSet
  <1> QED BY <1>1, <1>2 DEF WithHeader, Docs

\* The Include lines once the folder file is another.
PointedTo(s, from, to) == [i \in DOMAIN s |-> IF s[i] = from THEN to ELSE s[i]]

\* What pointing Include at another folder leaves.
LEMMA IncludeSame ==
    ASSUME NEW d \in Docs, NEW x \in Folders, NEW y \in Folders
    PROVE  /\ ReplaceInclude(d, x, y) \in Docs /\ ReplaceInclude(d, x, y).ignore
           /\ ReplaceInclude(d, x, y).there = d.there /\ ReplaceInclude(d, x, y).keys = d.keys
           /\ ReplaceInclude(d, x, y).options = d.options /\ ReplaceInclude(d, x, y).hosts = d.hosts
           /\ PointedTo(d.include, x, y) \in Seq(Folders) /\ Len(PointedTo(d.include, x, y)) = Len(d.include)
           /\ \/ /\ y \in ToSet(PointedTo(d.include, x, y))
                 /\ ReplaceInclude(d, x, y).include = PointedTo(d.include, x, y)
              \/ /\ y \notin ToSet(PointedTo(d.include, x, y))
                 /\ ReplaceInclude(d, x, y).include = <<y>> \o PointedTo(d.include, x, y)
  <1> DEFINE s == PointedTo(d.include, x, y)
             o == [d EXCEPT !.include = s]
  <1>1. d.include \in Seq(Folders)
    BY DocParts
  <1>2. s \in Seq(Folders) /\ Len(s) = Len(d.include)
    BY <1>1 DEF PointedTo
  <1>3. ReplaceInclude(d, x, y) = WithHeader(o, y)
    BY DEF ReplaceInclude, PointedTo
  <1> HIDE DEF s
  <1>4. o \in Docs /\ o.there = d.there /\ o.keys = d.keys /\ o.options = d.options
        /\ o.hosts = d.hosts /\ o.include = s
    BY <1>2 DEF Docs
  <1> HIDE DEF o
  <1> QED BY <1>2, <1>3, <1>4, HeaderSame DEF s

\* The flags at a document's head, and its Include lines.
SameHead(d, r) ==
    /\ r.there = d.there /\ r.ignore = d.ignore /\ r.include = d.include

\* The blocks of every host but one are the same, but for their Tags.
OthersSame(d, r, a) == \A b \in Alias \ {a} : SameBlocks(r.hosts[b], d.hosts[b])

\* A block is added behind the others of its host.
LEMMA AddChange ==
    ASSUME NEW d \in Docs, NEW e \in Edits, e.kind \in {"add", "copy"}, e.alias \in Alias
    PROVE  LET r == Change(e, d)
               s == d.hosts[e.alias]
               t == r.hosts[e.alias]
           IN  /\ r \in Docs /\ SameHead(d, r) /\ r.keys = d.keys
               /\ OthersSame(d, r, e.alias)
               /\ SameBlocks(t, Append(s, e.block))
  <1> DEFINE o == [d EXCEPT !.hosts[e.alias] = Append(@, e.block)]
  <1>1. Change(e, d) = Arrange(o)
    BY DEF Change
  <1>2. e.block \in Blks
    BY DEF Edits
  <1>3. d.hosts \in [Alias -> Seq(Blks)] /\ d.hosts[e.alias] \in Seq(Blks)
    BY DocParts
  <1>4. Append(d.hosts[e.alias], e.block) \in Seq(Blks)
    BY <1>2, <1>3
  <1>5. /\ o \in Docs /\ SameHead(d, o) /\ o.keys = d.keys
        /\ o.hosts = [d.hosts EXCEPT ![e.alias] = Append(@, e.block)]
    BY <1>3, <1>4 DEF Docs, HostLists, SameHead
  <1> HIDE DEF o
  <1>6. \A b \in Alias \ {e.alias} : o.hosts[b] = d.hosts[b]
    BY <1>3, <1>5
  <1>7. o.hosts[e.alias] = Append(d.hosts[e.alias], e.block)
    BY <1>3, <1>5
  <1> QED BY <1>1, <1>5, <1>6, <1>7, ArrangeSame DEF SameHead, OthersSame

\* The first block of a host is given another name, or keys.
LEMMA UpdateChange ==
    ASSUME NEW d \in Docs, NEW e \in Edits, e.kind \in {"update", "id"}, e.alias \in Alias
    PROVE  LET r == Change(e, d)
               s == d.hosts[e.alias]
               t == r.hosts[e.alias]
           IN  /\ r \in Docs /\ SameHead(d, r) /\ r.keys = d.keys
               /\ \A b \in Alias \ {e.alias} : r.hosts[b] = d.hosts[b]
               /\ t \in Seq(Blks) /\ Len(t) = Len(s)
               /\ \A i \in 2 .. Len(t) : t[i] = s[i]
               /\ Len(t) > 0 => t[1].name = IF e.kind = "update" THEN e.block.name ELSE s[1].name
  <1> DEFINE s == d.hosts[e.alias]
  <1>1. d.hosts \in [Alias -> Seq(Blks)] /\ s \in Seq(Blks)
    BY DocParts
  <1>2. CASE s = <<>>
    <2>1. Change(e, d) = d
      BY <1>2 DEF Change
    <2> QED BY <1>1, <1>2, <2>1 DEF SameHead
  <1>3. CASE s # <<>>
    <2>1. s[1] \in Blks /\ Len(s) > 0
      BY <1>1, <1>3
    <2>2. e.block \in Blks
      BY DEF Edits
    <2> DEFINE b == IF e.kind = "update" THEN [s[1] EXCEPT !.name = e.block.name, !.keys = e.block.keys]
                    ELSE [s[1] EXCEPT !.keys = TRUE]
               t == [s EXCEPT ![1] = b]
    <2>3. b \in Blks /\ b.name = IF e.kind = "update" THEN e.block.name ELSE s[1].name
      BY <2>1, <2>2 DEF Blks
    <2>4. Change(e, d) = [d EXCEPT !.hosts = [d.hosts EXCEPT ![e.alias] = t]]
      <3>1. CASE e.kind = "update"
        BY <1>3, <3>1 DEF Change
      <3>2. CASE e.kind = "id"
        BY <1>3, <3>2 DEF Change
      <3> QED BY <3>1, <3>2
    <2> HIDE DEF b
    <2>5. t \in Seq(Blks) /\ Len(t) = Len(s) /\ t[1] = b /\ \A i \in 2 .. Len(t) : t[i] = s[i]
      BY <1>1, <2>1, <2>3
    <2> HIDE DEF t, s
    <2>6. [d.hosts EXCEPT ![e.alias] = t] \in HostLists
      BY <1>1, <2>5 DEF HostLists
    <2>7. /\ Change(e, d) \in Docs /\ SameHead(d, Change(e, d)) /\ Change(e, d).keys = d.keys
          /\ Change(e, d).hosts = [d.hosts EXCEPT ![e.alias] = t]
      BY <2>4, <2>6 DEF Docs, SameHead
    <2>8. /\ Change(e, d).hosts[e.alias] = t
          /\ \A x \in Alias \ {e.alias} : Change(e, d).hosts[x] = d.hosts[x]
      BY <1>1, <2>7
    <2>9. s = d.hosts[e.alias]
      BY DEF s
    <2> QED BY <2>3, <2>5, <2>7, <2>8, <2>9
  <1> QED BY <1>2, <1>3

\* A sequence without its first and without its last element.
LEMMA TailLen ==
    ASSUME NEW s \in Seq(Blks), s # <<>>
    PROVE  /\ Len(s) \in Nat /\ Len(s) > 0
           /\ Tail(s) \in Seq(Blks) /\ Len(Tail(s)) = Len(s) - 1
           /\ \A i \in 1 .. Len(s) - 1 : Tail(s)[i] = s[i + 1]
           /\ Front(s) \in Seq(Blks) /\ Len(Front(s)) = Len(s) - 1
           /\ \A i \in 1 .. Len(s) - 1 : Front(s)[i] = s[i]
  <1>1. Len(s) \in Nat /\ Len(s) > 0
    OBVIOUS
  <1>2. Tail(s) \in Seq(Blks) /\ Len(Tail(s)) = Len(s) - 1
    OBVIOUS
  <1>3. \A i \in 1 .. Len(s) - 1 : Tail(s)[i] = s[i + 1]
    OBVIOUS
  <1>4. Front(s) = [i \in 1 .. (Len(s) - 1) |-> s[i]]
    BY DEF Front
  <1>5. Front(s) \in Seq(Blks) /\ Len(Front(s)) = Len(s) - 1
    BY <1>1, <1>4
  <1> QED BY <1>1, <1>2, <1>3, <1>4, <1>5

\* A block of a host is taken out: the first, or the last.
LEMMA TakeChange ==
    ASSUME NEW d \in Docs, NEW e \in Edits, e.kind \in {"delete", "remove", "withdraw"},
           e.alias \in Alias
    PROVE  LET r == Change(e, d)
               s == d.hosts[e.alias]
               t == r.hosts[e.alias]
           IN  /\ r \in Docs /\ SameHead(d, r) /\ r.keys = d.keys
               /\ \A b \in Alias \ {e.alias} : r.hosts[b] = d.hosts[b]
               /\ t \in Seq(Blks) 
               /\ s = <<>> => r = d
               /\ s # <<>> => t = (IF e.kind = "withdraw" THEN Front(s) ELSE Tail(s)) /\ Len(t) = Len(s) - 1
  <1> DEFINE s == d.hosts[e.alias]
  <1>1. d.hosts \in [Alias -> Seq(Blks)] /\ s \in Seq(Blks)
    BY DocParts
  <1>2. CASE s = <<>>
    <2>1. Change(e, d) = d
      BY <1>2 DEF Change
    <2> QED BY <1>1, <1>2, <2>1 DEF SameHead
  <1>3. CASE s # <<>>
    <2> DEFINE t == IF e.kind = "withdraw" THEN Front(s) ELSE Tail(s)
    <2>1. Change(e, d) = [d EXCEPT !.hosts = [d.hosts EXCEPT ![e.alias] = t]]
      BY <1>3 DEF Change
    <2>2. Tail(s) \in Seq(Blks) /\ Len(Tail(s)) = Len(s) - 1
      BY <1>1, <1>3, TailLen
    <2>3. Front(s) \in Seq(Blks) /\ Len(Front(s)) = Len(s) - 1
      BY <1>1, <1>3, TailLen
    <2>4. t \in Seq(Blks) /\ Len(t) = Len(s) - 1
      BY <2>2, <2>3
    <2>5. t = (IF e.kind = "withdraw" THEN Front(s) ELSE Tail(s))
      OBVIOUS
    <2> HIDE DEF t, s
    <2>6. [d.hosts EXCEPT ![e.alias] = t] \in HostLists
      BY <1>1, <2>4 DEF HostLists
    <2>7. /\ Change(e, d) \in Docs /\ SameHead(d, Change(e, d)) /\ Change(e, d).keys = d.keys
          /\ Change(e, d).hosts = [d.hosts EXCEPT ![e.alias] = t]
      BY <2>1, <2>6 DEF Docs, SameHead
    <2>8. /\ Change(e, d).hosts[e.alias] = t
          /\ \A x \in Alias \ {e.alias} : Change(e, d).hosts[x] = d.hosts[x]
      BY <1>1, <2>7
    <2>9. s = d.hosts[e.alias]
      BY DEF s
    <2> QED BY <1>3, <2>4, <2>5, <2>7, <2>8, <2>9
  <1> QED BY <1>2, <1>3

\* A new folder's file has its keys and no hosts.
LEMMA CreateChange ==
    ASSUME NEW d \in Docs, NEW e \in Edits, e.kind = "create"
    PROVE  /\ Change(e, d) \in Docs /\ Change(e, d).there
           /\ \A a \in Alias : Change(e, d).hosts[a] = <<>>
  <1>1. Change(e, d) = [EmptyDoc EXCEPT !.keys = TRUE]
    BY DEF Change
  <1>2. EmptyDoc.hosts = [a \in Alias |-> <<>>]
    BY DEF EmptyDoc, NoDoc
  <1> QED BY <1>1, <1>2, NoDocType DEF Docs

\* The edits of a folder's keys and options change nothing else.
LEMMA FolderChange ==
    ASSUME NEW d \in Docs, NEW e \in Edits,
           e.kind \in {"label", "options", "plain"}
    PROVE  LET r == Change(e, d)
           IN  /\ r \in Docs /\ SameHead(d, r)
               /\ e.kind \in {"options", "plain"} => r.keys = d.keys
               /\ \A b \in Alias : SameBlocks(r.hosts[b], d.hosts[b])
  <1>1. CASE e.kind = "label"
    <2>1. Change(e, d) = [d EXCEPT !.keys = TRUE]
      BY <1>1 DEF Change
    <2> QED BY <1>1, <2>1, DocParts DEF Docs, SameHead, SameBlocks
  <1>2. CASE e.kind = "options"
    <2>1. Change(e, d) = WithOptions(d)
      BY <1>2 DEF Change
    <2> QED BY <1>2, <2>1, OptionsSame DEF SameHead
  <1>3. CASE e.kind = "plain"
    <2>1. Change(e, d) = WithoutOptions(d)
      BY <1>3 DEF Change
    <2> QED BY <1>3, <2>1, OptionsSame DEF SameHead
  <1> QED BY <1>1, <1>2, <1>3

\* IgnoreUnknown alone.
LEMMA IgnoreChange ==
    ASSUME NEW d \in Docs, NEW e \in Edits, e.kind = "ignore"
    PROVE  /\ Change(e, d) \in Docs /\ Change(e, d).ignore
           /\ Change(e, d).there = d.there /\ Change(e, d).include = d.include
           /\ Change(e, d).keys = d.keys /\ Change(e, d).options = d.options
           /\ Change(e, d).hosts = d.hosts
  <1>1. Change(e, d) = [d EXCEPT !.ignore = TRUE]
    BY DEF Change
  <1> QED BY <1>1 DEF Docs

\* Every edit makes a document of a document.
LEMMA ChangeType ==
    ASSUME ConfigTypes, NEW e \in Edits, NEW d \in Docs, e.kind # "drop"
    PROVE  Change(e, d) \in Docs
  <1>0. /\ e.from \in Folders /\ e.to \in Folders /\ e.kind \in Kinds
        /\ e.kind \in HostKinds => e.alias \in Alias
    BY DEF Edits, Shaped
  <1>1. CASE e.kind = "header"
    <2>1. Change(e, d) = WithHeader(d, e.to)
      BY <1>1 DEF Change
    <2> QED BY <1>0, <2>1, HeaderSame
  <1>2. CASE e.kind = "include"
    <2>1. Change(e, d) = ReplaceInclude(d, e.from, e.to)
      BY <1>2 DEF Change
    <2> QED BY <1>0, <2>1, IncludeSame
  <1>3. CASE e.kind = "ignore"
    BY <1>3, IgnoreChange
  <1>4. CASE e.kind = "clone"
    <2>1. Change(e, d) = files[e.from]
      BY <1>4 DEF Change
    <2>2. e.from \in ConfigFile
      BY <1>0 DEF ConfigFile
    <2> QED BY <2>1, <2>2 DEF ConfigTypes
  <1>5. CASE e.kind \in {"add", "copy"}
    BY <1>5, AddChange, <1>0 DEF HostKinds
  <1>6. CASE e.kind \in {"update", "id"}
    BY <1>6, UpdateChange, <1>0 DEF HostKinds
  <1>7. CASE e.kind \in {"delete", "remove", "withdraw"}
    BY <1>7, TakeChange, <1>0 DEF HostKinds
  <1>8. CASE e.kind \in {"label", "options", "plain"}
    BY <1>8, FolderChange
  <1>9. CASE e.kind = "create"
    BY <1>9, CreateChange
  <1> QED BY <1>1, <1>2, <1>3, <1>4, <1>5, <1>6, <1>7, <1>8, <1>9, <1>0 DEF Kinds, HostKinds, MainKinds, NewKinds

-----------------------------------------------------------------------------
(* Steps.  What a thread does at each of its steps has a few outcomes.     *)

\* The thread takes up what is left to do.
TakesUp(w, todo, fs, to) ==
    /\ writer' = [writer EXCEPT ![w] = [Idle EXCEPT !.todo = todo, !.step = IF todo = <<>> THEN "idle" ELSE "read"]]
    /\ dir' = to
    /\ tree' = IF todo = <<>> /\ w = "window" THEN Load(fs) ELSE tree

NextDir(w) == IF Current(w).kind = "include" THEN Current(w).to ELSE dir

Dropped(w) ==
    /\ At(w, "read") /\ Current(w).kind = "drop"
    /\ files' = [files EXCEPT ![Current(w).file] = NoDoc]
    /\ TakesUp(w, Tail(writer[w].todo), files', dir)
    /\ UNCHANGED <<events, fresh, known, mishaps>>

NothingToDo(w) ==
    /\ At(w, "read") /\ Current(w).kind # "drop"
    /\ Change(Current(w), files[Current(w).file]) = files[Current(w).file] /\ ~Anew(Current(w))
    /\ Current(w).kind # "delete"
    /\ TakesUp(w, Tail(writer[w].todo), files, NextDir(w))
    /\ UNCHANGED <<files, events, fresh, known, mishaps>>

NothingToDelete(w) ==
    /\ At(w, "read") /\ Current(w).kind = "delete"
    /\ TakesUp(w, Current(w).undo, files, dir)
    /\ UNCHANGED <<files, events, fresh, known, mishaps>>

ReadOn(w) ==
    /\ At(w, "read") /\ Current(w).kind # "drop"
    /\ Anew(Current(w)) \/ Change(Current(w), files[Current(w).file]) # files[Current(w).file]
    /\ writer' = [writer EXCEPT
          ![w] = [todo |-> writer[w].todo, step |-> "compare",
                  text |-> IF Anew(Current(w)) THEN NoDoc ELSE files[Current(w).file],
                  new |-> [Change(Current(w), files[Current(w).file]) EXCEPT !.there = TRUE]]]
    /\ UNCHANGED <<files, tree, dir, events, fresh, known, mishaps>>

OtherText(w) ==
    /\ At(w, "compare") /\ files[Current(w).file] # writer[w].text
    /\ TakesUp(w, Current(w).undo, files, dir)
    /\ mishaps' = mishaps \cup Mishap("undoFailed", Current(w).kind = "withdraw")
    /\ UNCHANGED <<files, events, fresh, known>>

SameText(w) ==
    /\ At(w, "compare") /\ files[Current(w).file] = writer[w].text
    /\ writer' = [writer EXCEPT ![w].step = "replace"]
    /\ UNCHANGED <<files, tree, dir, events, fresh, known, mishaps>>

Passes(w) ==
    /\ At(w, "check") /\ Checks(Current(w))
    /\ TakesUp(w, Tail(writer[w].todo), files, NextDir(w))
    /\ known' = Knows(Current(w))
    /\ UNCHANGED <<files, events, fresh, mishaps>>

Refused(w) ==
    /\ At(w, "check") /\ ~Checks(Current(w))
    /\ files' = [files EXCEPT ![Current(w).file] = writer[w].text]
    /\ TakesUp(w, Current(w).undo, files', dir)
    /\ mishaps' = mishaps \cup Mishap("raced", Races(w, Current(w).file))
    /\ UNCHANGED <<events, fresh, known>>

\* These are all.
LEMMA StepCases ==
    ASSUME ConfigTypes, NEW w \in Writers, Step(w)
    PROVE  \/ Dropped(w) \/ NothingToDo(w) \/ NothingToDelete(w) \/ ReadOn(w)
           \/ OtherText(w) \/ SameText(w) \/ Replace(w) \/ Passes(w) \/ Refused(w)
  <1>1. CASE Read(w)
    <2>1. CASE Current(w).kind = "drop"
      BY <1>1, <2>1 DEF Read, Dropped, Goes, TakesUp, Bounds
    <2>2. CASE Current(w).kind # "drop" /\ Change(Current(w), files[Current(w).file]) = files[Current(w).file]
               /\ ~Anew(Current(w))
      <3>1. CASE Current(w).kind = "delete"
        <4>1. mishaps' = mishaps /\ TakesUp(w, Current(w).undo, files, dir)
          BY <1>1, <2>2, <3>1 DEF Read, GivesUp, Goes, TakesUp, Mishap
        <4> QED BY <1>1, <2>2, <3>1, <4>1 DEF Read, NothingToDelete, Bounds
      <3>2. CASE Current(w).kind # "delete"
        BY <1>1, <2>2, <3>2 DEF Read, NothingToDo, NextDir, Done, Goes, TakesUp, Bounds
      <3> QED BY <3>1, <3>2
    <2>3. CASE Current(w).kind # "drop" /\ (Anew(Current(w)) \/ Change(Current(w), files[Current(w).file]) # files[Current(w).file])
      BY <1>1, <2>3 DEF Read, ReadOn, Bounds
    <2> QED BY <2>1, <2>2, <2>3
  <1>2. CASE Compare(w)
    BY <1>2 DEF Compare, OtherText, SameText, GivesUp, Goes, TakesUp, Bounds
  <1>3. CASE Check(w)
    BY <1>3 DEF Check, Passes, Refused, NextDir, Done, Goes, TakesUp, Bounds
  <1> QED BY <1>1, <1>2, <1>3 DEF Step

-----------------------------------------------------------------------------
(* What the operations are made of are edits.                              *)

\* An edit as it is put together: its type and its parts.
LEMMA EditType ==
    ASSUME NEW k \in Kinds, NEW f \in ConfigFile, NEW a \in Alias \cup {NoAlias}, NEW b \in Blks,
           NEW c \in {"nothing", "parse", "name", "hosts"}, dir \in Folders,
           k \in HostKinds => a \in Alias, k \in MainKinds => f = "main",
           k \in NewKinds => f \in Folders
    PROVE  /\ Edit(k, f, a, b, c) \in LastEdits
           /\ Edit(k, f, a, b, c).kind = k /\ Edit(k, f, a, b, c).file = f
           /\ Edit(k, f, a, b, c).alias = a /\ Edit(k, f, a, b, c).block = b
           /\ Edit(k, f, a, b, c).check = c /\ Edit(k, f, a, b, c).undo = <<>>
           /\ Edit(k, f, a, b, c).to = dir /\ Edit(k, f, a, b, c).from = "old"
           /\ Edit(k, f, a, b, c).hosts = {}
  <1>1. /\ Edit(k, f, a, b, c) \in
              [kind : Kinds, file : ConfigFile, alias : Alias \cup {NoAlias}, block : Blks,
               check : {"nothing", "parse", "name", "hosts"}, undo : {<<>>},
               from : Folders, to : Folders, hosts : SUBSET Alias]
        /\ Edit(k, f, a, b, c).kind = k /\ Edit(k, f, a, b, c).file = f
        /\ Edit(k, f, a, b, c).alias = a /\ Edit(k, f, a, b, c).block = b
        /\ Edit(k, f, a, b, c).check = c /\ Edit(k, f, a, b, c).undo = <<>>
        /\ Edit(k, f, a, b, c).to = dir /\ Edit(k, f, a, b, c).from = "old"
        /\ Edit(k, f, a, b, c).hosts = {}
    BY DEF Edit, Folders
  <1> QED BY <1>1 DEF LastEdits, Shaped

\* An edit with nothing to do after a failure is an edit.
LEMMA LastEditsAreEdits == LastEdits \subseteq Edits
  BY DEF LastEdits, Edits, Shaped

\* The blocks given to edits.
LEMMA BlockTypes ==
    ASSUME fresh \in Nat
    PROVE  NoBlock \in Blks /\ NewBlock \in Blks
  BY DEF NoBlock, NewBlock, Block, Blks, Tag

\* Edits of no host.
LEMMA PlainType ==
    ASSUME ConfigTypes, NEW k \in Kinds \ HostKinds, NEW f \in ConfigFile,
           k \in MainKinds => f = "main", k \in NewKinds => f \in Folders
    PROVE  /\ Plain(k, f) \in LastEdits
           /\ Plain(k, f).kind = k /\ Plain(k, f).file = f /\ Plain(k, f).check = "parse"
           /\ Plain(k, f).undo = <<>> /\ Plain(k, f).to = dir /\ Plain(k, f).from = "old"
           /\ Plain(k, f).block = NoBlock
  <1>1. NoBlock \in Blks /\ dir \in Folders
    BY BlockTypes DEF ConfigTypes
  <1> QED BY <1>1, EditType DEF Plain

\* The two edits of the head that come before others.
LEMMA HeaderTypes ==
    ASSUME ConfigTypes
    PROVE  /\ Header \in LastEdits /\ Header.kind = "header" /\ Header.file = "main" /\ Header.to = dir
           /\ Header.check = "parse" /\ Header.undo = <<>> /\ Header.block = NoBlock
           /\ Ignore \in LastEdits /\ Ignore.kind = "ignore" /\ Ignore.file = "main"
           /\ Ignore.check = "parse" /\ Ignore.undo = <<>> /\ Ignore.block = NoBlock
  <1>1. "header" \in Kinds \ HostKinds /\ "ignore" \in Kinds \ HostKinds /\ "main" \in ConfigFile
        /\ "header" \notin NewKinds /\ "ignore" \notin NewKinds
    BY DEF Kinds, HostKinds, MainKinds, NewKinds, ConfigFile
  <1> QED BY <1>1, PlainType DEF Header, Ignore

\* Edits of the folders.
LEMMA FolderEdits ==
    ASSUME ConfigTypes
    PROVE  LET c == Plain("clone", "new")
               d == Plain("drop", "new")
               i == Plain("include", "main")
           IN  /\ c \in LastEdits /\ c.kind = "clone" /\ c.file = "new" /\ c.undo = <<>> /\ c.block = NoBlock
               /\ d \in LastEdits /\ d.kind = "drop" /\ d.file = "new" /\ d.undo = <<>> /\ d.block = NoBlock
               /\ i \in LastEdits /\ i.kind = "include" /\ i.file = "main" /\ i.undo = <<>> /\ i.block = NoBlock
               /\ i.check = "parse" /\ i.from = "old"
  <1>1. "main" \in ConfigFile /\ "new" \in ConfigFile /\ "new" \in Folders
    BY DEF ConfigFile, Folders
  <1>2. "clone" \in Kinds \ HostKinds /\ "clone" \notin MainKinds
    BY DEF Kinds, HostKinds, MainKinds, NewKinds
  <1>3. "drop" \in Kinds \ HostKinds /\ "drop" \notin MainKinds
    BY DEF Kinds, HostKinds, MainKinds, NewKinds
  <1>4. "include" \in Kinds \ HostKinds /\ "include" \notin NewKinds
    BY DEF Kinds, HostKinds, MainKinds, NewKinds
  <1>5. /\ Plain("clone", "new") \in LastEdits /\ Plain("clone", "new").kind = "clone"
        /\ Plain("clone", "new").file = "new" /\ Plain("clone", "new").undo = <<>>
        /\ Plain("clone", "new").block = NoBlock
    BY <1>1, <1>2, PlainType
  <1>6. /\ Plain("drop", "new") \in LastEdits /\ Plain("drop", "new").kind = "drop"
        /\ Plain("drop", "new").file = "new" /\ Plain("drop", "new").undo = <<>>
        /\ Plain("drop", "new").block = NoBlock
    BY <1>1, <1>3, PlainType
  <1>7. /\ Plain("include", "main") \in LastEdits /\ Plain("include", "main").kind = "include"
        /\ Plain("include", "main").file = "main" /\ Plain("include", "main").undo = <<>>
        /\ Plain("include", "main").block = NoBlock
        /\ Plain("include", "main").check = "parse" /\ Plain("include", "main").from = "old"
    BY <1>1, <1>4, PlainType
  <1> QED BY <1>5, <1>6, <1>7

\* The block of a host that is moved.
LEMMA BlockOfType ==
    ASSUME ConfigTypes, NEW h \in tree, Has(h)
    PROVE  /\ h.alias \in Alias /\ h.file \in ConfigFile /\ h.name \in Nat
           /\ files[h.file] \in Docs /\ Len(files[h.file].hosts[h.alias]) > 0
           /\ files[h.file].hosts[h.alias][1] \in Blks
           /\ BlockOf(h) \in Blks
           /\ BlockOf(h).keys = files[h.file].hosts[h.alias][1].keys
           /\ BlockOf(h).name = files[h.file].hosts[h.alias][1].name
           /\ [BlockOf(h) EXCEPT !.name = h.name] \in Blks
           /\ [BlockOf(h) EXCEPT !.name = h.name].name = h.name
  <1>1. h.alias \in Alias /\ h.file \in ConfigFile /\ h.name \in Nat
    BY DEF ConfigTypes
  <1>2. files[h.file] \in Docs
    BY <1>1 DEF ConfigTypes
  <1>3. files[h.file].hosts[h.alias] \in Seq(Blks) /\ files[h.file].hosts[h.alias] # <<>>
    BY <1>1, <1>2, DocParts DEF Has, Hosts
  <1>4. files[h.file].hosts[h.alias][1] \in Blks /\ Len(files[h.file].hosts[h.alias]) > 0
    BY <1>3
  <1>5. /\ BlockOf(h) \in Blks /\ BlockOf(h).keys = files[h.file].hosts[h.alias][1].keys
        /\ BlockOf(h).name = files[h.file].hosts[h.alias][1].name
    BY <1>4, TaggedSame DEF BlockOf
  <1>6. /\ [BlockOf(h) EXCEPT !.name = h.name] \in Blks
        /\ [BlockOf(h) EXCEPT !.name = h.name].name = h.name
    BY <1>1, <1>5 DEF Blks
  <1> QED BY <1>1, <1>2, <1>4, <1>5, <1>6

\* Two edits, and two behind a first.
LEMMA Joined ==
    ASSUME NEW x \in Edits, NEW y \in Edits, NEW z \in Edits
    PROVE  <<>> \o <<y, z>> = <<y, z>> /\ <<x>> \o <<y, z>> = <<x, y, z>>
  <1>1. <<y, z>> \in Seq(Edits) /\ <<x>> \in Seq(Edits) /\ Len(<<y, z>>) = 2 /\ Len(<<x>>) = 1
    OBVIOUS
  <1>2. <<>> \o <<y, z>> = <<y, z>>
    BY <1>1
  <1> DEFINE s == <<x>> \o <<y, z>>
             t == <<x, y, z>>
  <1>3. s \in Seq(Edits) /\ Len(s) = 3 /\ s[1] = x /\ s[2] = y /\ s[3] = z
    BY <1>1
  <1>4. t \in Seq(Edits) /\ Len(t) = 3 /\ t[1] = x /\ t[2] = y /\ t[3] = z
    OBVIOUS
  <1> HIDE DEF s, t
  <1>5. \A i \in 1 .. 3 : s[i] = t[i]
    BY <1>3, <1>4
  <1>6. s = [i \in 1 .. 3 |-> s[i]] /\ t = [i \in 1 .. 3 |-> t[i]]
    BY <1>3, <1>4
  <1>7. s = t
    BY <1>5, <1>6
  <1> QED BY <1>2, <1>7 DEF s, t

\* A move's second edit, with what takes the copy out again.
Removal(h, f) == [TakenFrom(h) EXCEPT !.undo = <<Withdrawal(h, f)>>]

\* The parts of a move.
LEMMA MoveTypes ==
    ASSUME ConfigTypes, NEW h \in tree, Has(h), NEW f \in {"main", dir} \ {h.file}
    PROVE  /\ CopyOf(h, f) \in LastEdits /\ CopyOf(h, f).kind = "copy" /\ CopyOf(h, f).file = f
           /\ CopyOf(h, f).alias = h.alias /\ CopyOf(h, f).block = BlockOf(h)
           /\ CopyOf(h, f).check = "nothing" /\ CopyOf(h, f).undo = <<>>
           /\ Withdrawal(h, f) \in LastEdits /\ Withdrawal(h, f).kind = "withdraw"
           /\ Withdrawal(h, f).file = f /\ Withdrawal(h, f).alias = h.alias
           /\ Withdrawal(h, f).block = NoBlock /\ Withdrawal(h, f).check = "nothing"
           /\ Withdrawal(h, f).undo = <<>>
           /\ Removal(h, f) \in Edits /\ Removal(h, f).kind = "remove" /\ Removal(h, f).file = h.file
           /\ Removal(h, f).alias = h.alias /\ Removal(h, f).block.name = h.name
           /\ Removal(h, f).check = "name" /\ Removal(h, f).undo = <<Withdrawal(h, f)>>
           /\ f \in ConfigFile
           /\ MoveHost(h, f) = IF f = "main" THEN <<CopyOf(h, f), Removal(h, f)>>
                              ELSE <<Header, CopyOf(h, f), Removal(h, f)>>
  <1>1. /\ {"copy", "withdraw", "remove"} \subseteq Kinds \ (MainKinds \cup NewKinds)
        /\ f \in ConfigFile /\ dir \in Folders /\ fresh \in Nat
    BY DEF Kinds, HostKinds, MainKinds, NewKinds, ConfigTypes, ConfigFile
  <1>2. /\ h.alias \in Alias /\ h.file \in ConfigFile /\ BlockOf(h) \in Blks /\ NoBlock \in Blks
        /\ [BlockOf(h) EXCEPT !.name = h.name] \in Blks
        /\ [BlockOf(h) EXCEPT !.name = h.name].name = h.name
    BY <1>1, BlockOfType, BlockTypes
  <1>3. /\ CopyOf(h, f) \in LastEdits /\ CopyOf(h, f).kind = "copy" /\ CopyOf(h, f).file = f
        /\ CopyOf(h, f).alias = h.alias /\ CopyOf(h, f).block = BlockOf(h)
        /\ CopyOf(h, f).check = "nothing" /\ CopyOf(h, f).undo = <<>>
    BY <1>1, <1>2, EditType DEF CopyOf
  <1>4. /\ Withdrawal(h, f) \in LastEdits /\ Withdrawal(h, f).kind = "withdraw"
        /\ Withdrawal(h, f).file = f /\ Withdrawal(h, f).alias = h.alias
        /\ Withdrawal(h, f).block = NoBlock /\ Withdrawal(h, f).check = "nothing"
        /\ Withdrawal(h, f).undo = <<>>
    BY <1>1, <1>2, EditType DEF Withdrawal
  <1>5. /\ TakenFrom(h) \in LastEdits /\ TakenFrom(h).kind = "remove" /\ TakenFrom(h).file = h.file
        /\ TakenFrom(h).alias = h.alias /\ TakenFrom(h).block.name = h.name /\ TakenFrom(h).check = "name"
    <2> DEFINE b == [BlockOf(h) EXCEPT !.name = h.name]
    <2>1. TakenFrom(h) = Edit("remove", h.file, h.alias, b, "name")
      BY DEF TakenFrom
    <2>2. b \in Blks /\ b.name = h.name
      BY <1>2
    <2> HIDE DEF b
    <2> QED BY <1>1, <1>2, <2>1, <2>2, EditType
  <1>6. /\ Removal(h, f) \in Edits /\ Removal(h, f).kind = "remove" /\ Removal(h, f).file = h.file
        /\ Removal(h, f).alias = h.alias /\ Removal(h, f).block.name = h.name
        /\ Removal(h, f).check = "name" /\ Removal(h, f).undo = <<Withdrawal(h, f)>>
    BY <1>4, <1>5 DEF LastEdits, Edits, Shaped, Removal
  <1>7. MoveHost(h, f) = IF f = "main" THEN <<CopyOf(h, f), Removal(h, f)>>
                         ELSE <<Header, CopyOf(h, f), Removal(h, f)>>
    <2>1. MoveHost(h, f) = MoveHeader(f) \o <<CopyOf(h, f), Removal(h, f)>>
      BY DEF MoveHost, Removal
    <2>2. Header \in Edits /\ CopyOf(h, f) \in Edits
      BY <1>3, HeaderTypes, LastEditsAreEdits
    <2> QED BY <1>6, <2>1, <2>2, Joined DEF MoveHeader
  <1> QED BY <1>1, <1>3, <1>4, <1>6, <1>7

\* The parts of moving the folders, and of another place for them.
LEMMA FoldersTypes ==
    ASSUME ConfigTypes
    PROVE  LET c == MoveFolders[1]
               i == MoveFolders[2]
               d == i.undo[1]
               x == AdoptFolders[1]
           IN  /\ MoveFolders = <<c, i>> /\ AdoptFolders = <<x>>
               /\ c \in LastEdits /\ c.kind = "clone" /\ c.file = "new" /\ c.check = "nothing"
               /\ c.from = dir /\ c.undo = <<>> /\ c.block = NoBlock
               /\ i \in Edits /\ i.kind = "include" /\ i.file = "main" /\ i.check = "hosts" /\ i.to = "new"
               /\ i.from = "old" /\ i.hosts = Aliases(files) /\ i.undo = <<d>> /\ i.block = NoBlock
               /\ d \in LastEdits /\ d.kind = "drop" /\ d.file = "new" /\ d.check = "nothing"
               /\ d.undo = <<>> /\ d.block = NoBlock
               /\ x \in LastEdits /\ x.kind = "include" /\ x.file = "main" /\ x.check = "parse"
               /\ x.to = "new" /\ x.from = "old" /\ x.undo = <<>> /\ x.block = NoBlock
  <1> DEFINE c == [Plain("clone", "new") EXCEPT !.check = "nothing", !.from = dir]
             d == [Plain("drop", "new") EXCEPT !.check = "nothing"]
             i == [Plain("include", "main")
                    EXCEPT !.to = "new", !.check = "hosts", !.hosts = Aliases(files), !.undo = <<d>>]
             x == [Plain("include", "main") EXCEPT !.to = "new"]
  <1>1. /\ "clone" \in Kinds \ HostKinds /\ "drop" \in Kinds \ HostKinds
        /\ "include" \in Kinds \ HostKinds
        /\ "clone" \notin MainKinds /\ "drop" \notin MainKinds /\ "include" \notin NewKinds
        /\ "main" \in ConfigFile /\ "new" \in ConfigFile /\ "new" \in Folders /\ "old" \in Folders
    BY DEF Kinds, HostKinds, MainKinds, NewKinds, ConfigFile, Folders
  <1>2. dir \in Folders /\ Aliases(files) \in SUBSET Alias
    BY DEF ConfigTypes, Aliases, Hosts
  <1>3. /\ c \in LastEdits /\ c.kind = "clone" /\ c.file = "new" /\ c.check = "nothing"
        /\ c.from = dir /\ c.undo = <<>> /\ c.block = NoBlock
    <2> DEFINE p == Plain("clone", "new")
    <2>1. p \in LastEdits /\ p.kind = "clone" /\ p.file = "new" /\ p.undo = <<>> /\ p.block = NoBlock
      BY FolderEdits
    <2> HIDE DEF p
    <2>2. c = [p EXCEPT !.check = "nothing", !.from = dir]
      BY DEF p
    <2> HIDE DEF c
    <2> QED BY <1>2, <2>1, <2>2 DEF LastEdits, Shaped
  <1>4. /\ d \in LastEdits /\ d.kind = "drop" /\ d.file = "new" /\ d.check = "nothing"
        /\ d.undo = <<>> /\ d.block = NoBlock
    <2> DEFINE p == Plain("drop", "new")
    <2>1. p \in LastEdits /\ p.kind = "drop" /\ p.file = "new" /\ p.undo = <<>> /\ p.block = NoBlock
      BY FolderEdits
    <2> HIDE DEF p
    <2>2. d = [p EXCEPT !.check = "nothing"]
      BY DEF p
    <2> HIDE DEF d
    <2> QED BY <2>1, <2>2 DEF LastEdits, Shaped
  <1>5. /\ x \in LastEdits /\ x.kind = "include" /\ x.file = "main" /\ x.check = "parse"
        /\ x.to = "new" /\ x.from = "old" /\ x.undo = <<>> /\ x.block = NoBlock
    <2> DEFINE p == Plain("include", "main")
    <2>1. /\ p \in LastEdits /\ p.kind = "include" /\ p.file = "main" /\ p.undo = <<>> /\ p.block = NoBlock
          /\ p.check = "parse" /\ p.from = "old"
      BY FolderEdits
    <2> HIDE DEF p
    <2>2. x = [p EXCEPT !.to = "new"]
      BY DEF p
    <2> HIDE DEF x
    <2> QED BY <1>1, <2>1, <2>2 DEF LastEdits, Shaped
  <1> HIDE DEF d
  <1>6. /\ i \in Edits /\ i.kind = "include" /\ i.file = "main" /\ i.check = "hosts" /\ i.to = "new"
        /\ i.from = "old" /\ i.hosts = Aliases(files) /\ i.undo = <<d>> /\ i.block = NoBlock
    <2> DEFINE p == Plain("include", "main")
               hosts == Aliases(files)
    <2>1. /\ p \in LastEdits /\ p.kind = "include" /\ p.file = "main" /\ p.block = NoBlock
          /\ p.from = "old"
      BY FolderEdits
    <2> HIDE DEF p, hosts
    <2>2. i = [p EXCEPT !.to = "new", !.check = "hosts", !.hosts = hosts, !.undo = <<d>>]
      BY DEF p, hosts
    <2>3. hosts \in SUBSET Alias
      BY <1>2 DEF hosts
    <2> HIDE DEF i
    <2>4. /\ i \in Edits /\ i.kind = "include" /\ i.file = "main" /\ i.check = "hosts" /\ i.to = "new"
          /\ i.from = "old" /\ i.hosts = hosts /\ i.undo = <<d>> /\ i.block = NoBlock
      BY <1>1, <1>4, <2>1, <2>2, <2>3 DEF LastEdits, Edits, Shaped
    <2> QED BY <2>4 DEF hosts
  <1> HIDE DEF c, i, x
  <1>7. MoveFolders = <<c, i>> /\ AdoptFolders = <<x>>
    BY DEF MoveFolders, AdoptFolders, c, i, x, d
  <1>8. MoveFolders[1] = c /\ MoveFolders[2] = i /\ AdoptFolders[1] = x /\ i.undo[1] = d
    BY <1>6, <1>7
  <1> QED BY <1>3, <1>4, <1>5, <1>6, <1>7, <1>8

-----------------------------------------------------------------------------
(* Type correctness.                                                       *)

\* An edit alone, and with others, is a sequence of edits.
LEMMA TodoTypes ==
    ASSUME NEW x \in Edits, NEW y \in Edits, NEW z \in Edits
    PROVE  /\ <<x>> \in Seq(Edits) /\ <<x>> # <<>> /\ Head(<<x>>) = x /\ Tail(<<x>>) = <<>>
           /\ <<x, y>> \in Seq(Edits) /\ <<x, y>> # <<>> /\ Head(<<x, y>>) = x /\ Tail(<<x, y>>) = <<y>>
           /\ <<x, y, z>> \in Seq(Edits) /\ <<x, y, z>> # <<>> /\ Head(<<x, y, z>>) = x
           /\ Tail(<<x, y, z>>) = <<y, z>>
  OBVIOUS

\* What an operation begins with.
LEMMA OperationTypes ==
    ASSUME ConfigTypes
    PROVE  /\ \A a \in Alias, f \in ConfigFile : CreateHost(a, f) \in Seq(Edits) /\ CreateHost(a, f) # <<>>
           /\ \A a \in Alias : ImportFolder(a) \in Seq(Edits) /\ ImportFolder(a) # <<>>
           /\ \A h \in tree : /\ UpdateHost(h) \in Seq(Edits) /\ UpdateHost(h) # <<>>
                              /\ DeleteHost(h) \in Seq(Edits) /\ DeleteHost(h) # <<>>
                              /\ EnsureId(h) \in Seq(Edits) /\ EnsureId(h) # <<>>
           /\ \A h \in tree : \A f \in {"main", dir} \ {h.file} :
                 Has(h) => MoveHost(h, f) \in Seq(Edits) /\ MoveHost(h, f) # <<>>
           /\ CreateFolder \in Seq(Edits) /\ CreateFolder # <<>>
           /\ \A k \in {"label", "options", "plain"} : SetFolder(k) \in Seq(Edits) /\ SetFolder(k) # <<>>
           /\ MoveFolders \in Seq(Edits) /\ MoveFolders # <<>>
           /\ AdoptFolders \in Seq(Edits) /\ AdoptFolders # <<>>
  <1>1. /\ dir \in Folders /\ dir \in ConfigFile /\ "main" \in ConfigFile /\ NoBlock \in Blks /\ NewBlock \in Blks
        /\ Header \in Edits /\ Ignore \in Edits
    BY HeaderTypes, LastEditsAreEdits, BlockTypes DEF ConfigTypes, ConfigFile
  <1>2. /\ {"add", "update", "delete", "id"} \subseteq Kinds \ (MainKinds \cup NewKinds)
        /\ {"label", "options", "plain"} \subseteq Kinds \ (HostKinds \cup MainKinds \cup NewKinds)
        /\ "create" \in Kinds \ (HostKinds \cup MainKinds)
    BY DEF Kinds, HostKinds, MainKinds, NewKinds
  <1>3. ASSUME NEW k \in {"add", "update", "delete", "id"}, NEW f \in ConfigFile, NEW a \in Alias,
               NEW b \in {NoBlock, NewBlock}, NEW c \in {"parse", "name"}
        PROVE  Edit(k, f, a, b, c) \in LastEdits /\ Edit(k, f, a, b, c) \in Edits
    BY <1>1, <1>2, EditType, LastEditsAreEdits
  <1>4. ASSUME NEW a \in Alias, NEW f \in ConfigFile
        PROVE  CreateHost(a, f) \in Seq(Edits) /\ CreateHost(a, f) # <<>>
    <2>1. Edit("add", f, a, NewBlock, "name") \in Edits
      BY <1>3
    <2> QED BY <1>1, <2>1, TodoTypes DEF CreateHost
  <1>5. ASSUME NEW a \in Alias
        PROVE  ImportFolder(a) \in Seq(Edits) /\ ImportFolder(a) # <<>>
    <2> DEFINE add == Edit("add", dir, a, NewBlock, "name")
    <2>1. add \in LastEdits
      BY <1>1, <1>3
    <2> HIDE DEF add
    <2>2. [add EXCEPT !.undo = <<add>>] \in Edits
      BY <2>1 DEF LastEdits, Edits, Shaped
    <2> QED BY <1>1, <2>2, TodoTypes DEF ImportFolder, add
  <1>6. ASSUME NEW h \in tree
        PROVE  /\ UpdateHost(h) \in Seq(Edits) /\ UpdateHost(h) # <<>>
               /\ DeleteHost(h) \in Seq(Edits) /\ DeleteHost(h) # <<>>
               /\ EnsureId(h) \in Seq(Edits) /\ EnsureId(h) # <<>>
    <2>1. h.alias \in Alias /\ h.file \in ConfigFile
      BY DEF ConfigTypes
    <2>2. /\ Edit("update", h.file, h.alias, NewBlock, "name") \in Edits
          /\ Edit("delete", h.file, h.alias, NoBlock, "parse") \in Edits
          /\ Edit("id", h.file, h.alias, NoBlock, "parse") \in Edits
      BY <1>3, <2>1
    <2> QED BY <1>1, <2>2, TodoTypes DEF UpdateHost, DeleteHost, EnsureId
  <1>7. ASSUME NEW h \in tree, NEW f \in {"main", dir} \ {h.file}, Has(h)
        PROVE  MoveHost(h, f) \in Seq(Edits) /\ MoveHost(h, f) # <<>>
    <2>1. PICK c \in Edits, r \in Edits : MoveHost(h, f) = IF f = "main" THEN <<c, r>> ELSE <<Header, c, r>>
      BY <1>7, MoveTypes, LastEditsAreEdits
    <2> QED BY <1>1, <2>1, TodoTypes
  <1>8. CreateFolder \in Seq(Edits) /\ CreateFolder # <<>>
    <2>1. Plain("create", dir) \in Edits
      BY <1>1, <1>2, PlainType, LastEditsAreEdits
    <2> QED BY <1>1, <2>1, TodoTypes DEF CreateFolder
  <1>9. ASSUME NEW k \in {"label", "options", "plain"}
        PROVE  SetFolder(k) \in Seq(Edits) /\ SetFolder(k) # <<>>
    <2>1. Plain(k, dir) \in Edits
      BY <1>1, <1>2, PlainType, LastEditsAreEdits
    <2> QED BY <1>1, <2>1, TodoTypes DEF SetFolder
  <1>10. /\ MoveFolders \in Seq(Edits) /\ MoveFolders # <<>>
         /\ AdoptFolders \in Seq(Edits) /\ AdoptFolders # <<>>
    <2>1. PICK c \in Edits, i \in Edits, x \in Edits : MoveFolders = <<c, i>> /\ AdoptFolders = <<x>>
      BY FoldersTypes, LastEditsAreEdits
    <2> QED BY <2>1, TodoTypes
  <1> QED BY <1>4, <1>5, <1>6, <1>7, <1>8, <1>9, <1>10

\* The edit a thread is at.
LEMMA CurrentType ==
    ASSUME ConfigTypes, NEW w \in Writers, writer[w].todo # <<>>
    PROVE  /\ Current(w) \in Edits /\ Tail(writer[w].todo) \in Seq(Edits)
           /\ Current(w).kind \in Kinds /\ Current(w).file \in ConfigFile /\ Current(w).block \in Blks
           /\ Current(w).undo \in Seq(Edits)
           /\ Current(w).undo = <<>> \/ \E x \in LastEdits : Current(w).undo = <<x>>
           /\ Current(w).to \in Folders /\ Current(w).from \in Folders
           /\ Shaped(Current(w)) /\ files[Current(w).file] \in Docs
           /\ Current(w).check \in {"nothing", "parse", "name", "hosts"}
           /\ writer[w].text \in Docs /\ writer[w].new \in Docs
           /\ NextDir(w) \in Folders
  <1>1. writer[w].todo \in Seq(Edits) /\ writer[w].text \in Docs /\ writer[w].new \in Docs
    BY DEF ConfigTypes, WriterStates
  <1>2. Current(w) \in Edits /\ Tail(writer[w].todo) \in Seq(Edits)
    BY <1>1 DEF Current
  <1>3. /\ Current(w).kind \in Kinds /\ Current(w).file \in ConfigFile /\ Current(w).block \in Blks
        /\ Current(w).undo \in {<<>>} \cup {<<x>> : x \in LastEdits}
        /\ Current(w).to \in Folders /\ Current(w).from \in Folders /\ Shaped(Current(w))
        /\ Current(w).check \in {"nothing", "parse", "name", "hosts"}
    BY <1>2 DEF Edits
  <1>4. Current(w).undo = <<>> \/ \E x \in LastEdits : Current(w).undo = <<x>>
    BY <1>3
  <1>5. Current(w).undo \in Seq(Edits)
    <2>1. CASE Current(w).undo = <<>>
      BY <2>1
    <2>2. ASSUME NEW x \in LastEdits, Current(w).undo = <<x>> PROVE Current(w).undo \in Seq(Edits)
      BY <2>2, LastEditsAreEdits
    <2> QED BY <1>4, <2>1, <2>2
  <1>6. NextDir(w) \in Folders
    BY <1>3 DEF NextDir, ConfigTypes
  <1>7. files[Current(w).file] \in Docs
    BY <1>3 DEF ConfigTypes
  <1> QED BY <1>1, <1>2, <1>3, <1>4, <1>5, <1>6, <1>7

\* Main is there, and a file that isn't is empty; a thread that has compared
\* has a file to write, and one to put back.
SoundDoc(d) == d.there \/ d = NoDoc
ThereInv ==
    /\ files["main"].there
    /\ \A f \in ConfigFile : SoundDoc(files[f])
    /\ \A w \in Writers : At(w, "idle") <=> writer[w].todo = <<>>
    /\ \A w \in Writers : ~At(w, "idle") /\ ~At(w, "read") =>
          /\ writer[w].new.there /\ SoundDoc(writer[w].text)
          /\ Current(w).file = "main" => writer[w].text.there

\* A set of numbers has a least one.
LEMMA Least ==
    ASSUME NEW T, T \subseteq Nat, T # {}
    PROVE  \E x \in T : \A y \in T : x <= y
  <1> DEFINE Less == {p \in Nat \X Nat : p[1] < p[2]}
  <1>1. IsWellFoundedOn(Less, Nat)
    BY NatLessThanWellFounded DEF OpToRel
  <1> HIDE DEF Less
  <1>2. PICK x \in T : \A y \in T : ~(<<y, x>> \in Less)
    BY <1>1, WFMin
  <1>3. ASSUME NEW y \in T PROVE x <= y
    <2>1. x \in Nat /\ y \in Nat /\ ~(<<y, x>> \in Less)
      BY <1>2
    <2>2. y < x => <<y, x>> \in Less
      BY <2>1 DEF Less
    <2> QED BY <2>1, <2>2
  <1> QED BY <1>3

\* The files ssh reads.
LEMMA ReadsType ==
    ASSUME NEW fs \in [ConfigFile -> Docs]
    PROVE  /\ fs["main"].include \in Seq(Folders)
           /\ Reads(fs) \in Seq(ConfigFile) /\ Len(Reads(fs)) = Len(fs["main"].include) + 1
           /\ Reads(fs)[Len(fs["main"].include) + 1] = "main"
           /\ \A i \in 1 .. Len(fs["main"].include) : Reads(fs)[i] = fs["main"].include[i]
           /\ ReadFiles(fs) = ToSet(fs["main"].include) \cup {"main"}
           /\ ReadFiles(fs) \subseteq ConfigFile
  <1>1. fs["main"].include \in Seq(Folders)
    BY DocParts DEF ConfigFile
  <1> DEFINE s == fs["main"].include
             r == Reads(fs)
  <1>2. s \in Seq(ConfigFile) /\ "main" \in ConfigFile /\ r = s \o <<"main">>
    BY <1>1 DEF ConfigFile, Reads
  <1> HIDE DEF s, r
  <1>3. /\ r \in Seq(ConfigFile) /\ Len(r) = Len(s) + 1 /\ r[Len(s) + 1] = "main"
        /\ \A i \in 1 .. Len(s) : r[i] = s[i]
    BY <1>2
  <1>4. /\ DOMAIN r = 1 .. Len(s) + 1 /\ DOMAIN s = 1 .. Len(s) /\ Len(s) \in Nat
    BY <1>2, <1>3
  <1>5. ToSet(r) = ToSet(s) \cup {"main"}
    <2>1. ASSUME NEW x \in ToSet(r) PROVE x \in ToSet(s) \cup {"main"}
      BY <1>3, <1>4 DEF ToSet
    <2>2. "main" \in ToSet(r)
      BY <1>3, <1>4 DEF ToSet
    <2>3. ASSUME NEW x \in ToSet(s) PROVE x \in ToSet(r)
      <3>1. PICK i \in 1 .. Len(s) : x = s[i]
        BY <1>4 DEF ToSet
      <3>2. i \in DOMAIN r /\ x = r[i]
        BY <1>3, <1>4, <3>1
      <3> QED BY <3>2 DEF ToSet
    <2> QED BY <2>1, <2>2, <2>3
  <1>6. ToSet(r) \subseteq ConfigFile
    BY <1>3, <1>4 DEF ToSet
  <1> QED BY <1>1, <1>3, <1>5, <1>6 DEF ReadFiles, s, r

\* What ssh uses for a host is its first block's name in a file it reads.
LEMMA EffectivePlace ==
    ASSUME NEW fs \in [ConfigFile -> Docs], NEW a \in Aliases(fs)
    PROVE  \E i \in DOMAIN Reads(fs) :
              /\ a \in Hosts(fs[Reads(fs)[i]])
              /\ \A j \in 1 .. (i - 1) : a \notin Hosts(fs[Reads(fs)[j]])
              /\ Effective(fs, a) = fs[Reads(fs)[i]].hosts[a][1].name
  <1> DEFINE r == Reads(fs)
             T == {i \in DOMAIN r : a \in Hosts(fs[r[i]])}
  <1>1. r \in Seq(ConfigFile) /\ DOMAIN r = 1 .. Len(r) /\ Len(r) \in Nat
    BY ReadsType
  <1>2. T # {} /\ T \subseteq Nat
    BY <1>1 DEF Aliases, ReadFiles, ToSet
  <1>3. PICK i \in T : \A j \in T : i <= j
    BY <1>2, Least
  <1>4. \A j \in 1 .. (i - 1) : j \in DOMAIN r /\ j \notin T
    BY <1>1, <1>3
  <1>5. \E k \in DOMAIN r : a \in Hosts(fs[r[k]]) /\ \A j \in 1 .. (k - 1) : a \notin Hosts(fs[r[j]])
    BY <1>3, <1>4
  <1> DEFINE first == CHOOSE k \in DOMAIN r : a \in Hosts(fs[r[k]]) /\ \A j \in 1 .. (k - 1) : a \notin Hosts(fs[r[j]])
  <1>6. first \in DOMAIN r /\ a \in Hosts(fs[r[first]]) /\ \A j \in 1 .. (first - 1) : a \notin Hosts(fs[r[j]])
    BY <1>5
  <1>7. Effective(fs, a) = fs[r[first]].hosts[a][1].name
    BY DEF Effective
  <1> HIDE DEF first, r
  <1> QED BY <1>6, <1>7 DEF r

\* It has a name, or there is none.
LEMMA EffectiveType ==
    ASSUME NEW fs \in [ConfigFile -> Docs], NEW a \in Alias
    PROVE  Effective(fs, a) \in {Gone} \cup Nat
  <1>1. CASE a \notin Aliases(fs)
    BY <1>1 DEF Effective
  <1>2. CASE a \in Aliases(fs)
    <2>1. PICK i \in DOMAIN Reads(fs) : /\ a \in Hosts(fs[Reads(fs)[i]])
                                       /\ Effective(fs, a) = fs[Reads(fs)[i]].hosts[a][1].name
      BY <1>2, EffectivePlace
    <2>2. Reads(fs)[i] \in ConfigFile
      BY ReadsType
    <2>3. fs[Reads(fs)[i]] \in Docs
      BY <2>2
    <2>4. fs[Reads(fs)[i]].hosts[a] \in Seq(Blks) /\ fs[Reads(fs)[i]].hosts[a] # <<>>
      BY <2>1, <2>3, DocParts DEF Hosts
    <2>5. fs[Reads(fs)[i]].hosts[a][1] \in Blks
      BY <2>4
    <2> QED BY <2>1, <2>5 DEF Blks
  <1> QED BY <1>1, <1>2

\* What is known of a host is a name, or that it is gone.
LEMMA KnowsType ==
    ASSUME ConfigTypes, NEW e \in Edits
    PROVE  Knows(e) \in [Alias -> {Gone} \cup Nat]
  <1>1. known \in [Alias -> {Gone} \cup Nat] /\ files \in [ConfigFile -> Docs]
    BY DEF ConfigTypes
  <1>2. KnownNow \in [Alias -> {Gone} \cup Nat]
    BY <1>1, EffectiveType DEF KnownNow
  <1>3. e.block.name \in Nat
    BY DEF Edits, Blks
  <1> QED BY <1>1, <1>2, <1>3 DEF Knows

\* The hosts that are loaded.
LEMMA LoadType ==
    ASSUME NEW fs \in [ConfigFile -> Docs]
    PROVE  Load(fs) \subseteq [alias : Alias, file : ConfigFile, name : Nat]
  <1>1. ReadFiles(fs) \subseteq ConfigFile
    BY ReadsType
  <1>2. ASSUME NEW a \in Alias, NEW f \in ReadFiles(fs), NEW i \in DOMAIN fs[f].hosts[a]
        PROVE  fs[f].hosts[a][i].name \in Nat
    <2>1. fs[f] \in Docs
      BY <1>1
    <2>2. fs[f].hosts[a] \in Seq(Blks)
      BY <2>1, DocParts
    <2>3. fs[f].hosts[a][i] \in Blks
      BY <2>2
    <2> QED BY <2>3 DEF Blks
  <1> QED BY <1>1, <1>2 DEF Load

\* The thread takes up edits.
LEMMA TakesUpTypes ==
    ASSUME ConfigTypes, NEW w \in Writers, NEW todo \in Seq(Edits), NEW to \in Folders,
           NEW fs \in [ConfigFile -> Docs], TakesUp(w, todo, fs, to)
    PROVE  /\ writer' \in [Writers -> WriterStates]
           /\ dir' \in Folders
           /\ tree' \subseteq [alias : Alias, file : ConfigFile, name : Nat]
  <1> DEFINE v == [Idle EXCEPT !.todo = todo, !.step = IF todo = <<>> THEN "idle" ELSE "read"]
  <1>1. v \in WriterStates
    BY NoDocType DEF Idle, WriterStates
  <1>2. writer' = [writer EXCEPT ![w] = v]
    BY DEF TakesUp
  <1> HIDE DEF v
  <1> QED BY <1>1, <1>2, LoadType DEF TakesUp, ConfigTypes

\* Types, and what each step needs of them.
ConfigBasics == ConfigTypes /\ ThereInv

\* A thread that isn't idle has something to do.
LEMMA BusyCurrent ==
    ASSUME ConfigBasics, NEW w \in Writers, ~At(w, "idle")
    PROVE  writer[w].todo # <<>>
  BY DEF ConfigBasics, ThereInv

\* Taking up edits keeps the types and what is there.
LEMMA TakesUpBasics ==
    ASSUME ConfigBasics, NEW w \in Writers, NEW todo \in Seq(Edits), NEW to \in Folders,
           NEW fs \in [ConfigFile -> Docs], TakesUp(w, todo, fs, to),
           files' \in [ConfigFile -> Docs], files'["main"].there,
           \A f \in ConfigFile : SoundDoc(files'[f]),
           events' \in Nat, fresh' \in Nat, known' \in [Alias -> {Gone} \cup Nat]
    PROVE  ConfigBasics'
  <1>1. ConfigTypes'
    BY TakesUpTypes DEF ConfigBasics, ConfigTypes
  <1>2. writer' = [writer EXCEPT ![w] = [Idle EXCEPT !.todo = todo, !.step = IF todo = <<>> THEN "idle" ELSE "read"]]
    BY DEF TakesUp
  <1>3. writer \in [Writers -> WriterStates]
    BY DEF ConfigBasics, ConfigTypes
  <1>4. /\ writer'[w].todo = todo /\ writer'[w].step = IF todo = <<>> THEN "idle" ELSE "read"
        /\ \A v \in Writers \ {w} : writer'[v] = writer[v]
    BY <1>2, <1>3 DEF Idle
  <1>5. ThereInv'
    BY <1>4 DEF ConfigBasics, ThereInv, At, Current
  <1> QED BY <1>1, <1>5 DEF ConfigBasics

\* What is put into a file.
LEMMA FilePut ==
    ASSUME ConfigBasics, NEW f \in ConfigFile, NEW d \in Docs, SoundDoc(d), f = "main" => d.there,
           files' = [files EXCEPT ![f] = d]
    PROVE  /\ files' \in [ConfigFile -> Docs] /\ files'["main"].there
           /\ \A g \in ConfigFile : SoundDoc(files'[g])
           /\ files'[f] = d /\ \A g \in ConfigFile \ {f} : files'[g] = files[g]
  BY DEF ConfigBasics, ConfigTypes, ThereInv, ConfigFile

\* The thread goes on with the edit it is at.
LEMMA GoesOnBasics ==
    ASSUME ConfigBasics, NEW w \in Writers, ~At(w, "idle"), NEW v \in WriterStates,
           v.todo = writer[w].todo, v.step \in {"compare", "replace", "check"},
           v.new.there, SoundDoc(v.text), Current(w).file = "main" => v.text.there,
           writer' = [writer EXCEPT ![w] = v],
           files' \in [ConfigFile -> Docs], files'["main"].there,
           \A f \in ConfigFile : SoundDoc(files'[f]),
           UNCHANGED <<tree, dir, events, fresh, known>>
    PROVE  ConfigBasics'
  <1>1. ConfigTypes'
    BY DEF ConfigBasics, ConfigTypes
  <1>2. writer \in [Writers -> WriterStates]
    BY DEF ConfigBasics, ConfigTypes
  <1>3. writer'[w] = v /\ \A x \in Writers \ {w} : writer'[x] = writer[x]
    BY <1>2
  <1>4. writer[w].todo # <<>>
    BY BusyCurrent
  <1>5. ThereInv'
    BY <1>3, <1>4 DEF ConfigBasics, ThereInv, At, Current
  <1> QED BY <1>1, <1>5 DEF ConfigBasics

\* Each outcome of a step keeps the types.
LEMMA StepBasics ==
    ASSUME ConfigBasics, NEW w \in Writers, Step(w)
    PROVE  ConfigBasics'
  <1>1. ConfigTypes /\ ThereInv
    BY DEF ConfigBasics
  <1>2. ~At(w, "idle")
    BY DEF Step, Read, Compare, Replace, Check, At
  <1>3. writer[w].todo # <<>>
    BY <1>2, BusyCurrent
  <1> DEFINE e == Current(w)
  <1>4. /\ e \in Edits /\ Tail(writer[w].todo) \in Seq(Edits) /\ e.kind \in Kinds
        /\ e.file \in ConfigFile /\ e.block \in Blks /\ e.undo \in Seq(Edits)
        /\ Shaped(e) /\ files[e.file] \in Docs /\ NextDir(w) \in Folders
        /\ writer[w].text \in Docs /\ writer[w].new \in Docs
    BY <1>1, <1>3, CurrentType
  <1>5. /\ files \in [ConfigFile -> Docs] /\ files["main"].there
        /\ \A f \in ConfigFile : SoundDoc(files[f])
        /\ events \in Nat /\ fresh \in Nat /\ known \in [Alias -> {Gone} \cup Nat] /\ dir \in Folders
    BY <1>1 DEF ConfigTypes, ThereInv
  <1>6. /\ writer[w] \in WriterStates
        /\ writer[w] = [todo |-> writer[w].todo, step |-> writer[w].step, text |-> writer[w].text, new |-> writer[w].new]
    BY <1>1 DEF ConfigTypes, WriterStates
  <1>7. ~At(w, "read") =>
          /\ writer[w].new.there /\ SoundDoc(writer[w].text)
          /\ e.file = "main" => writer[w].text.there
    BY <1>1, <1>2 DEF ThereInv
  <1>8. CASE Dropped(w)
    <2>1. e.file \in Folders
      BY <1>4, <1>8 DEF Dropped, Shaped, NewKinds
    <2>2. e.file # "main"
      BY <2>1 DEF Folders
    <2>3. files' = [files EXCEPT ![e.file] = NoDoc] /\ NoDoc \in Docs /\ SoundDoc(NoDoc)
      BY <1>8, NoDocType DEF Dropped, SoundDoc
    <2>4. /\ files' \in [ConfigFile -> Docs] /\ files'["main"].there
          /\ \A f \in ConfigFile : SoundDoc(files'[f])
      BY <1>4, <2>2, <2>3, FilePut
    <2> QED BY <1>4, <1>5, <1>8, <2>4, TakesUpBasics DEF Dropped
  <1>9. CASE NothingToDo(w)
    BY <1>4, <1>5, <1>9, TakesUpBasics DEF NothingToDo
  <1>10. CASE NothingToDelete(w)
    BY <1>4, <1>5, <1>10, TakesUpBasics DEF NothingToDelete
  <1>11. CASE OtherText(w)
    BY <1>4, <1>5, <1>11, TakesUpBasics DEF OtherText
  <1>12. CASE ReadOn(w)
    <2> DEFINE v == [todo |-> writer[w].todo, step |-> "compare",
                     text |-> IF Anew(e) THEN NoDoc ELSE files[e.file],
                     new |-> [Change(e, files[e.file]) EXCEPT !.there = TRUE]]
    <2>1. Change(e, files[e.file]) \in Docs
      BY <1>1, <1>4, <1>12, ChangeType DEF ReadOn
    <2>2. /\ [Change(e, files[e.file]) EXCEPT !.there = TRUE] \in Docs
          /\ [Change(e, files[e.file]) EXCEPT !.there = TRUE].there
      BY <2>1 DEF Docs
    <2>3. /\ (IF Anew(e) THEN NoDoc ELSE files[e.file]) \in Docs
          /\ SoundDoc(IF Anew(e) THEN NoDoc ELSE files[e.file])
          /\ e.file = "main" => (IF Anew(e) THEN NoDoc ELSE files[e.file]).there
      <3>1. Anew(e) => e.file # "main"
        BY <1>4 DEF Anew, Shaped, NewKinds, Folders
      <3> QED BY <1>4, <1>5, <3>1, NoDocType DEF SoundDoc
    <2>4. writer[w].todo \in Seq(Edits)
      BY <1>6 DEF WriterStates
    <2>5. /\ v \in WriterStates /\ v.todo = writer[w].todo /\ v.step = "compare" /\ v.new.there
          /\ SoundDoc(v.text)
          /\ e.file = "main" => v.text.there
      BY <2>2, <2>3, <2>4 DEF WriterStates
    <2>6. writer' = [writer EXCEPT ![w] = v] /\ UNCHANGED <<files, tree, dir, events, fresh, known>>
      BY <1>12 DEF ReadOn
    <2> HIDE DEF v, e
    <2> QED BY <1>2, <1>5, <2>5, <2>6, GoesOnBasics DEF e
  <1>13. CASE SameText(w)
    <2> DEFINE v == [writer[w] EXCEPT !.step = "replace"]
    <2>1. /\ v \in WriterStates /\ v.todo = writer[w].todo /\ v.step = "replace"
          /\ v.text = writer[w].text /\ v.new = writer[w].new
      BY <1>6 DEF WriterStates
    <2>2. writer' = [writer EXCEPT ![w] = v] /\ UNCHANGED <<files, tree, dir, events, fresh, known>>
      BY <1>13 DEF SameText
    <2>3. ~At(w, "read")
      BY <1>13 DEF SameText, At
    <2> HIDE DEF v
    <2> QED BY <1>2, <1>5, <1>7, <2>1, <2>2, <2>3, GoesOnBasics
  <1>14. CASE Replace(w)
    <2> DEFINE v == [writer[w] EXCEPT !.step = "check"]
    <2>1. /\ v \in WriterStates /\ v.todo = writer[w].todo /\ v.step = "check"
          /\ v.text = writer[w].text /\ v.new = writer[w].new
      BY <1>6 DEF WriterStates
    <2>2. writer' = [writer EXCEPT ![w] = v] /\ UNCHANGED <<tree, dir, events, fresh, known>>
      BY <1>14 DEF Replace, Bounds
    <2>3. ~At(w, "read")
      BY <1>14 DEF Replace, At
    <2>4. files' = [files EXCEPT ![e.file] = writer[w].new]
      BY <1>14 DEF Replace
    <2>5. /\ files' \in [ConfigFile -> Docs] /\ files'["main"].there
          /\ \A f \in ConfigFile : SoundDoc(files'[f])
      BY <1>4, <1>7, <2>3, <2>4, FilePut DEF SoundDoc
    <2> HIDE DEF v
    <2> QED BY <1>2, <1>7, <2>1, <2>2, <2>3, <2>5, GoesOnBasics
  <1>15. CASE Passes(w)
    <2>1. known' \in [Alias -> {Gone} \cup Nat]
      <3>1. known' = Knows(e)
        BY <1>15 DEF Passes
      <3>2. Knows(e) \in [Alias -> {Gone} \cup Nat]
        BY <1>1, <1>4, KnowsType
      <3> QED BY <3>1, <3>2
    <2> QED BY <1>4, <1>5, <1>15, <2>1, TakesUpBasics DEF Passes
  <1>16. CASE Refused(w)
    <2>1. files' = [files EXCEPT ![e.file] = writer[w].text] /\ ~At(w, "read")
      BY <1>16 DEF Refused, At
    <2>2. /\ files' \in [ConfigFile -> Docs] /\ files'["main"].there
          /\ \A f \in ConfigFile : SoundDoc(files'[f])
      BY <1>4, <1>7, <2>1, FilePut
    <2> QED BY <1>4, <1>5, <1>16, <2>2, TakesUpBasics DEF Refused
  <1> QED BY <1>1, <1>8, <1>9, <1>10, <1>11, <1>12, <1>13, <1>14, <1>15, <1>16, StepCases

\* The operations are begun by a thread that is idle.
Begun(w, todo) ==
    /\ At(w, "idle")
    /\ writer' = [writer EXCEPT ![w] = [Idle EXCEPT !.todo = todo, !.step = "read"]]
    /\ fresh' \in {fresh, fresh + 1} /\ events' = events + 1
    /\ UNCHANGED <<files, tree, dir, known, mishaps>>

\* The operations of the window, and what they begin with.
WindowBegins(todo) ==
    \/ \E a \in Alias \ {h.alias : h \in tree}, f \in {"main", dir} :
          (f = "main" \/ files[f].there) /\ todo = CreateHost(a, f) /\ fresh' = fresh + 1
    \/ \E h \in tree : Has(h) /\ todo = UpdateHost(h) /\ fresh' = fresh + 1
    \/ \E h \in tree : todo = DeleteHost(h)
    \/ \E h \in tree : todo = EnsureId(h)
    \/ \E h \in tree : \E f \in {"main", dir} \ {h.file} : Has(h) /\ todo = MoveHost(h, f)
    \/ ~files[dir].there /\ todo = CreateFolder
    \/ \E k \in {"label", "options", "plain"} : files[dir].there /\ todo = SetFolder(k)
    \/ dir = "old" /\ files["old"].there /\ ~files["new"].there /\ todo = MoveFolders
    \/ dir = "old" /\ files["new"].there /\ todo = AdoptFolders
ImportBegins(todo) ==
    \E a \in Alias \ {h.alias : h \in tree} : todo = ImportFolder(a) /\ fresh' = fresh + 1

Operations ==
    \/ Create \/ Update \/ Delete \/ Identify \/ Move \/ NewFolder \/ FolderSet
    \/ FoldersMove \/ FoldersAdopt \/ Import

\* An operation begins with a list of edits, of the window or of the import.
LEMMA OperationCases ==
    ASSUME Operations
    PROVE  \/ \E todo : WindowBegins(todo) /\ Begun("window", todo)
           \/ \E todo : ImportBegins(todo) /\ Begun("import", todo)
  <1>1. ASSUME NEW w, NEW todo, NEW given \in BOOLEAN, Begin(w, todo, given)
        PROVE  Begun(w, todo) /\ (given => fresh' = fresh + 1)
    BY <1>1 DEF Begin, Begun, Happens
  <1>2. CASE Create
    BY <1>1, <1>2 DEF Create, Operates, WindowBegins
  <1>3. CASE Update
    BY <1>1, <1>3 DEF Update, Operates, WindowBegins
  <1>4. CASE Delete
    BY <1>1, <1>4 DEF Delete, Operates, WindowBegins
  <1>5. CASE Identify
    BY <1>1, <1>5 DEF Identify, Operates, WindowBegins
  <1>6. CASE Move
    BY <1>1, <1>6 DEF Move, Operates, WindowBegins
  <1>7. CASE NewFolder
    BY <1>1, <1>7 DEF NewFolder, Operates, WindowBegins
  <1>8. CASE FolderSet
    BY <1>1, <1>8 DEF FolderSet, Operates, WindowBegins
  <1>9. CASE FoldersMove
    BY <1>1, <1>9 DEF FoldersMove, Operates, WindowBegins
  <1>10. CASE FoldersAdopt
    BY <1>1, <1>10 DEF FoldersAdopt, Operates, WindowBegins
  <1>11. CASE Import
    BY <1>1, <1>11 DEF Import, ImportBegins
  <1> QED BY <1>2, <1>3, <1>4, <1>5, <1>6, <1>7, <1>8, <1>9, <1>10, <1>11 DEF Operations

\* What an operation begins with is a sequence of edits.
LEMMA BeginTypes ==
    ASSUME ConfigTypes, NEW todo, WindowBegins(todo) \/ ImportBegins(todo)
    PROVE  todo \in Seq(Edits) /\ todo # <<>>
  <1>1. "main" \in ConfigFile /\ dir \in ConfigFile
    BY DEF ConfigTypes, ConfigFile
  <1> QED BY <1>1, OperationTypes DEF WindowBegins, ImportBegins

\* The beginning of an operation keeps the types and what is there.
LEMMA OperationBasics ==
    ASSUME ConfigBasics, Operations
    PROVE  ConfigBasics'
  <1>1. PICK w, todo : w \in Writers /\ (WindowBegins(todo) \/ ImportBegins(todo)) /\ Begun(w, todo)
    BY OperationCases DEF Writers
  <1>2. ConfigTypes /\ ThereInv
    BY DEF ConfigBasics
  <1>3. todo \in Seq(Edits) /\ todo # <<>>
    BY <1>1, <1>2, BeginTypes
  <1> DEFINE v == [Idle EXCEPT !.todo = todo, !.step = "read"]
  <1>4. v \in WriterStates /\ v.todo = todo /\ v.step = "read"
    BY <1>3, NoDocType DEF Idle, WriterStates
  <1>5. writer' = [writer EXCEPT ![w] = v] /\ writer \in [Writers -> WriterStates]
    BY <1>1, <1>2 DEF Begun, ConfigTypes
  <1> HIDE DEF v
  <1>6. ConfigTypes'
    BY <1>1, <1>2, <1>4, <1>5 DEF Begun, ConfigTypes
  <1>7. writer'[w] = v /\ \A x \in Writers \ {w} : writer'[x] = writer[x]
    BY <1>1, <1>5
  <1>8. ThereInv'
    BY <1>1, <1>2, <1>3, <1>4, <1>7 DEF Begun, ThereInv, At, Current
  <1> QED BY <1>6, <1>8 DEF ConfigBasics

\* What others write: a host has another name, has gone, or is new in the
\* main config.
Renamed(f, a) ==
    /\ a \in Hosts(files[f])
    /\ files' = [files EXCEPT ![f].hosts[a][1].name = fresh + 1]
    /\ known' = [known EXCEPT ![a] = fresh + 1]
    /\ mishaps' = mishaps \cup OthersMishaps(f, a)
TakenAway(f, a) ==
    /\ a \in Hosts(files[f])
    /\ files' = [files EXCEPT ![f].hosts[a] = Tail(@)]
    /\ known' = [known EXCEPT ![a] = Gone]
    /\ mishaps' = mishaps \cup OthersMishaps(f, a) \cup Mishap("removed", Moving(a))
AddedBy(f, a) ==
    /\ f = "main" /\ a \notin Aliases(files)
    /\ files' = [files EXCEPT ![f].hosts[a] = <<Block(fresh + 1, FALSE, "none")>>]
    /\ known' = [known EXCEPT ![a] = fresh + 1]
    /\ mishaps' = mishaps \cup OthersMishaps(f, a)

\* What others write is one of three changes.
LEMMA OthersCases ==
    ASSUME OthersWrite
    PROVE  /\ fresh' = fresh + 1 /\ events' = events + 1 /\ UNCHANGED <<tree, dir, writer>>
           /\ \E f \in ReadFiles(files), a \in Alias : Renamed(f, a) \/ TakenAway(f, a) \/ AddedBy(f, a)
  BY DEF OthersWrite, Happens, Renamed, TakenAway, AddedBy

\* A file with other blocks of one host.
PutHost(f, a, t) == [files EXCEPT ![f].hosts[a] = t]

\* A file with other blocks of one host is the document with just these replaced.
LEMMA HostPut ==
    ASSUME ConfigBasics, NEW f \in ConfigFile, NEW a \in Alias, NEW t \in Seq(Blks), files[f].there,
           files' = PutHost(f, a, t)
    PROVE  \E d \in Docs :
              /\ files' = [files EXCEPT ![f] = d]
              /\ SameHead(files[f], d) /\ d.keys = files[f].keys /\ d.there
              /\ \A b \in Alias \ {a} : d.hosts[b] = files[f].hosts[b]
              /\ d.hosts[a] = t
  <1> DEFINE o == files[f]
             hs == [o.hosts EXCEPT ![a] = t]
             d == [o EXCEPT !.hosts = hs]
  <1>1. o \in Docs /\ files \in [ConfigFile -> Docs]
    BY DEF ConfigBasics, ConfigTypes
  <1>2. o.hosts \in [Alias -> Seq(Blks)]
    BY <1>1, DocParts
  <1>3. hs \in HostLists /\ hs[a] = t /\ \A b \in Alias \ {a} : hs[b] = o.hosts[b]
    BY <1>2 DEF HostLists
  <1>4. files' = [files EXCEPT ![f] = d]
    BY DEF PutHost
  <1> HIDE DEF hs
  <1>5. d \in Docs /\ SameHead(o, d) /\ d.keys = o.keys /\ d.there /\ d.hosts = hs
    BY <1>1, <1>3 DEF Docs, SameHead
  <1> HIDE DEF d
  <1> QED BY <1>3, <1>4, <1>5

\* A file with a host is there.
LEMMA HostThere ==
    ASSUME ConfigBasics, NEW f \in ConfigFile, NEW a \in Hosts(files[f])
    PROVE  /\ a \in Alias /\ files[f].there /\ files[f] \in Docs
           /\ files[f].hosts[a] \in Seq(Blks) /\ files[f].hosts[a] # <<>> /\ files[f].hosts[a][1] \in Blks
           /\ Len(files[f].hosts[a]) \in Nat /\ Len(files[f].hosts[a]) > 0
  <1>1. files[f] \in Docs /\ a \in Alias /\ files[f].hosts[a] # <<>>
    BY DEF ConfigBasics, ConfigTypes, Hosts
  <1>2. files[f].hosts[a] \in Seq(Blks)
    BY <1>1, DocParts
  <1>3. files[f] # NoDoc
    BY <1>1 DEF NoDoc
  <1>4. files[f].there
    BY <1>3 DEF ConfigBasics, ThereInv, SoundDoc
  <1>5. Len(files[f].hosts[a]) \in Nat /\ Len(files[f].hosts[a]) > 0 /\ files[f].hosts[a][1] \in Blks
    BY <1>1, <1>2
  <1> QED BY <1>1, <1>2, <1>4, <1>5

\* The document others leave: its head and the other hosts are as they were.
LEMMA RenamedDoc ==
    ASSUME ConfigBasics, NEW f \in ConfigFile, NEW a \in Alias, Renamed(f, a)
    PROVE  \E d \in Docs :
              /\ files' = [files EXCEPT ![f] = d]
              /\ SameHead(files[f], d) /\ d.keys = files[f].keys /\ d.there
              /\ \A b \in Alias \ {a} : d.hosts[b] = files[f].hosts[b]
              /\ Len(d.hosts[a]) = Len(files[f].hosts[a]) /\ Len(d.hosts[a]) > 0
              /\ d.hosts[a][1].name = fresh + 1
              /\ \A i \in 1 .. Len(d.hosts[a]) : d.hosts[a][i].keys = files[f].hosts[a][i].keys
              /\ \A i \in 2 .. Len(d.hosts[a]) : d.hosts[a][i] = files[f].hosts[a][i]
  <1> DEFINE s == files[f].hosts[a]
             t == [s EXCEPT ![1].name = fresh + 1]
  <1>1. s \in Seq(Blks) /\ s # <<>> /\ s[1] \in Blks /\ Len(s) > 0 /\ files[f].there /\ fresh + 1 \in Nat
    BY HostThere DEF Renamed, ConfigBasics, ConfigTypes
  <1>2. [s[1] EXCEPT !.name = fresh + 1] \in Blks /\ [s[1] EXCEPT !.name = fresh + 1].name = fresh + 1
        /\ [s[1] EXCEPT !.name = fresh + 1].keys = s[1].keys
    BY <1>1 DEF Blks
  <1>3. /\ t \in Seq(Blks) /\ Len(t) = Len(s) /\ t[1].name = fresh + 1
        /\ \A i \in 1 .. Len(s) : t[i].keys = s[i].keys
        /\ \A i \in 2 .. Len(s) : t[i] = s[i]
    BY <1>1, <1>2
  <1>4. files' = PutHost(f, a, t)
    BY DEF Renamed, PutHost
  <1> HIDE DEF t, s
  <1>5. PICK d \in Docs :
          /\ files' = [files EXCEPT ![f] = d]
          /\ SameHead(files[f], d) /\ d.keys = files[f].keys /\ d.there
          /\ \A b \in Alias \ {a} : d.hosts[b] = files[f].hosts[b]
          /\ d.hosts[a] = t
    BY <1>1, <1>3, <1>4, HostPut
  <1> QED BY <1>3, <1>5, <1>1 DEF s

\* A host taken away by others.
LEMMA TakenAwayDoc ==
    ASSUME ConfigBasics, NEW f \in ConfigFile, NEW a \in Alias, TakenAway(f, a)
    PROVE  \E d \in Docs :
              /\ files' = [files EXCEPT ![f] = d]
              /\ SameHead(files[f], d) /\ d.keys = files[f].keys /\ d.there
              /\ \A b \in Alias \ {a} : d.hosts[b] = files[f].hosts[b]
              /\ d.hosts[a] = Tail(files[f].hosts[a])
  <1> DEFINE s == files[f].hosts[a]
             t == Tail(s)
  <1>1. s \in Seq(Blks) /\ s # <<>> /\ files[f].there
    BY HostThere DEF TakenAway
  <1>2. t \in Seq(Blks)
    BY <1>1, TailLen
  <1>3. files' = PutHost(f, a, t)
    BY DEF TakenAway, PutHost
  <1> HIDE DEF t, s
  <1>4. PICK d \in Docs :
          /\ files' = [files EXCEPT ![f] = d]
          /\ SameHead(files[f], d) /\ d.keys = files[f].keys /\ d.there
          /\ \A b \in Alias \ {a} : d.hosts[b] = files[f].hosts[b]
          /\ d.hosts[a] = t
    BY <1>1, <1>2, <1>3, HostPut DEF s
  <1> QED BY <1>4 DEF t, s

\* A host added by others.
LEMMA AddedByDoc ==
    ASSUME ConfigBasics, NEW f \in ConfigFile, NEW a \in Alias, AddedBy(f, a)
    PROVE  \E d \in Docs :
              /\ files' = [files EXCEPT ![f] = d]
              /\ SameHead(files[f], d) /\ d.keys = files[f].keys /\ d.there
              /\ \A b \in Alias \ {a} : d.hosts[b] = files[f].hosts[b]
              /\ d.hosts[a] = <<Block(fresh + 1, FALSE, "none")>>
  <1> DEFINE x == Block(fresh + 1, FALSE, "none")
             t == <<x>>
  <1>1. x \in Blks
    BY DEF Block, Blks, Tag, ConfigBasics, ConfigTypes
  <1>2. files[f].there /\ files' = PutHost(f, a, t)
    BY DEF AddedBy, ConfigBasics, ThereInv, PutHost
  <1> HIDE DEF x
  <1>3. t \in Seq(Blks)
    BY <1>1
  <1> HIDE DEF t
  <1>4. PICK d \in Docs :
          /\ files' = [files EXCEPT ![f] = d]
          /\ SameHead(files[f], d) /\ d.keys = files[f].keys /\ d.there
          /\ \A b \in Alias \ {a} : d.hosts[b] = files[f].hosts[b]
          /\ d.hosts[a] = t
    BY <1>2, <1>3, HostPut
  <1> QED BY <1>4 DEF t, x

\* What others write keeps the types and what is there.
LEMMA OthersBasics ==
    ASSUME ConfigBasics, OthersWrite
    PROVE  ConfigBasics'
  <1>1. ConfigTypes /\ ThereInv
    BY DEF ConfigBasics
  <1>2. PICK f \in ReadFiles(files), a \in Alias : Renamed(f, a) \/ TakenAway(f, a) \/ AddedBy(f, a)
    BY OthersCases
  <1>3. f \in ConfigFile
    BY <1>1, ReadsType DEF ConfigTypes
  <1>4. PICK d \in Docs : files' = [files EXCEPT ![f] = d] /\ d.there
    BY <1>2, <1>3, RenamedDoc, TakenAwayDoc, AddedByDoc
  <1>5. /\ files' \in [ConfigFile -> Docs] /\ files'["main"].there
        /\ \A g \in ConfigFile : SoundDoc(files'[g])
    BY <1>3, <1>4, FilePut DEF SoundDoc
  <1>6. known' \in [Alias -> {Gone} \cup Nat] /\ fresh' \in Nat /\ events' \in Nat
        /\ UNCHANGED <<tree, dir, writer>>
    <2>1. fresh' = fresh + 1 /\ events' = events + 1 /\ UNCHANGED <<tree, dir, writer>>
      BY OthersCases
    <2>2. known' = [known EXCEPT ![a] = fresh + 1] \/ known' = [known EXCEPT ![a] = Gone]
      BY <1>2 DEF Renamed, TakenAway, AddedBy
    <2> QED BY <1>1, <2>1, <2>2 DEF ConfigTypes
  <1>7. ConfigTypes'
    BY <1>1, <1>5, <1>6 DEF ConfigTypes
  <1>8. ThereInv'
    BY <1>1, <1>5, <1>6 DEF ThereInv, At, Current
  <1> QED BY <1>7, <1>8 DEF ConfigBasics

\* Loading again keeps the types and what is there.
LEMMA ReloadBasics ==
    ASSUME ConfigBasics, Reload
    PROVE  ConfigBasics'
  <1>1. ConfigTypes'
    BY LoadType DEF ConfigBasics, ConfigTypes, Reload, Bounds
  <1>2. ThereInv'
    BY DEF ConfigBasics, ThereInv, Reload, At, Current
  <1> QED BY <1>1, <1>2 DEF ConfigBasics

\* A process that is killed keeps the types and what is there.
LEMMA KilledBasics ==
    ASSUME ConfigBasics, Killed
    PROVE  ConfigBasics'
  <1>1. ConfigTypes /\ ThereInv
    BY DEF ConfigBasics
  <1>2. Idle \in WriterStates /\ Idle.step = "idle" /\ Idle.todo = <<>>
    BY NoDocType DEF Idle, WriterStates
  <1>3. files \in [ConfigFile -> Docs] /\ known \in [Alias -> {Gone} \cup Nat]
    BY <1>1 DEF ConfigTypes
  <1>4. known' \in [Alias -> {Gone} \cup Nat]
    BY <1>3, EffectiveType DEF Killed
  <1>5. writer' = [w \in Writers |-> Idle] /\ tree' = Load(files) /\ events' = events + 1
        /\ UNCHANGED <<files, dir, fresh>>
    BY DEF Killed, Happens
  <1>6. ConfigTypes'
    BY <1>1, <1>2, <1>3, <1>4, <1>5, LoadType DEF ConfigTypes
  <1>7. ThereInv'
    BY <1>1, <1>2, <1>5 DEF ThereInv, At
  <1> QED BY <1>6, <1>7 DEF ConfigBasics

\* A step that changes nothing keeps the types and what is there.
LEMMA StutterBasics ==
    ASSUME ConfigBasics, UNCHANGED configVars
    PROVE  ConfigBasics'
  BY DEF ConfigBasics, ConfigTypes, ThereInv, configVars, At, Current

\* Every step is one of these.
LEMMA NextCases ==
    ASSUME ConfigNext
    PROVE  (\E w \in Writers : Step(w)) \/ Operations \/ Reload \/ OthersWrite \/ Killed
  BY DEF ConfigNext, Operations

\* Each step keeps the types and what is there.
LEMMA NextBasics ==
    ASSUME ConfigBasics, [ConfigNext]_configVars
    PROVE  ConfigBasics'
  BY NextCases, StepBasics, OperationBasics, ReloadBasics, OthersBasics, KilledBasics, StutterBasics

\* What there is at first: one host, in the main config or in the folder's file.
FirstDocs(ignore, keys, include, a, m, o) ==
    /\ keys => ignore
    /\ files = [f \in ConfigFile |-> CASE f = "main" -> m [] f = "old" -> o [] f = "new" -> NoDoc]
    /\ m.there /\ m.ignore = ignore /\ m.include = include /\ m.keys = FALSE
    /\ SoundDoc(o) /\ o.ignore = FALSE /\ o.include = <<>> /\ o.keys = FALSE
    /\ \A b \in Alias \ {a} : m.hosts[b] = <<>> /\ o.hosts[b] = <<>>
    /\ \/ /\ include = <<"old">> /\ o.there
          /\ m.hosts[a] = <<>> /\ SameBlocks(o.hosts[a], <<Block(0, keys, "none")>>)
       \/ /\ o = NoDoc
          /\ m.hosts[a] = <<Block(0, keys, "none")>>

\* The files at first, as documents.
LEMMA InitDocs ==
    ASSUME ConfigInit
    PROVE  \E ignore \in BOOLEAN, keys \in BOOLEAN, include \in {<<>>, <<"old">>}, a \in Alias,
              m \in Docs, o \in Docs : FirstDocs(ignore, keys, include, a, m, o)
  <1>1. PICK ignore, options, keys \in BOOLEAN, include \in {<<>>, <<"old">>}, a \in Alias :
          /\ keys => ignore
          /\ LET main == [EmptyDoc EXCEPT !.ignore = ignore, !.include = include]
                 host == Block(0, keys, "none")
                 folder == [EmptyDoc EXCEPT !.hosts[a] = <<host>>]
             IN  \/ /\ include = <<"old">>
                    /\ files = [f \in ConfigFile |->
                                  CASE f = "main" -> main
                                    [] f = "old" -> IF options THEN WithOptions(folder) ELSE folder
                                    [] f = "new" -> NoDoc]
                 \/ /\ ~options
                    /\ files = [f \in ConfigFile |->
                                  IF f = "main" THEN [main EXCEPT !.hosts[a] = <<host>>] ELSE NoDoc]
    BY DEF ConfigInit
  <1> DEFINE host == Block(0, keys, "none")
             main == [EmptyDoc EXCEPT !.ignore = ignore, !.include = include]
             folder == [EmptyDoc EXCEPT !.hosts[a] = <<host>>]
             mainHost == [main EXCEPT !.hosts[a] = <<host>>]
             arranged == IF options THEN WithOptions(folder) ELSE folder
  <1>2. host \in Blks /\ <<host>> \in Seq(Blks) /\ Len(<<host>>) = 1
    BY DEF Block, Blks, Tag
  <1> HIDE DEF host
  <1>3. /\ EmptyDoc \in Docs /\ EmptyDoc.hosts = [b \in Alias |-> <<>>] /\ EmptyDoc.there
        /\ EmptyDoc.ignore = FALSE /\ EmptyDoc.include = <<>> /\ EmptyDoc.keys = FALSE
    BY NoDocType DEF EmptyDoc, NoDoc
  <1>4. include \in Seq(Folders)
    <2>1. <<>> \in Seq(Folders) /\ "old" \in Folders
      BY DEF Folders
    <2>2. <<"old">> \in Seq(Folders)
      BY <2>1
    <2> QED BY <2>1, <2>2
  <1>5. /\ main \in Docs /\ main.hosts = [b \in Alias |-> <<>>] /\ main.there
        /\ main.ignore = ignore /\ main.include = include /\ main.keys = FALSE
    BY <1>3, <1>4 DEF Docs
  <1> HIDE DEF main
  <1> DEFINE hs == [[b \in Alias |-> <<>>] EXCEPT ![a] = <<host>>]
  <1>6. hs \in HostLists /\ hs[a] = <<host>> /\ \A b \in Alias \ {a} : hs[b] = <<>>
    <2>1. <<>> \in Seq(Blks)
      OBVIOUS
    <2> QED BY <1>2, <2>1 DEF HostLists
  <1>7. folder = [EmptyDoc EXCEPT !.hosts = hs] /\ mainHost = [main EXCEPT !.hosts = hs]
    BY <1>3, <1>5
  <1> HIDE DEF hs, folder, mainHost
  <1>8. /\ mainHost \in Docs /\ mainHost.hosts = hs /\ mainHost.there
        /\ mainHost.ignore = ignore /\ mainHost.include = include /\ mainHost.keys = FALSE
    BY <1>5, <1>6, <1>7 DEF Docs
  <1>9. /\ folder \in Docs /\ folder.hosts = hs /\ folder.there
        /\ folder.ignore = FALSE /\ folder.include = <<>> /\ folder.keys = FALSE
    BY <1>3, <1>6, <1>7 DEF Docs
  <1>10. /\ arranged \in Docs /\ arranged.there /\ arranged.ignore = FALSE /\ arranged.include = <<>>
         /\ arranged.keys = FALSE /\ \A b \in Alias : SameBlocks(arranged.hosts[b], hs[b])
    <2>1. \A b \in Alias : SameBlocks(hs[b], hs[b])
      BY <1>6 DEF SameBlocks, HostLists
    <2>2. CASE options
      BY <1>9, <2>2, OptionsSame
    <2>3. CASE ~options
      BY <1>9, <2>1, <2>3
    <2> QED BY <2>2, <2>3
  <1>11. \A b \in Alias \ {a} : arranged.hosts[b] = <<>>
    <2>1. ASSUME NEW b \in Alias \ {a} PROVE arranged.hosts[b] = <<>>
      <3>1. SameBlocks(arranged.hosts[b], <<>>)
        BY <1>6, <1>10
      <3> QED BY <3>1 DEF SameBlocks
    <2> QED BY <2>1
  <1> HIDE DEF arranged
  <1>12. CASE include = <<"old">> /\ files = [f \in ConfigFile |-> CASE f = "main" -> main [] f = "old" -> arranged [] f = "new" -> NoDoc]
    <2>1. SoundDoc(arranged) /\ main.hosts[a] = <<>> /\ \A b \in Alias \ {a} : main.hosts[b] = <<>>
      BY <1>5, <1>10 DEF SoundDoc
    <2>2. FirstDocs(ignore, keys, include, a, main, arranged)
      BY <1>1, <1>5, <1>6, <1>10, <1>11, <1>12, <2>1 DEF host, FirstDocs
    <2> QED BY <1>5, <1>10, <2>2
  <1>13. CASE files = [f \in ConfigFile |-> IF f = "main" THEN mainHost ELSE NoDoc]
    <2>1. files = [f \in ConfigFile |-> CASE f = "main" -> mainHost [] f = "old" -> NoDoc [] f = "new" -> NoDoc]
      BY <1>13 DEF ConfigFile, Folders
    <2>2. /\ NoDoc \in Docs /\ SoundDoc(NoDoc) /\ NoDoc.ignore = FALSE /\ NoDoc.include = <<>> /\ NoDoc.keys = FALSE
          /\ \A b \in Alias : NoDoc.hosts[b] = <<>>
      BY NoDocType DEF NoDoc, SoundDoc
    <2>3. mainHost.hosts[a] = <<Block(0, keys, "none")>> /\ \A b \in Alias \ {a} : mainHost.hosts[b] = <<>>
      BY <1>6, <1>8 DEF host
    <2>4. FirstDocs(ignore, keys, include, a, mainHost, NoDoc)
      BY <1>1, <1>8, <2>1, <2>2, <2>3 DEF FirstDocs
    <2> QED BY <1>8, <2>2, <2>4
  <1> QED BY <1>1, <1>12, <1>13 DEF main, host, folder, mainHost, arranged

\* The types, and what is there, hold at first.
LEMMA InitBasics == ConfigInit => ConfigBasics
  <1> SUFFICES ASSUME ConfigInit PROVE ConfigBasics
    OBVIOUS
  <1>1. PICK m \in Docs, o \in Docs :
          /\ files = [f \in ConfigFile |-> CASE f = "main" -> m [] f = "old" -> o [] f = "new" -> NoDoc]
          /\ m.there /\ SoundDoc(o)
    <2>1. PICK ignore \in BOOLEAN, keys \in BOOLEAN, include \in {<<>>, <<"old">>}, a \in Alias,
               m \in Docs, o \in Docs : FirstDocs(ignore, keys, include, a, m, o)
      BY InitDocs
    <2> QED BY <2>1 DEF FirstDocs
  <1>2. files \in [ConfigFile -> Docs] /\ files["main"].there /\ \A f \in ConfigFile : SoundDoc(files[f])
    BY <1>1, NoDocType DEF ConfigFile, Folders, SoundDoc
  <1>3. Idle \in WriterStates /\ Idle.step = "idle" /\ Idle.todo = <<>>
    BY NoDocType DEF Idle, WriterStates
  <1>4. known \in [Alias -> {Gone} \cup Nat]
    BY <1>2, EffectiveType DEF ConfigInit
  <1>5. ConfigTypes
    BY <1>2, <1>3, <1>4, LoadType DEF ConfigInit, ConfigTypes, Folders
  <1>6. ThereInv
    BY <1>2, <1>3 DEF ConfigInit, ThereInv, At
  <1> QED BY <1>5, <1>6 DEF ConfigBasics

-----------------------------------------------------------------------------
(* HostNames are given in order: none is beyond the last one given.        *)

Named(d, n) == \A a \in Alias : \A i \in 1 .. Len(d.hosts[a]) : d.hosts[a][i].name <= n
EditNamed(e, n) == e.block.name <= n /\ \A i \in DOMAIN e.undo : e.undo[i].block.name <= n
TodoNamed(todo, n) == \A i \in 1 .. Len(todo) : EditNamed(todo[i], n)

NamesInv ==
    /\ \A f \in ConfigFile : Named(files[f], fresh)
    /\ \A w \in Writers : /\ Named(writer[w].text, fresh) /\ Named(writer[w].new, fresh)
                          /\ TodoNamed(writer[w].todo, fresh)
    /\ \A h \in tree : h.name <= fresh
    /\ \A a \in Alias : known[a] <= fresh

\* Blocks that differ in their Tags have the same names.
LEMMA SameNamed ==
    ASSUME NEW s, NEW t, SameBlocks(t, s), NEW n \in Nat, \A i \in 1 .. Len(s) : s[i].name <= n
    PROVE  \A i \in 1 .. Len(t) : t[i].name <= n
  BY DEF SameBlocks

\* A document's names stay within a later bound.
LEMMA NamedLater ==
    ASSUME NEW d \in Docs, NEW n \in Nat, Named(d, n), NEW m \in Nat, n <= m
    PROVE  Named(d, m)
  <1>1. ASSUME NEW a \in Alias, NEW i \in 1 .. Len(d.hosts[a]) PROVE d.hosts[a][i].name <= m
    <2>1. d.hosts[a] \in Seq(Blks)
      BY DocParts
    <2>2. d.hosts[a][i] \in Blks
      BY <2>1
    <2>4. d.hosts[a][i].name \in Nat
      BY <2>2 DEF Blks
    <2>3. d.hosts[a][i].name <= n
      BY DEF Named
    <2> QED BY <2>3, <2>4
  <1> QED BY <1>1 DEF Named

\* No names in an empty document.
LEMMA NoDocNamed ==
    ASSUME NEW n \in Nat
    PROVE  Named(NoDoc, n)
  BY DEF Named, NoDoc

\* An edit puts no name into a document but its own.
LEMMA ChangeNamed ==
    ASSUME ConfigTypes, NEW e \in Edits, NEW d \in Docs, e.kind # "drop",
           NEW n \in Nat, Named(d, n), e.block.name <= n, \A f \in ConfigFile : Named(files[f], n)
    PROVE  Named(Change(e, d), n)
  <1>0. /\ e.from \in Folders /\ e.to \in Folders /\ e.kind \in Kinds
        /\ e.kind \in HostKinds => e.alias \in Alias
        /\ e.block \in Blks
    BY DEF Edits, Shaped
  <1> DEFINE r == Change(e, d)
  <1>1. CASE e.kind = "header"
    <2>1. r = WithHeader(d, e.to)
      BY <1>1 DEF Change
    <2>2. r.hosts = d.hosts
      BY <1>0, <2>1, HeaderSame
    <2> QED BY <2>2 DEF Named
  <1>2. CASE e.kind = "include"
    <2>1. r = ReplaceInclude(d, e.from, e.to)
      BY <1>2 DEF Change
    <2>2. ReplaceInclude(d, e.from, e.to).hosts = d.hosts
      BY <1>0, IncludeSame
    <2> HIDE DEF r
    <2>3. r.hosts = d.hosts
      BY <2>1, <2>2
    <2>4. Named(r, n)
      BY <2>3 DEF Named
    <2> QED BY <2>4 DEF r
  <1>3. CASE e.kind = "ignore"
    <2>1. r.hosts = d.hosts
      BY <1>3, IgnoreChange
    <2> QED BY <2>1 DEF Named
  <1>4. CASE e.kind = "clone"
    <2>1. r = files[e.from]
      BY <1>4 DEF Change
    <2> QED BY <1>0, <2>1 DEF ConfigFile
  <1>5. CASE e.kind \in {"add", "copy"}
    <2>1. e.alias \in Alias
      BY <1>0, <1>5 DEF HostKinds
    <2>2. /\ OthersSame(d, r, e.alias) /\ SameBlocks(r.hosts[e.alias], Append(d.hosts[e.alias], e.block))
      BY <1>5, <2>1, AddChange
    <2>3. ASSUME NEW a \in Alias \ {e.alias} PROVE \A i \in 1 .. Len(r.hosts[a]) : r.hosts[a][i].name <= n
      <3>1. SameBlocks(r.hosts[a], d.hosts[a]) /\ \A i \in 1 .. Len(d.hosts[a]) : d.hosts[a][i].name <= n
        BY <2>2 DEF OthersSame, Named
      <3> QED BY <3>1, SameNamed
    <2>4. \A i \in 1 .. Len(Append(d.hosts[e.alias], e.block)) : Append(d.hosts[e.alias], e.block)[i].name <= n
      <3>1. d.hosts[e.alias] \in Seq(Blks) /\ \A i \in 1 .. Len(d.hosts[e.alias]) : d.hosts[e.alias][i].name <= n
        BY <2>1, DocParts DEF Named
      <3> QED BY <1>0, <3>1
    <2>5. \A i \in 1 .. Len(r.hosts[e.alias]) : r.hosts[e.alias][i].name <= n
      BY <2>2, <2>4, SameNamed
    <2> QED BY <2>3, <2>5 DEF Named
  <1>6. CASE e.kind \in {"update", "id"}
    <2>1. e.alias \in Alias
      BY <1>0, <1>6 DEF HostKinds
    <2> DEFINE t == r.hosts[e.alias]
               s == d.hosts[e.alias]
    <2>2. /\ \A b \in Alias \ {e.alias} : r.hosts[b] = d.hosts[b]
          /\ t \in Seq(Blks) /\ Len(t) = Len(s)
          /\ \A i \in 2 .. Len(t) : t[i] = s[i]
          /\ Len(t) > 0 => t[1].name = IF e.kind = "update" THEN e.block.name ELSE s[1].name
      BY <1>6, <2>1, UpdateChange
    <2>3. s \in Seq(Blks) /\ \A i \in 1 .. Len(s) : s[i].name <= n
      BY <2>1, DocParts DEF Named
    <2>4. \A i \in 1 .. Len(t) : t[i].name <= n
      <3>1. SUFFICES ASSUME NEW i \in 1 .. Len(t) PROVE t[i].name <= n
        OBVIOUS
      <3>2. CASE i = 1
        <4>1. Len(t) > 0 /\ s[1].name <= n
          BY <2>2, <2>3, <3>2
        <4> QED BY <2>2, <3>2, <4>1
      <3>3. CASE i # 1
        BY <2>2, <2>3, <3>3
      <3> QED BY <3>2, <3>3
    <2> QED BY <2>2, <2>4 DEF Named
  <1>7. CASE e.kind \in {"delete", "remove", "withdraw"}
    <2>1. e.alias \in Alias
      BY <1>0, <1>7 DEF HostKinds
    <2> DEFINE t == r.hosts[e.alias]
               s == d.hosts[e.alias]
    <2>2. /\ \A b \in Alias \ {e.alias} : r.hosts[b] = d.hosts[b]
          /\ s = <<>> => r = d
          /\ s # <<>> => t = (IF e.kind = "withdraw" THEN Front(s) ELSE Tail(s)) /\ Len(t) = Len(s) - 1
      BY <1>7, <2>1, TakeChange
    <2>3. s \in Seq(Blks) /\ \A i \in 1 .. Len(s) : s[i].name <= n
      BY <2>1, DocParts DEF Named
    <2>4. CASE s = <<>>
      BY <2>2, <2>4
    <2>5. CASE s # <<>>
      <3>1. \A i \in 1 .. Len(t) : t[i] = s[i] \/ t[i] = s[i + 1]
        <4>1. CASE e.kind = "withdraw"
          <5>1. t = Front(s) /\ Len(t) = Len(s) - 1
            BY <2>2, <2>5, <4>1
          <5> HIDE DEF t, s
          <5> QED BY <2>3, <2>5, <5>1, TailLen
        <4>2. CASE e.kind # "withdraw"
          <5>1. t = Tail(s) /\ Len(t) = Len(s) - 1
            BY <2>2, <2>5, <4>2
          <5> HIDE DEF t, s
          <5> QED BY <2>3, <2>5, <5>1, TailLen
        <4> QED BY <4>1, <4>2
      <3>2. \A i \in 1 .. Len(t) : i \in 1 .. Len(s) /\ i + 1 \in 1 .. Len(s)
        BY <2>2, <2>3, <2>5, TailLen
      <3>3. \A i \in 1 .. Len(t) : t[i].name <= n
        BY <2>3, <3>1, <3>2
      <3> QED BY <2>2, <3>3 DEF Named
    <2> QED BY <2>4, <2>5
  <1>8. CASE e.kind \in {"label", "options", "plain"}
    <2>1. \A b \in Alias : SameBlocks(r.hosts[b], d.hosts[b])
      BY <1>8, FolderChange
    <2> QED BY <2>1, SameNamed DEF Named
  <1>9. CASE e.kind = "create"
    <2>1. \A b \in Alias : r.hosts[b] = <<>>
      BY <1>9, CreateChange
    <2> QED BY <2>1 DEF Named
  <1> QED BY <1>0, <1>1, <1>2, <1>3, <1>4, <1>5, <1>6, <1>7, <1>8, <1>9 DEF Kinds, HostKinds, MainKinds, NewKinds

\* What is taken from edits that are named is named.
LEMMA TodoNamedTail ==
    ASSUME NEW todo \in Seq(Edits), todo # <<>>, NEW n \in Nat, TodoNamed(todo, n)
    PROVE  /\ EditNamed(Head(todo), n) /\ TodoNamed(Tail(todo), n)
           /\ TodoNamed(Head(todo).undo, n)
  <1>1. EditNamed(Head(todo), n) /\ Head(todo) \in Edits
    BY DEF TodoNamed
  <1>2. TodoNamed(Tail(todo), n)
    BY DEF TodoNamed
  <1>3. TodoNamed(Head(todo).undo, n)
    <2>1. CASE Head(todo).undo = <<>>
      BY <2>1 DEF TodoNamed
    <2>2. ASSUME NEW x \in LastEdits, Head(todo).undo = <<x>> PROVE TodoNamed(Head(todo).undo, n)
      <3>1. x.block.name <= n /\ x.undo = <<>>
        BY <1>1, <2>2 DEF EditNamed, LastEdits
      <3>2. EditNamed(x, n)
        BY <3>1 DEF EditNamed
      <3> QED BY <2>2, <3>2 DEF TodoNamed
    <2>3. Head(todo).undo = <<>> \/ \E x \in LastEdits : Head(todo).undo = <<x>>
      BY <1>1 DEF Edits
    <2> QED BY <2>1, <2>2, <2>3
  <1> QED BY <1>1, <1>2, <1>3

\* Edits' names stay within a later bound.
LEMMA TodoNamedLater ==
    ASSUME NEW todo \in Seq(Edits), NEW n \in Nat, TodoNamed(todo, n), NEW m \in Nat, n <= m
    PROVE  TodoNamed(todo, m)
  <1> SUFFICES ASSUME NEW i \in 1 .. Len(todo) PROVE EditNamed(todo[i], m)
    BY DEF TodoNamed
  <1>1. todo[i] \in Edits /\ EditNamed(todo[i], n)
    BY DEF TodoNamed
  <1>2. todo[i].block.name \in Nat
    BY <1>1 DEF Edits, Blks
  <1>3. \A j \in DOMAIN todo[i].undo : todo[i].undo[j].block.name \in Nat
    <2>1. CASE todo[i].undo = <<>>
      BY <2>1
    <2>2. ASSUME NEW x \in LastEdits, todo[i].undo = <<x>>, NEW j \in DOMAIN todo[i].undo
          PROVE  todo[i].undo[j].block.name \in Nat
      <3>1. todo[i].undo[j] = x
        BY <2>2
      <3> QED BY <3>1 DEF LastEdits, Blks
    <2> QED BY <1>1, <2>1, <2>2 DEF Edits
  <1> QED BY <1>1, <1>2, <1>3 DEF EditNamed

\* One, two or three edits that are named.
LEMMA TodoNamedEach ==
    ASSUME NEW n \in Nat, NEW x, NEW y, NEW z, EditNamed(x, n), EditNamed(y, n), EditNamed(z, n)
    PROVE  TodoNamed(<<x>>, n) /\ TodoNamed(<<x, y>>, n) /\ TodoNamed(<<x, y, z>>, n)
  <1>1. TodoNamed(<<x>>, n)
    BY DEF TodoNamed
  <1>2. TodoNamed(<<x, y>>, n)
    BY DEF TodoNamed
  <1>3. TodoNamed(<<x, y, z>>, n)
    BY DEF TodoNamed
  <1> QED BY <1>1, <1>2, <1>3

\* The hosts that are loaded have the files' names.
LEMMA LoadNamed ==
    ASSUME NEW fs \in [ConfigFile -> Docs], NEW n \in Nat, \A f \in ConfigFile : Named(fs[f], n)
    PROVE  \A h \in Load(fs) : h.name <= n
  <1>1. ReadFiles(fs) \subseteq ConfigFile
    BY ReadsType
  <1>2. ASSUME NEW a \in Alias, NEW f \in ReadFiles(fs), NEW i \in DOMAIN fs[f].hosts[a]
        PROVE  fs[f].hosts[a][i].name <= n
    <2>1. fs[f].hosts[a] \in Seq(Blks)
      BY <1>1, DocParts
    <2>2. i \in 1 .. Len(fs[f].hosts[a])
      BY <2>1
    <2> QED BY <1>1, <2>2 DEF Named
  <1> QED BY <1>2 DEF Load

\* So does what ssh uses.
LEMMA EffectiveNamed ==
    ASSUME NEW fs \in [ConfigFile -> Docs], NEW n \in Nat, \A f \in ConfigFile : Named(fs[f], n), NEW a \in Alias
    PROVE  Effective(fs, a) <= n
  <1>1. CASE a \notin Aliases(fs)
    BY <1>1 DEF Effective, Gone
  <1>2. CASE a \in Aliases(fs)
    <2>1. PICK i \in DOMAIN Reads(fs) : /\ a \in Hosts(fs[Reads(fs)[i]])
                                       /\ Effective(fs, a) = fs[Reads(fs)[i]].hosts[a][1].name
      BY <1>2, EffectivePlace
    <2>2. Reads(fs)[i] \in ConfigFile
      BY ReadsType
    <2>3. fs[Reads(fs)[i]] \in Docs
      BY <2>2
    <2>4. fs[Reads(fs)[i]].hosts[a] \in Seq(Blks) /\ fs[Reads(fs)[i]].hosts[a] # <<>>
      BY <2>1, <2>3, DocParts DEF Hosts
    <2>5. 1 \in 1 .. Len(fs[Reads(fs)[i]].hosts[a])
      BY <2>4
    <2> QED BY <2>1, <2>2, <2>5 DEF Named
  <1> QED BY <1>1, <1>2


\* A thread's edits and documents are named.
WriterNamed(v, n) == Named(v.text, n) /\ Named(v.new, n) /\ TodoNamed(v.todo, n)

\* What a step of a thread has to keep of the names.
LEMMA NamesKept ==
    ASSUME ConfigBasics, NamesInv, NEW w \in Writers, NEW v \in WriterStates,
           writer' = [writer EXCEPT ![w] = v], WriterNamed(v, fresh), fresh' = fresh,
           \A f \in ConfigFile : Named(files'[f], fresh), \A h \in tree' : h.name <= fresh,
           \A a \in Alias : known'[a] <= fresh
    PROVE  NamesInv'
  <1>1. writer \in [Writers -> WriterStates]
    BY DEF ConfigBasics, ConfigTypes
  <1>2. writer'[w] = v /\ \A x \in Writers \ {w} : writer'[x] = writer[x]
    BY <1>1
  <1>3. \A x \in Writers : WriterNamed(writer'[x], fresh)
    BY <1>2 DEF NamesInv, WriterNamed
  <1> QED BY <1>3 DEF NamesInv, WriterNamed

\* Taking up edits that are named.
LEMMA TakesUpNames ==
    ASSUME ConfigBasics, NamesInv, NEW w \in Writers, NEW todo \in Seq(Edits), TodoNamed(todo, fresh), NEW to,
           NEW fs \in [ConfigFile -> Docs], TakesUp(w, todo, fs, to), fresh' = fresh,
           \A f \in ConfigFile : Named(fs[f], fresh),
           \A f \in ConfigFile : Named(files'[f], fresh),
           \A a \in Alias : known'[a] <= fresh
    PROVE  NamesInv'
  <1> DEFINE v == [Idle EXCEPT !.todo = todo, !.step = IF todo = <<>> THEN "idle" ELSE "read"]
  <1>1. fresh \in Nat
    BY DEF ConfigBasics, ConfigTypes
  <1>2. v \in WriterStates /\ v.todo = todo /\ v.text = NoDoc /\ v.new = NoDoc
    BY NoDocType DEF Idle, WriterStates
  <1>3. writer' = [writer EXCEPT ![w] = v]
    BY DEF TakesUp
  <1> HIDE DEF v
  <1>4. WriterNamed(v, fresh)
    BY <1>1, <1>2, NoDocNamed DEF WriterNamed
  <1>5. \A h \in tree' : h.name <= fresh
    <2>1. \A h \in Load(fs) : h.name <= fresh
      BY <1>1, LoadNamed
    <2>2. \A h \in tree : h.name <= fresh
      BY DEF NamesInv
    <2> QED BY <2>1, <2>2 DEF TakesUp
  <1> QED BY <1>2, <1>3, <1>4, <1>5, NamesKept

\* What is known once an edit counts is a name that was given.
LEMMA KnowsNamed ==
    ASSUME ConfigBasics, NamesInv, NEW e \in Edits, e.block.name <= fresh, NEW a \in Alias
    PROVE  Knows(e)[a] <= fresh
  <1>1. /\ known \in [Alias -> {Gone} \cup Nat] /\ files \in [ConfigFile -> Docs] /\ fresh \in Nat
        /\ known[a] <= fresh /\ \A f \in ConfigFile : Named(files[f], fresh)
    BY DEF ConfigBasics, ConfigTypes, NamesInv
  <1>2. Effective(files, a) <= fresh
    BY <1>1, EffectiveNamed
  <1>3. KnownNow[a] <= fresh
    BY <1>1, <1>2 DEF KnownNow
  <1>4. Gone <= fresh
    BY <1>1 DEF Gone
  <1>5. CASE e.kind \in {"add", "update"}
    <2>1. Knows(e) = [known EXCEPT ![e.alias] = e.block.name]
      BY <1>5 DEF Knows
    <2>2. Knows(e)[a] = e.block.name \/ Knows(e)[a] = known[a]
      BY <1>1, <2>1
    <2> QED BY <1>1, <2>2
  <1>6. CASE e.kind = "delete"
    <2>1. Knows(e) = [known EXCEPT ![e.alias] = Gone]
      BY <1>6 DEF Knows
    <2>2. Knows(e)[a] = Gone \/ Knows(e)[a] = known[a]
      BY <1>1, <2>1
    <2> QED BY <1>1, <1>4, <2>2
  <1>7. CASE e.kind \notin {"add", "update", "delete"}
    <2>1. Knows(e) = KnownNow \/ Knows(e) = known
      BY <1>7 DEF Knows
    <2> QED BY <1>1, <1>3, <2>1
  <1> QED BY <1>5, <1>6, <1>7

\* Steps give no name but the edits'.
LEMMA StepNames ==
    ASSUME ConfigBasics, NamesInv, NEW w \in Writers, Step(w)
    PROVE  NamesInv'
  <1>1. ConfigTypes /\ ThereInv /\ fresh \in Nat
    BY DEF ConfigBasics, ConfigTypes
  <1>2. ~At(w, "idle")
    BY DEF Step, Read, Compare, Replace, Check, At
  <1>3. writer[w].todo # <<>>
    BY <1>2, BusyCurrent
  <1> DEFINE e == Current(w)
  <1>4. /\ e \in Edits /\ Tail(writer[w].todo) \in Seq(Edits) /\ e.file \in ConfigFile
        /\ e.undo \in Seq(Edits) /\ files[e.file] \in Docs
        /\ writer[w].text \in Docs /\ writer[w].new \in Docs
    BY <1>1, <1>3, CurrentType
  <1>5. /\ files \in [ConfigFile -> Docs] /\ writer[w] \in WriterStates /\ writer[w].todo \in Seq(Edits)
        /\ writer[w] = [todo |-> writer[w].todo, step |-> writer[w].step, text |-> writer[w].text, new |-> writer[w].new]
    BY <1>1 DEF ConfigTypes, WriterStates
  <1>6. /\ \A f \in ConfigFile : Named(files[f], fresh)
        /\ Named(writer[w].text, fresh) /\ Named(writer[w].new, fresh) /\ TodoNamed(writer[w].todo, fresh)
        /\ \A h \in tree : h.name <= fresh
        /\ \A a \in Alias : known[a] <= fresh
    BY DEF NamesInv
  <1>7. TodoNamed(Tail(writer[w].todo), fresh) /\ TodoNamed(e.undo, fresh) /\ EditNamed(e, fresh)
    BY <1>1, <1>3, <1>5, <1>6, TodoNamedTail DEF Current
  <1>8. CASE Dropped(w)
    <2>1. files' = [files EXCEPT ![e.file] = NoDoc]
      BY <1>8 DEF Dropped
    <2>2. files' \in [ConfigFile -> Docs] /\ \A f \in ConfigFile : Named(files'[f], fresh)
      BY <1>1, <1>4, <1>5, <1>6, <2>1, NoDocType, NoDocNamed
    <2> QED BY <1>4, <1>6, <1>7, <1>8, <2>2, TakesUpNames DEF Dropped
  <1>9. CASE NothingToDo(w)
    BY <1>4, <1>5, <1>6, <1>7, <1>9, TakesUpNames DEF NothingToDo
  <1>10. CASE NothingToDelete(w)
    BY <1>4, <1>5, <1>6, <1>7, <1>10, TakesUpNames DEF NothingToDelete
  <1>11. CASE OtherText(w)
    BY <1>4, <1>5, <1>6, <1>7, <1>11, TakesUpNames DEF OtherText
  <1>12. CASE ReadOn(w)
    <2> DEFINE c == Change(e, files[e.file])
               x == IF Anew(e) THEN NoDoc ELSE files[e.file]
               y == [c EXCEPT !.there = TRUE]
               v == [todo |-> writer[w].todo, step |-> "compare", text |-> x, new |-> y]
    <2>1. e.kind # "drop" /\ e.block.name <= fresh
      BY <1>7, <1>12 DEF ReadOn, EditNamed
    <2>2. c \in Docs /\ Named(c, fresh)
      BY <1>1, <1>4, <1>6, <2>1, ChangeType, ChangeNamed
    <2> HIDE DEF c
    <2>3. y \in Docs /\ y.hosts = c.hosts
      BY <2>2 DEF Docs
    <2>4. Named(y, fresh)
      BY <2>2, <2>3 DEF Named
    <2>5. x \in Docs /\ Named(x, fresh)
      BY <1>1, <1>4, <1>6, NoDocType, NoDocNamed
    <2> HIDE DEF x, y
    <2>6. v \in WriterStates /\ WriterNamed(v, fresh)
      BY <1>5, <1>6, <2>3, <2>4, <2>5 DEF WriterStates, WriterNamed
    <2>7. writer' = [writer EXCEPT ![w] = v] /\ UNCHANGED <<files, tree, dir, events, fresh, known>>
      BY <1>12 DEF ReadOn, x, y, c
    <2> HIDE DEF v
    <2> QED BY <1>6, <2>6, <2>7, NamesKept
  <1>13. CASE SameText(w)
    <2> DEFINE v == [writer[w] EXCEPT !.step = "replace"]
    <2>1. v \in WriterStates /\ WriterNamed(v, fresh)
      BY <1>5, <1>6 DEF WriterStates, WriterNamed
    <2>2. writer' = [writer EXCEPT ![w] = v] /\ UNCHANGED <<files, tree, dir, events, fresh, known>>
      BY <1>13 DEF SameText
    <2> HIDE DEF v
    <2> QED BY <1>6, <2>1, <2>2, NamesKept
  <1>14. CASE Replace(w)
    <2> DEFINE v == [writer[w] EXCEPT !.step = "check"]
    <2>1. v \in WriterStates /\ WriterNamed(v, fresh)
      BY <1>5, <1>6 DEF WriterStates, WriterNamed
    <2>2. writer' = [writer EXCEPT ![w] = v] /\ UNCHANGED <<tree, dir, events, fresh, known>>
      BY <1>14 DEF Replace, Bounds
    <2>3. files' = [files EXCEPT ![e.file] = writer[w].new]
      BY <1>14 DEF Replace
    <2>4. \A f \in ConfigFile : Named(files'[f], fresh)
      BY <1>4, <1>5, <1>6, <2>3
    <2> HIDE DEF v
    <2> QED BY <1>6, <2>1, <2>2, <2>4, NamesKept
  <1>15. CASE Passes(w)
    <2>1. \A a \in Alias : known'[a] <= fresh
      <3>1. known' = Knows(e)
        BY <1>15 DEF Passes
      <3>2. e.block.name <= fresh
        BY <1>7 DEF EditNamed
      <3>3. \A a \in Alias : Knows(e)[a] <= fresh
        BY <1>4, <3>2, KnowsNamed
      <3> QED BY <3>1, <3>3
    <2> QED BY <1>4, <1>5, <1>6, <1>7, <1>15, <2>1, TakesUpNames DEF Passes
  <1>16. CASE Refused(w)
    <2>1. files' = [files EXCEPT ![e.file] = writer[w].text]
      BY <1>16 DEF Refused
    <2>2. files' \in [ConfigFile -> Docs] /\ \A f \in ConfigFile : Named(files'[f], fresh)
      BY <1>4, <1>5, <1>6, <2>1
    <2> QED BY <1>4, <1>6, <1>7, <1>16, <2>2, TakesUpNames DEF Refused
  <1> QED BY <1>1, <1>8, <1>9, <1>10, <1>11, <1>12, <1>13, <1>14, <1>15, <1>16, StepCases

\* The edits of an operation give the name that is new with it, if any.
LEMMA BeginNames ==
    ASSUME ConfigBasics, NamesInv, NEW todo, WindowBegins(todo) \/ ImportBegins(todo)
    PROVE  TodoNamed(todo, fresh) \/ (fresh' = fresh + 1 /\ TodoNamed(todo, fresh + 1))
  <1>1. ConfigTypes /\ fresh \in Nat /\ fresh + 1 \in Nat /\ dir \in Folders
    BY DEF ConfigBasics, ConfigTypes
  <1>2. NoBlock.name = 0 /\ NewBlock.name = fresh + 1 /\ NoBlock \in Blks /\ NewBlock \in Blks
    BY <1>1, BlockTypes DEF NoBlock, NewBlock, Block
  <1>3. ASSUME NEW n \in Nat, NEW x, x.block = NoBlock, x.undo = <<>> PROVE EditNamed(x, n)
    BY <1>2, <1>3 DEF EditNamed
  <1>4. ASSUME NEW n \in Nat PROVE EditNamed(Header, n) /\ EditNamed(Ignore, n)
    BY <1>1, <1>3, HeaderTypes
  <1>5. "main" \in ConfigFile /\ dir \in ConfigFile
    BY <1>1 DEF ConfigFile
  <1>6. /\ {"add", "update", "delete", "id"} \subseteq Kinds \ (MainKinds \cup NewKinds)
        /\ {"label", "options", "plain"} \subseteq Kinds \ (HostKinds \cup MainKinds \cup NewKinds)
        /\ "create" \in Kinds \ (HostKinds \cup MainKinds)
    BY DEF Kinds, HostKinds, MainKinds, NewKinds
  <1>7. ASSUME NEW k \in {"add", "update", "delete", "id"}, NEW f \in ConfigFile, NEW a \in Alias,
               NEW b \in {NoBlock, NewBlock}, NEW c \in {"parse", "name"}
        PROVE  /\ Edit(k, f, a, b, c).block = b /\ Edit(k, f, a, b, c).undo = <<>>
               /\ Edit(k, f, a, b, c) \in LastEdits
    BY <1>1, <1>2, <1>6, EditType
  <1>8. ASSUME NEW x, x.block = NewBlock, x.undo = <<>> PROVE EditNamed(x, fresh + 1)
    BY <1>1, <1>2, <1>8 DEF EditNamed
  <1>9. ASSUME NEW a \in Alias, NEW f \in ConfigFile PROVE TodoNamed(CreateHost(a, f), fresh + 1)
    <2>1. EditNamed(Edit("add", f, a, NewBlock, "name"), fresh + 1)
      BY <1>7, <1>8
    <2> QED BY <1>1, <1>4, <2>1, TodoNamedEach DEF CreateHost
  <1>10. ASSUME NEW a \in Alias PROVE TodoNamed(ImportFolder(a), fresh + 1)
    <2> DEFINE add == Edit("add", dir, a, NewBlock, "name")
               again == [add EXCEPT !.undo = <<add>>]
    <2>1. add.block = NewBlock /\ add \in LastEdits
      BY <1>5, <1>7
    <2> HIDE DEF add
    <2>2. again.block = NewBlock /\ again.undo = <<add>>
      BY <2>1 DEF LastEdits
    <2> HIDE DEF again
    <2>3. EditNamed(again, fresh + 1)
      BY <1>1, <1>2, <2>1, <2>2 DEF EditNamed
    <2>4. ImportFolder(a) = <<Header, again>>
      BY DEF ImportFolder, again, add
    <2> QED BY <1>1, <1>4, <2>3, <2>4, TodoNamedEach
  <1>11. ASSUME NEW h \in tree
         PROVE  TodoNamed(UpdateHost(h), fresh + 1) /\ TodoNamed(DeleteHost(h), fresh) /\ TodoNamed(EnsureId(h), fresh)
    <2>1. h.alias \in Alias /\ h.file \in ConfigFile
      BY <1>1 DEF ConfigTypes
    <2>2. EditNamed(Edit("update", h.file, h.alias, NewBlock, "name"), fresh + 1)
      BY <1>7, <1>8, <2>1
    <2>3. /\ EditNamed(Edit("delete", h.file, h.alias, NoBlock, "parse"), fresh)
          /\ EditNamed(Edit("id", h.file, h.alias, NoBlock, "parse"), fresh)
      BY <1>1, <1>3, <1>7, <2>1
    <2> QED BY <1>1, <1>4, <2>2, <2>3, TodoNamedEach DEF UpdateHost, DeleteHost, EnsureId
  <1>12. ASSUME NEW h \in tree, NEW f \in {"main", dir} \ {h.file}, Has(h) PROVE TodoNamed(MoveHost(h, f), fresh)
    <2> DEFINE c == CopyOf(h, f)
               r == Removal(h, f)
    <2>1. /\ c.block = BlockOf(h) /\ c.undo = <<>>
          /\ r.block.name = h.name /\ r.undo = <<Withdrawal(h, f)>> /\ Withdrawal(h, f).block = NoBlock
          /\ MoveHost(h, f) = IF f = "main" THEN <<c, r>> ELSE <<Header, c, r>>
      BY <1>1, <1>12, MoveTypes
    <2> HIDE DEF c, r
    <2>2. h.name <= fresh
      BY DEF NamesInv
    <2>3. BlockOf(h).name <= fresh
      <3>1. /\ h.alias \in Alias /\ h.file \in ConfigFile /\ Len(files[h.file].hosts[h.alias]) > 0
            /\ BlockOf(h).name = files[h.file].hosts[h.alias][1].name /\ files[h.file] \in Docs
        BY <1>1, <1>12, BlockOfType
      <3>2. files[h.file].hosts[h.alias] \in Seq(Blks)
        BY <3>1, DocParts
      <3>3. 1 \in 1 .. Len(files[h.file].hosts[h.alias])
        BY <3>1, <3>2
      <3> QED BY <3>1, <3>3 DEF NamesInv, Named
    <2>4. EditNamed(c, fresh)
      BY <2>1, <2>3 DEF EditNamed
    <2>5. EditNamed(r, fresh)
      BY <1>1, <1>2, <2>1, <2>2 DEF EditNamed
    <2> QED BY <1>1, <1>4, <2>1, <2>4, <2>5, TodoNamedEach
  <1>13. TodoNamed(CreateFolder, fresh)
    <2>1. EditNamed(Plain("create", dir), fresh)
      BY <1>1, <1>3, <1>5, <1>6, PlainType
    <2> QED BY <1>1, <1>4, <2>1, TodoNamedEach DEF CreateFolder
  <1>14. ASSUME NEW k \in {"label", "options", "plain"} PROVE TodoNamed(SetFolder(k), fresh)
    <2>1. EditNamed(Plain(k, dir), fresh)
      BY <1>1, <1>3, <1>5, <1>6, PlainType
    <2> QED BY <1>1, <1>4, <2>1, TodoNamedEach DEF SetFolder
  <1>15. TodoNamed(MoveFolders, fresh) /\ TodoNamed(AdoptFolders, fresh)
    <2>1. PICK c, i, d, x :
            /\ MoveFolders = <<c, i>> /\ AdoptFolders = <<x>>
            /\ c.undo = <<>> /\ c.block = NoBlock /\ i.undo = <<d>> /\ i.block = NoBlock
            /\ d.block = NoBlock /\ x.undo = <<>> /\ x.block = NoBlock
      BY <1>1, FoldersTypes
    <2>2. EditNamed(c, fresh) /\ EditNamed(x, fresh)
      BY <1>1, <1>3, <2>1
    <2>3. EditNamed(i, fresh)
      BY <1>1, <1>2, <2>1 DEF EditNamed
    <2> QED BY <1>1, <2>1, <2>2, <2>3, TodoNamedEach
  <1> QED BY <1>5, <1>9, <1>10, <1>11, <1>12, <1>13, <1>14, <1>15 DEF WindowBegins, ImportBegins

\* Every name that is given stays below a later one.
LEMMA NamesLater ==
    ASSUME ConfigBasics, NamesInv, NEW n \in Nat, fresh <= n
    PROVE  /\ \A f \in ConfigFile : Named(files[f], n)
           /\ \A w \in Writers : WriterNamed(writer[w], n)
           /\ \A h \in tree : h.name <= n
           /\ \A a \in Alias : known[a] <= n
  <1>1. ConfigTypes /\ fresh \in Nat
    BY DEF ConfigBasics, ConfigTypes
  <1>2. ASSUME NEW f \in ConfigFile PROVE Named(files[f], n)
    BY <1>1, NamedLater DEF NamesInv, ConfigTypes
  <1>3. ASSUME NEW w \in Writers PROVE WriterNamed(writer[w], n)
    <2>1. writer[w].text \in Docs /\ writer[w].new \in Docs /\ writer[w].todo \in Seq(Edits)
      BY <1>1 DEF ConfigTypes, WriterStates
    <2>2. Named(writer[w].text, fresh) /\ Named(writer[w].new, fresh) /\ TodoNamed(writer[w].todo, fresh)
      BY DEF NamesInv
    <2>3. Named(writer[w].text, n) /\ Named(writer[w].new, n)
      BY <1>1, <2>1, <2>2, NamedLater
    <2>4. TodoNamed(writer[w].todo, n)
      BY <1>1, <2>1, <2>2, TodoNamedLater
    <2> QED BY <2>3, <2>4 DEF WriterNamed
  <1>4. ASSUME NEW h \in tree PROVE h.name <= n
    <2>1. h.name \in Nat /\ h.name <= fresh
      BY <1>1 DEF ConfigTypes, NamesInv
    <2> QED BY <1>1, <2>1
  <1>5. ASSUME NEW a \in Alias PROVE known[a] <= n
    <2>1. known[a] \in {Gone} \cup Nat /\ known[a] <= fresh
      BY <1>1 DEF ConfigTypes, NamesInv
    <2> QED BY <1>1, <2>1 DEF Gone
  <1> QED BY <1>2, <1>3, <1>4, <1>5

\* Operations give one new name or none.
LEMMA OperationNames ==
    ASSUME ConfigBasics, NamesInv, Operations
    PROVE  NamesInv'
  <1>1. PICK w, todo : w \in Writers /\ (WindowBegins(todo) \/ ImportBegins(todo)) /\ Begun(w, todo)
    BY OperationCases DEF Writers
  <1>2. ConfigTypes /\ fresh \in Nat /\ writer \in [Writers -> WriterStates]
    BY DEF ConfigBasics, ConfigTypes
  <1>3. todo \in Seq(Edits)
    BY <1>1, <1>2, BeginTypes
  <1>4. PICK n \in {fresh, fresh + 1} : n = fresh'
    BY <1>1 DEF Begun
  <1>5. n \in Nat /\ fresh <= n
    BY <1>2
  <1>6. TodoNamed(todo, n)
    <2>1. TodoNamed(todo, fresh) \/ (fresh' = fresh + 1 /\ TodoNamed(todo, fresh + 1))
      BY <1>1, BeginNames
    <2> QED BY <1>2, <1>3, <1>4, <1>5, <2>1, TodoNamedLater
  <1> DEFINE v == [Idle EXCEPT !.todo = todo, !.step = "read"]
  <1>7. v.todo = todo /\ v.text = NoDoc /\ v.new = NoDoc
    BY DEF Idle
  <1>8. writer' = [writer EXCEPT ![w] = v] /\ UNCHANGED <<files, tree, known>>
    BY <1>1 DEF Begun
  <1> HIDE DEF v
  <1>9. WriterNamed(v, n)
    BY <1>5, <1>6, <1>7, NoDocNamed DEF WriterNamed
  <1>10. /\ \A f \in ConfigFile : Named(files[f], n)
         /\ \A x \in Writers : WriterNamed(writer[x], n)
         /\ \A h \in tree : h.name <= n
         /\ \A a \in Alias : known[a] <= n
    BY <1>5, NamesLater
  <1>11. writer'[w] = v /\ \A x \in Writers \ {w} : writer'[x] = writer[x]
    BY <1>1, <1>2, <1>8
  <1>12. ASSUME NEW x \in Writers
         PROVE  Named(writer'[x].text, n) /\ Named(writer'[x].new, n) /\ TodoNamed(writer'[x].todo, n)
    <2>1. CASE x = w
      BY <1>9, <1>11, <2>1 DEF WriterNamed
    <2>2. CASE x # w
      BY <1>10, <1>11, <2>2 DEF WriterNamed
    <2> QED BY <2>1, <2>2
  <1>13. /\ \A f \in ConfigFile : Named(files'[f], n)
         /\ \A h \in tree' : h.name <= n
         /\ \A a \in Alias : known'[a] <= n
    BY <1>8, <1>10
  <1> QED BY <1>4, <1>12, <1>13 DEF NamesInv

\* What others write has a new name.
LEMMA OthersNames ==
    ASSUME ConfigBasics, NamesInv, OthersWrite
    PROVE  NamesInv'
  <1>1. ConfigTypes /\ fresh \in Nat
    BY DEF ConfigBasics, ConfigTypes
  <1>2. PICK f \in ReadFiles(files), a \in Alias : Renamed(f, a) \/ TakenAway(f, a) \/ AddedBy(f, a)
    BY OthersCases
  <1>3. f \in ConfigFile /\ files \in [ConfigFile -> Docs] /\ known \in [Alias -> {Gone} \cup Nat]
    BY <1>1, ReadsType DEF ConfigTypes
  <1>4. fresh' = fresh + 1 /\ UNCHANGED <<tree, writer>>
    BY OthersCases
  <1> DEFINE n == fresh + 1
  <1>5. n \in Nat /\ fresh <= n
    BY <1>1
  <1>6. /\ \A g \in ConfigFile : Named(files[g], n)
        /\ \A x \in Writers : WriterNamed(writer[x], n)
        /\ \A h \in tree : h.name <= n
        /\ \A b \in Alias : known[b] <= n
    BY <1>5, NamesLater
  <1>7. \E d \in Docs : files' = [files EXCEPT ![f] = d] /\ Named(d, n)
    <2>1. CASE Renamed(f, a)
      <3>1. PICK d \in Docs :
              /\ files' = [files EXCEPT ![f] = d]
              /\ \A b \in Alias \ {a} : d.hosts[b] = files[f].hosts[b]
              /\ Len(d.hosts[a]) = Len(files[f].hosts[a]) /\ Len(d.hosts[a]) > 0
              /\ d.hosts[a][1].name = n
              /\ \A i \in 2 .. Len(d.hosts[a]) : d.hosts[a][i] = files[f].hosts[a][i]
        BY <1>3, <2>1, RenamedDoc
      <3> HIDE DEF n
      <3>2. Named(files[f], n)
        BY <1>3, <1>6
      <3>3. ASSUME NEW i \in 1 .. Len(d.hosts[a]) PROVE d.hosts[a][i].name <= n
        <4>1. CASE i = 1
          BY <1>5, <3>1, <4>1
        <4>2. CASE i # 1
          <5>1. files[f].hosts[a][i].name <= n
            BY <3>1, <3>2 DEF Named
          <5>2. Len(d.hosts[a]) \in Nat /\ i \in 2 .. Len(d.hosts[a])
            BY <4>2, DocParts
          <5> QED BY <3>1, <5>1, <5>2
        <4> QED BY <4>1, <4>2
      <3>4. Named(d, n)
        BY <3>1, <3>2, <3>3 DEF Named
      <3> QED BY <3>1, <3>4
    <2>2. CASE TakenAway(f, a)
      <3>1. PICK d \in Docs :
              /\ files' = [files EXCEPT ![f] = d]
              /\ \A b \in Alias \ {a} : d.hosts[b] = files[f].hosts[b]
              /\ d.hosts[a] = Tail(files[f].hosts[a])
        BY <1>3, <2>2, TakenAwayDoc
      <3> HIDE DEF n
      <3>2. Named(files[f], n)
        BY <1>3, <1>6
      <3> DEFINE s == files[f].hosts[a]
                 t == d.hosts[a]
      <3>3. s \in Seq(Blks) /\ s # <<>> /\ \A i \in 1 .. Len(s) : s[i].name <= n
        BY <1>3, <2>2, <3>2, HostThere DEF TakenAway, Named
      <3>4. t = Tail(s)
        BY <3>1
      <3> HIDE DEF s, t
      <3>5. ASSUME NEW i \in 1 .. Len(t) PROVE t[i].name <= n
        <4>1. i + 1 \in 1 .. Len(s) /\ t[i] = s[i + 1]
          BY <3>3, <3>4, TailLen
        <4> QED BY <3>3, <4>1
      <3>6. Named(d, n)
        BY <3>1, <3>2, <3>5 DEF Named, t
      <3> QED BY <3>1, <3>6
    <2>3. CASE AddedBy(f, a)
      <3>1. PICK d \in Docs :
              /\ files' = [files EXCEPT ![f] = d]
              /\ \A b \in Alias \ {a} : d.hosts[b] = files[f].hosts[b]
              /\ d.hosts[a] = <<Block(n, FALSE, "none")>>
        BY <1>3, <2>3, AddedByDoc
      <3> HIDE DEF n
      <3>2. Named(files[f], n)
        BY <1>3, <1>6
      <3>3. Len(d.hosts[a]) = 1 /\ d.hosts[a][1].name = n
        BY <3>1 DEF Block
      <3>4. ASSUME NEW i \in 1 .. Len(d.hosts[a]) PROVE d.hosts[a][i].name <= n
        BY <1>5, <3>3
      <3>5. Named(d, n)
        BY <3>1, <3>2, <3>4 DEF Named
      <3> QED BY <3>1, <3>5
    <2> QED BY <1>2, <2>1, <2>2, <2>3
  <1>8. \A g \in ConfigFile : Named(files'[g], n)
    BY <1>3, <1>6, <1>7
  <1>9. \A b \in Alias : known'[b] <= n
    <2>1. known' = [known EXCEPT ![a] = n] \/ known' = [known EXCEPT ![a] = Gone]
      BY <1>2 DEF Renamed, TakenAway, AddedBy
    <2>2. Gone <= n
      BY <1>1 DEF Gone
    <2>3. ASSUME NEW b \in Alias PROVE known'[b] = n \/ known'[b] = Gone \/ known'[b] = known[b]
      BY <1>3, <2>1
    <2> HIDE DEF n
    <2> QED BY <1>5, <1>6, <2>2, <2>3
  <1> QED BY <1>4, <1>6, <1>8, <1>9 DEF NamesInv, WriterNamed

\* Loading gives no names.
LEMMA ReloadNames ==
    ASSUME ConfigBasics, NamesInv, Reload
    PROVE  NamesInv'
  <1>1. files \in [ConfigFile -> Docs] /\ fresh \in Nat
    BY DEF ConfigBasics, ConfigTypes
  <1>2. \A h \in Load(files) : h.name <= fresh
    BY <1>1, LoadNamed DEF NamesInv
  <1>3. tree' = Load(files) /\ UNCHANGED <<files, writer, known, fresh>>
    BY DEF Reload, Bounds
  <1> QED BY <1>2, <1>3 DEF NamesInv

\* Nor does being killed.
LEMMA KilledNames ==
    ASSUME ConfigBasics, NamesInv, Killed
    PROVE  NamesInv'
  <1>1. files \in [ConfigFile -> Docs] /\ fresh \in Nat /\ \A f \in ConfigFile : Named(files[f], fresh)
    BY DEF ConfigBasics, ConfigTypes, NamesInv
  <1>2. \A h \in Load(files) : h.name <= fresh
    BY <1>1, LoadNamed
  <1>3. \A a \in Alias : known'[a] <= fresh
    <2>1. ASSUME NEW a \in Alias PROVE known'[a] = Gone \/ known'[a] = Effective(files, a) \/ known'[a] = known[a]
      BY DEF Killed
    <2>2. ASSUME NEW a \in Alias PROVE Effective(files, a) <= fresh /\ known[a] <= fresh /\ Gone <= fresh
      BY <1>1, EffectiveNamed DEF NamesInv, Gone
    <2> QED BY <2>1, <2>2
  <1>4. writer' = [w \in Writers |-> Idle] /\ tree' = Load(files) /\ UNCHANGED <<files, fresh>>
    BY DEF Killed
  <1>5. Idle.text = NoDoc /\ Idle.new = NoDoc /\ Idle.todo = <<>>
    BY DEF Idle
  <1>6. \A w \in Writers : Named(writer'[w].text, fresh) /\ Named(writer'[w].new, fresh) /\ TodoNamed(writer'[w].todo, fresh)
    BY <1>1, <1>4, <1>5, NoDocNamed DEF TodoNamed
  <1> QED BY <1>1, <1>2, <1>3, <1>4, <1>6 DEF NamesInv

\* No step gives a name beyond the last one.
LEMMA NextNames ==
    ASSUME ConfigBasics, NamesInv, [ConfigNext]_configVars
    PROVE  NamesInv'
  <1>1. CASE UNCHANGED configVars
    BY <1>1 DEF NamesInv, configVars
  <1> QED BY <1>1, NextCases, StepNames, OperationNames, ReloadNames, OthersNames, KilledNames

\* At first the one host has the name 0.
LEMMA InitNames == ConfigInit => NamesInv
  <1> SUFFICES ASSUME ConfigInit PROVE NamesInv
    OBVIOUS
  <1>1. ConfigBasics /\ fresh = 0
    BY InitBasics DEF ConfigInit
  <1>2. files \in [ConfigFile -> Docs] /\ fresh \in Nat
    BY <1>1 DEF ConfigBasics, ConfigTypes
  <1>3. \A f \in ConfigFile : Named(files[f], fresh)
    <2>1. PICK ignore \in BOOLEAN, keys \in BOOLEAN, include \in {<<>>, <<"old">>}, a \in Alias,
               m \in Docs, o \in Docs : FirstDocs(ignore, keys, include, a, m, o)
      BY InitDocs
    <2> DEFINE b == Block(0, keys, "none")
    <2>2. Named(NoDoc, 0)
      BY NoDocNamed
    <2>3. /\ files = [f \in ConfigFile |-> CASE f = "main" -> m [] f = "old" -> o [] f = "new" -> NoDoc]
          /\ \A x \in Alias \ {a} : m.hosts[x] = <<>> /\ o.hosts[x] = <<>>
          /\ \/ m.hosts[a] = <<>> /\ SameBlocks(o.hosts[a], <<b>>)
             \/ o = NoDoc /\ m.hosts[a] = <<b>>
      BY <2>1 DEF FirstDocs
    <2>4. b.name = 0
      BY DEF Block
    <2> HIDE DEF b
    <2>5. Named(m, 0)
      <3>1. \A i \in 1 .. Len(m.hosts[a]) : m.hosts[a][i].name <= 0
        BY <2>3, <2>4
      <3> QED BY <2>3, <3>1 DEF Named
    <2>6. Named(o, 0)
      <3>1. CASE o = NoDoc
        BY <2>2, <3>1
      <3>2. CASE SameBlocks(o.hosts[a], <<b>>)
        <4>1. \A i \in 1 .. Len(o.hosts[a]) : o.hosts[a][i].name <= 0
          BY <2>4, <3>2 DEF SameBlocks
        <4> QED BY <2>3, <4>1 DEF Named
      <3> QED BY <2>3, <3>1, <3>2
    <2>7. \A f \in ConfigFile : files[f] \in {m, o, NoDoc}
      BY <2>3 DEF ConfigFile, Folders
    <2> QED BY <1>1, <2>2, <2>5, <2>6, <2>7
  <1>4. \A h \in tree : h.name <= fresh
    BY <1>2, <1>3, LoadNamed DEF ConfigInit
  <1>5. \A a \in Alias : known[a] <= fresh
    <2>1. \A a \in Alias : Effective(files, a) <= fresh
      BY <1>2, <1>3, EffectiveNamed
    <2> QED BY <2>1 DEF ConfigInit
  <1>6. \A w \in Writers : writer[w].text = NoDoc /\ writer[w].new = NoDoc /\ writer[w].todo = <<>>
    BY DEF ConfigInit, Idle
  <1>7. \A w \in Writers : Named(writer[w].text, fresh) /\ Named(writer[w].new, fresh) /\ TodoNamed(writer[w].todo, fresh)
    BY <1>2, <1>6, NoDocNamed DEF TodoNamed
  <1> QED BY <1>3, <1>4, <1>5, <1>7 DEF NamesInv

\* The types of the run follow.
LEMMA TypesFollow == ConfigBasics /\ NamesInv => ConfigTypeOK
  <1> SUFFICES ASSUME ConfigBasics, NamesInv PROVE ConfigTypeOK
    OBVIOUS
  <1>1. ConfigTypes /\ ThereInv
    BY DEF ConfigBasics
  <1>2. ASSUME NEW f \in ConfigFile
        PROVE  /\ files[f].there \/ (files[f] = NoDoc /\ f # "main")
               /\ {files[f].ignore, files[f].keys, files[f].options} \subseteq BOOLEAN
               /\ ToSet(files[f].include) \subseteq Folders
               /\ \A a \in Alias : ToSet(files[f].hosts[a]) \subseteq Blk
    <2>1. files[f] \in Docs
      BY <1>1 DEF ConfigTypes
    <2>2. files[f].there \/ (files[f] = NoDoc /\ f # "main")
      BY <1>1 DEF ThereInv, SoundDoc
    <2>3. {files[f].ignore, files[f].keys, files[f].options} \subseteq BOOLEAN
      BY <2>1, DocParts
    <2>4. ToSet(files[f].include) \subseteq Folders
      <3>1. files[f].include \in Seq(Folders)
        BY <2>1, DocParts
      <3> QED BY <3>1 DEF ToSet
    <2>5. ASSUME NEW a \in Alias PROVE ToSet(files[f].hosts[a]) \subseteq Blk
      <3> DEFINE s == files[f].hosts[a]
      <3>1. s \in Seq(Blks) /\ \A i \in 1 .. Len(s) : s[i].name <= fresh
        BY <2>1, DocParts DEF NamesInv, Named
      <3> HIDE DEF s
      <3>2. ASSUME NEW i \in 1 .. Len(s) PROVE s[i] \in Blk
        <4>1. s[i] \in Blks /\ s[i].name <= fresh
          BY <3>1
        <4>2. s[i].name \in 0 .. fresh
          BY <1>1, <4>1 DEF Blks, ConfigTypes
        <4> QED BY <4>1, <4>2 DEF Blks, Blk
      <3>3. ToSet(s) \subseteq Blk
        BY <3>1, <3>2 DEF ToSet
      <3> QED BY <3>3 DEF s
    <2> QED BY <2>2, <2>3, <2>4, <2>5
  <1>3. tree \subseteq [alias : Alias, file : ConfigFile, name : 0 .. fresh]
    <2>1. ASSUME NEW h \in tree PROVE h \in [alias : Alias, file : ConfigFile, name : 0 .. fresh]
      <3>1. h \in [alias : Alias, file : ConfigFile, name : Nat] /\ h.name <= fresh /\ fresh \in Nat
        BY <1>1 DEF ConfigTypes, NamesInv
      <3>2. h.name \in 0 .. fresh
        BY <3>1
      <3> QED BY <3>1, <3>2
    <2> QED BY <2>1
  <1>4. known \in [Alias -> {Gone} \cup 0 .. fresh]
    <2>1. \A a \in Alias : known[a] \in {Gone} \cup Nat /\ known[a] <= fresh
      BY <1>1 DEF ConfigTypes, NamesInv
    <2>2. \A a \in Alias : known[a] \in {Gone} \cup 0 .. fresh
      BY <1>1, <2>1 DEF ConfigTypes
    <2> QED BY <1>1, <2>2 DEF ConfigTypes
  <1>5. dir \in Folders /\ \A w \in Writers : (writer[w].step = "idle") <=> (writer[w].todo = <<>>)
    BY <1>1 DEF ConfigTypes, ThereInv, At
  <1> QED BY <1>2, <1>3, <1>4, <1>5 DEF ConfigTypeOK

\* Types are right, and no file that ssh reads has a name that wasn't given.
THEOREM ConfigTypeCorrect == ConfigSpec => []ConfigTypeOK
  <1>1. ConfigInit => ConfigBasics /\ NamesInv
    BY InitBasics, InitNames
  <1>2. (ConfigBasics /\ NamesInv) /\ [ConfigNext]_configVars => (ConfigBasics /\ NamesInv)'
    BY NextBasics, NextNames
  <1> QED BY <1>1, <1>2, TypesFollow, PTL DEF ConfigSpec
===============================================================================
