----------------------------- MODULE DataDirectory -----------------------------
(***************************************************************************)
(* The data directory (native-term-app: data_lock.rs, settings.rs,         *)
(* data_dir.rs, the start in main.rs, move_data of app.rs): its lock,      *)
(* settings.toml, and its move to another folder.                          *)
(*                                                                         *)
(* One NativeTerm per machine; a directory may be on a share or a stick    *)
(* that is carried.  Of the settings only one is told apart, a machine's   *)
(* own (how often it was chosen); the shared ones are read and written     *)
(* with it.  A file of a lock is a number: on Unix one that was removed    *)
(* may still be held open.                                                 *)
(***************************************************************************)
EXTENDS Integers, FiniteSets, TLC

CONSTANTS
    Machines,
    Dirs,           \* the folders that may be data directories
    MaxChoices,     \* bound: choices of each machine
    MaxStarts,      \* bound: starts, of all machines
    MaxActs         \* bound: crashes, moves and edits by hand

ASSUME DataDirectoryAssumption ==
    /\ {MaxChoices, MaxStarts, MaxActs} \subseteq Nat
    /\ "nobody" \notin Machines

VARIABLES
    windows,    \* whether a file held open can't be removed (and the lock is
                \* its sharing mode), or it can (and it is locked)
    pointer,    \* the directory each machine starts with
    file,       \* settings.toml
    temp,       \* settings.toml.tmp
    used,       \* folders with a state.db (and what is made with it)
    legacy,     \* directories whose state.db holds settings of before
    path,       \* which file nativeterm.lock is
    held,       \* whose each lock file is
    nt,         \* each machine's NativeTerm
    starts, acts,
    saved,      \* what each machine chose last and saved where its next start
                \* finds it (history)
    together    \* two NativeTerms used a directory at once (history)

vars == <<windows, pointer, file, temp, used, legacy, path, held, nt, starts, acts, saved, together>>

Values == [Machines -> 0..MaxChoices]
Start0 == [m \in Machines |-> 0]

\* What a file holds: nothing there, all values, cut off in the middle, or
\* what someone typed and can't be parsed.
Whole(values) == [is |-> "whole", values |-> values]
Absent == [is |-> "absent", values |-> Start0]
Half == [is |-> "half", values |-> Start0]
Broken == [is |-> "broken", values |-> Start0]
Texts == [is : {"absent", "whole", "half", "broken"}, values : Values]
Unread == {Half, Broken}

Nobody == "nobody"
NoFile == 0
Files == 1..(Cardinality(Machines) + Cardinality(Dirs))

Off == [at |-> "off", dir |-> CHOOSE d \in Dirs : TRUE, values |-> Start0, problem |-> FALSE,
        opened |-> NoFile, alone |-> FALSE, into |-> "gone", next |-> "off",
        to |-> CHOOSE d \in Dirs : TRUE]

TypeOK ==
    /\ windows \in BOOLEAN
    /\ pointer \in [Machines -> Dirs]
    /\ file \in [Dirs -> Texts] /\ temp \in [Dirs -> Texts]
    /\ used \subseteq Dirs /\ legacy \subseteq Dirs
    /\ path \in [Dirs -> Files \cup {NoFile}]
    /\ held \in [Files -> Machines \cup {Nobody}]
    /\ nt \in [Machines -> [at : {"off", "read", "lock", "try", "runs", "saves", "renames",
                                  "points", "removes"},
                            dir : Dirs, values : Values, problem : BOOLEAN,
                            opened : Files \cup {NoFile}, alone : BOOLEAN,
                            into : {"temp", "file", "gone"}, next : {"off", "lock", "runs"},
                            to : Dirs]]
    /\ starts \in 0..MaxStarts /\ acts \in 0..MaxActs
    /\ saved \in [Machines -> 0..MaxChoices]
    /\ together \in BOOLEAN
    \* who is alone holds the file it opened
    /\ \A m \in Machines : nt[m].alone => nt[m].opened \in Files /\ held[nt[m].opened] = m

Init ==
    /\ windows \in BOOLEAN
    /\ \E d \in Dirs : pointer = [m \in Machines |-> d]
    /\ file = [d \in Dirs |-> Absent]
    /\ temp = [d \in Dirs |-> Absent]
    /\ used = {} /\ legacy \in {{}, {pointer[m] : m \in Machines}}
    /\ path = [d \in Dirs |-> NoFile]
    /\ held = [f \in Files |-> Nobody]
    /\ nt = [m \in Machines |-> Off]
    /\ starts = 0 /\ acts = 0
    /\ saved = [m \in Machines |-> 0]
    /\ together = FALSE

Dir(m) == nt[m].dir
Symmetry == Permutations(Machines)

Act == acts < MaxActs /\ acts' = acts + 1
Up(m) == nt[m].at # "off"
Go(m, at) == nt' = [nt EXCEPT ![m].at = at]

-----------------------------------------------------------------------------
(* The start. *)

\* The settings are read; a file that can't be parsed is a problem.
Open(m) ==
    /\ ~Up(m) /\ starts < MaxStarts
    /\ starts' = starts + 1
    /\ used' = used \cup {pointer[m]}
    /\ LET d == pointer[m] IN
       /\ nt' = [nt EXCEPT ![m] =
            [Off EXCEPT !.at = "read", !.dir = d, !.problem = file[d] \in Unread,
                        !.values = file[d].values]]
       /\ together' = (together \/ \E o \in Machines : Up(o) /\ Dir(o) = d)
    /\ UNCHANGED <<windows, pointer, file, temp, legacy, path, held, acts, saved>>

\* What is written is rendered from memory: every machine's settings.
Render(m) == nt[m].values

\* Wrong variant: the file is written in place.
SaveInPlace(m, values, then) ==
    /\ file' = [file EXCEPT ![Dir(m)] = Half]
    /\ nt' = [nt EXCEPT ![m] = [@ EXCEPT !.at = "saves", !.into = "file", !.next = then,
                                         !.values = values]]
    /\ UNCHANGED temp

\* The temporary file, one for all, is emptied to be written.
Save(m, values, then) ==
    /\ temp' = [temp EXCEPT ![Dir(m)] = Half]
    /\ nt' = [nt EXCEPT ![m] = [@ EXCEPT !.at = "saves", !.into = "temp", !.next = then,
                                         !.values = values]]
    /\ UNCHANGED file

\* The settings of an older data directory are taken over from its state.db,
\* where there is no file (it stays 0 here how often they were chosen).
TakeOver(m) ==
    /\ nt[m].at = "read"
    /\ IF file[Dir(m)] = Absent /\ ~nt[m].problem /\ Dir(m) \in legacy
       THEN Save(m, nt[m].values, "lock")
       ELSE Go(m, "lock") /\ UNCHANGED <<file, temp>>
    /\ UNCHANGED <<windows, pointer, used, legacy, path, held, starts, acts, saved, together>>

\* A file that isn't there yet (the smallest number: which is all the same).
IsNew(f) == /\ \A d \in Dirs : path[d] # f
            /\ \A m \in Machines : nt[m].opened # f
            /\ held[f] = Nobody
New == {f \in Files : IsNew(f) /\ \A g \in Files : IsNew(g) => f <= g}

\* nativeterm.lock is opened, and made where it isn't.
Opens(d) == IF path[d] = NoFile THEN New ELSE {path[d]}

\* Wrong variant: the file is opened for others to write too.
FreeAlways(d, f) == TRUE

\* The lock is free: nobody holds the file open (or locked).
Free(d, f) == held[f] = Nobody

\* The lock is taken, or NativeTerm is told that another holds it.
Take(m, f) ==
    /\ held' = IF Free(Dir(m), f) THEN [held EXCEPT ![f] = m] ELSE held
    /\ nt' = [nt EXCEPT ![m] = [@ EXCEPT !.at = "runs", !.alone = Free(Dir(m), f),
                                         !.opened = IF Free(Dir(m), f) THEN f ELSE NoFile]]

\* On Windows opening the file is taking the lock.
TakeLock(m) ==
    /\ nt[m].at = "lock" /\ windows
    /\ \E f \in Opens(Dir(m)) :
          path' = [path EXCEPT ![Dir(m)] = f] /\ Take(m, f)
    /\ UNCHANGED <<windows, pointer, file, temp, used, legacy, starts, acts, saved, together>>

\* On Unix it is opened, then locked.
OpenLock(m) ==
    /\ nt[m].at = "lock" /\ ~windows
    /\ \E f \in Opens(Dir(m)) :
          /\ path' = [path EXCEPT ![Dir(m)] = f]
          /\ nt' = [nt EXCEPT ![m].at = "try", ![m].opened = f]
    /\ UNCHANGED <<windows, pointer, file, temp, used, legacy, held, starts, acts, saved, together>>

TryLock(m) ==
    /\ nt[m].at = "try"
    /\ Take(m, nt[m].opened)
    /\ UNCHANGED <<windows, pointer, file, temp, used, legacy, path, starts, acts, saved, together>>

-----------------------------------------------------------------------------
(* The settings. *)

\* A choice is kept in memory, and written unless the file was unreadable.
Set(m) ==
    /\ nt[m].at = "runs" /\ nt[m].values[m] < MaxChoices
    /\ LET values == [nt[m].values EXCEPT ![m] = @ + 1] IN
       IF nt[m].problem THEN nt' = [nt EXCEPT ![m].values = values] /\ UNCHANGED <<file, temp>>
       ELSE Save(m, values, "runs")
    /\ UNCHANGED <<windows, pointer, used, legacy, path, held, starts, acts, saved, together>>

\* It is written, through the handle it was opened by: another may have
\* renamed that file to settings.toml meanwhile, or replaced that.
Write(m) ==
    /\ nt[m].at = "saves"
    /\ Go(m, "renames")
    /\ temp' = [temp EXCEPT ![Dir(m)] = IF nt[m].into = "temp" THEN Whole(Render(m)) ELSE @]
    /\ file' = [file EXCEPT ![Dir(m)] = IF nt[m].into = "file" THEN Whole(Render(m)) ELSE @]
    /\ UNCHANGED <<windows, pointer, used, legacy, path, held, starts, acts, saved, together>>

\* Where another's bytes go when m renames the file they were going to.
Moved(m, o) ==
    IF Dir(o) # Dir(m) \/ (o # m /\ nt[o].at # "saves") THEN nt[o].into
    ELSE IF o # m /\ nt[o].into = "temp" THEN "file" ELSE "gone"

\* The temporary file is renamed to settings.toml; it fails where another
\* has renamed it.
Rename(m) ==
    /\ nt[m].at = "renames"
    /\ IF temp[Dir(m)] = Absent
       THEN /\ nt' = [nt EXCEPT ![m] = [@ EXCEPT !.at = nt[m].next, !.next = "off", !.into = "gone"]]
            /\ UNCHANGED <<file, temp, saved>>
       ELSE /\ file' = [file EXCEPT ![Dir(m)] = temp[Dir(m)]]
            /\ temp' = [temp EXCEPT ![Dir(m)] = Absent]
            /\ nt' = [o \in Machines |->
                         [nt[o] EXCEPT !.into = Moved(m, o),
                                       !.at = IF o = m THEN nt[m].next ELSE @,
                                       !.next = IF o = m THEN "off" ELSE @]]
            /\ saved' = IF Dir(m) = pointer[m] THEN [saved EXCEPT ![m] = nt[m].values[m]]
                        ELSE saved
    /\ UNCHANGED <<windows, pointer, used, legacy, path, held, starts, acts, together>>

-----------------------------------------------------------------------------
(* The move to another folder. *)

\* Only an empty folder is taken.
Empty(d) == d \notin used \cup legacy

\* The files are copied, the lock file too; state.db has gone over before.
Copy(m, d) ==
    /\ nt[m].at = "runs" /\ Act
    /\ d # Dir(m) /\ Empty(d)
    /\ used' = used \cup {d}
    /\ file' = [file EXCEPT ![d] = file[Dir(m)]]
    /\ temp' = [temp EXCEPT ![d] = temp[Dir(m)]]
    /\ IF path[Dir(m)] = NoFile THEN UNCHANGED path
       ELSE \E f \in New : path' = [path EXCEPT ![d] = f]
    /\ legacy' = IF Dir(m) \in legacy THEN legacy \cup {d} ELSE legacy
    /\ nt' = [nt EXCEPT ![m].at = "points", ![m].to = d]
    /\ UNCHANGED <<windows, pointer, held, starts, saved, together>>

\* The next start is pointed at the copy, with all that was saved until now;
\* this one goes on in the old folder.
Point(m) ==
    /\ nt[m].at = "points"
    /\ pointer' = [pointer EXCEPT ![m] = nt[m].to]
    /\ nt' = [nt EXCEPT ![m] = [@ EXCEPT !.at = "runs", !.to = Off.to]]
    /\ saved' = [saved EXCEPT ![m] = nt[m].values[m]]
    /\ UNCHANGED <<windows, file, temp, used, legacy, path, held, starts, acts, together>>

\* The next start can't be pointed there: the copy is left, and of no use.
PointFails(m) ==
    /\ nt[m].at = "points" /\ Act
    /\ nt' = [nt EXCEPT ![m] = [@ EXCEPT !.at = "runs", !.to = Off.to]]
    /\ UNCHANGED <<windows, pointer, file, temp, used, legacy, path, held, starts, saved, together>>

-----------------------------------------------------------------------------
(* The end. *)

Released(m) == [f \in Files |-> IF held[f] = m THEN Nobody ELSE held[f]]

\* NativeTerm closes: the lock file is closed, if it is its own, then removed.
Quit(m) ==
    /\ nt[m].at = "runs"
    /\ held' = Released(m)
    /\ nt' = [nt EXCEPT ![m] = IF nt[m].alone THEN [@ EXCEPT !.at = "removes", !.alone = FALSE]
                               ELSE Off]
    /\ UNCHANGED <<windows, pointer, file, temp, used, legacy, path, starts, acts, saved, together>>

\* Wrong variant: a file another holds open is removed.
MayRemove(f) == TRUE

\* Windows removes no file that is held open.
Removes(f) == ~windows \/ held[f] = Nobody

\* The file by that name is removed, whoever's it is by now.
RemoveLock(m) ==
    /\ nt[m].at = "removes"
    /\ path' = [path EXCEPT ![Dir(m)] = IF @ # NoFile /\ Removes(@) THEN NoFile ELSE @]
    /\ nt' = [nt EXCEPT ![m] = Off]
    /\ UNCHANGED <<windows, pointer, file, temp, used, legacy, held, starts, acts, saved, together>>

\* NativeTerm dies: what it held open is closed (what was written stays; the
\* power isn't lost, since nothing waits for the disk).
Crash(m) ==
    /\ Up(m) /\ Act
    /\ held' = Released(m)
    /\ nt' = [nt EXCEPT ![m] = Off]
    /\ UNCHANGED <<windows, pointer, file, temp, used, legacy, path, starts, saved, together>>

\* Someone mistypes the file while no NativeTerm runs.
Mistype(d) ==
    /\ Act /\ file[d] # Absent /\ \A m \in Machines : ~Up(m)
    /\ file' = [file EXCEPT ![d] = Broken]
    /\ UNCHANGED <<windows, pointer, temp, used, legacy, path, held, nt, starts, saved, together>>

Next ==
    \/ \E m \in Machines :
          \/ Open(m) \/ TakeOver(m) \/ TakeLock(m) \/ OpenLock(m) \/ TryLock(m)
          \/ Set(m) \/ Write(m) \/ Rename(m)
          \/ Point(m) \/ PointFails(m) \/ Quit(m) \/ RemoveLock(m) \/ Crash(m)
    \/ \E m \in Machines, d \in Dirs : Copy(m, d)
    \/ \E d \in Dirs : Mistype(d)

Spec == Init /\ [][Next]_vars

-----------------------------------------------------------------------------
(* Properties. *)

\* Of the NativeTerms of a directory at most one believes to be alone: the
\* second one is told (data_lock.rs).  On Windows only: on Unix a lock file
\* is removed while another has taken it.
OneHolder ==
    windows => \A m, o \in Machines :
        nt[m].alone /\ nt[o].alone /\ Dir(m) = Dir(o) => m = o

\* A directory used by one NativeTerm at a time, on whichever machine, keeps
\* what each machine saved last, through crashes and a move; and its file is
\* never seen half written.
ChosenIsKept ==
    ~together =>
        /\ \A d \in Dirs : file[d] # Half
        /\ \A m \in Machines :
             file[pointer[m]] \notin Unread => file[pointer[m]].values[m] = saved[m]

\* The file is never half written, whoever else uses the directory
\* (settings.rs: "so it is never half written").
NeverHalfWritten == \A d \in Dirs : file[d] # Half

===============================================================================
