------------------------------- MODULE FileEdit -------------------------------
(***************************************************************************)
(* A file of a server edited with a program here (native-term-app,         *)
(* files_window.rs): it is downloaded and opened, and a thread looks every *)
(* 700 ms whether it was saved, uploads it beside the file on the server   *)
(* and renames it over that, or writes it in place where that fails.       *)
(* Meanwhile others may change the file on the server.                     *)
(*                                                                         *)
(* A content is a record: whose it is, the number of the save, and whether *)
(* it is all there.  Each change has a modification time of its own (the   *)
(* code compares them for equality only, in seconds).  What the program    *)
(* writes takes shorter than two looks.                                    *)
(***************************************************************************)
EXTENDS Integers

CONSTANTS
    MaxSaves,       \* bound: saves of the program here
    MaxForeign,     \* bound: saves of others on the server
    MaxFaults       \* bound: full disks and lost connections

ASSUME FileEditAssumption ==
    /\ {MaxSaves, MaxForeign, MaxFaults} \subseteq Nat

VARIABLES
    mayReplace, \* the folder may be written to, and the server renames over
    server,     \* the file on the server, with its time
    beside,       \* the copy beside it
    local,      \* the copy here, with its time
    looked,     \* looks since the save under way began
    pc,         \* where the watching thread is
    seen,       \* the time of the copy here when last looked
    pending,    \* a save waits to be uploaded
    attrs,      \* the time of the file on the server, as known
    forced,     \* this upload was asked for by Overwrite
    conflict, overwrite, stop,  \* the flags shared with the window
    closed,     \* the connection
    others,     \* saves of others
    faults,
    base,       \* what was downloaded (history)
    late        \* what is there was saved while an upload was under way
                \* (history)

editVars == <<server, beside, local, looked, pc, seen, pending, attrs, forced,
          conflict, overwrite, stop, closed, others, faults, base, late, mayReplace>>

Theirs(n) == [by |-> "theirs", save |-> n, whole |-> TRUE]
Ours(n) == [by |-> "ours", save |-> n, whole |-> TRUE]
Torn(c) == [c EXCEPT !.whole = FALSE]
Nothing == Torn(Ours(0))

Uploading == pc \in {"upload", "rename", "in place", "write", "restat"}

EditInit ==
    /\ server = [file |-> Theirs(0), time |-> 0]
    /\ beside = Nothing
    /\ local = [file |-> Nothing, time |-> 0]
    /\ looked = 0
    /\ pc = "open"
    /\ seen = 0 /\ attrs = 0
    /\ pending = FALSE /\ forced = FALSE
    /\ conflict = FALSE /\ overwrite = FALSE /\ stop = FALSE
    /\ closed = FALSE
    /\ others = 0 /\ faults = 0
    /\ mayReplace \in BOOLEAN
    /\ base = Nothing /\ late = FALSE

Keeps == UNCHANGED <<looked, base, stop, closed, others, faults, mayReplace>>
Flags == UNCHANGED <<conflict, overwrite>>

-----------------------------------------------------------------------------
(* The thread. *)

\* The file's time is asked for, then the file.
OpenStat ==
    /\ pc = "open"
    /\ IF closed THEN pc' = "ended" /\ UNCHANGED attrs
       ELSE pc' = "download" /\ attrs' = server.time
    /\ UNCHANGED <<server, beside, local, seen, pending, forced, late>>
    /\ Keeps /\ Flags

OpenDownload ==
    /\ pc = "download"
    /\ IF closed THEN pc' = "ended" /\ UNCHANGED <<local, seen, base>>
       ELSE /\ pc' = "loop"
            /\ base' = server.file
            /\ local' = [file |-> server.file, time |-> 0]
            /\ seen' = 0
    /\ UNCHANGED <<server, beside, pending, attrs, forced, late>>
    /\ UNCHANGED <<looked, stop, closed, others, faults, mayReplace>> /\ Flags

\* Until the edit is closed it sleeps and looks.
Loop ==
    /\ pc = "loop"
    /\ pc' = IF stop THEN "ended" ELSE "sleep"
    /\ UNCHANGED <<server, beside, local, seen, pending, attrs, forced, late>>
    /\ Keeps /\ Flags

\* What a look leaves alone; at most one falls into a save.
Looks ==
    /\ pc = "sleep"
    /\ local.file.whole \/ looked = 0
    /\ looked' = IF local.file.whole THEN 0 ELSE looked + 1
    /\ UNCHANGED <<server, beside, local, attrs, conflict, stop, closed, others, faults,
                   base, late, mayReplace>>

\* A save that hasn't changed any more since the last look is uploaded, and
\* so is the file when Overwrite asks for it.
Look ==
    /\ Looks
    /\ \/ /\ closed
          /\ pc' = "ended"
          /\ UNCHANGED <<seen, pending, forced, overwrite>>
       \/ /\ ~closed /\ local.time # seen
          /\ seen' = local.time
          /\ pending' = TRUE
          /\ pc' = "loop"
          /\ UNCHANGED <<forced, overwrite>>
       \/ /\ ~closed /\ local.time = seen
          /\ forced' = overwrite
          /\ overwrite' = FALSE
          /\ pc' = IF pending \/ overwrite THEN "stat" ELSE "loop"
          /\ UNCHANGED <<seen, pending>>

\* Wrong variant: a conflict that is shown already is uploaded over.
StatShownOnce ==
    /\ pc = "stat"
    /\ conflict' = (~forced /\ ~conflict /\ (closed \/ server.time # attrs))
    /\ pc' = IF conflict' THEN "loop" ELSE "upload"
    /\ UNCHANGED <<server, beside, local, seen, pending, attrs, forced, overwrite, late>>
    /\ Keeps

\* Was it changed on the server meanwhile?
Stat ==
    /\ pc = "stat"
    /\ conflict' = (~forced /\ (closed \/ server.time # attrs))
    /\ pc' = IF conflict' THEN "loop" ELSE "upload"
    /\ UNCHANGED <<server, beside, local, seen, pending, attrs, forced, overwrite, late>>
    /\ Keeps

\* A request fails because the connection has gone, or (full) the server's
\* disk is full.
Fails == closed /\ UNCHANGED faults
Full == ~closed /\ faults < MaxFaults /\ faults' = faults + 1
Works == ~closed /\ UNCHANGED faults

\* The copy goes beside the file first.
Upload ==
    /\ pc = "upload"
    /\ \/ /\ Works
          /\ beside' = local.file
          /\ pc' = "rename"
       \/ /\ Fails \/ Full \/ (Works /\ ~mayReplace)
          /\ UNCHANGED beside
          /\ pc' = "in place"
    /\ UNCHANGED <<server, local, looked, seen, pending, attrs, forced, stop, closed, others, base, late, mayReplace>>
    /\ Flags

Saved(file) == server' = [file |-> file, time |-> server.time + 1]

\* It takes the place of the file in one step, where that works.
RenameOver ==
    /\ pc = "rename"
    /\ \/ /\ closed \/ ~mayReplace
          /\ pc' = "in place"
          /\ UNCHANGED <<server, beside, pending, late>>
       \/ /\ ~closed /\ mayReplace
          /\ Saved(beside)
          /\ beside' = Nothing
          /\ pending' = FALSE
          /\ late' = FALSE
          /\ pc' = "restat"
    /\ UNCHANGED <<local, seen, attrs, forced>>
    /\ Keeps /\ Flags

\* The copy beside it is removed and the file itself opened: emptied.
InPlace ==
    /\ pc = "in place"
    /\ beside' = IF closed THEN beside ELSE Nothing
    /\ \/ /\ Works
          /\ Saved(Nothing)
          /\ pc' = "write"
          /\ late' = FALSE
       \/ /\ Fails \/ Full
          /\ pc' = "loop"
          /\ UNCHANGED <<server, late>>
    /\ UNCHANGED <<local, looked, seen, pending, attrs, forced, stop, closed, others, base, mayReplace>>
    /\ Flags

\* Wrong variant: the save counts as uploaded whether the write works or not.
WriteOnce ==
    /\ pc = "write"
    /\ pending' = FALSE
    /\ \/ /\ Works
          /\ Saved(local.file)
          /\ pc' = "restat"
          /\ late' = FALSE
       \/ /\ Fails \/ Full
          /\ pc' = "loop"
          /\ UNCHANGED <<server, late>>
    /\ UNCHANGED <<beside, local, looked, seen, attrs, forced, stop, closed, others, base, mayReplace>>
    /\ Flags

\* What is here now is written.
WriteInPlace ==
    /\ pc = "write"
    /\ \/ /\ Works
          /\ Saved(local.file)
          /\ pc' = "restat"
          /\ pending' = FALSE
          /\ late' = FALSE
       \/ /\ Fails \/ Full
          /\ pc' = "loop"
          /\ UNCHANGED <<server, pending, late>>
    /\ UNCHANGED <<beside, local, looked, seen, attrs, forced, stop, closed, others, base, mayReplace>>
    /\ Flags

\* Wrong variant: the time known stays the one from before the upload.
RestatForgotten ==
    /\ pc = "restat"
    /\ pc' = "loop"
    /\ UNCHANGED <<server, beside, local, seen, pending, attrs, forced, late>>
    /\ Keeps /\ Flags

\* Wrong variant: where the time can't be had, none is known any more.
RestatUnknown ==
    /\ pc = "restat"
    /\ pc' = "loop"
    /\ attrs' = IF closed THEN -1 ELSE server.time
    /\ UNCHANGED <<server, beside, local, seen, pending, forced, late>>
    /\ Keeps /\ Flags

\* The time the file has now is what the next save goes by.
Restat ==
    /\ pc = "restat"
    /\ pc' = "loop"
    /\ attrs' = IF closed THEN attrs ELSE server.time
    /\ UNCHANGED <<server, beside, local, seen, pending, forced, late>>
    /\ Keeps /\ Flags

-----------------------------------------------------------------------------
(* The program here, the others, the person, the connection. *)

\* The file is open in the program once it is here.
Opened == base # Nothing

SaveBegins ==
    /\ Opened /\ local.file.whole
    /\ local.time < 2 * MaxSaves
    /\ local' = [file |-> Torn(Ours(local.time \div 2 + 1)), time |-> local.time + 1]
    /\ looked' = 0
    /\ UNCHANGED <<server, beside, pc, seen, pending, attrs, forced, stop, closed, others, faults, base, late, mayReplace>>
    /\ Flags

SaveEnds ==
    /\ ~local.file.whole /\ Opened
    /\ local' = [file |-> [local.file EXCEPT !.whole = TRUE], time |-> local.time + 1]
    /\ UNCHANGED <<server, beside, pc, seen, pending, attrs, forced, late>>
    /\ Keeps /\ Flags

Foreign ==
    /\ others < MaxForeign
    /\ others' = others + 1
    /\ Saved(Theirs(others + 1))
    /\ late' = Uploading
    /\ UNCHANGED <<beside, local, looked, pc, seen, pending, attrs, forced, stop, closed,
                   faults, base, mayReplace>>
    /\ Flags

Overwrite ==
    /\ conflict /\ ~overwrite
    /\ overwrite' = TRUE
    /\ UNCHANGED <<server, beside, local, pc, seen, pending, attrs, forced, conflict, late>>
    /\ Keeps

CloseEdit ==
    /\ ~stop
    /\ stop' = TRUE
    /\ UNCHANGED <<server, beside, local, looked, pc, seen, pending, attrs, forced, closed,
                   others, faults, base, late, mayReplace>>
    /\ Flags

Lose ==
    /\ ~closed /\ faults < MaxFaults
    /\ closed' = TRUE
    /\ faults' = faults + 1
    /\ UNCHANGED <<server, beside, local, looked, pc, seen, pending, attrs, forced, stop,
                   others, base, late, mayReplace>>
    /\ Flags

Thread ==
    \/ OpenStat \/ OpenDownload \/ Loop \/ Look \/ Stat
    \/ Upload \/ RenameOver \/ InPlace \/ WriteInPlace \/ Restat

EditNext == Thread \/ SaveBegins \/ SaveEnds \/ Foreign \/ Overwrite \/ CloseEdit \/ Lose

EditSpec == EditInit /\ [][EditNext]_editVars

\* The thread looks again and again, and a program that saves comes to the
\* end of it.
EditFairSpec == EditSpec /\ WF_editVars(Thread) /\ WF_editVars(SaveEnds)

-----------------------------------------------------------------------------
(* Properties. *)

File == [by : {"ours", "theirs"}, save : 0 .. MaxSaves + MaxForeign, whole : BOOLEAN]

EditTypeOK ==
    /\ server \in [file : File, time : Nat]
    /\ beside \in File
    /\ local \in [file : File, time : 0 .. 2 * MaxSaves]
    /\ looked \in 0 .. 1
    /\ pc \in {"open", "download", "loop", "sleep", "stat", "upload", "rename",
               "in place", "write", "restat", "ended"}
    /\ seen \in 0 .. 2 * MaxSaves
    /\ attrs \in Nat
    /\ {pending, forced, conflict, overwrite, stop, closed, late, mayReplace} \subseteq BOOLEAN
    /\ others \in 0 .. MaxForeign
    /\ faults \in 0 .. MaxFaults
    /\ base \in File

\* What others saved on the server is never replaced unless Overwrite asked
\* for it, but for what was there when the file was opened, and for what
\* they saved while an upload was under way.
OthersAreKept ==
    [][server.file.by = "theirs" /\ server'.file.by = "ours" =>
          forced \/ late \/ server.file = base]_editVars

\* What is uploaded here is never taken for a change of others.
NoFalseConflict == conflict => others > 0 \/ faults > 0

\* A conflict is shown where others saved, and only there.
ConflictsAreReal == []NoFalseConflict /\ OthersAreKept

\* Where the folder lets the file be replaced it is never written in place,
\* so it is never half written.
NeverTorn == mayReplace => server.file # Nothing

\* What is saved here and isn't on the server comes there, it or a later
\* save, unless a conflict is shown or the watching has ended.
SavesArrive ==
    \A n \in 1 .. MaxSaves :
        local.file = Ours(n) /\ (pending \/ seen # local.time) ~>
            \/ \E m \in n .. MaxSaves : server.file = Ours(m)
            \/ conflict
            \/ pc = "ended"
=============================================================================
