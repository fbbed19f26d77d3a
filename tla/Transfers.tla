------------------------------ MODULE Transfers ------------------------------
(***************************************************************************)
(* The transfers of one connection of the files window: jobs, each a       *)
(* folder with files in it, copied by several workers that share the slots *)
(* of the connection (native-term-sftp, transfer.rs), with pause, resume,  *)
(* cancel and the state a job is shown in (native-term-app,                *)
(* files_window.rs).                                                       *)
(*                                                                         *)
(* A file is a sequence of chunks, and a chunk is the version of the       *)
(* source it was read from (0: a hole).  Time is counted in versions: all  *)
(* the code asks of two times is which is later, so a change of the source *)
(* is taken to come at least a second after what was written before it.    *)
(* A worker's handle follows the file it opened when that is renamed or    *)
(* removed.                                                                *)
(*                                                                         *)
(* Left out: text files (copied from the start always), deletes, progress  *)
(* as shown, and reading ahead: a chunk is read when it is written.        *)
(***************************************************************************)
EXTENDS Integers, FiniteSetsExt, Sequences

CONSTANTS
    Files,          \* how many files a job's folder holds
    Jobs,           \* transfers of that folder, in the order they are started
    MaxWidth,       \* AT_ONCE_MAX (16 in the code)
    StartWidth,     \* the setting: files at once
    Ways,           \* where the copies go: "download" here, "upload" to a
                    \* server, "old upload" to one that can't rename over a
                    \* file
    Chunks,         \* the length of the longest version
    Absent,         \* no such file
    Overlap,        \* a job may run while another one does
    ChangePlanned,  \* a file may change while a job that planned it is stopped
    MaxChanges,     \* bound: changes of the source files
    MaxActs,        \* bound: pauses, cancels and changes of the width
    MaxFaults       \* bound: lost connections, full disks and ends of the program

ASSUME TransfersAssumption ==
    /\ {Files, Jobs, MaxWidth} \subseteq Nat \ {0}
    /\ StartWidth \in 1 .. MaxWidth
    /\ Ways \subseteq {"download", "upload", "old upload"}
    /\ Chunks \in Nat \ {0, 1}
    /\ {Overlap, ChangePlanned} \subseteq BOOLEAN
    /\ {MaxChanges, MaxActs, MaxFaults} \subseteq Nat

\* A plan: the folder, then what is in it.
Folder == 1
File == 2 .. Files + 1
Items == Folder .. Files + 1

Job == 1 .. Jobs
Worker == Job \X (1 .. MaxWidth)
Version == 1 .. MaxChanges + 2

\* Versions of both lengths follow each other.
SizeOf(v) == Chunks - (v % 2)
Whole(v) == [c \in 1 .. SizeOf(v) |-> v]

\* What a file may hold.
Data == UNION {[1 .. n -> Version \cup {0}] : n \in 0 .. Chunks}

ASSUME AbsentAssumption == Absent \notin Data \cup [data : Data, written : Version]

VARIABLES
    way,        \* one of Ways, for all of the jobs
    src,        \* the version each source file has
    part,       \* NAME.ntpart: [data, written], or Absent
    target,     \* NAME: its chunks, or Absent
    slots,      \* [free, width]
    job,        \* what the window keeps of a job
    run,        \* the thread that runs it
    worker,     \* its workers
    connected,  \* the tab's session
    acts, faults,
    spoiled     \* history: what NAME showed when a discard that came late took
                \* the part from under an upload of it, or Absent

vars == <<way, src, part, target, slots, job, run, worker, connected, acts, faults, spoiled>>

Upload == way # "download"
PosixRename == way # "old upload"

NoPlan == [f \in File |-> 0]
NewJob == [state |-> "new", plan |-> NoPlan, next |-> Folder,
           cancel |-> FALSE, pause |-> FALSE, discarding |-> FALSE]
\* All that matters of a job nobody can go on with.
GoneJob(state) == [NewJob EXCEPT !.state = state]
NoRun == [at |-> "idle", cursor |-> Folder, done |-> {}, failed |-> "none",
          sftp |-> FALSE]
NoWorker == [at |-> "exit", item |-> Folder, pos |-> 0, on |-> "gone"]

\* Where the files are copied to there are older ones.
Init ==
    /\ way \in Ways
    /\ src = [f \in File |-> 2]
    /\ part = [f \in File |-> Absent]
    /\ target = [f \in File |-> Whole(1)]
    /\ slots = [free |-> StartWidth, width |-> StartWidth]
    /\ job = [j \in Job |-> NewJob]
    /\ run = [j \in Job |-> NoRun]
    /\ worker = [w \in Worker |-> NoWorker]
    /\ connected = TRUE
    /\ acts = 0
    /\ faults = 0
    /\ spoiled = [f \in File |-> Absent]

-----------------------------------------------------------------------------
(* What the workers of a job share, and the files they write. *)

Stopped(j) == job[j].cancel \/ job[j].pause

\* The first error is the one that is told; it stops the others.
Fail(r, why) == [r EXCEPT !.failed = IF @ = "none" THEN why ELSE @]

\* Wrong variant: goes on after the last item that is done.
NextAfterLast(next, done) == 1 + Max(done \cup {next - 1})

\* The first item from next on that isn't done.
NextAfter(next, done) ==
    CHOOSE n \in next .. Files + 2 :
        /\ n \notin done
        /\ \A i \in next .. n - 1 : i \in done

Finished(j, i) ==
    LET done == run[j].done \cup {i} IN
    /\ run' = [run EXCEPT ![j].done = done]
    /\ job' = [job EXCEPT ![j].next = NextAfter(@, done)]

\* Wrong variant: a part is always gone on with.
ResumeAtItsEnd(f, planned) == IF part[f] = Absent THEN 0 ELSE Len(part[f].data)

\* Where a part goes on: its length, if it isn't longer than the file is
\* planned to be, nor older than the planned change of it.
ResumeAt(f, planned) ==
    IF \/ part[f] = Absent
       \/ Len(part[f].data) > SizeOf(planned)
       \/ planned > part[f].written
    THEN 0 ELSE Len(part[f].data)

\* Chunk c written: what lies between the old end and c is a hole.
WriteAt(data, c, v) ==
    [k \in 1 .. IF c > Len(data) THEN c ELSE Len(data) |->
        IF k = c THEN v ELSE IF k <= Len(data) THEN data[k] ELSE 0]

\* The handles of the other workers, after f's files moved as in moves.
Followed(ws, f, moves) ==
    [w \in Worker |->
        IF ws[w].at = "copy" /\ ws[w].item = f
        THEN [ws[w] EXCEPT !.on = moves[@]] ELSE ws[w]]

PartGone == [part |-> "gone", target |-> "target", gone |-> "gone"]
TargetGone == [part |-> "part", target |-> "gone", gone |-> "gone"]
PartRenamed == [part |-> "target", target |-> "gone", gone |-> "gone"]

Quit(w) == [worker EXCEPT ![w] = NoWorker]
Release == slots' = [slots EXCEPT !.free = @ + 1]

-----------------------------------------------------------------------------
(* The person, in the window. *)

Act == acts < MaxActs /\ acts' = acts + 1

MayRun(j) == connected /\ (Overlap \/ \A k \in Job : job[k].state # "running")

RunJob(j) ==
    /\ job' = [job EXCEPT ![j].state = "running", ![j].cancel = FALSE, ![j].pause = FALSE]
    /\ run' = [run EXCEPT ![j] = [NoRun EXCEPT !.at = "plan", !.sftp = TRUE]]
    /\ UNCHANGED <<way, src, part, target, slots, worker, connected, faults, spoiled>>

Start(j) ==
    /\ job[j].state = "new"
    /\ \A k \in 1 .. j - 1 : job[k].state # "new"
    /\ MayRun(j)
    /\ RunJob(j)
    /\ UNCHANGED acts

\* (as often as it stopped, which is bounded)
Resume(j) ==
    /\ job[j].state \in {"paused", "failed"}
    /\ MayRun(j)
    /\ RunJob(j)
    /\ UNCHANGED acts

Pause(j) ==
    /\ Act
    /\ job[j].state = "running"
    /\ job' = [job EXCEPT ![j].pause = TRUE]
    /\ UNCHANGED <<way, src, part, target, slots, run, worker, connected, faults, spoiled>>

Cancel(j) ==
    /\ Act
    /\ \/ /\ job[j].state = "running"
          /\ job' = [job EXCEPT ![j].cancel = TRUE]
       \/ /\ job[j].state \in {"paused", "failed"}
          /\ job' = [job EXCEPT ![j].state = "cancelled", ![j].discarding = TRUE]
    /\ UNCHANGED <<way, src, part, target, slots, run, worker, connected, faults, spoiled>>

\* A failed one is taken off the list, its part stays.  (So may a done and a
\* cancelled one be: nothing comes of that.)
TakeOff(j) ==
    /\ job[j].state = "failed"
    /\ job' = [job EXCEPT ![j] = GoneJob("removed")]
    /\ UNCHANGED <<way, src, part, target, slots, run, worker, connected, acts, faults, spoiled>>

\* Wrong variant: free isn't kept at zero or above.
SetWidthBelowZero(n) ==
    /\ Act
    /\ n # slots.width
    /\ slots' = [free |-> slots.free + n - slots.width, width |-> n]
    /\ UNCHANGED <<way, src, part, target, job, run, worker, connected, faults, spoiled>>

\* The setting changed while transfers run.
SetWidth(n) ==
    /\ Act
    /\ n # slots.width
    /\ LET free == slots.free + n - slots.width IN
       slots' = [free |-> IF free > 0 THEN free ELSE 0, width |-> n]
    /\ UNCHANGED <<way, src, part, target, job, run, worker, connected, faults, spoiled>>

Reconnect ==
    /\ ~connected
    /\ connected' = TRUE
    /\ UNCHANGED <<way, src, part, target, slots, job, run, worker, acts, faults, spoiled>>

-----------------------------------------------------------------------------
(* The thread of a job. *)

End(j, why) == run' = [run EXCEPT ![j] = [Fail(@, why) EXCEPT !.at = "ended"]]

\* A plan that is known is gone on with as it is.
Plan(j) ==
    /\ run[j].at = "plan"
    /\ \/ /\ job[j].plan # NoPlan
          /\ run' = [run EXCEPT ![j].at = "folders", ![j].cursor = job[j].next]
          /\ UNCHANGED job
       \/ /\ job[j].plan = NoPlan
          /\ Stopped(j) \/ ~(run[j].sftp \/ Upload)
          /\ End(j, IF Stopped(j) THEN "cancelled" ELSE "error")
          /\ UNCHANGED job
       \/ /\ job[j].plan = NoPlan
          /\ ~Stopped(j) /\ (run[j].sftp \/ Upload)
          /\ job' = [job EXCEPT ![j].plan = src, ![j].next = Folder]
          /\ run' = [run EXCEPT ![j].at = "folders", ![j].cursor = Folder]
    /\ UNCHANGED <<way, src, part, target, slots, worker, connected, acts, faults, spoiled>>

\* The folder first, unless it is made; then as many workers as there are
\* slots, but no more than items.
MakeFolder(j) ==
    /\ run[j].at = "folders"
    /\ \/ /\ job[j].next = Folder
          /\ Stopped(j) \/ (Upload /\ ~run[j].sftp)
          /\ End(j, IF Stopped(j) THEN "cancelled" ELSE "error")
          /\ UNCHANGED <<job, worker>>
       \/ /\ job[j].next = Folder => ~Stopped(j) /\ (run[j].sftp \/ ~Upload)
          /\ LET made == IF job[j].next = Folder THEN {Folder} ELSE {}
                 left == Files + 2 - run[j].cursor
                 n == IF left < 1 THEN 1 ELSE IF left < slots.width THEN left ELSE slots.width
             IN
             /\ run' = [run EXCEPT ![j].at = "copy", ![j].done = made]
             /\ job' = [job EXCEPT ![j].next = NextAfter(@, made)]
             /\ worker' = [w \in Worker |->
                    IF w[1] = j /\ w[2] <= n THEN [NoWorker EXCEPT !.at = "next"] ELSE worker[w]]
    /\ UNCHANGED <<way, src, part, target, slots, connected, acts, faults, spoiled>>

Join(j) ==
    /\ run[j].at = "copy"
    /\ \A w \in Worker : w[1] = j => worker[w].at = "exit"
    /\ run' = [run EXCEPT ![j].at = "ended"]
    /\ UNCHANGED <<way, src, part, target, slots, job, worker, connected, acts, faults, spoiled>>

\* The window hears how the job ended.
JobDone(j) ==
    /\ run[j].at = "ended"
    /\ run' = [run EXCEPT ![j] = NoRun]
    /\ job' = [job EXCEPT ![j] =
          CASE run[j].failed = "none" -> [@ EXCEPT !.state = "done"]
            [] run[j].failed = "cancelled" /\ job[j].pause -> [@ EXCEPT !.state = "paused"]
            [] run[j].failed = "cancelled" /\ ~job[j].pause -> GoneJob("cancelled")
            [] run[j].failed = "error" -> [@ EXCEPT !.state = "failed"]]
    /\ UNCHANGED <<way, src, part, target, slots, worker, connected, acts, faults, spoiled>>

\* An upload that another thread's remove would leave without its part: it
\* goes on with one, or has it open.
Uploading(f) ==
    Upload /\ \E w \in Worker :
        /\ worker[w].item = f
        /\ worker[w].at \in {"copy", "removed"} \/ (worker[w].at = "open" /\ worker[w].pos > 0)

\* The thread a cancel of a job that stood still starts; by then another job
\* may be at the same file.
Discard(j) ==
    /\ job[j].discarding
    /\ job' = [job EXCEPT ![j] = GoneJob("cancelled")]
    /\ LET f == job[j].next IN
       IF job[j].plan # NoPlan /\ f \in File /\ (connected \/ ~Upload)
       THEN /\ part' = [part EXCEPT ![f] = Absent]
            /\ worker' = Followed(worker, f, PartGone)
            /\ spoiled' = IF Uploading(f) /\ PosixRename /\ part[f] # Absent /\ spoiled[f] = Absent
                          THEN [spoiled EXCEPT ![f] = target[f]] ELSE spoiled
       ELSE UNCHANGED <<part, worker, spoiled>>
    /\ UNCHANGED <<way, src, target, slots, run, connected, acts, faults>>

-----------------------------------------------------------------------------
(* A worker. *)

\* It takes the next item, in order.
Take(w) ==
    LET j == w[1]
        i == run[j].cursor
    IN
    /\ worker[w].at = "next"
    /\ \/ /\ run[j].failed # "none" \/ i \notin Items
          /\ worker' = Quit(w)
          /\ run' = IF run[j].failed # "none" THEN run ELSE [run EXCEPT ![j].cursor = @ + 1]
       \/ /\ run[j].failed = "none" /\ i = Folder
          /\ run' = [run EXCEPT ![j].cursor = @ + 1]
          /\ UNCHANGED worker
       \/ /\ run[j].failed = "none" /\ i \in File /\ ~Stopped(j)
          /\ run' = [run EXCEPT ![j].cursor = @ + 1]
          /\ worker' = [worker EXCEPT ![w] = [NoWorker EXCEPT !.at = "wait", !.item = i]]
       \/ /\ run[j].failed = "none" /\ i \in File /\ Stopped(j)
          /\ run' = [run EXCEPT ![j] = Fail([@ EXCEPT !.cursor = i + 1], "cancelled")]
          /\ worker' = Quit(w)
    /\ UNCHANGED <<way, src, part, target, slots, job, connected, acts, faults, spoiled>>

\* Wrong variant: the slot of a file that isn't copied after all
\* isn't given back.
TurnKeepsSlot(w) ==
    LET j == w[1]
        f == worker[w].item
        goes == ~Stopped(j) /\ run[j].failed = "none" /\ run[j].sftp
    IN
    /\ worker[w].at = "wait"
    /\ slots.free > 0
    /\ slots' = [slots EXCEPT !.free = @ - 1]
    /\ run' = IF goes THEN run
              ELSE [run EXCEPT ![j] = Fail(@, IF Stopped(j) THEN "cancelled" ELSE "error")]
    /\ worker' = IF goes
                 THEN [worker EXCEPT ![w] =
                        [at |-> "open", item |-> f, pos |-> ResumeAt(f, job[j].plan[f]), on |-> "gone"]]
                 ELSE Quit(w)
    /\ UNCHANGED <<way, src, part, target, job, connected, acts, faults, spoiled>>

\* Its turn comes: whether to go on is looked at again, then where the part
\* ends that is there.
Turn(w) ==
    LET j == w[1]
        f == worker[w].item
    IN
    /\ worker[w].at = "wait"
    /\ slots.free > 0
    /\ \/ /\ Stopped(j) \/ run[j].failed # "none" \/ ~run[j].sftp
          /\ run' = [run EXCEPT ![j] =
                Fail(@, IF Stopped(j) THEN "cancelled" ELSE "error")]
          /\ worker' = Quit(w)
          /\ UNCHANGED slots
       \/ /\ ~Stopped(j) /\ run[j].failed = "none" /\ run[j].sftp
          /\ slots' = [slots EXCEPT !.free = @ - 1]
          /\ worker' = [worker EXCEPT ![w] =
                [at |-> "open", item |-> f, pos |-> ResumeAt(f, job[j].plan[f]), on |-> "gone"]]
          /\ UNCHANGED run
    /\ UNCHANGED <<way, src, part, target, job, connected, acts, faults, spoiled>>

\* A copy that ends early, with the parts as they are then; a cancelled one
\* takes its part away, if it can.
Broken(w, parts, why) ==
    LET j == w[1]
        f == worker[w].item
        removes == job[j].cancel /\ (run[j].sftp \/ ~Upload)
    IN
    /\ Release
    /\ run' = [run EXCEPT ![j] = Fail(@, why)]
    /\ part' = IF removes THEN [parts EXCEPT ![f] = Absent] ELSE parts
    /\ worker' = IF removes THEN Followed(Quit(w), f, PartGone) ELSE Quit(w)
    /\ UNCHANGED <<way, src, job, connected, acts, spoiled>>

\* Then the part is opened: an upload's is made where there is none (any
\* longer), also to be gone on with; a download's only to begin.
Open(w) ==
    LET f == worker[w].item
        begins == worker[w].pos = 0 \/ (Upload /\ part[f] = Absent)
    IN
    /\ worker[w].at = "open" /\ run[w[1]].sftp
    /\ \/ /\ begins \/ part[f] # Absent
          /\ part' = IF begins
                     THEN [part EXCEPT ![f] = [data |-> <<>>, written |-> src[f]]] ELSE part
          /\ worker' = [worker EXCEPT ![w].at = "copy", ![w].on = "part"]
          /\ UNCHANGED <<way, src, slots, job, run, connected, acts, spoiled>>
       \/ /\ ~begins /\ part[f] = Absent
          /\ Broken(w, part, "error")
    /\ UNCHANGED <<target, faults>>

\* What a worker's handle shows, and the files when it has changed to data.
Shown(w) ==
    LET f == worker[w].item IN
    CASE worker[w].on = "part" -> part[f].data
      [] worker[w].on = "target" -> target[f]
      [] worker[w].on = "gone" -> <<>>

PartWith(w, data) ==
    LET f == worker[w].item IN
    IF worker[w].on = "part"
    THEN [part EXCEPT ![f] = [data |-> data, written |-> src[f]]] ELSE part

TargetWith(w, data) ==
    IF worker[w].on = "target" THEN [target EXCEPT ![worker[w].item] = data] ELSE target

\* A chunk, read and written; then the look at cancel and pause.
Copy(w) ==
    LET f == worker[w].item
        c == worker[w].pos + 1
        data == WriteAt(Shown(w), c, src[f])
    IN
    /\ worker[w].at = "copy" /\ run[w[1]].sftp
    /\ c <= SizeOf(src[f])
    /\ target' = TargetWith(w, data)
    /\ \/ /\ Stopped(w[1])
          /\ Broken(w, PartWith(w, data), "cancelled")
       \/ /\ ~Stopped(w[1])
          /\ part' = PartWith(w, data)
          /\ worker' = [worker EXCEPT ![w].pos = c]
          /\ UNCHANGED <<way, src, slots, job, run, connected, acts, spoiled>>
    /\ UNCHANGED faults

\* The connection has gone, or the disk is full.
CopyFails(w) ==
    /\ worker[w].at \in {"open", "copy"}
    /\ \/ ~run[w[1]].sftp /\ UNCHANGED faults
       \/ run[w[1]].sftp /\ faults < MaxFaults /\ faults' = faults + 1
    /\ Broken(w, part, "error")
    /\ UNCHANGED target

\* The complete part takes the file's place.
InPlace(w, data) ==
    LET f == worker[w].item IN
    /\ target' = [target EXCEPT ![f] = data]
    /\ part' = [part EXCEPT ![f] = Absent]
    /\ worker' = Followed([worker EXCEPT ![w] = [NoWorker EXCEPT !.at = "next"]], f, PartRenamed)
    /\ Finished(w[1], f)
    /\ Release

GivesUp(w) ==
    /\ run' = [run EXCEPT ![w[1]] = Fail(@, "error")]
    /\ worker' = Quit(w)
    /\ Release
    /\ UNCHANGED <<part, target, job>>

\* The source ends.  A download looks at cancel and pause once more, cuts its
\* part there and renames it over the file.  An upload renames its part over
\* the file too; where that fails, for whatever reason, it removes the file.
SourceEnds(w) ==
    LET f == worker[w].item
        pos == worker[w].pos
        data == IF part[f] = Absent THEN <<>>
                ELSE IF Upload THEN part[f].data
                ELSE [c \in 1 .. pos |-> IF c <= Len(part[f].data) THEN part[f].data[c] ELSE 0]
        stops == ~Upload /\ Stopped(w[1])
        renames == part[f] # Absent /\ (PosixRename \/ target[f] = Absent)
    IN
    /\ worker[w].at = "copy" /\ run[w[1]].sftp
    /\ pos >= SizeOf(src[f])
    /\ \/ /\ stops
          /\ Broken(w, part, "cancelled")
          /\ UNCHANGED target
       \/ /\ ~stops /\ ~Upload /\ part[f] = Absent
          /\ GivesUp(w)
          /\ UNCHANGED <<way, src, connected, acts, spoiled>>
       \/ /\ ~stops /\ renames
          /\ InPlace(w, data)
          /\ UNCHANGED <<way, src, connected, acts, spoiled>>
       \/ /\ Upload /\ ~renames
          /\ target' = [target EXCEPT ![f] = Absent]
          /\ worker' = Followed([worker EXCEPT ![w].at = "removed"], f, TargetGone)
          /\ UNCHANGED <<way, src, part, slots, job, run, connected, acts, spoiled>>
    /\ UNCHANGED faults

\* Then the part is renamed, unless the connection has gone meanwhile, or
\* the part, or another file is there.
RenameAfterRemove(w) ==
    LET f == worker[w].item
        may == part[f] # Absent /\ target[f] = Absent /\ run[w[1]].sftp
    IN
    /\ worker[w].at = "removed"
    /\ \/ may /\ InPlace(w, part[f].data)
       \/ ~may /\ GivesUp(w)
    /\ UNCHANGED <<way, src, connected, acts, faults, spoiled>>

-----------------------------------------------------------------------------
(* What happens around them. *)

\* The source is saved again; not while it is read, and without ChangePlanned
\* not while a job that stopped may still go on with its plan.
SourceChanges(f) ==
    /\ src[f] + 1 \in Version
    /\ MapThenSumSet(LAMBDA g : src[g] - 2, File) < MaxChanges
    /\ \A j \in Job :
           /\ job[j].state # "running"
           /\ ChangePlanned \/ job[j].state \notin {"paused", "failed"}
    /\ src' = [src EXCEPT ![f] = @ + 1]
    /\ UNCHANGED <<way, part, target, slots, job, run, worker, connected, acts, faults, spoiled>>

Lose ==
    /\ connected /\ faults < MaxFaults
    /\ faults' = faults + 1
    /\ connected' = FALSE
    /\ run' = [j \in Job |-> [run[j] EXCEPT !.sftp = FALSE]]
    /\ UNCHANGED <<way, src, part, target, slots, job, worker, acts, spoiled>>

\* The window's program ends, by itself or not: the parts stay.
Restart ==
    /\ faults < MaxFaults
    /\ faults' = faults + 1
    /\ job' = [j \in Job |-> IF job[j].state = "new" THEN NewJob ELSE GoneJob("removed")]
    /\ run' = [j \in Job |-> NoRun]
    /\ worker' = [w \in Worker |-> NoWorker]
    /\ slots' = [free |-> slots.width, width |-> slots.width]
    /\ connected' = FALSE
    /\ UNCHANGED <<way, src, part, target, acts, spoiled>>

-----------------------------------------------------------------------------
Person ==
    \/ \E j \in Job : Start(j) \/ Resume(j) \/ Pause(j) \/ Cancel(j) \/ TakeOff(j)
    \/ \E n \in 1 .. MaxWidth : SetWidth(n)
    \/ Reconnect

Thread(j) == Plan(j) \/ MakeFolder(j) \/ Join(j) \/ JobDone(j) \/ Discard(j)

Step(w) ==
    \/ Take(w) \/ Turn(w) \/ Open(w) \/ Copy(w) \/ CopyFails(w)
    \/ SourceEnds(w) \/ RenameAfterRemove(w)

Next ==
    \/ Person
    \/ \E j \in Job : Thread(j)
    \/ \E w \in Worker : Step(w)
    \/ \E f \in File : SourceChanges(f)
    \/ Lose \/ Restart

Spec == Init /\ [][Next]_vars
\* The process's threads run on, and the server answers in the end; which of
\* them goes first is left open.
Fairness == WF_vars((\E j \in Job : Thread(j)) \/ (\E w \in Worker : Step(w)))

FairSpec == Spec /\ Fairness

-----------------------------------------------------------------------------
(* Properties. *)

TypeOK ==
    /\ way \in Ways
    /\ src \in [File -> Version]
    /\ part \in [File -> [data : Data, written : Version] \cup {Absent}]
    /\ target \in [File -> Data \cup {Absent}]
    /\ slots \in [free : Nat, width : 1 .. MaxWidth]
    /\ job \in [Job -> [state : {"new", "running", "paused", "failed", "cancelled", "done", "removed"},
                        plan : [File -> Version \cup {0}], next : Items \cup {Files + 2},
                        cancel : BOOLEAN, pause : BOOLEAN, discarding : BOOLEAN]]
    /\ run \in [Job -> [at : {"idle", "plan", "folders", "copy", "ended"},
                        cursor : Nat, done : SUBSET Items,
                        failed : {"none", "cancelled", "error"}, sftp : BOOLEAN]]
    /\ worker \in [Worker -> [at : {"next", "wait", "open", "copy", "removed", "exit"},
                              item : Items, pos : 0 .. Chunks,
                              on : {"part", "target", "gone"}]]
    /\ connected \in BOOLEAN
    /\ acts \in 0 .. MaxActs
    /\ faults \in 0 .. MaxFaults
    /\ spoiled \in [File -> Data \cup {Absent}]

\* What is promised of a file: not where the server can't rename over it, nor
\* once a discard that came late has taken the part from under an upload.
Unspoiled(f) == PosixRename /\ spoiled[f] = Absent

\* What the name of a file shows, as long as it is promised.
Promised == [f \in File |-> IF Unspoiled(f) THEN target[f] ELSE spoiled[f]]

Replaced == INSTANCE WholeFiles WITH
    Name <- File, Version <- {Whole(v) : v \in Version}, content <- Promised

\* A partial file never looks like the real one: at every moment a file is
\* the old one or a new one, complete, and of one version, whatever was
\* paused, cancelled, lost, ended and gone on with.
PartialNeverLooksReal == Replaced!Spec

\* Going on never skips an item: every file before the place where a job
\* goes on has arrived, in the planned version or a later one, and so have
\* all of them when the job is told to be done.  (On an old server a file may
\* be away while the next job replaces it.)
NothingIsSkipped ==
    \A j \in Job :
        job[j].state \in {"running", "paused", "failed", "done"} =>
            \A f \in File :
                Unspoiled(f) /\ (f < job[j].next \/ job[j].state = "done") =>
                    \E v \in job[j].plan[f] .. MaxChanges + 2 : target[f] = Whole(v)

\* What would be promised of uploads but for the late discard, and isn't kept
\* then: "an existing file is replaced once its copy is complete"
\* (transfer.rs).  Not run; README.
UploadsReplaceToo ==
    \A f \in File : PosixRename => \E v \in Version : target[f] = Whole(v)

Held == {w \in Worker : worker[w].at \in {"open", "copy", "removed"}}

\* A width made smaller takes effect as files finish: no file starts
\* beyond it.
WidthTakesEffect ==
    [][Cardinality(Held') > Cardinality(Held) => Cardinality(Held') <= slots'.width]_vars

\* A transfer cancelled (running or paused) leaves no partial file of its
\* own, once its thread has come to the end of it.
CancelRemovesPart ==
    \A j \in Job :
        job[j].state = "cancelled" /\ ~job[j].discarding => \A f \in File : part[f] = Absent

\* Every run of a job ends, and with it every pause and every cancel of it
\* takes effect, however many wait for the slots.
EveryRunEnds == \A j \in Job : job[j].state = "running" ~> job[j].state # "running"
=============================================================================
