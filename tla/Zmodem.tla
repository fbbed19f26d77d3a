------------------------------- MODULE Zmodem -------------------------------
(***************************************************************************)
(* sz and rz in a tab: the helper that ssh starts when a program on the    *)
(* server begins a ZMODEM transfer, its loops receive and send, the files  *)
(* they write, cancelling, giving up, and the terminal that gets the       *)
(* session back (native-term-shim, zmodem.rs).                             *)
(*                                                                         *)
(* The protocol itself is the zmodem2 crate's here and lrzsz's there; both *)
(* ends are a few words here (SenderHears, ReceiverHears), enough for what *)
(* the helper does on each.  A chunk of a file is the version it was read  *)
(* from.  Time is counted in NUDGE, and passes at a step of its own.       *)
(*                                                                         *)
(* Left out: names and progress as shown, remembered folders, files of     *)
(* more than 4 GB, and the words the reminder after NUDGE repeats, which   *)
(* the other side has.                                                     *)
(***************************************************************************)
EXTENDS Integers, SequencesExt

CONSTANTS
    Files,          \* how many files a transfer is of
    Chunks,         \* the length of the longest version
    Absent,         \* no such file
    Nudge, GiveUp,  \* NUDGE and GIVE_UP
    DrainAtMost,    \* DRAIN_AT_MOST
    Window,         \* how many words fit between the helper and the server
    MaxTransfers,   \* bound: transfers begun
    MaxChanges,     \* bound: changes of the files that are sent
    MaxActs,        \* bound: cancels and tabs closed
    MaxFaults       \* bound: what goes wrong on the server, the way and the disk

ASSUME ZmodemAssumption ==
    /\ {Files, Nudge, DrainAtMost, Window, MaxTransfers} \subseteq Nat \ {0}
    /\ GiveUp \in Nat /\ GiveUp > Nudge
    /\ Chunks \in Nat \ {0, 1}
    /\ {MaxChanges, MaxActs, MaxFaults} \subseteq Nat

File == 1 .. Files
Version == 1 .. MaxChanges + 1

\* Versions of both lengths follow each other.
SizeOf(v) == Chunks - (v % 2)
Whole(v) == [c \in 1 .. SizeOf(v) |-> v]

VARIABLES
    version,    \* the version each file has where it is sent from
    part,       \* NAME.ntpart: [data, crossed], or Absent
    named,      \* the complete files: NAME, NAME (2), ...
    helper,     \* the helper in the tab
    end,        \* its end of the protocol (zmodem2)
    other,      \* the end on the server (sz or rz)
    down, up,   \* words on their way to the tab, and to the server
    silent,     \* how long nothing has come from the server
    transfers, acts, faults, changes

vars == <<version, part, named, helper, end, other, down, up, silent,
          transfers, acts, faults, changes>>

Over == {"over", "aborted", "off"}
NoEnd == [at |-> "off", file |-> 1, pos |-> 0]

\* crossed: the file was gone on with after it had changed.
Init ==
    /\ version = [f \in File |-> 1]
    /\ part = [f \in File |-> Absent]
    /\ named = {}
    /\ helper = [at |-> "away", way |-> "download", quiet |-> 0,
                 cancel |-> FALSE, gone |-> FALSE, outcome |-> "done"]
    /\ end = NoEnd
    /\ other = [end |-> NoEnd, deaf |-> FALSE]
    /\ down = <<>> /\ up = <<>>
    /\ silent = 0
    /\ transfers = 0 /\ acts = 0 /\ faults = 0 /\ changes = 0

-----------------------------------------------------------------------------
(* The protocol, in short. *)

Word(w, n) == [word |-> w, n |-> n]

\* What a sender becomes by a word of the receiver.
SenderHears(s, m) ==
    CASE m.word = "can" -> [s EXCEPT !.at = "aborted"]
      [] m.word = "zrinit" /\ s.at = "init" ->
            [s EXCEPT !.at = IF s.file \in File THEN "offers" ELSE "fins"]
      [] m.word = "zrinit" /\ s.at = "eof" -> [s EXCEPT !.at = "completed"]
      [] m.word = "zrpos" /\ s.at \in {"offered", "streams", "eof"} ->
            [s EXCEPT !.at = "streams", !.pos = m.n]
      [] m.word = "zfin" /\ s.at = "fin" -> [s EXCEPT !.at = "over"]
      [] OTHER -> s

\* A sender with something to write, the word, and what it is then.
SenderWrites(s) == s.at \in {"offers", "streams", "fins"}

SenderWord(s) ==
    CASE s.at = "offers" -> Word("zfile", s.file)
      [] s.at = "fins" -> Word("zfin", 0)
      [] s.at = "streams" /\ s.pos < SizeOf(version[s.file]) -> Word("data", version[s.file])
      [] OTHER -> Word("zeof", 0)

SenderWrote(s) ==
    CASE s.at = "offers" -> [s EXCEPT !.at = "offered", !.pos = 0]
      [] s.at = "fins" -> [s EXCEPT !.at = "fin"]
      [] s.at = "streams" /\ s.pos < SizeOf(version[s.file]) -> [s EXCEPT !.pos = @ + 1]
      [] OTHER -> [s EXCEPT !.at = "eof"]

\* The next file there is, after a skipped number of files that don't open.
NextFile(s, skipped) ==
    LET next == s.file + 1 + skipped IN
    [s EXCEPT !.at = IF next \in File THEN "offers" ELSE "fins",
              !.file = IF next \in File THEN next ELSE Files + 1]

-----------------------------------------------------------------------------
(* The server: sz, rz, or a program that looks like one of them and does   *)
(* neither stop nor listen.                                                *)

\* The words that ssh spots, and the helper it starts with them.  (In tmux
\* the helper is to stop the program, and does not take part.)
Begins ==
    /\ transfers < MaxTransfers
    /\ helper.at = "away" /\ other.end.at \in Over /\ down = <<>>
    /\ \E way \in {"download", "upload", "tmux"}, deaf \in BOOLEAN :
        /\ deaf => faults < MaxFaults
        /\ faults' = faults + (IF deaf THEN 1 ELSE 0)
        /\ helper' = [at |-> "asks", way |-> way, quiet |-> 0, cancel |-> FALSE,
                      gone |-> FALSE, outcome |-> "none"]
        /\ other' = [end |-> [NoEnd EXCEPT !.at = "init"], deaf |-> deaf]
        /\ down' = IF way = "upload" THEN <<Word("zrinit", 0)>> ELSE <<>>
    /\ up' = <<>>
    /\ end' = NoEnd
    /\ silent' = 0
    /\ transfers' = transfers + 1
    /\ UNCHANGED <<version, part, named, acts, changes>>

Says(m) == down' = Append(down, m) /\ silent' = 0

OtherSends ==
    /\ helper.way # "upload" /\ ~other.deaf /\ SenderWrites(other.end)
    /\ Says(SenderWord(other.end))
    /\ other' = [other EXCEPT !.end = SenderWrote(@)]
    /\ UNCHANGED <<version, part, named, helper, end, up, transfers, acts, faults, changes>>

\* rz: where it wants a file from, that it has it, that all is done.
ReceiverAnswer(m) ==
    CASE m.word = "zfile" -> <<Word("zrpos", 0)>>
      [] m.word = "zeof" -> <<Word("zrinit", 0)>>
      [] m.word = "zfin" -> <<Word("zfin", 0)>>
      [] OTHER -> <<>>

OtherHears ==
    /\ up # <<>> /\ ~other.deaf /\ other.end.at \notin Over
    /\ LET m == Head(up)
           heard == SenderHears(other.end, m) IN
       IF helper.way # "upload"
       THEN /\ other' = [other EXCEPT !.end = IF heard.at = "completed" THEN NextFile(heard, 0) ELSE heard]
            /\ UNCHANGED <<down, silent>>
       ELSE /\ other' = [other EXCEPT !.end.at =
                            IF m.word \in {"can", "zfin"} THEN "over" ELSE @]
            /\ down' = down \o ReceiverAnswer(m)
            /\ silent' = IF ReceiverAnswer(m) = <<>> THEN silent ELSE 0
    /\ up' = Tail(up)
    /\ UNCHANGED <<version, part, named, helper, end, transfers, acts, faults, changes>>

\* rz lost something of what is streamed, and wants it again; sz or rz gives
\* up; a deaf one streams on.
OtherFails ==
    /\ other.end.at \notin Over
    /\ \/ /\ helper.way = "upload" /\ ~other.deaf /\ end.at \in {"streams", "eof"}
          /\ faults < MaxFaults
          /\ faults' = faults + 1
          /\ Says(Word("zrpos", 0))
          /\ UNCHANGED <<other, up>>
       \/ /\ faults < MaxFaults
          /\ faults' = faults + 1
          /\ Says(Word("can", 0))
          /\ other' = [other EXCEPT !.end.at = "over"]
          /\ up' = <<>>
       \/ /\ other.deaf /\ down = <<>>
          /\ Says(Word("data", 1))
          /\ UNCHANGED <<other, up, faults>>
    /\ UNCHANGED <<version, part, named, helper, end, transfers, acts, changes>>

\* The connection ends.  What was on its way to the tab still arrives.
ConnectionEnds ==
    /\ faults < MaxFaults /\ faults' = faults + 1
    /\ helper.at # "away" /\ ~helper.gone
    /\ helper' = [helper EXCEPT !.gone = TRUE]
    /\ other' = [other EXCEPT !.end.at = "off"]
    /\ up' = <<>>
    /\ UNCHANGED <<version, part, named, end, down, silent, transfers, acts, changes>>

\* Between two transfers a file that is sent is saved again.
Change(f) ==
    /\ changes < MaxChanges /\ changes' = changes + 1
    /\ helper.at = "away" /\ other.end.at \in Over
    /\ version' = [version EXCEPT ![f] = changes + 2]
    /\ UNCHANGED <<part, named, helper, end, other, down, up, silent, transfers, acts, faults>>

-----------------------------------------------------------------------------
(* The helper: what receive and send have in common. *)

\* Written last of all: ssh gives the session back to the terminal.
GiveBack(outcome) == helper' = [helper EXCEPT !.at = "away", !.outcome = outcome]

Fails == GiveBack("failed") /\ UNCHANGED <<end, up>>

\* Wrong variant: what is written is kept until the server takes it.
PassesAlways == TRUE

\* A write waits until the server takes what was written before.
Passes == helper.way = "upload" /\ ~helper.gone => Len(up) < Window

Writes(m) == Passes /\ up' = IF helper.gone THEN up ELSE Append(up, m)

\* The cancel is what makes the other side give up; then what it has sent
\* ahead is taken in.
Abort ==
    /\ Writes(Word("can", 0))
    /\ helper' = [helper EXCEPT !.at = "drains", !.quiet = 0]
    /\ end' = [end EXCEPT !.at = "aborted"]

\* Something goes wrong here.
Fault == faults < MaxFaults /\ faults' = faults + 1
NoFault == UNCHANGED faults

\* The person picks a folder or files; the first file that opens is offered.
Picks ==
    /\ helper.at = "asks" /\ helper.way # "tmux"
    /\ helper' = [helper EXCEPT !.at = "runs"]
    /\ \E skipped \in {0, 1} :
        /\ skipped = 0 \/ helper.way = "upload"
        /\ IF skipped = 0 THEN NoFault ELSE Fault
        /\ end' = [at |-> "init", file |-> 1 + skipped, pos |-> 0]
    /\ IF helper.way = "download" THEN Writes(Word("zrinit", 0)) ELSE UNCHANGED up
    /\ UNCHANGED <<version, part, named, other, down, silent, transfers, acts, changes>>

\* The person closes the picker; in tmux the program is stopped at once.
Declines ==
    /\ helper.at = "asks" /\ Abort
    /\ UNCHANGED <<version, part, named, other, down, silent, transfers, acts, faults, changes>>

\* Escape or Ctrl+C in the tab.
Cancel ==
    /\ acts < MaxActs /\ acts' = acts + 1
    /\ helper.at = "runs" /\ ~helper.cancel
    /\ helper' = [helper EXCEPT !.cancel = TRUE]
    /\ UNCHANGED <<version, part, named, end, other, down, up, silent, transfers, faults, changes>>

\* The tab is closed, or the helper killed with it.
TabCloses ==
    /\ acts < MaxActs /\ acts' = acts + 1
    /\ helper.at # "away"
    /\ helper' = [helper EXCEPT !.at = "away", !.outcome = "killed"]
    /\ other' = [other EXCEPT !.end.at = "off"]
    /\ down' = <<>> /\ up' = <<>>
    /\ UNCHANGED <<version, part, named, end, silent, transfers, faults, changes>>

CancelSeen ==
    /\ helper.at = "runs" /\ helper.cancel /\ Abort
    /\ UNCHANGED <<version, part, named, other, down, silent, transfers, acts, faults, changes>>

Runs == helper.at = "runs" /\ ~helper.cancel

\* Neither end has anything to write, and what came is done with.
Idle ==
    /\ Runs
    /\ helper.way = "upload" => end.at \in {"init", "offered", "eof", "fin"}

\* A little while without a word.
Waits ==
    /\ Idle /\ down = <<>>
    /\ \/ helper.gone /\ Fails /\ NoFault
       \/ ~helper.gone /\ helper.quiet > GiveUp /\ Abort /\ NoFault
       \/ helper.quiet \in Nudge + 1 .. GiveUp /\ Fault /\ Fails
    /\ UNCHANGED <<version, part, named, other, down, silent, transfers, acts, changes>>

DrainTakes ==
    /\ helper.at = "drains" /\ down # <<>> /\ helper.quiet < DrainAtMost
    /\ down' = Tail(down)
    /\ UNCHANGED <<version, part, named, helper, end, other, up, silent, transfers, acts, faults, changes>>

\* Wrong variant: silence is waited for, however long that takes.
DrainEndsQuiet ==
    /\ helper.at = "drains"
    /\ down = <<>>
    /\ GiveBack("cancelled")
    /\ UNCHANGED <<version, part, named, end, other, down, up, silent, transfers, acts, faults, changes>>

\* Nothing has come for QUIET, whatever is still on its way to the server or
\* about to be said there, or the wait was as long as it may be.
DrainEnds ==
    /\ helper.at = "drains"
    /\ down = <<>> \/ helper.quiet >= DrainAtMost
    /\ GiveBack("cancelled")
    /\ UNCHANGED <<version, part, named, end, other, down, up, silent, transfers, acts, faults, changes>>

\* Time passes while the helper waits for a word, for silence, or for the
\* server to take what is written; every other step of it is short.
Tick ==
    /\ \/ Idle /\ down = <<>> /\ helper.quiet <= GiveUp
       \/ Runs /\ helper.way = "upload" /\ SenderWrites(end)
       \/ helper.at = "drains"
    /\ helper.quiet <= GiveUp \/ silent <= GiveUp
    /\ helper' = [helper EXCEPT !.quiet = IF @ > GiveUp THEN @ ELSE @ + 1]
    /\ silent' = IF silent > GiveUp THEN silent ELSE silent + 1
    /\ UNCHANGED <<version, part, named, end, other, down, up, transfers, acts, faults, changes>>

-----------------------------------------------------------------------------
(* receive: one word of the server's sz. *)

\* A part is gone on with that is shorter than the file is said to be.
Resumes(f) ==
    part[f] # Absent /\ Len(part[f].data) \in 1 .. SizeOf(version[f]) - 1

\* Wrong variant: a part that isn't gone on with is written over.
ContinuedUntruncated(f) ==
    IF part[f] = Absent THEN [data |-> <<>>, crossed |-> FALSE] ELSE part[f]

\* The part as it is opened, truncated if it is not gone on with.
Continued(f) ==
    IF Resumes(f)
    THEN [part[f] EXCEPT !.crossed = @ \/ \E c \in DOMAIN part[f].data : part[f].data[c] # version[f]]
    ELSE [data |-> <<>>, crossed |-> FALSE]

FileStarted(m) ==
    /\ m.word = "zfile" /\ end.at \in {"init", "next"}
    /\ \/ /\ NoFault
          /\ part' = [part EXCEPT ![m.n] = Continued(m.n)]
          /\ Writes(Word("zrpos", Len(Continued(m.n).data)))
          /\ end' = [at |-> "takes", file |-> m.n, pos |-> 0]
          /\ helper' = [helper EXCEPT !.quiet = 0]
       \/ Fault /\ Abort /\ UNCHANGED part
    /\ UNCHANGED named

WriteFile(m) ==
    /\ m.word = "data" /\ end.at = "takes"
    /\ \/ /\ NoFault
          /\ part' = [part EXCEPT ![end.file].data = Append(@, m.n)]
          /\ helper' = [helper EXCEPT !.quiet = 0]
          /\ UNCHANGED <<end, up>>
       \/ Fault /\ Abort /\ UNCHANGED part
    /\ UNCHANGED named

\* The part gets a free name, or keeps its own where that goes wrong.
FileCompleted(m) ==
    /\ m.word = "zeof" /\ end.at = "takes"
    /\ \/ /\ NoFault
          /\ named' = named \cup {part[end.file]}
          /\ part' = [part EXCEPT ![end.file] = Absent]
       \/ Fault /\ UNCHANGED <<part, named>>
    /\ Writes(Word("zrinit", 0))
    /\ end' = [end EXCEPT !.at = "next"]
    /\ helper' = [helper EXCEPT !.quiet = 0]

\* Wrong variant: the session is given back with the closing word still to go out.
SessionCompletedUnsaid(m) ==
    /\ m.word = "zfin" /\ end.at \in {"init", "next"}
    /\ GiveBack("done")
    /\ NoFault
    /\ UNCHANGED <<end, part, named, up>>

\* The closing word goes out before the session is given back.
SessionCompleted(m) ==
    /\ m.word = "zfin" /\ end.at \in {"init", "next"}
    /\ Writes(Word("zfin", 0))
    /\ GiveBack("done")
    /\ NoFault
    /\ UNCHANGED <<end, part, named>>

\* A cancel ends it; a word out of place is passed over, or an error.
Otherwise(m) ==
    /\ \/ m.word = "can" /\ Fails
       \/ m.word = "data" /\ end.at # "takes" /\ Fails
       \/ /\ m.word = "data" /\ end.at # "takes"
          /\ helper' = [helper EXCEPT !.quiet = 0]
          /\ UNCHANGED <<end, up>>
    /\ NoFault
    /\ UNCHANGED <<part, named>>

Receive ==
    /\ Idle /\ helper.way = "download" /\ down # <<>>
    /\ LET m == Head(down) IN
        FileStarted(m) \/ WriteFile(m) \/ FileCompleted(m) \/ SessionCompleted(m) \/ Otherwise(m)
    /\ down' = Tail(down)
    /\ UNCHANGED <<version, other, silent, transfers, acts, changes>>

-----------------------------------------------------------------------------
(* send. *)

Heard(s) == FoldLeft(SenderHears, s, down)

\* A word is written, of the file read where it goes on; what has come
\* meanwhile is taken, which doesn't count as a word for GIVE_UP.
Stream ==
    /\ Runs /\ helper.way = "upload" /\ SenderWrites(end)
    /\ \/ /\ ~helper.gone /\ NoFault
          /\ Writes(SenderWord(end))
          /\ end' = Heard(SenderWrote(end))
          /\ down' = <<>>
          /\ UNCHANGED helper
       \/ helper.gone /\ Fails /\ NoFault /\ UNCHANGED down
       \/ end.at = "streams" /\ Fault /\ (Fails \/ Abort) /\ UNCHANGED down
    /\ UNCHANGED <<version, part, named, other, silent, transfers, acts, changes>>

\* What has come while there was nothing to write.
Takes ==
    /\ Idle /\ helper.way = "upload" /\ down # <<>>
    /\ end' = Heard(end)
    /\ down' = <<>>
    /\ helper' = [helper EXCEPT !.quiet = 0]
    /\ UNCHANGED <<version, part, named, other, up, silent, transfers, acts, faults, changes>>

\* A file is sent: the next that opens. All are: the session is given back.
Told ==
    /\ Runs /\ helper.way = "upload"
    /\ \/ /\ end.at = "completed"
          /\ \E skipped \in {0, 1} :
                /\ IF skipped = 0 THEN NoFault ELSE Fault
                /\ end' = NextFile(end, skipped)
          /\ UNCHANGED helper
       \/ end.at = "over" /\ GiveBack("done") /\ NoFault /\ UNCHANGED end
       \/ end.at = "aborted" /\ GiveBack("failed") /\ NoFault /\ UNCHANGED end
    /\ UNCHANGED <<version, part, named, other, down, up, silent, transfers, acts, changes>>

-----------------------------------------------------------------------------
(* The terminal. *)

\* What comes when the session is given back is shown; a program left on the
\* server is ended by the person.
Shows ==
    /\ helper.at = "away" /\ (down # <<>> \/ other.end.at \notin Over)
    /\ down' = IF down = <<>> THEN down ELSE Tail(down)
    /\ other' = IF down = <<>> THEN [other EXCEPT !.end.at = "off"] ELSE other
    /\ UNCHANGED <<version, part, named, helper, end, up, silent, transfers, acts, faults, changes>>

Turn ==
    \/ CancelSeen \/ Waits \/ DrainTakes \/ DrainEnds
    \/ Receive \/ Stream \/ Takes \/ Told

Next ==
    \/ Begins \/ OtherSends \/ OtherHears \/ OtherFails \/ ConnectionEnds
    \/ \E f \in File : Change(f)
    \/ Picks \/ Declines \/ Cancel \/ TabCloses
    \/ Turn \/ Tick \/ Shows

Spec == Init /\ [][Next]_vars

\* The helper's loop goes on, and time does. Nothing is assumed of the
\* server, the person or the connection.
FairSpec == Spec /\ WF_vars(Turn) /\ WF_vars(Tick)

-----------------------------------------------------------------------------
(* Properties. *)

TypeOK ==
    /\ version \in [File -> Version]
    /\ \A f \in File :
        part[f] = Absent \/ part[f].data \in BoundedSeq(Version, Chunks)
    /\ \A x \in named : x.data # <<>>
    /\ helper.at \in {"away", "asks", "runs", "drains"}
    /\ helper.quiet \in 0 .. GiveUp + 1
    /\ end.file \in 1 .. Files + 1
    /\ end.pos \in 0 .. Chunks
    /\ silent \in 0 .. GiveUp + 1
    /\ helper.way = "upload" => Len(up) <= Window

\* A file gets its name only complete, and as it was sent, however often its
\* transfer was cancelled, broken and gone on with - unless it was changed in
\* between, which its size doesn't always tell.
NamedAreWhole == \A x \in named : x.crossed \/ \E v \in Version : x.data = Whole(v)

\* The last word the program on the server has to read.
LastIs(w) == up # <<>> /\ Last(up).word = w

\* After a transfer that is done nothing of it comes to the terminal (where it
\* would show as garbage, or begin another transfer) but a cancel; and, done
\* or cancelled, no program is left waiting on the server: it has ended, or
\* what ends it is the last it has to read.
TerminalStaysClean ==
    helper.at = "away" =>
        /\ helper.outcome = "done" =>
            /\ \A i \in DOMAIN down : down[i].word = "can"
            /\ other.end.at \in Over \/ LastIs("zfin")
        /\ helper.outcome = "cancelled" => other.end.at \in Over \/ LastIs("can")

\* What drain_other_side is for: after a cancel, too, nothing comes that
\* "would show as garbage" (zmodem.rs).  Not run, and not so; README.
CancelLeavesNothing ==
    helper.at = "away" /\ helper.outcome = "cancelled" =>
        \A i \in DOMAIN down : down[i].word = "can"

\* The terminal gets the session back: when the transfer was cancelled or
\* the server fell silent, whatever it does then; but where the helper
\* waits for the server to take what it wrote.
SessionComesBack ==
    /\ helper.at = "runs" /\ (helper.cancel \/ ~other.deaf)
            ~> helper.at = "away" \/ ~Passes
    /\ helper.at = "drains" ~> helper.at = "away"

\* "Nothing at all this long: give up" (zmodem.rs).
GivesUpOnSilence ==
    [][Idle /\ ~other.deaf /\ down = <<>> /\ helper.quiet > GiveUp /\ helper'.at = "drains"
        => silent > GiveUp]_vars
=============================================================================
