----------------------------- MODULE Zmodem_proof -----------------------------
(***************************************************************************)
(* Proofs about ZMODEM transfers (Zmodem), for any number of files,        *)
(* chunks, transfers, changes, cancels and faults: a file gets its name    *)
(* only complete, the terminal that gets the session back stays clean, and *)
(* the types hold.                                                         *)
(*                                                                         *)
(* While a download runs there is at most one word on its way to the       *)
(* program on the server, and the words on their way to the tab are of one *)
(* file: that invariant (IInv) is a table of who waits for what.  Of       *)
(* uploads, and of every end, it is said who has ended or still has a word *)
(* to read (CleanInv), and how much there may be of what (SizeInv).        *)
(***************************************************************************)
EXTENDS Zmodem, WellFoundedInduction, TLAPS

Msg == [word : {"zrinit", "zfile", "zrpos", "data", "zeof", "zfin", "can"}, n : Nat]
End == [at : {"off", "init", "next", "takes", "offers", "offered", "streams", "eof",
              "completed", "fins", "fin", "over", "aborted"},
        file : Nat, pos : Nat]
Helper == [at : {"away", "asks", "runs", "drains"}, way : {"download", "upload", "tmux"},
           quiet : Nat, cancel : BOOLEAN, gone : BOOLEAN,
           outcome : {"none", "done", "failed", "cancelled", "killed"}]
Part == [data : Seq(Version), crossed : BOOLEAN]

\* Of every transfer, whichever way it goes.
Kinds ==
    /\ version \in [File -> Version]
    /\ changes \in Nat
    /\ part \in [File -> Part \cup {Absent}]
    /\ helper \in Helper

\* A download that has neither ended nor been cancelled, and its words.
Live == helper.way = "download" /\ helper.at \in {"asks", "runs"}

Words ==
    /\ other \in [end : End, deaf : BOOLEAN]
    /\ end \in End
    /\ down \in Seq(Msg) /\ up \in Seq(Msg)

\* Before the folder is picked nothing was said to the server; after the
\* connection has ended nobody is there.
Asking ==
    /\ helper.at = "asks" <=> end.at = "off"
    /\ end.at = "off" => up = <<>> /\ other.end.at \in Over \cup {"init"}
    /\ end.at \in {"off", "init", "next", "takes"}
    /\ helper.gone => other.end.at \in Over

\* A program that doesn't listen offers no file.
Deaf == end.at # "takes" /\ \A i \in DOMAIN down : down[i].word \in {"data", "can"}

\* Between two files: each side waits for the other's word.
Between ==
    /\ \A i \in DOMAIN down :
        /\ down[i].word \in {"zfile", "zfin", "can"}
        /\ i > 1 => down[i].word = "can"
        /\ down[i].word = "zfile" => down[i].n \in File
        /\ down[i].word = "can" => other.end.at \in Over
    /\ other.end.at \in Over \cup {"init", "offers", "offered", "eof", "fins", "fin"}
    /\ other.end.at = "init" => down = <<>> /\ up \in {<<>>, <<Word("zrinit", 0)>>}
    /\ other.end.at = "offers" => down = <<>> /\ up = <<>> /\ other.end.file \in File
    /\ other.end.at = "offered" =>
        up = <<>> /\ other.end.file \in File /\ down = <<Word("zfile", other.end.file)>>
    /\ other.end.at = "eof" => down = <<>> /\ up = <<Word("zrinit", 0)>>
    /\ other.end.at = "fins" => down = <<>> /\ up = <<>>
    /\ other.end.at = "fin" => up = <<>> /\ Len(down) = 1 /\ down[1].word = "zfin"

\* A file is taken: what is written and what is on its way are, together, of one
\* version, and the closing word comes where that version is complete.
Taking ==
    /\ end.file \in File
    /\ part[end.file] \in Part
    /\ part[end.file].crossed \/
        \A c \in DOMAIN part[end.file].data : part[end.file].data[c] = version[end.file]
    /\ \A i \in DOMAIN down :
        /\ down[i].word \in {"data", "zeof", "can"}
        /\ down[i].word = "data" => down[i].n = version[end.file]
        /\ down[i].word = "can" => other.end.at \in Over
        /\ down[i].word = "zeof" =>
            /\ Len(part[end.file].data) + i - 1 = SizeOf(version[end.file])
            /\ \A j \in DOMAIN down : j > i => down[j].word = "can"
    /\ other.end.at \in Over \cup {"offered", "streams", "eof"}
    /\ other.end.at = "offered" =>
        /\ other.end.file = end.file
        /\ Len(part[end.file].data) <= SizeOf(version[end.file])
        /\ down = <<>> /\ up = <<Word("zrpos", Len(part[end.file].data))>>
    /\ other.end.at = "streams" =>
        /\ other.end.file = end.file
        /\ other.end.pos = Len(part[end.file].data) + Len(down)
        /\ other.end.pos <= SizeOf(version[end.file])
        /\ up = <<>>
        /\ \A i \in DOMAIN down : down[i].word = "data"
    /\ other.end.at = "eof" =>
        up = <<>> /\ down # <<>> /\ down[Len(down)].word = "zeof"

Flow ==
    /\ Words /\ Asking
    /\ other.deaf => Deaf
    /\ ~other.deaf /\ end.at # "takes" => Between
    /\ ~other.deaf /\ end.at = "takes" => Taking

IInv == Kinds /\ NamedAreWhole /\ (Live => Flow)

-----------------------------------------------------------------------------
(* Words, versions and parts. *)

\* A version has a length.
LEMMA Sizes == \A v \in Version : SizeOf(v) \in Nat
<1>1. \A v \in Nat : v % 2 \in {0, 1}  BY SMT
<1>2. Version \subseteq Nat  BY ZmodemAssumption DEF Version
<1>. QED  BY <1>1, <1>2, ZmodemAssumption DEF SizeOf

\* The words and the ends there are.
LEMMA Vocabulary ==
    /\ \A w \in {"zrinit", "zfile", "zrpos", "data", "zeof", "zfin", "can"}, n \in Nat :
        Word(w, n) \in Msg /\ Word(w, n).word = w /\ Word(w, n).n = n
    /\ NoEnd \in End
    /\ \A f \in File : f \in Nat
    /\ \A v \in Version : v \in Nat
<1>1. \A w \in {"zrinit", "zfile", "zrpos", "data", "zeof", "zfin", "can"}, n \in Nat :
        Word(w, n) \in Msg /\ Word(w, n).word = w /\ Word(w, n).n = n
  BY DEF Word, Msg
<1>2. NoEnd \in End  BY DEF NoEnd, End
<1>3. (\A f \in File : f \in Nat) /\ (\A v \in Version : v \in Nat)
  BY ZmodemAssumption DEF File, Version
<1>. QED  BY <1>1, <1>2, <1>3

\* A part that is gone on with is shorter than the file, and of its version
\* but where that was noted.
LEMMA ContinuedIs ==
    ASSUME Kinds, NEW f \in File
    PROVE  /\ Continued(f) \in Part
           /\ Len(Continued(f).data) \in Nat
           /\ Len(Continued(f).data) <= SizeOf(version[f])
           /\ Continued(f).crossed \/
                \A c \in DOMAIN Continued(f).data : Continued(f).data[c] = version[f]
<1>1. SizeOf(version[f]) \in Nat  BY Sizes DEF Kinds
<1>2. CASE Resumes(f)
  <2>1. part[f] \in Part  BY <1>2 DEF Kinds, Resumes
  <2>2. PICK x \in BOOLEAN :
          /\ x = (part[f].crossed \/ \E c \in DOMAIN part[f].data : part[f].data[c] # version[f])
          /\ Continued(f) = [part[f] EXCEPT !.crossed = x]
    BY <1>2, <2>1 DEF Continued, Part
  <2>3. Continued(f) \in Part /\ Continued(f).data = part[f].data /\ Continued(f).crossed = x
    BY <2>1, <2>2 DEF Part
  <2>4. Len(part[f].data) <= SizeOf(version[f]) /\ Len(part[f].data) \in Nat
    BY <1>1, <1>2, <2>1 DEF Resumes, Part
  <2>5. x \/ \A c \in DOMAIN part[f].data : part[f].data[c] = version[f]  BY <2>2
  <2>. QED  BY <2>3, <2>4, <2>5
<1>3. CASE ~Resumes(f)
  <2>1. Continued(f) = [data |-> <<>>, crossed |-> FALSE]  BY <1>3 DEF Continued
  <2>2. <<>> \in Seq(Version) /\ Len(<<>>) = 0 /\ DOMAIN <<>> = {}  BY SMT
  <2>3. Continued(f) \in Part /\ Continued(f).data = <<>>  BY <2>1, <2>2 DEF Part
  <2>. QED  BY <1>1, <2>2, <2>3
<1>. QED  BY <1>2, <1>3

-----------------------------------------------------------------------------
(* The helper. *)

\* The helper's fields, one at a time.
LEMMA HelperIs ==
    ASSUME helper \in Helper
    PROVE  /\ \A o \in {"done", "failed", "cancelled"} : GiveBack(o) =>
                helper' \in Helper /\ helper'.at = "away" /\ helper'.way = helper.way
           /\ Abort => helper' \in Helper /\ helper'.at = "drains" /\ helper'.way = helper.way
           /\ \A q \in Nat : [helper EXCEPT !.quiet = q] \in Helper
           /\ \A q \in Nat : [helper EXCEPT !.quiet = q].at = helper.at
                /\ [helper EXCEPT !.quiet = q].way = helper.way
                /\ [helper EXCEPT !.quiet = q].gone = helper.gone
<1>1. ASSUME NEW o \in {"done", "failed", "cancelled"}, GiveBack(o)
      PROVE  helper' \in Helper /\ helper'.at = "away" /\ helper'.way = helper.way
  BY <1>1 DEF GiveBack, Helper
<1>2. ASSUME Abort PROVE helper' \in Helper /\ helper'.at = "drains" /\ helper'.way = helper.way
  BY <1>2 DEF Abort, Helper
<1>3. ASSUME NEW q \in Nat
      PROVE  /\ [helper EXCEPT !.quiet = q] \in Helper
             /\ [helper EXCEPT !.quiet = q].at = helper.at
             /\ [helper EXCEPT !.quiet = q].way = helper.way
             /\ [helper EXCEPT !.quiet = q].gone = helper.gone
  BY DEF Helper
<1>. QED  BY <1>1, <1>2, <1>3

-----------------------------------------------------------------------------
(* What is received. *)

\* A word is taken while a download is live; a file is taken only of a program
\* that listens.
LEMMA ReceiveIs ==
    ASSUME IInv, Receive
    PROVE  /\ Live /\ Flow /\ helper.at = "runs"
           /\ down # <<>> /\ Head(down) = down[1] /\ 1 \in DOMAIN down
           /\ down[1] \in Msg /\ Len(down) \in Nat \ {0}
           /\ down' = Tail(down) /\ down' \in Seq(Msg)
           /\ end.at = "takes" => ~other.deaf /\ Taking
           /\ FileStarted(down[1]) => end.at # "takes" /\ ~other.deaf /\ Between
<1>1. Live /\ Flow /\ helper.at = "runs"  BY DEF Receive, Idle, Runs, Live, IInv
<1>2. down \in Seq(Msg) /\ down # <<>> /\ down' = Tail(down)  BY <1>1 DEF Receive, Flow, Words
<1>3. /\ Head(down) = down[1] /\ 1 \in DOMAIN down /\ down[1] \in Msg
      /\ Len(down) \in Nat \ {0} /\ Tail(down) \in Seq(Msg)
  BY <1>2
<1>4. end.at = "takes" => ~other.deaf /\ Taking  BY <1>1 DEF Flow, Deaf, Words
<1>5. ASSUME FileStarted(down[1]) PROVE end.at # "takes" /\ ~other.deaf /\ Between
  <2>1. down[1].word = "zfile" /\ end.at \in {"init", "next"}  BY <1>5 DEF FileStarted
  <2>2. ~other.deaf  BY <1>1, <1>3, <2>1 DEF Flow, Deaf, Words
  <2>. QED  BY <1>1, <2>1, <2>2 DEF Flow
<1>. QED  BY <1>1, <1>2, <1>3, <1>4, <1>5

\* The kinds of what is received.
LEMMA ReceiveKinds ==
    ASSUME IInv, Receive
    PROVE  part' \in [File -> Part \cup {Absent}] /\ helper' \in Helper
<1>. DEFINE m == down[1]
<1>1. /\ Kinds /\ Flow /\ m \in Msg /\ Head(down) = m
      /\ part \in [File -> Part \cup {Absent}] /\ helper \in Helper
  BY ReceiveIs DEF IInv, Kinds
<1>. HIDE DEF m
<1>2. CASE FileStarted(m)
  <2>1. m.n \in File => Continued(m.n) \in Part  BY <1>1, ContinuedIs
  <2>2. part' = [part EXCEPT ![m.n] = Continued(m.n)] \/ part' = part
    BY <1>2 DEF FileStarted
  <2>3. part' \in [File -> Part \cup {Absent}]  BY <1>1, <2>1, <2>2
  <2>4. helper' = [helper EXCEPT !.quiet = 0] \/ Abort  BY <1>2 DEF FileStarted
  <2>5. helper' \in Helper  BY <1>1, <2>4, HelperIs
  <2>. QED  BY <2>3, <2>5
<1>3. CASE WriteFile(m)
  <2>1. end.at = "takes" /\ Taking  BY <1>3, ReceiveIs DEF WriteFile
  <2>2. end.file \in File /\ part[end.file] \in Part  BY <2>1 DEF Taking
  <2>3. m.n \in Version
    <3>1. m.n = version[end.file]  BY <1>3, <2>1, ReceiveIs DEF Taking, WriteFile, m
    <3>. QED  BY <1>1, <2>2, <3>1 DEF Kinds
  <2>4. [part[end.file] EXCEPT !.data = Append(@, m.n)] \in Part
    <3>1. Append(part[end.file].data, m.n) \in Seq(Version)  BY <2>2, <2>3 DEF Part
    <3>. QED  BY <2>2, <3>1 DEF Part
  <2>5. part' = [part EXCEPT ![end.file] = [part[end.file] EXCEPT !.data = Append(@, m.n)]]
        \/ part' = part
    BY <1>1, <1>3, <2>2 DEF WriteFile
  <2>6. part' \in [File -> Part \cup {Absent}]  BY <1>1, <2>2, <2>4, <2>5
  <2>7. helper' = [helper EXCEPT !.quiet = 0] \/ Abort  BY <1>3 DEF WriteFile
  <2>8. helper' \in Helper  BY <1>1, <2>7, HelperIs
  <2>. QED  BY <2>6, <2>8
<1>4. CASE FileCompleted(m)
  <2>1. part' \in [File -> Part \cup {Absent}]  BY <1>1, <1>4 DEF FileCompleted
  <2>2. helper' = [helper EXCEPT !.quiet = 0]  BY <1>4 DEF FileCompleted
  <2>. QED  BY <1>1, <2>1, <2>2, HelperIs
<1>5. CASE SessionCompleted(m)
  <2>1. part' = part /\ GiveBack("done")  BY <1>5 DEF SessionCompleted
  <2>. QED  BY <1>1, <2>1, HelperIs
<1>6. CASE Otherwise(m)
  <2>1. part' = part /\ (GiveBack("failed") \/ helper' = [helper EXCEPT !.quiet = 0])
    BY <1>6 DEF Otherwise, Fails
  <2>. QED  BY <1>1, <2>1, HelperIs
<1>. QED  BY <1>1, <1>2, <1>3, <1>4, <1>5, <1>6 DEF Receive

\* What a step may do with the helper, that isn't of a download's.
LEMMA HelperStep ==
    ASSUME helper \in Helper, Begins \/ Picks \/ Declines \/ Cancel \/ TabCloses \/ ConnectionEnds
                \/ CancelSeen \/ Waits \/ DrainEnds \/ Stream \/ Takes \/ Told \/ Tick
    PROVE  helper' \in Helper
<1>1. CASE Begins  BY <1>1 DEF Begins, Helper
<1>2. CASE Picks  BY <1>2 DEF Picks, Helper
<1>3. CASE Declines  BY <1>3, HelperIs DEF Declines
<1>4. CASE Cancel  BY <1>4 DEF Cancel, Helper
<1>5. CASE TabCloses  BY <1>5 DEF TabCloses, Helper
<1>6. CASE ConnectionEnds  BY <1>6 DEF ConnectionEnds, Helper
<1>7. CASE CancelSeen  BY <1>7, HelperIs DEF CancelSeen
<1>8. CASE Waits  BY <1>8, HelperIs DEF Waits, Fails
<1>9. CASE DrainEnds  BY <1>9, HelperIs DEF DrainEnds
<1>10. CASE Stream  BY <1>10, HelperIs DEF Stream, Fails
<1>11. CASE Takes  BY <1>11, HelperIs DEF Takes
<1>12. CASE Told
  <2>1. helper' = helper \/ GiveBack("done") \/ GiveBack("failed")  BY <1>12 DEF Told
  <2>. QED  BY <2>1, HelperIs
<1>13. CASE Tick
  <2>1. PICK q : /\ q = IF helper.quiet > GiveUp THEN helper.quiet ELSE helper.quiet + 1
                 /\ helper' = [helper EXCEPT !.quiet = q]
    BY <1>13 DEF Tick
  <2>2. helper.quiet \in Nat  BY DEF Helper
  <2>3. q \in Nat  BY <2>1, <2>2
  <2>. QED  BY <2>1, <2>3, HelperIs
<1>. QED  BY <1>1, <1>2, <1>3, <1>4, <1>5, <1>6, <1>7, <1>8, <1>9, <1>10, <1>11, <1>12, <1>13

\* The kinds are kept.
LEMMA KindsStep == IInv /\ [Next]_vars => Kinds'
<1>. SUFFICES ASSUME IInv, [Next]_vars PROVE Kinds'  OBVIOUS
<1>. DEFINE Held == version' = version /\ changes' = changes /\ part' = part
<1>1. Kinds  BY DEF IInv
<1>2. ASSUME Held, helper' = helper \/ helper' \in Helper PROVE Kinds'
  BY <1>1, <1>2 DEF Kinds
<1>3. CASE Begins \/ Picks \/ Declines \/ Cancel \/ TabCloses \/ ConnectionEnds
            \/ CancelSeen \/ Waits \/ DrainEnds \/ Stream \/ Takes \/ Told \/ Tick
  <2>1. Held
    BY <1>3 DEF Begins, Picks, Declines, Cancel, TabCloses, ConnectionEnds,
        CancelSeen, Waits, DrainEnds, Stream, Takes, Told, Tick
  <2>2. helper' \in Helper  BY <1>1, <1>3, HelperStep DEF Kinds
  <2>. QED  BY <1>2, <2>1, <2>2
<1>4. CASE OtherSends \/ OtherHears \/ OtherFails \/ DrainTakes \/ Shows
  <2>1. Held /\ helper' = helper
    BY <1>4 DEF OtherSends, OtherHears, OtherFails, DrainTakes, Shows
  <2>. QED  BY <1>2, <2>1
<1>5. CASE Receive
  <2>1. version' = version /\ changes' = changes  BY <1>5 DEF Receive
  <2>. QED  BY <1>1, <1>5, <2>1, ReceiveKinds DEF Kinds
<1>6. ASSUME NEW f \in File, Change(f) PROVE Kinds'
  <2>1. changes + 2 \in Version /\ changes + 1 \in Nat
    BY <1>1, <1>6, ZmodemAssumption DEF Change, Kinds, Version
  <2>2. /\ version' = [version EXCEPT ![f] = changes + 2] /\ changes' = changes + 1
        /\ part' = part /\ helper' = helper
    BY <1>6 DEF Change
  <2>. QED  BY <1>1, <2>1, <2>2 DEF Kinds
<1>7. CASE UNCHANGED vars  BY <1>2, <1>7 DEF vars
<1>. QED  BY <1>3, <1>4, <1>5, <1>6, <1>7 DEF Next, Turn

\* A file that gets its name is whole, or was changed in between.
LEMMA NamedStep == IInv /\ [Next]_vars => NamedAreWhole'
<1>. SUFFICES ASSUME IInv, [Next]_vars PROVE NamedAreWhole'  OBVIOUS
<1>1. named' = named => NamedAreWhole'  BY DEF NamedAreWhole, IInv
<1>2. CASE Receive
  <2>. DEFINE m == down[1]
  <2>1. Kinds /\ m \in Msg /\ Head(down) = m /\ NamedAreWhole  BY <1>2, ReceiveIs DEF IInv
  <2>2. CASE named' = named  BY <1>1, <2>2
  <2>3. CASE named' # named
    <3>. DEFINE x == part[end.file]  v == version[end.file]
    <3>1. FileCompleted(m)
      BY <1>2, <2>1, <2>3 DEF Receive, FileStarted, WriteFile, SessionCompleted, Otherwise
    <3>2. end.at = "takes" /\ m.word = "zeof" /\ named' = named \cup {x}
      BY <2>3, <3>1 DEF FileCompleted
    <3>3. Taking /\ 1 \in DOMAIN down  BY <1>2, <3>2, ReceiveIs
    <3>4. x \in Part /\ v \in Version  BY <2>1, <3>3 DEF Taking, Kinds
    <3>5. Len(x.data) + 1 - 1 = SizeOf(v)  BY <3>2, <3>3 DEF Taking
    <3>6. Len(x.data) = SizeOf(v) /\ x.data \in Seq(Version)
      BY <3>4, <3>5, Sizes DEF Part
    <3>7. x.crossed \/ \A c \in DOMAIN x.data : x.data[c] = v  BY <3>3 DEF Taking
    <3>8. x.crossed \/ x.data = Whole(v)
      <4>1. x.data = [c \in 1 .. SizeOf(v) |-> x.data[c]] /\ DOMAIN x.data = 1 .. SizeOf(v)
        BY <3>6
      <4>. QED  BY <3>7, <4>1 DEF Whole
    <3>. QED  BY <2>1, <3>2, <3>4, <3>8 DEF NamedAreWhole
  <2>. QED  BY <2>2, <2>3
<1>3. CASE UNCHANGED vars  BY <1>1, <1>3 DEF vars
<1>4. ASSUME [Next]_vars, ~Receive, ~UNCHANGED vars PROVE named' = named
  BY <1>4 DEF Next, Turn, Begins, OtherSends, OtherHears, OtherFails, ConnectionEnds, Change,
      Picks, Declines, Cancel, TabCloses, CancelSeen, Waits, DrainTakes, DrainEnds, Stream,
      Takes, Told, Tick, Shows
<1>. QED  BY <1>1, <1>2, <1>3, <1>4

-----------------------------------------------------------------------------
(* The words of a download. *)

\* A step after which no download is live.
LEMMA NotLive ==
    ASSUME helper \in Helper,
           \/ \E f \in File : Change(f)
           \/ Declines \/ TabCloses \/ CancelSeen \/ Waits \/ DrainTakes \/ DrainEnds
           \/ Stream \/ Takes \/ Told \/ Shows
    PROVE  ~Live'
<1>1. CASE (\E f \in File : Change(f)) \/ Shows  BY <1>1 DEF Change, Shows, Live
<1>2. CASE Declines \/ CancelSeen  BY <1>2, HelperIs DEF Declines, CancelSeen, Live
<1>3. CASE TabCloses  BY <1>3 DEF TabCloses, Live, Helper
<1>4. CASE Waits  BY <1>4, HelperIs DEF Waits, Fails, Live
<1>5. CASE DrainTakes  BY <1>5 DEF DrainTakes, Live
<1>6. CASE DrainEnds  BY <1>6, HelperIs DEF DrainEnds, Live
<1>7. CASE Stream
  <2>1. helper' = helper \/ GiveBack("failed") \/ Abort  BY <1>7 DEF Stream, Fails
  <2>. QED  BY <1>7, <2>1, HelperIs DEF Stream, Live
<1>8. CASE Takes  BY <1>8, HelperIs DEF Takes, Live
<1>9. CASE Told
  <2>1. helper' = helper \/ GiveBack("done") \/ GiveBack("failed")  BY <1>9 DEF Told
  <2>. QED  BY <1>9, <2>1, HelperIs DEF Told, Live
<1>. QED  BY <1>1, <1>2, <1>3, <1>4, <1>5, <1>6, <1>7, <1>8, <1>9

\* Sequences of no word, of one, and of one more.
LEMMA Few ==
    /\ <<>> \in Seq(Msg) /\ DOMAIN <<>> = {} /\ Len(<<>>) = 0
    /\ \A m \in Msg :
        /\ <<m>> \in Seq(Msg) /\ Len(<<m>>) = 1 /\ <<m>> # <<>> /\ Tail(<<m>>) = <<>>
        /\ <<m>>[1] = m /\ Head(<<m>>) = m /\ DOMAIN <<m>> = {1}
        /\ Append(<<>>, m) = <<m>>
    /\ \A q \in Seq(Msg), m \in Msg :
        /\ Append(q, m) \in Seq(Msg) /\ Len(q) \in Nat
        /\ Len(Append(q, m)) = Len(q) + 1 /\ Append(q, m)[Len(q) + 1] = m
        /\ DOMAIN q = 1 .. Len(q) /\ DOMAIN Append(q, m) = 1 .. Len(q) + 1
        /\ \A i \in DOMAIN q : Append(q, m)[i] = q[i] /\ i \in DOMAIN Append(q, m)
        /\ \A i \in DOMAIN Append(q, m) : i \in DOMAIN q \/ i = Len(q) + 1
        /\ Append(q, m) # <<>>
    /\ \A q \in Seq(Msg) : q # <<>> =>
        /\ Tail(q) \in Seq(Msg) /\ Len(Tail(q)) = Len(q) - 1 /\ Len(q) \in Nat \ {0}
        /\ DOMAIN Tail(q) = 1 .. Len(q) - 1
        /\ \A i \in DOMAIN Tail(q) : i \in Nat \ {0} /\ Tail(q)[i] = q[i + 1] /\ i + 1 \in DOMAIN q
  OBVIOUS

\* What is about to be heard may be heard by what has the same ends and words.
LEMMA FlowHeld ==
    ASSUME Flow, UNCHANGED <<other, end, down, up, part, version>>,
           helper'.at = "asks" <=> helper.at = "asks", helper'.gone = helper.gone
    PROVE  Flow'
<1>1. Words' /\ Asking'  BY DEF Flow, Words, Asking
<1>2. /\ other' = other /\ end' = end /\ down' = down /\ up' = up
      /\ part' = part /\ version' = version
  OBVIOUS
<1>3. Deaf' = Deaf  BY ONLY <1>2, Zenon DEF Deaf
<1>4. Between' = Between  BY ONLY <1>2, Zenon DEF Between
<1>5. Taking' = Taking  BY ONLY <1>2, Zenon DEF Taking
<1>. QED  BY <1>1, <1>2, <1>3, <1>4, <1>5 DEF Flow

\* A transfer begins.
LEMMA FlowBegins == ASSUME Begins, Live' PROVE Flow'
<1>1. /\ other'.end = [NoEnd EXCEPT !.at = "init"] /\ other'.deaf \in BOOLEAN
      /\ other' \in [end : End, deaf : BOOLEAN]
      /\ helper'.at = "asks" /\ helper'.way = "download" /\ ~helper'.gone
  BY DEF Begins, Live, NoEnd, End
<1>2. down' = <<>>  BY <1>1 DEF Begins
<1>3. up' = <<>> /\ end' = NoEnd  BY DEF Begins
<1>4. other'.end.at = "init" /\ end'.at = "off"  BY <1>1, <1>3 DEF NoEnd
<1>5. Words'  BY <1>1, <1>2, <1>3, Few, Vocabulary DEF Words
<1>6. Asking'  BY <1>1, <1>3, <1>4 DEF Asking
<1>7. Deaf' /\ Between'  BY <1>2, <1>3, <1>4, Few DEF Deaf, Between
<1>. QED  BY <1>4, <1>5, <1>6, <1>7 DEF Flow

\* The server's sz writes a word.
LEMMA FlowSends == ASSUME IInv, Live, OtherSends PROVE Flow'
<1>. DEFINE s == other.end  m == SenderWord(s)  t == SenderWrote(s)
<1>1. Kinds /\ Flow /\ Words /\ Asking  BY DEF IInv, Flow
<1>2. /\ ~other.deaf /\ s.at \in {"offers", "streams", "fins"} /\ down' = Append(down, m)
      /\ end' = end /\ up' = up /\ helper' = helper /\ part' = part /\ version' = version
  BY DEF OtherSends, SenderWrites, Says
<1>3. other'.end = t /\ other'.deaf = other.deaf /\ (t \in End => other' \in [end : End, deaf : BOOLEAN])
  BY <1>1 DEF OtherSends, Words
<1>4. s \in End /\ end.at # "off" /\ ~helper.gone  BY <1>1, <1>2 DEF Words, Asking, Over
<1>. HIDE DEF s, m, t
<1>5. CASE s.at \in {"offers", "fins"}
  <2>1. end.at # "takes" /\ Between  BY <1>1, <1>2, <1>5 DEF Flow, Taking, Over, s
  <2>2. down = <<>> /\ up = <<>> /\ (s.at = "offers" => s.file \in File)
    BY <1>5, <2>1 DEF Between, s
  <2>3. CASE s.at = "offers"
    <3>1. m = Word("zfile", s.file) /\ t = [s EXCEPT !.at = "offered", !.pos = 0]
      BY <2>3 DEF m, t, SenderWord, SenderWrote
    <3>2. t \in End /\ t.at = "offered" /\ t.file = s.file  BY <1>4, <3>1 DEF End
    <3>3. m \in Msg /\ m.word = "zfile" /\ m.n = s.file  BY <2>2, <2>3, <3>1, Vocabulary
    <3>4. down' = <<m>>  BY <1>2, <2>2, <3>3, Few
    <3>5. Words'  BY <1>1, <1>2, <1>3, <3>2, <3>3, <3>4, Few DEF Words
    <3>6. Asking'  BY <1>1, <1>2, <1>4 DEF Asking
    <3>7. Between'
      BY <1>2, <1>3, <2>2, <2>3, <3>1, <3>2, <3>3, <3>4, Few DEF Between, Over
    <3>. QED  BY <1>2, <1>3, <2>1, <3>5, <3>6, <3>7 DEF Flow
  <2>4. CASE s.at = "fins"
    <3>1. m = Word("zfin", 0) /\ t = [s EXCEPT !.at = "fin"]
      BY <2>4 DEF m, t, SenderWord, SenderWrote
    <3>2. t \in End /\ t.at = "fin"  BY <1>4, <3>1 DEF End
    <3>3. m \in Msg /\ m.word = "zfin"  BY <3>1, Vocabulary
    <3>4. down' = <<m>>  BY <1>2, <2>2, <3>3, Few
    <3>5. Words'  BY <1>1, <1>2, <1>3, <3>2, <3>3, <3>4, Few DEF Words
    <3>6. Asking'  BY <1>1, <1>2, <1>4 DEF Asking
    <3>7. Between'  BY <1>2, <1>3, <2>2, <3>2, <3>3, <3>4, Few DEF Between, Over
    <3>. QED  BY <1>2, <1>3, <2>1, <3>5, <3>6, <3>7 DEF Flow
  <2>. QED  BY <1>5, <2>3, <2>4
<1>6. CASE s.at = "streams"
  <2>. DEFINE v == version[end.file]  d == part[end.file].data
  <2>1. end.at = "takes" /\ Taking  BY <1>1, <1>2, <1>6 DEF Flow, Between, Over, s
  <2>2. /\ s.file = end.file /\ s.pos = Len(d) + Len(down) /\ s.pos <= SizeOf(v) /\ up = <<>>
        /\ \A i \in DOMAIN down : down[i].word = "data"
        /\ \A i \in DOMAIN down : down[i].word = "data" => down[i].n = v
        /\ end.file \in File /\ part[end.file] \in Part
        /\ part[end.file].crossed \/ \A c \in DOMAIN d : d[c] = v
    BY <1>6, <2>1 DEF Taking, s
  <2>3. v \in Version /\ v \in Nat /\ SizeOf(v) \in Nat /\ Len(d) \in Nat /\ Len(down) \in Nat
    BY <1>1, <2>2, Sizes, Vocabulary DEF Kinds, Part, Words
  <2>4. CASE s.pos < SizeOf(v)
    <3>1. m = Word("data", v) /\ t = [s EXCEPT !.pos = @ + 1]
      BY <1>6, <2>2, <2>4 DEF m, t, SenderWord, SenderWrote
    <3>2. t \in End /\ t.at = "streams" /\ t.file = s.file /\ t.pos = s.pos + 1
      BY <1>4, <1>6, <3>1 DEF End
    <3>3. m \in Msg /\ m.word = "data" /\ m.n = v  BY <2>3, <3>1, Vocabulary
    <3>4. /\ down' \in Seq(Msg) /\ Len(down') = Len(down) + 1
          /\ \A i \in DOMAIN down' : down'[i].word = "data" /\ down'[i].n = v
      BY <1>1, <1>2, <2>2, <3>3, Few DEF Words
    <3>5. Words'  BY <1>1, <1>2, <1>3, <3>2, <3>4 DEF Words
    <3>6. Asking'  BY <1>1, <1>2, <1>4 DEF Asking
    <3>7. s.pos + 1 = Len(d) + Len(down') /\ s.pos + 1 <= SizeOf(v)
      <4>1. s.pos = Len(d) + Len(down)  BY <2>2
      <4>2. Len(down') = Len(down) + 1  BY <3>4
      <4>3. /\ SizeOf(v) \in Nat /\ Len(d) \in Nat /\ Len(down) \in Nat
            /\ s.pos < SizeOf(v)
        BY <2>3, <2>4
      <4>. HIDE DEF d, v
      <4>4. s.pos + 1 = Len(d) + Len(down')  BY <4>1, <4>2, <4>3
      <4>5. s.pos + 1 <= SizeOf(v)  BY <4>1, <4>3
      <4>. QED  BY <4>4, <4>5
    <3>8. Taking'
      BY <1>2, <1>3, <2>1, <2>2, <3>2, <3>4, <3>7, Zenon DEF Taking, Over
    <3>. QED  BY <1>2, <1>3, <2>1, <3>5, <3>6, <3>8 DEF Flow
  <2>5. CASE ~(s.pos < SizeOf(v))
    <3>1. m = Word("zeof", 0) /\ t = [s EXCEPT !.at = "eof"]
      BY <1>6, <2>2, <2>5 DEF m, t, SenderWord, SenderWrote
    <3>2. t \in End /\ t.at = "eof"  BY <1>4, <3>1 DEF End
    <3>3. m \in Msg /\ m.word = "zeof"  BY <3>1, Vocabulary
    <3>4. /\ down' \in Seq(Msg) /\ Len(down') = Len(down) + 1 /\ down' # <<>>
          /\ down'[Len(down')].word = "zeof" /\ DOMAIN down' = 1 .. Len(down) + 1
          /\ \A i \in DOMAIN down' :
                (down'[i].word = "data" /\ down'[i].n = v) \/ (i = Len(down) + 1 /\ down'[i].word = "zeof")
      BY <1>1, <1>2, <2>2, <3>3, Few DEF Words
    <3>5. Words'  BY <1>1, <1>2, <1>3, <3>2, <3>4 DEF Words
    <3>6. Asking'  BY <1>1, <1>2, <1>4 DEF Asking
    <3>7. Len(d) + (Len(down) + 1) - 1 = SizeOf(v)  BY <2>2, <2>3, <2>5
    <3>8. \A i \in DOMAIN down' :
            /\ down'[i].word \in {"data", "zeof"}
            /\ down'[i].word = "data" => down'[i].n = v
            /\ down'[i].word = "zeof" =>
                Len(d) + i - 1 = SizeOf(v) /\ \A j \in DOMAIN down' : ~(j > i)
      <4>1. \A j \in DOMAIN down' : ~(j > Len(down) + 1)  BY <2>3, <3>4
      <4>. QED  BY <3>4, <3>7, <4>1
    <3>9. Taking'
      BY <1>2, <1>3, <2>1, <2>2, <3>2, <3>4, <3>8 DEF Taking, Over
    <3>. QED  BY <1>2, <1>3, <2>1, <3>5, <3>6, <3>9 DEF Flow
  <2>. QED  BY <2>4, <2>5
<1>. QED  BY <1>2, <1>5, <1>6

\* The server's sz hears a word.
LEMMA FlowHears == ASSUME IInv, Live, OtherHears PROVE Flow'
<1>. DEFINE s == other.end  m == Head(up)  heard == SenderHears(s, m)
            t == IF heard.at = "completed" THEN NextFile(heard, 0) ELSE heard
<1>1. Kinds /\ Flow /\ Words /\ Asking  BY DEF IInv, Flow
<1>2. /\ ~other.deaf /\ s.at \notin Over /\ up # <<>> /\ up' = Tail(up)
      /\ end' = end /\ down' = down /\ helper' = helper /\ part' = part /\ version' = version
  BY DEF OtherHears, Live
<1>3. other'.end = t /\ other'.deaf = other.deaf /\ (t \in End => other' \in [end : End, deaf : BOOLEAN])
  BY <1>1 DEF OtherHears, Words, Live
<1>4. s \in End /\ end.at # "off" /\ ~helper.gone  BY <1>1, <1>2 DEF Words, Asking
<1>. HIDE DEF s, m, heard, t
<1>5. CASE end.at # "takes"
  <2>1. Between  BY <1>1, <1>2, <1>5 DEF Flow
  <2>2. s.at \in {"init", "eof"} /\ up = <<Word("zrinit", 0)>> /\ down = <<>>
    BY <1>2, <2>1 DEF Between, s
  <2>3. m = Word("zrinit", 0) /\ m.word = "zrinit" /\ up' = <<>>
    BY <1>2, <2>2, Few, Vocabulary DEF m
  <2>4. t \in End /\ t.at \in {"offers", "fins"} /\ (t.at = "offers" => t.file \in File)
    <3>1. CASE s.at = "init"
      <4>1. heard = [s EXCEPT !.at = IF s.file \in File THEN "offers" ELSE "fins"]
        BY <2>3, <3>1 DEF heard, SenderHears
      <4>2. heard \in End /\ heard.at \in {"offers", "fins"} /\ (heard.at = "offers" => heard.file \in File)
        BY <1>4, <4>1 DEF End
      <4>. QED  BY <4>2 DEF t
    <3>2. CASE s.at = "eof"
      <4>1. heard = [s EXCEPT !.at = "completed"]  BY <2>3, <3>2 DEF heard, SenderHears
      <4>2. heard \in End /\ heard.at = "completed" /\ heard.file \in Nat
        BY <1>4, <4>1 DEF End
      <4>3. t = NextFile(heard, 0)  BY <4>2 DEF t
      <4>4. heard.file + 1 + 0 \in Nat /\ Files + 1 \in Nat  BY <4>2, ZmodemAssumption
      <4>5. CASE heard.file + 1 + 0 \in File
        <5>1. t = [heard EXCEPT !.at = "offers", !.file = heard.file + 1 + 0]
          BY <4>3, <4>5 DEF NextFile
        <5>. HIDE DEF File
        <5>. QED  BY <4>2, <4>4, <4>5, <5>1 DEF End
      <4>6. CASE heard.file + 1 + 0 \notin File
        <5>1. t = [heard EXCEPT !.at = "fins", !.file = Files + 1]
          BY <4>3, <4>6 DEF NextFile
        <5>. QED  BY <4>2, <4>4, <5>1 DEF End
      <4>. QED  BY <4>5, <4>6
    <3>. QED  BY <2>2, <3>1, <3>2
  <2>5. Words'  BY <1>1, <1>2, <1>3, <2>3, <2>4, Few DEF Words
  <2>6. Asking'  BY <1>1, <1>2, <1>4 DEF Asking
  <2>7. Between'  BY <1>2, <1>3, <2>2, <2>3, <2>4, Few DEF Between, Over
  <2>. QED  BY <1>2, <1>3, <1>5, <2>5, <2>6, <2>7 DEF Flow
<1>6. CASE end.at = "takes"
  <2>. DEFINE v == version[end.file]  d == part[end.file].data
  <2>1. Taking  BY <1>1, <1>2, <1>6 DEF Flow
  <2>2. s.at = "offered" /\ s.file = end.file /\ Len(d) <= SizeOf(v) /\ down = <<>>
        /\ up = <<Word("zrpos", Len(d))>>
    BY <1>2, <2>1 DEF Taking, s
  <2>3. Len(d) \in Nat  BY <2>1 DEF Taking, Part
  <2>4. m = Word("zrpos", Len(d)) /\ m.word = "zrpos" /\ m.n = Len(d) /\ up' = <<>>
    BY <1>2, <2>2, <2>3, Few, Vocabulary DEF m
  <2>5. heard = [s EXCEPT !.at = "streams", !.pos = Len(d)]
    BY <2>2, <2>4 DEF heard, SenderHears
  <2>6. t \in End /\ t.at = "streams" /\ t.file = end.file /\ t.pos = Len(d)
    <3>. HIDE DEF d
    <3>. QED  BY <1>4, <2>2, <2>3, <2>5 DEF End, t
  <2>7. Words'  BY <1>1, <1>2, <1>3, <2>4, <2>6, Few DEF Words
  <2>8. Asking'  BY <1>1, <1>2, <1>4 DEF Asking
  <2>9. Len(d) = Len(d) + Len(down)  BY <2>2, <2>3, Few
  <2>10. Taking'
    <3>1. DOMAIN down = {}  BY <2>2, Few
    <3>. QED  BY <1>2, <1>3, <2>1, <2>2, <2>4, <2>6, <2>9, <3>1, Zenon DEF Taking, Over
  <2>. QED  BY <1>2, <1>3, <1>6, <2>7, <2>8, <2>10 DEF Flow
<1>. QED  BY <1>5, <1>6

\* The server's sz gives up, or a program that isn't one goes on.
LEMMA FlowFails == ASSUME IInv, Live, OtherFails PROVE Flow'
<1>1. Kinds /\ Flow /\ Words /\ Asking  BY DEF IInv, Flow
<1>2. /\ end' = end /\ helper' = helper /\ part' = part /\ version' = version
      /\ other.end.at \notin Over
  BY DEF OtherFails
<1>3. end.at = "off" => up = <<>>  BY <1>1 DEF Asking
<1>4. ASSUME down' = Append(down, Word("can", 0)), up' = <<>>, other' = [other EXCEPT !.end.at = "over"]
      PROVE  Flow'
  <2>. DEFINE m == Word("can", 0)
  <2>1. m \in Msg /\ m.word = "can"  BY Vocabulary
  <2>2. /\ other' \in [end : End, deaf : BOOLEAN] /\ other'.end.at = "over"
        /\ other'.deaf = other.deaf
    BY <1>1, <1>4 DEF Words, End
  <2>. HIDE DEF m
  <2>3. down' = Append(down, m) /\ down \in Seq(Msg)  BY <1>1, <1>4 DEF m, Words
  <2>4. /\ DOMAIN down = 1 .. Len(down) /\ DOMAIN down' = 1 .. Len(down) + 1 /\ Len(down) \in Nat
        /\ down' \in Seq(Msg)
        /\ \A i \in DOMAIN down' :
            \/ i \in DOMAIN down /\ down'[i] = down[i]
            \/ i = Len(down) + 1 /\ down'[i].word = "can"
    BY <2>1, <2>3, Few
  <2>5. Words'  BY <1>1, <1>2, <1>4, <2>2, <2>4, Few DEF Words
  <2>6. Asking'  BY <1>1, <1>2, <1>4, <2>2 DEF Asking, Over
  <2>7. other.deaf => Deaf'  BY <1>1, <1>2, <2>4 DEF Deaf, Flow
  <2>8. ASSUME ~other.deaf, end.at # "takes" PROVE Between'
    <3>1. \A i \in DOMAIN down : down[i].word \in {"zfile", "zfin", "can"}
            /\ (i > 1 => down[i].word = "can") /\ (down[i].word = "zfile" => down[i].n \in File)
      BY <1>1, <2>8 DEF Flow, Between
    <3>2. \A i \in DOMAIN down' : down'[i].word \in {"zfile", "zfin", "can"}
            /\ (i > 1 => down'[i].word = "can") /\ (down'[i].word = "zfile" => down'[i].n \in File)
      BY <2>4, <3>1
    <3>. QED  BY <2>2, <3>2 DEF Between, Over
  <2>9. ASSUME ~other.deaf, end.at = "takes" PROVE Taking'
    <3>. DEFINE v == version[end.file]  d == part[end.file].data
    <3>1. Taking  BY <1>1, <2>9 DEF Flow
    <3>2. \A i \in DOMAIN down : down[i].word \in {"data", "zeof", "can"}
            /\ (down[i].word = "data" => down[i].n = v)
            /\ (down[i].word = "zeof" => Len(d) + i - 1 = SizeOf(v)
                    /\ \A j \in DOMAIN down : j > i => down[j].word = "can")
      BY <3>1 DEF Taking
    <3>3. \A i \in DOMAIN down' : down'[i].word \in {"data", "zeof", "can"}
            /\ (down'[i].word = "data" => down'[i].n = v)
            /\ (down'[i].word = "zeof" => Len(d) + i - 1 = SizeOf(v)
                    /\ \A j \in DOMAIN down' : j > i => down'[j].word = "can")
      <4>. HIDE DEF v, d
      <4>. QED  BY <2>4, <3>2
    <3>4. \A i \in DOMAIN down' : down'[i].word = "can" => other'.end.at \in Over
      BY <2>2 DEF Over
    <3>. QED  BY <1>2, <2>2, <3>1, <3>3, <3>4, Zenon DEF Taking, Over
  <2>. QED  BY <1>2, <2>2, <2>5, <2>6, <2>7, <2>8, <2>9 DEF Flow
<1>5. ASSUME other.deaf, down = <<>>, down' = Append(down, Word("data", 1)), UNCHANGED <<other, up>>
      PROVE  Flow'
  <2>. DEFINE m == Word("data", 1)
  <2>1. m \in Msg /\ m.word = "data"  BY Vocabulary
  <2>. HIDE DEF m
  <2>2. down' = <<m>>  BY <1>5, <2>1, Few DEF m
  <2>3. down' \in Seq(Msg) /\ \A i \in DOMAIN down' : down'[i].word = "data"
    BY <2>1, <2>2, Few
  <2>4. Words' /\ Asking'  BY <1>1, <1>2, <1>5, <2>3 DEF Words, Asking
  <2>5. Deaf'  BY <1>1, <1>2, <1>5, <2>3 DEF Deaf, Flow
  <2>. QED  BY <1>5, <2>4, <2>5 DEF Flow
<1>. QED  BY <1>4, <1>5 DEF OtherFails, Says, Live

\* The connection ends; the words that have come stay.
LEMMA FlowEnds == ASSUME IInv, Live, ConnectionEnds PROVE Flow'
<1>1. Kinds /\ Flow /\ Words /\ Asking  BY DEF IInv, Flow
<1>2. /\ end' = end /\ down' = down /\ part' = part /\ version' = version /\ up' = <<>>
      /\ helper' = [helper EXCEPT !.gone = TRUE] /\ other' = [other EXCEPT !.end.at = "off"]
  BY DEF ConnectionEnds
<1>3. helper'.at = helper.at  BY <1>1, <1>2 DEF Kinds, Helper
<1>4. /\ other' \in [end : End, deaf : BOOLEAN] /\ other'.end.at = "off"
      /\ other'.deaf = other.deaf
  BY <1>1, <1>2 DEF Words, End
<1>5. Words'  BY <1>1, <1>2, <1>4, Few DEF Words
<1>6. Asking'  BY <1>1, <1>2, <1>3, <1>4 DEF Asking, Over
<1>7. Deaf => Deaf'  BY <1>2 DEF Deaf
<1>8. Between => Between'  BY <1>2, <1>4, Zenon DEF Between, Over
<1>9. Taking => Taking'  BY <1>2, <1>4, Zenon DEF Taking, Over
<1>. QED  BY <1>1, <1>2, <1>4, <1>5, <1>6, <1>7, <1>8, <1>9 DEF Flow

\* The person picks the folder.
LEMMA FlowPicks == ASSUME IInv, Live, Picks PROVE Flow'
<1>. DEFINE m == Word("zrinit", 0)
<1>1. Kinds /\ Flow /\ Words /\ Asking  BY DEF IInv, Flow
<1>2. /\ helper.at = "asks" /\ helper' = [helper EXCEPT !.at = "runs"]
      /\ end' = [at |-> "init", file |-> 1 + 0, pos |-> 0]
      /\ up' = (IF helper.gone THEN up ELSE Append(up, m))
      /\ other' = other /\ down' = down
  BY DEF Picks, Live, Writes
<1>3. helper'.at = "runs" /\ helper'.gone = helper.gone  BY <1>1, <1>2 DEF Kinds, Helper
<1>4. /\ up = <<>> /\ other.end.at \in Over \cup {"init"} /\ end.at = "off"
      /\ (helper.gone => other.end.at \in Over)
  BY <1>1, <1>2 DEF Asking
<1>5. m \in Msg /\ up' \in {<<>>, <<m>>} /\ up' \in Seq(Msg)  BY <1>2, <1>4, Few, Vocabulary
<1>6. end' \in End /\ end'.at = "init"  BY <1>2 DEF End
<1>7. Words' /\ Asking'  BY <1>1, <1>2, <1>3, <1>4, <1>5, <1>6 DEF Words, Asking
<1>8. other.deaf => Deaf'  BY <1>1, <1>2, <1>6 DEF Deaf, Flow
<1>9. ASSUME ~other.deaf PROVE Between'
  <2>1. Between  BY <1>1, <1>4, <1>9 DEF Flow
  <2>. QED  BY <1>2, <1>4, <1>5, <2>1 DEF Between, Over
<1>. QED  BY <1>2, <1>6, <1>7, <1>8, <1>9 DEF Flow

\* What is written, where nothing was.
LEMMA WritesIs ==
    ASSUME NEW m \in Msg, Writes(m), up \in Seq(Msg)
    PROVE  /\ up' \in Seq(Msg)
           /\ up = <<>> /\ ~helper.gone => up' = <<m>>
<1>1. up' = IF helper.gone THEN up ELSE Append(up, m)  BY DEF Writes
<1>2. Append(up, m) \in Seq(Msg) /\ Append(<<>>, m) = <<m>>  BY Few
<1>3. CASE helper.gone
  <2>1. up' = up  BY <1>1, <1>3
  <2>. QED  BY <1>3, <2>1
<1>4. CASE ~helper.gone
  <2>1. up' = Append(up, m)  BY <1>1, <1>4
  <2>2. up = <<>> => up' = <<m>>  BY <1>2, <2>1
  <2>. QED  BY <1>2, <2>1, <2>2
<1>. QED  BY <1>3, <1>4

\* A file is begun: the place to go on from goes back to the server.
LEMMA FlowStarted == ASSUME IInv, Receive, Live', FileStarted(down[1]) PROVE Flow'
<1>. DEFINE f == down[1].n  x == Continued(f)  v == version[f]  m == Word("zrpos", Len(x.data))
<1>1. Kinds /\ Flow /\ Words /\ Asking /\ Between /\ ~other.deaf /\ end.at # "takes"
  BY ReceiveIs DEF IInv, Flow
<1>2. /\ down[1].word = "zfile" /\ 1 \in DOMAIN down /\ down # <<>> /\ down' = Tail(down)
      /\ down \in Seq(Msg) /\ helper.at = "runs"
  BY ReceiveIs DEF FileStarted, Flow, Words
<1>3. f \in File  BY <1>1, <1>2 DEF Between
<1>4. /\ part' = [part EXCEPT ![f] = x] /\ Writes(m) /\ end' = [at |-> "takes", file |-> f, pos |-> 0]
      /\ helper' = [helper EXCEPT !.quiet = 0]
  BY <1>1, HelperIs DEF FileStarted, Kinds, Live
<1>5. other' = other /\ version' = version  BY DEF Receive
<1>6. /\ x \in Part /\ Len(x.data) \in Nat /\ Len(x.data) <= SizeOf(v)
      /\ x.crossed \/ \A c \in DOMAIN x.data : x.data[c] = v
  BY <1>1, <1>3, ContinuedIs
<1>7. helper'.at = "runs" /\ helper'.gone = helper.gone  BY <1>1, <1>2, <1>4, HelperIs DEF Kinds
<1>8. m \in Msg  BY <1>6, Vocabulary
<1>9. part'[f] = x  BY <1>1, <1>3, <1>4 DEF Kinds
<1>. HIDE DEF f, x, v, m
<1>10. end' \in End /\ end'.at = "takes" /\ end'.file = f  BY <1>3, <1>4, Vocabulary DEF End
<1>11. up' \in Seq(Msg) /\ (up = <<>> /\ ~helper.gone => up' = <<m>>)
  BY <1>1, <1>4, <1>8, WritesIs DEF Words
<1>12. Words' /\ Asking'
  BY <1>1, <1>2, <1>5, <1>7, <1>10, <1>11, Few DEF Words, Asking
<1>13. \A i \in DOMAIN down' : down'[i].word = "can" /\ other.end.at \in Over
  <2>1. \A i \in DOMAIN down' : i \in Nat \ {0} /\ down'[i] = down[i + 1] /\ i + 1 \in DOMAIN down
    BY <1>2, Few
  <2>2. \A i \in Nat \ {0} : i + 1 > 1  OBVIOUS
  <2>. QED  BY <1>1, <2>1, <2>2 DEF Between
<1>14. other.end.at \in Over \/ other.end.at = "offered"
  <2>1. other.end.at # "fin"  BY <1>1, <1>2, Zenon DEF Between
  <2>2. other.end.at \notin {"init", "offers", "eof", "fins"}  BY <1>1, <1>2 DEF Between
  <2>. QED  BY <1>1, <2>1, <2>2 DEF Between
<1>15. ASSUME other.end.at = "offered"
       PROVE  other.end.file = f /\ down' = <<>> /\ up' = <<m>>
  <2>1. up = <<>> /\ other.end.file \in File /\ down = <<Word("zfile", other.end.file)>>
    BY <1>1, <1>15 DEF Between
  <2>2. ~helper.gone  BY <1>1, <1>15 DEF Asking, Over
  <2>3. Word("zfile", other.end.file) \in Msg /\ Word("zfile", other.end.file).n = other.end.file
    BY <2>1, Vocabulary
  <2>4. down[1].n = other.end.file /\ Tail(down) = <<>>  BY <2>1, <2>3, Few
  <2>. QED  BY <1>2, <1>11, <2>1, <2>2, <2>4 DEF f
<1>16. Taking'
  <2>1. part'[end'.file] = x /\ version'[end'.file] = v /\ end'.file \in File
    BY <1>3, <1>5, <1>9, <1>10 DEF v
  <2>2. \A i \in DOMAIN down' : ~(down'[i].word \in {"data", "zeof"})  BY <1>13
  <2>. QED  BY <1>5, <1>6, <1>10, <1>13, <1>14, <1>15, <2>1, <2>2 DEF Taking, Over, m
<1>. QED  BY <1>1, <1>5, <1>10, <1>12, <1>16 DEF Flow

\* A chunk is written.
LEMMA FlowWrites == ASSUME IInv, Receive, Live', WriteFile(down[1]) PROVE Flow'
<1>. DEFINE f == end.file  x == part[f]  v == version[f]  n == down[1].n
            d == x.data  e == Append(d, n)
<1>1. Kinds /\ Flow /\ Words /\ Asking  BY ReceiveIs DEF IInv, Flow
<1>2. /\ Taking /\ end.at = "takes" /\ ~other.deaf /\ down[1].word = "data"
      /\ 1 \in DOMAIN down /\ down # <<>> /\ down' = Tail(down) /\ down \in Seq(Msg)
  BY ReceiveIs DEF WriteFile, Flow, Words
<1>3. f \in File /\ x \in Part /\ n = v /\ v \in Version /\ SizeOf(v) \in Nat
  <2>1. f \in File /\ x \in Part /\ n = v  BY <1>2 DEF Taking
  <2>. QED  BY <1>1, <2>1, Sizes DEF Kinds
<1>4. /\ part' = [part EXCEPT ![f].data = Append(@, n)] /\ end' = end /\ up' = up
      /\ helper' = [helper EXCEPT !.quiet = 0]
  BY <1>1, HelperIs DEF WriteFile, Kinds, Live
<1>5. other' = other /\ version' = version  BY DEF Receive
<1>6. part'[f] \in Part /\ part'[f].data = e /\ part'[f].crossed = x.crossed
  <2>1. part'[f] = [x EXCEPT !.data = e]  BY <1>1, <1>3, <1>4 DEF Kinds
  <2>2. e \in Seq(Version)  BY <1>3 DEF Part
  <2>. QED  BY <1>3, <2>1, <2>2 DEF Part
<1>7. /\ Len(d) \in Nat /\ Len(e) = Len(d) + 1
      /\ \A c \in DOMAIN e : (c \in DOMAIN d /\ e[c] = d[c]) \/ e[c] = n
  <2>1. d \in Seq(Version) /\ n \in Version  BY <1>3 DEF Part
  <2>. HIDE DEF d, n
  <2>. QED  BY <2>1
<1>8. helper'.at = helper.at /\ helper'.gone = helper.gone  BY <1>1, <1>4, HelperIs DEF Kinds
<1>9. /\ down' \in Seq(Msg) /\ Len(down') = Len(down) - 1 /\ Len(down) \in Nat \ {0}
      /\ DOMAIN down' = 1 .. Len(down) - 1
      /\ \A i \in DOMAIN down' : i \in Nat \ {0} /\ down'[i] = down[i + 1] /\ i + 1 \in DOMAIN down
  BY <1>2, Few
<1>10. Words' /\ Asking'  BY <1>1, <1>4, <1>5, <1>8, <1>9 DEF Words, Asking
<1>11. x.crossed \/ \A c \in DOMAIN e : e[c] = v
  <2>1. x.crossed \/ \A c \in DOMAIN d : d[c] = v  BY <1>2 DEF Taking
  <2>. QED  BY <1>3, <1>7, <2>1, Zenon
<1>12. \A i \in DOMAIN down :
         /\ down[i].word \in {"data", "zeof", "can"}
         /\ down[i].word = "data" => down[i].n = v
         /\ down[i].word = "can" => other.end.at \in Over
         /\ down[i].word = "zeof" =>
              Len(d) + i - 1 = SizeOf(v) /\ \A j \in DOMAIN down : j > i => down[j].word = "can"
  BY <1>2 DEF Taking
<1>13. \A i \in DOMAIN down' :
         /\ down'[i].word \in {"data", "zeof", "can"}
         /\ down'[i].word = "data" => down'[i].n = v
         /\ down'[i].word = "can" => other.end.at \in Over
         /\ down'[i].word = "zeof" =>
              Len(e) + i - 1 = SizeOf(v) /\ \A j \in DOMAIN down' : j > i => down'[j].word = "can"
  <2>. HIDE DEF d, e, v, x
  <2>1. SUFFICES ASSUME NEW i \in DOMAIN down'
        PROVE  /\ down'[i].word \in {"data", "zeof", "can"}
               /\ down'[i].word = "data" => down'[i].n = v
               /\ down'[i].word = "can" => other.end.at \in Over
               /\ down'[i].word = "zeof" =>
                    Len(e) + i - 1 = SizeOf(v) /\ \A j \in DOMAIN down' : j > i => down'[j].word = "can"
    OBVIOUS
  <2>2. i \in Nat /\ down'[i] = down[i + 1] /\ i + 1 \in DOMAIN down  BY <1>9
  <2>3. /\ down'[i].word \in {"data", "zeof", "can"}
        /\ down'[i].word = "data" => down'[i].n = v
        /\ down'[i].word = "can" => other.end.at \in Over
        /\ down'[i].word = "zeof" =>
              Len(d) + (i + 1) - 1 = SizeOf(v)
              /\ \A j \in DOMAIN down : j > i + 1 => down[j].word = "can"
    BY <1>12, <2>2, Zenon
  <2>4. Len(d) + (i + 1) - 1 = Len(e) + i - 1  BY <1>7, <2>2
  <2>5. \A j \in DOMAIN down' : j > i => j + 1 \in DOMAIN down /\ j + 1 > i + 1 /\ down'[j] = down[j + 1]
    BY <1>9, <2>2
  <2>6. ASSUME \A j \in DOMAIN down : j > i + 1 => down[j].word = "can", NEW j \in DOMAIN down', j > i
        PROVE  down'[j].word = "can"
    BY <2>5, <2>6, Zenon
  <2>. QED  BY <2>3, <2>4, <2>6, Zenon
<1>14. ASSUME other.end.at = "streams"
       PROVE  /\ other.end.file = f /\ other.end.pos = Len(e) + Len(down')
              /\ other.end.pos <= SizeOf(v) /\ up = <<>>
              /\ \A i \in DOMAIN down' : down'[i].word = "data"
  <2>1. /\ other.end.file = f /\ other.end.pos = Len(d) + Len(down)
        /\ other.end.pos <= SizeOf(v) /\ up = <<>>
        /\ \A i \in DOMAIN down : down[i].word = "data"
    BY <1>2, <1>14 DEF Taking
  <2>2. \A i \in DOMAIN down' : down'[i].word = "data"  BY <1>9, <2>1, Zenon
  <2>3. Len(d) + Len(down) = Len(e) + Len(down')
    <3>. HIDE DEF d, e
    <3>. QED  BY <1>7, <1>9
  <2>. QED  BY <2>1, <2>2, <2>3
<1>15. ASSUME other.end.at = "eof"
       PROVE  up = <<>> /\ down' # <<>> /\ down'[Len(down')].word = "zeof"
  <2>1. up = <<>> /\ down[Len(down)].word = "zeof"  BY <1>2, <1>15 DEF Taking
  <2>2. Len(down) # 1  BY <1>2, <2>1
  <2>3. Len(down') # 0 /\ Len(down') \in DOMAIN down' /\ Len(down') + 1 = Len(down)  BY <1>9, <2>2
  <2>4. down'[Len(down')] = down[Len(down)]  BY <1>9, <2>3
  <2>. QED  BY <2>1, <2>3, <2>4, Few
<1>16. other.end.at \in Over \cup {"streams", "eof"}  BY <1>2 DEF Taking
<1>17. Taking'
  <2>1. end'.file = f /\ version'[end'.file] = v  BY <1>4, <1>5
  <2>2. other'.end = other.end  BY <1>5
  <2>3. other.end.at # "offered"  BY <1>16 DEF Over
  <2>. HIDE DEF e, v, x, f
  <2>. QED
    BY <1>3, <1>4, <1>6, <1>11, <1>13, <1>14, <1>15, <1>16, <2>1, <2>2, <2>3 DEF Taking
<1>. QED  BY <1>2, <1>4, <1>5, <1>10, <1>17 DEF Flow

\* A file is complete: the next may come.
LEMMA FlowCompleted == ASSUME IInv, Receive, Live', FileCompleted(down[1]) PROVE Flow'
<1>. DEFINE m == Word("zrinit", 0)
<1>1. Kinds /\ Flow /\ Words /\ Asking  BY ReceiveIs DEF IInv, Flow
<1>2. /\ Taking /\ end.at = "takes" /\ ~other.deaf /\ down[1].word = "zeof"
      /\ 1 \in DOMAIN down /\ down # <<>> /\ down' = Tail(down) /\ down \in Seq(Msg)
  BY ReceiveIs DEF FileCompleted, Flow, Words
<1>3. Writes(m) /\ end' = [end EXCEPT !.at = "next"] /\ helper' = [helper EXCEPT !.quiet = 0]
  BY DEF FileCompleted
<1>4. other' = other  BY DEF Receive
<1>5. helper'.at = helper.at /\ helper'.gone = helper.gone  BY <1>1, <1>3, HelperIs DEF Kinds
<1>6. m \in Msg /\ up' \in Seq(Msg) /\ (up = <<>> /\ ~helper.gone => up' = <<m>>)
  BY <1>1, <1>3, Vocabulary, WritesIs DEF Words
<1>7. end' \in End /\ end'.at = "next"  BY <1>1, <1>3 DEF Words, End
<1>8. /\ down' \in Seq(Msg) /\ Len(down) \in Nat \ {0}
      /\ DOMAIN down = 1 .. Len(down) /\ DOMAIN down' = 1 .. Len(down) - 1
      /\ \A i \in DOMAIN down' : i \in Nat \ {0} /\ down'[i] = down[i + 1] /\ i + 1 \in DOMAIN down
  BY <1>2, Few
<1>9. Words' /\ Asking'  BY <1>1, <1>2, <1>4, <1>5, <1>6, <1>7, <1>8 DEF Words, Asking
<1>10. \A j \in DOMAIN down : j > 1 => down[j].word = "can" /\ other.end.at \in Over
  BY <1>2 DEF Taking
<1>11. \A i \in DOMAIN down' : down'[i].word = "can" /\ other.end.at \in Over
  <2>1. \A i \in Nat \ {0} : i + 1 > 1  OBVIOUS
  <2>. QED  BY <1>8, <1>10, <2>1, Zenon
<1>12. other.end.at \in Over \/ other.end.at = "eof"
  <2>1. other.end.at # "offered" /\ other.end.at # "streams"  BY <1>2 DEF Taking
  <2>. QED  BY <1>2, <2>1 DEF Taking
<1>13. ASSUME other.end.at = "eof" PROVE down' = <<>> /\ up' = <<m>>
  <2>1. up = <<>> /\ ~helper.gone /\ other.end.at \notin Over
    BY <1>1, <1>2, <1>13 DEF Taking, Asking, Over
  <2>2. DOMAIN down' = {}  BY <1>11, <2>1
  <2>3. Len(down) = 1  BY <1>8, <2>2
  <2>4. Len(down') = 0  BY <1>2, <2>3, Few
  <2>. QED  BY <1>6, <1>8, <2>1, <2>4
<1>14. Between'
  <2>1. \A i \in DOMAIN down' : down'[i].word \in {"zfile", "zfin", "can"} /\ down'[i].word # "zfile"
    BY <1>11
  <2>. QED  BY <1>4, <1>11, <1>12, <1>13, <2>1 DEF Between, Over
<1>. QED  BY <1>2, <1>4, <1>7, <1>9, <1>14 DEF Flow

\* A word is passed over.
LEMMA FlowOtherwise == ASSUME IInv, Receive, Live', Otherwise(down[1]) PROVE Flow'
<1>1. Kinds /\ Flow /\ Words /\ Asking  BY ReceiveIs DEF IInv, Flow
<1>2. /\ down[1].word = "data" /\ end.at # "takes" /\ end' = end /\ up' = up
      /\ helper' = [helper EXCEPT !.quiet = 0]
  BY <1>1, HelperIs DEF Otherwise, Fails, Kinds, Live
<1>3. /\ 1 \in DOMAIN down /\ down # <<>> /\ down' = Tail(down) /\ down \in Seq(Msg)
      /\ other' = other
  BY ReceiveIs DEF Receive, Flow, Words
<1>4. other.deaf  BY <1>1, <1>2, <1>3 DEF Flow, Between
<1>5. helper'.at = helper.at /\ helper'.gone = helper.gone  BY <1>1, <1>2, HelperIs DEF Kinds
<1>6. down' \in Seq(Msg) /\ \A i \in DOMAIN down' : down'[i] = down[i + 1] /\ i + 1 \in DOMAIN down
  BY <1>3, Few
<1>7. Words' /\ Asking'  BY <1>1, <1>2, <1>3, <1>5, <1>6 DEF Words, Asking
<1>8. Deaf'  BY <1>1, <1>2, <1>4, <1>6 DEF Deaf, Flow
<1>. QED  BY <1>3, <1>4, <1>7, <1>8 DEF Flow

\* The words of a download stay those of one.
LEMMA FlowStep == IInv /\ [Next]_vars => (Live => Flow)'
<1>. SUFFICES ASSUME IInv, [Next]_vars, Live' PROVE Flow'  OBVIOUS
<1>1. helper \in Helper /\ (Live => Flow)  BY DEF IInv, Kinds
<1>2. CASE Begins  BY <1>2, FlowBegins
<1>3. CASE OtherSends
  <2>1. Live  BY <1>3 DEF OtherSends, Live
  <2>. QED  BY <1>3, <2>1, FlowSends
<1>4. CASE OtherHears
  <2>1. Live  BY <1>4 DEF OtherHears, Live
  <2>. QED  BY <1>4, <2>1, FlowHears
<1>5. CASE OtherFails
  <2>1. Live  BY <1>5 DEF OtherFails, Live
  <2>. QED  BY <1>5, <2>1, FlowFails
<1>6. CASE ConnectionEnds
  <2>1. Live  BY <1>1, <1>6 DEF ConnectionEnds, Live, Helper
  <2>. QED  BY <1>6, <2>1, FlowEnds
<1>7. CASE Picks
  <2>1. Live  BY <1>1, <1>7 DEF Picks, Live, Helper
  <2>. QED  BY <1>7, <2>1, FlowPicks
<1>8. CASE Cancel
  <2>1. helper'.at = helper.at /\ helper'.way = helper.way /\ helper'.gone = helper.gone
    BY <1>1, <1>8 DEF Cancel, Helper
  <2>2. Live /\ UNCHANGED <<other, end, down, up, part, version>>
    BY <1>8, <2>1 DEF Cancel, Live
  <2>. QED  BY <1>1, <2>1, <2>2, FlowHeld
<1>9. CASE Tick
  <2>1. helper'.at = helper.at /\ helper'.way = helper.way /\ helper'.gone = helper.gone
    BY <1>1, <1>9 DEF Tick, Helper
  <2>2. Live /\ UNCHANGED <<other, end, down, up, part, version>>
    BY <1>9, <2>1 DEF Tick, Live
  <2>. QED  BY <1>1, <2>1, <2>2, FlowHeld
<1>10. CASE Receive
  <2>1. Head(down) = down[1]  BY <1>10, ReceiveIs
  <2>2. ~SessionCompleted(down[1])  BY <1>1, HelperIs DEF SessionCompleted, Live
  <2>. QED
    BY <1>10, <2>1, <2>2, FlowStarted, FlowWrites, FlowCompleted, FlowOtherwise DEF Receive
<1>11. CASE UNCHANGED vars
  <2>1. Live /\ UNCHANGED <<other, end, down, up, part, version, helper>>
    BY <1>11 DEF vars, Live
  <2>. QED  BY <1>1, <2>1, FlowHeld
<1>12. CASE \/ \E f \in File : Change(f)
            \/ Declines \/ TabCloses \/ CancelSeen \/ Waits \/ DrainTakes \/ DrainEnds
            \/ Stream \/ Takes \/ Told \/ Shows
  BY <1>1, <1>12, NotLive
<1>. QED
  BY <1>2, <1>3, <1>4, <1>5, <1>6, <1>7, <1>8, <1>9, <1>10, <1>11, <1>12 DEF Next, Turn

\* The invariant holds at first.
LEMMA Begin == Init => IInv
<1>. SUFFICES ASSUME Init PROVE IInv  OBVIOUS
<1>1. 1 \in Version /\ 0 \in Nat  BY ZmodemAssumption DEF Version
<1>2. version \in [File -> Version] /\ changes \in Nat  BY <1>1 DEF Init
<1>3. part \in [File -> Part \cup {Absent}]  BY DEF Init
<1>4. helper \in Helper /\ helper.at = "away"  BY <1>1 DEF Init, Helper
<1>5. NamedAreWhole  BY DEF Init, NamedAreWhole
<1>. QED  BY <1>2, <1>3, <1>4, <1>5 DEF IInv, Kinds, Live

\* A file gets its name only complete and as it was sent, however often its
\* transfer was cancelled, broken and gone on with - unless it was changed in
\* between.
THEOREM NamedAreWholeEver == Spec => []NamedAreWhole
<1>1. IInv /\ [Next]_vars => IInv'
  <2>. SUFFICES ASSUME IInv, [Next]_vars PROVE IInv'  OBVIOUS
  <2>1. Kinds'  BY KindsStep
  <2>2. NamedAreWhole'  BY NamedStep
  <2>3. (Live => Flow)'  BY FlowStep
  <2>. QED  BY <2>1, <2>2, <2>3 DEF IInv
<1>2. IInv => NamedAreWhole  BY DEF IInv
<1>. QED  BY Begin, <1>1, <1>2, PTL DEF Spec

-----------------------------------------------------------------------------
(* The words that have come together are heard one after the other: Heard *)
(* folds them over the set of their places, so what it keeps is shown by   *)
(* induction over their number.                                            *)

\* Induction over the natural numbers, for a set.
LEMMA SetInduction ==
    ASSUME NEW S, 0 \in S, \A n \in Nat : n \in S => n + 1 \in S
    PROVE  \A n \in Nat : n \in S
<1> DEFINE Out == Nat \ S
           Less == {p \in Nat \X Nat : p[1] < p[2]}
<1>1. IsWellFoundedOn(Less, Nat)
  BY NatLessThanWellFounded DEF OpToRel
<1>2. ASSUME Out # {} PROVE FALSE
  <2> HIDE DEF Less
  <2>1. PICK x \in Out : \A y \in Out : ~(<<y, x>> \in Less)
    BY <1>1, <1>2, WFMin
  <2>2. x # 0 /\ x \in Nat
    OBVIOUS
  <2>3. x - 1 \in Nat /\ x - 1 < x /\ (x - 1) + 1 = x
    BY <2>2
  <2>4. <<x - 1, x>> \in Less
    BY <2>2, <2>3 DEF Less
  <2>5. x - 1 \in S
    BY <2>1, <2>3, <2>4
  <2> QED BY <2>3, <2>5
<1> QED BY <1>2

\* What Heard folds: the sender by each set of the places of the words that have come.
Hearing(s) == CHOOSE iter : iter = [t \in SUBSET DOMAIN down |->
                  IF t = {} THEN s ELSE SenderHears(iter[t \ {Max(t)}], down[Max(t)])]

\* The fold of the community modules, written out.
LEMMA HeardIsFolded == \A s : Heard(s) = Hearing(s)[DOMAIN down]
  BY DEF Heard, FoldLeft, MapThenFoldSet, Hearing

\* The greatest of the first places.
LEMMA MaxIs ==
    ASSUME NEW k \in Nat, NEW t \in SUBSET (1 .. k + 1), k + 1 \in t
    PROVE  Max(t) = k + 1 /\ t \ {k + 1} \in SUBSET (1 .. k)
<1>1. \A y \in t : k + 1 >= y
  OBVIOUS
<1>2. \A x \in t : (\A y \in t : x >= y) => x = k + 1
  OBVIOUS
<1>3. Max(t) = k + 1
  BY <1>1, <1>2 DEF Max
<1> QED BY <1>3

\* Words can be heard one after the other, however many they are.
LEMMA HearingIs ==
    ASSUME NEW s, Len(down) \in Nat, DOMAIN down = 1 .. Len(down)
    PROVE  Hearing(s) = [t \in SUBSET DOMAIN down |->
               IF t = {} THEN s ELSE SenderHears(Hearing(s)[t \ {Max(t)}], down[Max(t)])]
<1> DEFINE Value(f, t) == IF t = {} THEN s ELSE SenderHears(f[t \ {Max(t)}], down[Max(t)])
           Hears(f, k) == f = [t \in SUBSET (1 .. k) |-> Value(f, t)]
           S == {k \in Nat : \E f : Hears(f, k)}
<1>1. 0 \in S
  <2> DEFINE f == [t \in SUBSET (1 .. 0) |-> s]
  <2>1. \A t \in SUBSET (1 .. 0) : t = {}
    OBVIOUS
  <2>2. \A t \in SUBSET (1 .. 0) : Value(f, t) = s
    BY <2>1
  <2>3. f = [t \in SUBSET (1 .. 0) |-> Value(f, t)]
    BY <2>2
  <2> HIDE DEF f, Value
  <2> QED BY <2>3
<1>2. ASSUME NEW k \in Nat, k \in S PROVE k + 1 \in S
  <2>1. PICK f : Hears(f, k)
    BY <1>2
  <2> DEFINE g == [t \in SUBSET (1 .. k + 1) |->
                    IF k + 1 \in t THEN SenderHears(f[t \ {k + 1}], down[k + 1]) ELSE f[t]]
  <2>2. \A t \in SUBSET (1 .. k) : t \in SUBSET (1 .. k + 1) /\ k + 1 \notin t /\ g[t] = f[t]
    OBVIOUS
  <2>3. ASSUME NEW t \in SUBSET (1 .. k + 1) PROVE g[t] = Value(g, t)
    <3>1. CASE k + 1 \in t
      <4>1. Max(t) = k + 1 /\ t \ {k + 1} \in SUBSET (1 .. k) /\ t # {}
        BY <3>1, MaxIs
      <4>2. g[t] = SenderHears(f[t \ {k + 1}], down[k + 1])
        BY <3>1
      <4>3. g[t \ {k + 1}] = f[t \ {k + 1}]
        BY <2>2, <4>1
      <4> HIDE DEF g
      <4> QED BY <4>1, <4>2, <4>3
    <3>2. CASE k + 1 \notin t
      <4>1. t \in SUBSET (1 .. k)
        BY <3>2
      <4>2. g[t] = f[t] /\ f[t] = Value(f, t)
        <5>1. f[t] = Value(f, t)
          <6> HIDE DEF Value
          <6> QED BY <2>1, <4>1
        <5> QED BY <2>2, <4>1, <5>1
      <4>3. g[t \ {Max(t)}] = f[t \ {Max(t)}]
        <5>1. t \ {Max(t)} \in SUBSET (1 .. k)
          BY <4>1
        <5> HIDE DEF g
        <5> QED BY <2>2, <5>1
      <4> HIDE DEF g
      <4> QED BY <4>2, <4>3
    <3> QED BY <3>1, <3>2
  <2>4. Hears(g, k + 1)
    <3>1. DOMAIN g = SUBSET (1 .. k + 1) /\ g = [t \in DOMAIN g |-> g[t]]
      OBVIOUS
    <3> HIDE DEF g, Value
    <3> QED BY <2>3, <3>1
  <2> HIDE DEF Hears
  <2> QED BY <2>4
<1>3. \A k \in Nat : k \in S
  <2> HIDE DEF S
  <2> QED BY <1>1, <1>2, SetInduction
<1>4. PICK f : Hears(f, Len(down))
  <2>1. Len(down) \in S
    BY <1>3
  <2> HIDE DEF Hears
  <2> QED BY <2>1
<1> QED BY <1>4 DEF Hearing

\* What is kept by each word is kept by all that have come.
LEMMA HeardKeeps ==
    ASSUME NEW A, NEW s \in A, down \in Seq(Msg),
           \A i \in DOMAIN down, e \in A : SenderHears(e, down[i]) \in A
    PROVE  Heard(s) \in A
<1> DEFINE n == Len(down)
           h == Hearing(s)
           S == {k \in Nat : k <= n => h[1 .. k] \in A}
<1>1. n \in Nat /\ DOMAIN down = 1 .. n
  OBVIOUS
<1>2. h = [t \in SUBSET (1 .. n) |->
            IF t = {} THEN s ELSE SenderHears(h[t \ {Max(t)}], down[Max(t)])]
  BY <1>1, HearingIs
<1> HIDE DEF h, n
<1>3. 0 \in S
  <2>1. 1 .. 0 = {} /\ {} \in SUBSET (1 .. n)
    OBVIOUS
  <2>2. h[{}] = s
    BY <1>2, <2>1
  <2> QED BY <2>1, <2>2
<1>4. ASSUME NEW k \in Nat, k \in S PROVE k + 1 \in S
  <2>1. ASSUME k + 1 <= n PROVE h[1 .. k + 1] \in A
    <3>1. h[1 .. k] \in A /\ k + 1 \in DOMAIN down
      BY <1>1, <1>4, <2>1
    <3>2. 1 .. k + 1 \in SUBSET (1 .. n) /\ k + 1 \in 1 .. k + 1 /\ 1 .. k + 1 # {}
      BY <1>1, <2>1
    <3>3. Max(1 .. k + 1) = k + 1
      BY <3>2, MaxIs
    <3>4. (1 .. k + 1) \ {k + 1} = 1 .. k
      OBVIOUS
    <3>5. h[1 .. k + 1] = SenderHears(h[1 .. k], down[k + 1])
      BY <1>2, <3>2, <3>3, <3>4
    <3> QED BY <3>1, <3>5
  <2> QED BY <2>1
<1>5. \A k \in Nat : k \in S
  <2> HIDE DEF S
  <2> QED BY <1>3, <1>4, SetInduction
<1>6. h[DOMAIN down] \in A
  BY <1>1, <1>5
<1> QED BY <1>6, HeardIsFolded DEF h

-----------------------------------------------------------------------------
(* The ends of the protocol. *)

\* A sender that offers or sends a file has one.
Sound(s) == s.at \in {"offers", "offered", "streams", "eof"} => s.file \in File

\* What a word makes of a sender.
LEMMA SenderHearsIs ==
    ASSUME NEW s \in End, NEW m \in Msg
    PROVE  /\ SenderHears(s, m) \in End
           /\ SenderHears(s, m).file = s.file
           /\ SenderHears(s, m).pos = s.pos \/ (m.word = "zrpos" /\ SenderHears(s, m).pos = m.n)
           /\ Sound(s) => Sound(SenderHears(s, m))
           /\ SenderHears(s, m).at = "over" => s.at = "over" \/ m.word = "zfin"
           /\ m.word = "can" => SenderHears(s, m).at = "aborted"
           /\ s.at = "fin" => SenderHears(s, m).at \in {"fin", "over", "aborted"}
           /\ s.at = "fin" /\ m.word = "zfin" => SenderHears(s, m).at = "over"
<1>. DEFINE h == SenderHears(s, m)
<1>1. CASE m.word = "can"
  <2>1. h = [s EXCEPT !.at = "aborted"]  BY <1>1 DEF SenderHears
  <2>. QED  BY <1>1, <2>1 DEF End, Sound
<1>2. CASE m.word = "zrinit" /\ s.at = "init"
  <2>1. h = [s EXCEPT !.at = IF s.file \in File THEN "offers" ELSE "fins"]
    BY <1>2 DEF SenderHears
  <2>. QED  BY <1>2, <2>1 DEF End, Sound
<1>3. CASE m.word = "zrinit" /\ s.at = "eof"
  <2>1. h = [s EXCEPT !.at = "completed"]  BY <1>3 DEF SenderHears
  <2>. QED  BY <1>3, <2>1 DEF End, Sound
<1>4. CASE m.word = "zrpos" /\ s.at \in {"offered", "streams", "eof"}
  <2>1. h = [s EXCEPT !.at = "streams", !.pos = m.n]  BY <1>4 DEF SenderHears
  <2>2. m.n \in Nat  BY DEF Msg
  <2>. QED  BY <1>4, <2>1, <2>2 DEF End, Sound
<1>5. CASE m.word = "zfin" /\ s.at = "fin"
  <2>1. h = [s EXCEPT !.at = "over"]  BY <1>5 DEF SenderHears
  <2>. QED  BY <1>5, <2>1 DEF End, Sound
<1>6. CASE /\ m.word # "can" /\ ~(m.word = "zfin" /\ s.at = "fin")
           /\ ~(m.word = "zrinit" /\ s.at \in {"init", "eof"})
           /\ ~(m.word = "zrpos" /\ s.at \in {"offered", "streams", "eof"})
  <2>1. h = s  BY <1>6 DEF SenderHears
  <2>. QED  BY <1>6, <2>1
<1>. QED  BY <1>1, <1>2, <1>3, <1>4, <1>5, <1>6

\* What writing makes of it, and the word.
LEMMA SenderWroteIs ==
    ASSUME NEW s \in End, Sound(s), SenderWrites(s), version \in [File -> Version]
    PROVE  /\ SenderWord(s) \in Msg
           /\ SenderWrote(s) \in End
           /\ Sound(SenderWrote(s))
           /\ SenderWrote(s).at \in {"offered", "fin", "streams", "eof"}
           /\ SenderWrote(s).file = s.file
           /\ \/ SenderWrote(s).pos \in {0, s.pos}
              \/ SenderWrote(s).pos = s.pos + 1 /\ s.pos < SizeOf(version[s.file])
<1>. DEFINE w == SenderWord(s)  t == SenderWrote(s)
<1>1. CASE s.at = "offers"
  <2>1. w = Word("zfile", s.file) /\ t = [s EXCEPT !.at = "offered", !.pos = 0]
    BY <1>1 DEF SenderWord, SenderWrote
  <2>2. s.file \in File /\ s.file \in Nat  BY <1>1 DEF Sound, End
  <2>3. w \in Msg  BY <2>1, <2>2, Vocabulary
  <2>4. t \in End /\ t.at = "offered" /\ t.file = s.file /\ t.pos = 0
    <3>1. PICK z \in Nat : z = 0  OBVIOUS
    <3>2. t = [s EXCEPT !.at = "offered", !.pos = z]  BY <2>1, <3>1
    <3>. HIDE DEF t, w
    <3>3. t \in End /\ t.at = "offered" /\ t.file = s.file /\ t.pos = z  BY <3>2 DEF End
    <3>. QED  BY <3>1, <3>3
  <2>. HIDE DEF w, t
  <2>5. t.pos \in {0, s.pos}  BY <2>4
  <2>. QED  BY <2>2, <2>3, <2>4, <2>5 DEF Sound, w, t
<1>2. CASE s.at = "fins"
  <2>1. w = Word("zfin", 0) /\ t = [s EXCEPT !.at = "fin"]
    BY <1>2 DEF SenderWord, SenderWrote
  <2>. QED  BY <2>1, Vocabulary DEF End, Sound
<1>3. CASE s.at = "streams" /\ s.pos < SizeOf(version[s.file])
  <2>1. w = Word("data", version[s.file]) /\ t = [s EXCEPT !.pos = @ + 1]
    BY <1>3 DEF SenderWord, SenderWrote
  <2>2. s.file \in File  BY <1>3 DEF Sound
  <2>3. version[s.file] \in Nat  BY <2>2, Vocabulary
  <2>. QED  BY <1>3, <2>1, <2>2, <2>3, Vocabulary DEF End, Sound
<1>4. CASE s.at = "streams" /\ ~(s.pos < SizeOf(version[s.file]))
  <2>1. w = Word("zeof", 0) /\ t = [s EXCEPT !.at = "eof"]
    BY <1>4 DEF SenderWord, SenderWrote
  <2>. QED  BY <1>4, <2>1, Vocabulary DEF End, Sound
<1>. QED  BY <1>1, <1>2, <1>3, <1>4 DEF SenderWrites

\* The next file, or the end.
LEMMA NextIs ==
    ASSUME NEW s \in End, NEW skipped \in {0, 1}
    PROVE  /\ NextFile(s, skipped) \in End
           /\ Sound(NextFile(s, skipped))
           /\ NextFile(s, skipped).at \in {"offers", "fins"}
           /\ NextFile(s, skipped).file \in 1 .. Files + 1
           /\ NextFile(s, skipped).pos = s.pos
<1>. DEFINE next == s.file + 1 + skipped
<1>1. PICK f, a :
        /\ NextFile(s, skipped) = [s EXCEPT !.at = a, !.file = f]
        /\ \/ a = "offers" /\ f = next /\ next \in File
           \/ a = "fins" /\ f = Files + 1
  <2>1. CASE next \in File
    <3>1. NextFile(s, skipped) = [s EXCEPT !.at = "offers", !.file = next]
      BY <2>1 DEF NextFile
    <3>. QED  BY <2>1, <3>1
  <2>2. CASE next \notin File
    <3>1. NextFile(s, skipped) = [s EXCEPT !.at = "fins", !.file = Files + 1]
      BY <2>2 DEF NextFile
    <3>. QED  BY <3>1
  <2>. QED  BY <2>1, <2>2
<1>2. f \in Nat /\ f \in 1 .. Files + 1 /\ (a = "offers" => f \in File)
  <2>1. Files \in Nat  BY ZmodemAssumption
  <2>. QED  BY <1>1, <2>1 DEF File
<1>3. a \in {"offers", "fins"}  BY <1>1
<1>. QED  BY <1>1, <1>2, <1>3 DEF End, Sound

\* The session is given back.
LEMMA GivenBack ==
    ASSUME helper \in Helper, NEW o \in {"done", "failed", "cancelled"}, GiveBack(o)
    PROVE  /\ helper'.at = "away" /\ helper'.way = helper.way /\ helper'.gone = helper.gone
           /\ helper'.outcome = o
  BY DEF GiveBack, Helper

\* A cancel is written, where there still is a connection.
LEMMA AbortIs ==
    ASSUME helper \in Helper, Words, Abort
    PROVE  /\ helper'.at = "drains" /\ helper'.way = helper.way /\ helper'.gone = helper.gone
           /\ end' \in End /\ end'.at = "aborted" /\ end'.file = end.file /\ end'.pos = end.pos
           /\ up' \in Seq(Msg)
           /\ helper.gone \/ LastIs("can")'
<1>1. /\ helper' = [helper EXCEPT !.at = "drains", !.quiet = 0]
      /\ end' = [end EXCEPT !.at = "aborted"]
      /\ up' = IF helper.gone THEN up ELSE Append(up, Word("can", 0))
  BY DEF Abort, Writes
<1>2. /\ helper'.at = "drains" /\ helper'.way = helper.way /\ helper'.gone = helper.gone
  BY <1>1 DEF Helper
<1>3. end' \in End /\ end'.at = "aborted" /\ end'.file = end.file /\ end'.pos = end.pos
  BY <1>1 DEF Words, End
<1>. DEFINE m == Word("can", 0)
<1>4. m \in Msg /\ m.word = "can"  BY Vocabulary
<1>5. up \in Seq(Msg)  BY DEF Words
<1>6. up' = IF helper.gone THEN up ELSE Append(up, m)  BY <1>1
<1>. HIDE DEF m
<1>7. Append(up, m) \in Seq(Msg) /\ Append(up, m) # <<>>
      /\ Append(up, m)[Len(Append(up, m))] = m
  BY <1>4, <1>5, Few
<1>8. ~helper.gone => LastIs("can")'  BY <1>4, <1>6, <1>7 DEF LastIs, Last
<1>. QED  BY <1>2, <1>3, <1>5, <1>6, <1>7, <1>8

-----------------------------------------------------------------------------
(* Whichever way a transfer goes: the words and the ends are of their kinds. *)
SoundInv == Words /\ Sound(end) /\ Sound(other.end)

\* The steps of the server and of the way to it.
LEMMA SoundOther ==
    ASSUME Kinds, SoundInv, OtherSends \/ OtherHears \/ OtherFails \/ ConnectionEnds
    PROVE  SoundInv'
<1>1. /\ other \in [end : End, deaf : BOOLEAN] /\ other.end \in End /\ Sound(other.end)
      /\ end \in End /\ Sound(end) /\ down \in Seq(Msg) /\ up \in Seq(Msg)
  BY DEF SoundInv, Words
<1>2. ASSUME NEW t \in End, Sound(t), other' = [other EXCEPT !.end = t],
             end' = end, down' \in Seq(Msg), up' \in Seq(Msg)
      PROVE  SoundInv'
  <2>1. other' \in [end : End, deaf : BOOLEAN] /\ other'.end = t  BY <1>1, <1>2
  <2>. QED  BY <1>1, <1>2, <2>1 DEF SoundInv, Words, Sound
<1>3. ASSUME NEW a \in {"over", "off", other.end.at}
      PROVE  [other.end EXCEPT !.at = a] \in End /\ Sound([other.end EXCEPT !.at = a])
  BY <1>1 DEF End, Sound
<1>4. CASE OtherSends
  <2>1. /\ SenderWrites(other.end) /\ down' = Append(down, SenderWord(other.end))
        /\ other' = [other EXCEPT !.end = SenderWrote(@)] /\ end' = end /\ up' = up
    BY <1>4 DEF OtherSends, Says
  <2>2. SenderWord(other.end) \in Msg /\ SenderWrote(other.end) \in End /\ Sound(SenderWrote(other.end))
    BY <1>1, <2>1, SenderWroteIs DEF Kinds
  <2>3. down' \in Seq(Msg)  BY <1>1, <2>1, <2>2
  <2>4. other' = [other EXCEPT !.end = SenderWrote(other.end)]  BY <1>1, <2>1
  <2>. QED  BY <1>1, <1>2, <2>1, <2>2, <2>3, <2>4
<1>5. CASE OtherHears
  <2>. DEFINE m == Head(up)  h == SenderHears(other.end, m)
              t == IF h.at = "completed" THEN NextFile(h, 0) ELSE h
              a == IF m.word \in {"can", "zfin"} THEN "over" ELSE other.end.at
              u == [other.end EXCEPT !.at = a]
  <2>1. up # <<>> /\ up' = Tail(up) /\ end' = end  BY <1>5 DEF OtherHears
  <2>2. m \in Msg /\ up' \in Seq(Msg)  BY <1>1, <2>1
  <2>3. CASE helper.way # "upload"
    <3>1. other' = [other EXCEPT !.end = t] /\ down' = down  BY <1>5, <2>3 DEF OtherHears
    <3>2. h \in End /\ Sound(h)  BY <1>1, <2>2, SenderHearsIs
    <3>3. t \in End /\ Sound(t)
      <4>. HIDE DEF h
      <4>. QED  BY <3>2, NextIs
    <3>. HIDE DEF t
    <3>. QED  BY <1>1, <1>2, <2>1, <2>2, <3>1, <3>3
  <2>4. CASE helper.way = "upload"
    <3>1. /\ other' = [other EXCEPT !.end.at = IF m.word \in {"can", "zfin"} THEN "over" ELSE @]
          /\ down' = down \o ReceiverAnswer(m)
      BY <1>5, <2>4 DEF OtherHears
    <3>2. other' = [other EXCEPT !.end = u]  BY <1>1, <3>1
    <3>3. u \in End /\ Sound(u)  BY <1>3
    <3>4. ReceiverAnswer(m) \in Seq(Msg)
      <4>1. \A w \in {"zrpos", "zrinit", "zfin"} : Word(w, 0) \in Msg  BY Vocabulary
      <4>2. ReceiverAnswer(m) = <<>>
            \/ \E w \in {"zrpos", "zrinit", "zfin"} : ReceiverAnswer(m) = <<Word(w, 0)>>
        <5>1. CASE m.word = "zfile"  BY <5>1 DEF ReceiverAnswer
        <5>2. CASE m.word = "zeof"  BY <5>2 DEF ReceiverAnswer
        <5>3. CASE m.word = "zfin"  BY <5>3 DEF ReceiverAnswer
        <5>4. CASE m.word \notin {"zfile", "zeof", "zfin"}  BY <5>4 DEF ReceiverAnswer
        <5>. QED  BY <5>1, <5>2, <5>3, <5>4
      <4>3. CASE ReceiverAnswer(m) = <<>>  BY <4>3, Few
      <4>4. ASSUME NEW w \in {"zrpos", "zrinit", "zfin"}, ReceiverAnswer(m) = <<Word(w, 0)>>
            PROVE  ReceiverAnswer(m) \in Seq(Msg)
        BY <4>1, <4>4, Few
      <4>. QED  BY <4>2, <4>3, <4>4
    <3>5. down' \in Seq(Msg)  BY <1>1, <3>1, <3>4
    <3>. HIDE DEF u
    <3>. QED  BY <1>2, <2>1, <2>2, <3>2, <3>3, <3>5
  <2>. QED  BY <2>3, <2>4
<1>6. CASE OtherFails
  <2>1. /\ end' = end /\ up' \in {up, <<>>}
        /\ other' = other \/ other' = [other EXCEPT !.end.at = "over"]
        /\ \E m \in {Word("zrpos", 0), Word("can", 0), Word("data", 1)} : down' = Append(down, m)
    BY <1>6 DEF OtherFails, Says
  <2>2. \A m \in {Word("zrpos", 0), Word("can", 0), Word("data", 1)} : m \in Msg  BY Vocabulary
  <2>3. up' \in Seq(Msg) /\ down' \in Seq(Msg)
    <3>1. up' \in Seq(Msg)  BY <1>1, <2>1, Few
    <3>2. PICK m \in Msg : down' = Append(down, m)  BY <2>1, <2>2
    <3>. QED  BY <1>1, <3>1, <3>2, Few
  <2>4. other' = [other EXCEPT !.end = other.end]
           \/ other' = [other EXCEPT !.end = [other.end EXCEPT !.at = "over"]]
    BY <1>1, <2>1
  <2>5. [other.end EXCEPT !.at = "over"] \in End /\ Sound([other.end EXCEPT !.at = "over"])  BY <1>3
  <2>. QED  BY <1>1, <1>2, <2>1, <2>3, <2>4, <2>5
<1>7. CASE ConnectionEnds
  <2>1. /\ end' = end /\ down' = down /\ up' = <<>>
        /\ other' = [other EXCEPT !.end = [other.end EXCEPT !.at = "off"]]
    BY <1>1, <1>7 DEF ConnectionEnds
  <2>2. [other.end EXCEPT !.at = "off"] \in End /\ Sound([other.end EXCEPT !.at = "off"])  BY <1>3
  <2>3. up' \in Seq(Msg)  BY <2>1
  <2>. QED  BY <1>1, <1>2, <2>1, <2>2, <2>3
<1>. QED  BY <1>4, <1>5, <1>6, <1>7

\* The steps of the helper that leave the server alone.
LEMMA SoundHelper ==
    ASSUME Kinds, SoundInv,
           \/ Picks \/ Declines \/ Cancel \/ CancelSeen \/ Waits \/ DrainTakes \/ DrainEnds
           \/ Stream \/ Takes \/ Told \/ Tick
    PROVE  SoundInv'
<1>1. /\ end \in End /\ Sound(end) /\ down \in Seq(Msg) /\ up \in Seq(Msg) /\ helper \in Helper
  BY DEF SoundInv, Words, Kinds
<1>2. ASSUME other' = other, end' \in End, Sound(end'), down' \in Seq(Msg), up' \in Seq(Msg)
      PROVE  SoundInv'
  BY <1>2 DEF SoundInv, Words, Sound
<1>3. Abort => end' \in End /\ Sound(end') /\ up' \in Seq(Msg)
  BY <1>1, AbortIs DEF SoundInv, Sound
<1>4. Fails => end' = end /\ up' = up  BY DEF Fails
<1>5. ASSUME NEW m \in Msg, Writes(m) PROVE up' \in Seq(Msg)  BY <1>1, <1>5, WritesIs
<1>6. <<>> \in Seq(Msg) /\ (down # <<>> => Tail(down) \in Seq(Msg))  BY <1>1
<1>7. ASSUME NEW s \in End, Sound(s) PROVE Heard(s) \in End /\ Sound(Heard(s))
  <2>. DEFINE A == {e \in End : Sound(e)}
  <2>1. \A i \in DOMAIN down, e \in A : SenderHears(e, down[i]) \in A
    <3>1. \A i \in DOMAIN down : down[i] \in Msg  BY <1>1
    <3>. QED  BY <3>1, SenderHearsIs
  <2>2. s \in A  BY <1>7
  <2>. HIDE DEF A
  <2>3. Heard(s) \in A  BY <1>1, <2>1, <2>2, HeardKeeps
  <2>. QED  BY <2>3 DEF A
<1>8. CASE Picks
  <2>1. /\ other' = other /\ down' = down
        /\ up' = up \/ Writes(Word("zrinit", 0))
        /\ \E skipped \in {0, 1} : end' = [at |-> "init", file |-> 1 + skipped, pos |-> 0]
    BY <1>8 DEF Picks
  <2>2. end' \in End /\ end'.at = "init"
    <3>1. PICK f \in Nat, z \in Nat : end' = [at |-> "init", file |-> f, pos |-> z]  BY <2>1
    <3>. QED  BY <3>1 DEF End
  <2>3. Word("zrinit", 0) \in Msg  BY Vocabulary
  <2>4. up' \in Seq(Msg)  BY <1>1, <1>5, <2>1, <2>3
  <2>. QED  BY <1>1, <1>2, <2>1, <2>2, <2>4 DEF Sound
<1>9. CASE Declines \/ CancelSeen
  <2>1. Abort /\ other' = other /\ down' = down  BY <1>9 DEF Declines, CancelSeen
  <2>. QED  BY <1>1, <1>2, <1>3, <2>1
<1>10. CASE Waits
  <2>1. (Abort \/ Fails) /\ other' = other /\ down' = down  BY <1>10 DEF Waits
  <2>. QED  BY <1>1, <1>2, <1>3, <1>4, <2>1
<1>11. CASE Cancel \/ DrainEnds \/ Tick
  <2>1. other' = other /\ down' = down /\ end' = end /\ up' = up  BY <1>11 DEF Cancel, DrainEnds, Tick
  <2>. QED  BY <1>1, <1>2, <2>1
<1>12. CASE DrainTakes
  <2>1. other' = other /\ down # <<>> /\ down' = Tail(down) /\ end' = end /\ up' = up
    BY <1>12 DEF DrainTakes
  <2>. QED  BY <1>1, <1>2, <1>6, <2>1
<1>13. CASE Stream
  <2>0. other' = other /\ SenderWrites(end)  BY <1>13 DEF Stream
  <2>1. CASE Writes(SenderWord(end)) /\ end' = Heard(SenderWrote(end)) /\ down' = <<>>
    <3>1. SenderWord(end) \in Msg /\ SenderWrote(end) \in End /\ Sound(SenderWrote(end))
      BY <1>1, <2>0, SenderWroteIs DEF Kinds
    <3>2. end' \in End /\ Sound(end')  BY <1>7, <2>1, <3>1
    <3>3. up' \in Seq(Msg)  BY <1>5, <2>1, <3>1
    <3>. QED  BY <1>2, <1>6, <2>0, <2>1, <3>2, <3>3
  <2>2. CASE (Abort \/ Fails) /\ down' = down
    BY <1>1, <1>2, <1>3, <1>4, <2>0, <2>2
  <2>. QED  BY <1>13, <2>1, <2>2 DEF Stream
<1>14. CASE Takes
  <2>1. other' = other /\ end' = Heard(end) /\ down' = <<>> /\ up' = up  BY <1>14 DEF Takes
  <2>2. end' \in End /\ Sound(end')  BY <1>1, <1>7, <2>1
  <2>. QED  BY <1>1, <1>2, <1>6, <2>1, <2>2
<1>15. CASE Told
  <2>1. /\ other' = other /\ down' = down /\ up' = up
        /\ end' = end \/ \E skipped \in {0, 1} : end' = NextFile(end, skipped)
    BY <1>15 DEF Told
  <2>2. end' \in End /\ Sound(end')  BY <1>1, <2>1, NextIs
  <2>. QED  BY <1>1, <1>2, <2>1, <2>2
<1>. QED  BY <1>8, <1>9, <1>10, <1>11, <1>12, <1>13, <1>14, <1>15

\* A word is received.
LEMMA SoundReceive == ASSUME IInv, SoundInv, Receive PROVE SoundInv'
<1>. DEFINE m == down[1]
<1>1. /\ end \in End /\ Sound(end) /\ up \in Seq(Msg) /\ helper \in Helper /\ Kinds
  BY DEF IInv, SoundInv, Words, Kinds
<1>2. other' = other /\ down' \in Seq(Msg) /\ m = Head(down) /\ m \in Msg
  BY ReceiveIs DEF Receive
<1>3. ASSUME end' \in End, Sound(end'), up' \in Seq(Msg) PROVE SoundInv'
  BY <1>2, <1>3 DEF SoundInv, Words, Sound
<1>4. Abort => end' \in End /\ Sound(end') /\ up' \in Seq(Msg)
  BY <1>1, AbortIs DEF SoundInv, Sound
<1>5. Fails => end' = end /\ up' = up  BY DEF Fails
<1>6. ASSUME NEW w \in Msg, Writes(w) PROVE up' \in Seq(Msg)  BY <1>1, <1>6, WritesIs
<1>7. CASE FileStarted(m)
  <2>1. CASE /\ Writes(Word("zrpos", Len(Continued(m.n).data)))
             /\ end' = [at |-> "takes", file |-> m.n, pos |-> 0]
    <3>1. m.word = "zfile" /\ Between /\ 1 \in DOMAIN down  BY <1>7, ReceiveIs DEF FileStarted
    <3>2. m.n \in File /\ m.n \in Nat  BY <3>1, Vocabulary DEF Between
    <3>3. Len(Continued(m.n).data) \in Nat  BY <1>1, <3>2, ContinuedIs
    <3>4. Word("zrpos", Len(Continued(m.n).data)) \in Msg  BY <3>3, Vocabulary
    <3>5. end' \in End /\ end'.at = "takes"
      <4>1. PICK f \in Nat, z \in Nat : end' = [at |-> "takes", file |-> f, pos |-> z]  BY <2>1, <3>2
      <4>. QED  BY <4>1 DEF End
    <3>. QED  BY <1>3, <1>6, <2>1, <3>4, <3>5 DEF Sound
  <2>2. CASE Abort  BY <1>3, <1>4, <2>2
  <2>. QED  BY <1>7, <2>1, <2>2 DEF FileStarted
<1>8. CASE WriteFile(m)
  <2>1. CASE end' = end /\ up' = up  BY <1>1, <1>3, <2>1
  <2>2. CASE Abort  BY <1>3, <1>4, <2>2
  <2>. QED  BY <1>8, <2>1, <2>2 DEF WriteFile
<1>9. CASE FileCompleted(m)
  <2>1. Writes(Word("zrinit", 0)) /\ end' = [end EXCEPT !.at = "next"]  BY <1>9 DEF FileCompleted
  <2>2. end' \in End /\ end'.at = "next"  BY <1>1, <2>1 DEF End
  <2>3. Word("zrinit", 0) \in Msg  BY Vocabulary
  <2>. QED  BY <1>3, <1>6, <2>1, <2>2, <2>3 DEF Sound
<1>10. CASE SessionCompleted(m)
  <2>1. Writes(Word("zfin", 0)) /\ end' = end  BY <1>10 DEF SessionCompleted
  <2>2. Word("zfin", 0) \in Msg  BY Vocabulary
  <2>. QED  BY <1>1, <1>3, <1>6, <2>1, <2>2
<1>11. CASE Otherwise(m)
  <2>1. end' = end /\ up' = up  BY <1>5, <1>11 DEF Otherwise
  <2>. QED  BY <1>1, <1>3, <2>1
<1>. QED  BY <1>2, <1>7, <1>8, <1>9, <1>10, <1>11 DEF Receive

\* A transfer begins.
LEMMA SoundBegins == ASSUME Begins PROVE SoundInv'
<1>1. PICK d \in BOOLEAN : other' = [end |-> [NoEnd EXCEPT !.at = "init"], deaf |-> d]
  BY DEF Begins
<1>2. /\ [NoEnd EXCEPT !.at = "init"] \in End /\ [NoEnd EXCEPT !.at = "init"].at = "init"
      /\ NoEnd \in End /\ NoEnd.at = "off"
  BY DEF NoEnd, End
<1>3. Word("zrinit", 0) \in Msg  BY Vocabulary
<1>4. down' \in {<<>>, <<Word("zrinit", 0)>>} /\ up' = <<>> /\ end' = NoEnd  BY DEF Begins
<1>5. down' \in Seq(Msg) /\ up' \in Seq(Msg)
  <2>. DEFINE m == Word("zrinit", 0)
  <2>1. m \in Msg /\ down' \in {<<>>, <<m>>} /\ up' = <<>>  BY <1>3, <1>4
  <2>. HIDE DEF m
  <2>2. <<>> \in Seq(Msg) /\ <<m>> \in Seq(Msg)  BY <2>1, Few
  <2>. QED  BY <2>1, <2>2
<1>6. /\ other' \in [end : End, deaf : BOOLEAN] /\ other'.end.at = "init"
      /\ end' \in End /\ end'.at = "off"
  BY <1>1, <1>2, <1>4
<1>. QED  BY <1>5, <1>6 DEF SoundInv, Words, Sound

\* Every step.
LEMMA SoundStep == ASSUME IInv, SoundInv, [Next]_vars PROVE SoundInv'
<1>1. Kinds  BY DEF IInv
<1>2. /\ other \in [end : End, deaf : BOOLEAN] /\ other.end \in End /\ Sound(other.end)
      /\ end \in End /\ Sound(end) /\ down \in Seq(Msg) /\ up \in Seq(Msg)
  BY DEF SoundInv, Words
<1>3. /\ [other EXCEPT !.end.at = "off"] \in [end : End, deaf : BOOLEAN]
      /\ [other EXCEPT !.end.at = "off"].end.at = "off"
  BY <1>2 DEF End
<1>4. CASE TabCloses
  <2>1. other' = [other EXCEPT !.end.at = "off"] /\ down' = <<>> /\ up' = <<>> /\ end' = end
    BY <1>4 DEF TabCloses
  <2>2. down' \in Seq(Msg) /\ up' \in Seq(Msg)  BY <2>1, Few
  <2>. QED  BY <1>2, <1>3, <2>1, <2>2 DEF SoundInv, Words, Sound
<1>5. CASE Shows
  <2>1. /\ other' = other \/ other' = [other EXCEPT !.end.at = "off"]
    BY <1>5 DEF Shows
  <2>2. down' \in Seq(Msg) /\ up' \in Seq(Msg)
    <3>1. end' = end /\ up' = up /\ (down' = down \/ (down # <<>> /\ down' = Tail(down)))
      <4>1. CASE down = <<>>  BY <1>5, <4>1 DEF Shows
      <4>2. CASE down # <<>>  BY <1>5, <4>2 DEF Shows
      <4>. QED  BY <4>1, <4>2
    <3>2. down # <<>> => Tail(down) \in Seq(Msg)  BY <1>2, Few
    <3>. QED  BY <1>2, <3>1, <3>2
  <2>3. end' = end  BY <1>5 DEF Shows
  <2>. QED  BY <1>2, <1>3, <2>1, <2>2, <2>3 DEF SoundInv, Words, Sound
<1>6. CASE (\E f \in File : Change(f)) \/ UNCHANGED vars
  <2>1. UNCHANGED <<other, end, down, up>>  BY <1>6 DEF Change, vars
  <2>. QED  BY <1>2, <2>1 DEF SoundInv, Words, Sound
<1>. QED  BY <1>1, <1>4, <1>5, <1>6, SoundOther, SoundHelper, SoundReceive, SoundBegins DEF Next, Turn

-----------------------------------------------------------------------------
(* What the terminal gets: the program on the server has ended, or was told. *)

\* After the connection has ended nobody is on the server.
Gone == helper.gone => other.end.at \in Over

\* An upload's last word is rz's, who then has ended.
Ending ==
    helper.way = "upload" =>
        /\ \A i \in DOMAIN down : down[i].word = "zfin" => other.end.at \in Over
        /\ end.at = "over" => other.end.at \in Over /\ down = <<>>

\* Who is waited for has ended, or has the cancel to read.
Draining == helper.at = "drains" => other.end.at \in Over \/ LastIs("can")

\* So it is when the session is given back.
Cancelled ==
    helper.at = "away" /\ helper.outcome = "cancelled" =>
        other.end.at \in Over \/ LastIs("can")

\* After a transfer that is done, sz has ended or has the last word to read.
Finished ==
    helper.at = "away" /\ helper.outcome = "done" =>
        /\ \A i \in DOMAIN down : down[i].word = "can"
        /\ \/ other.end.at \in Over
           \/ /\ other.end.at = "fin" /\ ~other.deaf /\ helper.way = "download"
              /\ LastIs("zfin")

CleanInv == Gone /\ Ending /\ Draining /\ Cancelled /\ Finished

AllInv == IInv /\ SoundInv /\ CleanInv

\* While the helper asks or runs, nothing is said of what it leaves.
LEMMA CleanRuns ==
    ASSUME helper'.at \in {"asks", "runs"}, Gone', Ending'
    PROVE  CleanInv'
  BY DEF CleanInv, Draining, Cancelled, Finished

\* Nor after a transfer that failed or whose tab was closed.
LEMMA CleanFailed ==
    ASSUME helper'.at = "away", helper'.outcome \in {"failed", "killed"}, Gone', Ending'
    PROVE  CleanInv'
  BY DEF CleanInv, Draining, Cancelled, Finished

\* A transfer fails here: the words and the ends are left as they are.
LEMMA CleanFails ==
    ASSUME AllInv, Fails, other' = other, down' = down
    PROVE  CleanInv'
<1>1. GiveBack("failed") /\ end' = end /\ up' = up  BY DEF Fails
<1>2. helper \in Helper  BY DEF AllInv, IInv, Kinds
<1>3. /\ helper'.at = "away" /\ helper'.way = helper.way /\ helper'.gone = helper.gone
      /\ helper'.outcome = "failed"
  BY <1>1, <1>2, GivenBack
<1>4. Gone' /\ Ending'  BY <1>1, <1>3 DEF AllInv, CleanInv, Gone, Ending
<1>. QED  BY <1>3, <1>4, CleanFailed

\* A transfer is cancelled: the program on the server has the cancel to read.
LEMMA CleanAbort ==
    ASSUME AllInv, Abort, other' = other, down' = down \/ (helper.way # "upload" /\ down' \in Seq(Msg))
    PROVE  CleanInv'
<1>1. helper \in Helper /\ Words /\ Gone /\ Ending
  BY DEF AllInv, IInv, Kinds, SoundInv, CleanInv
<1>2. /\ helper'.at = "drains" /\ helper'.way = helper.way /\ helper'.gone = helper.gone
      /\ end'.at = "aborted"
      /\ helper.gone \/ LastIs("can")'
  BY <1>1, AbortIs
<1>3. Gone'  BY <1>1, <1>2 DEF Gone
<1>4. Ending'  BY <1>1, <1>2 DEF Ending
<1>5. Draining'  BY <1>1, <1>2 DEF Gone, Draining
<1>. QED  BY <1>2, <1>3, <1>4, <1>5 DEF CleanInv, Cancelled, Finished

\* The server's sz writes: then no transfer of it is over.
LEMMA CleanSends == ASSUME AllInv, OtherSends PROVE CleanInv'
<1>1. Words /\ CleanInv  BY DEF AllInv, SoundInv
<1>2. /\ helper.way # "upload" /\ ~other.deaf /\ other.end.at \in {"offers", "streams", "fins"}
      /\ helper' = helper /\ up' = up
  BY DEF OtherSends, SenderWrites
<1>3. ~helper.gone  BY <1>1, <1>2 DEF CleanInv, Gone, Over
<1>4. helper.at = "drains" => LastIs("can")'
  BY <1>1, <1>2 DEF CleanInv, Draining, Over, LastIs
<1>5. helper.at = "away" /\ helper.outcome = "cancelled" => LastIs("can")'
  BY <1>1, <1>2 DEF CleanInv, Cancelled, Over, LastIs
<1>6. ~(helper.at = "away" /\ helper.outcome = "done")
  BY <1>1, <1>2 DEF CleanInv, Finished, Over
<1>. QED
  BY <1>2, <1>3, <1>4, <1>5, <1>6 DEF CleanInv, Gone, Ending, Draining, Cancelled, Finished

\* The program on the server hears a word: the cancel and the last one end it.
LEMMA CleanHears == ASSUME AllInv, OtherHears PROVE CleanInv'
<1>. DEFINE m == Head(up)  h == SenderHears(other.end, m)
            t == IF h.at = "completed" THEN NextFile(h, 0) ELSE h
<1>1. Words /\ CleanInv /\ other.end \in End  BY DEF AllInv, SoundInv, Words
<1>2. /\ up # <<>> /\ ~other.deaf /\ other.end.at \notin Over /\ up' = Tail(up)
      /\ helper' = helper /\ end' = end
  BY DEF OtherHears
<1>3. /\ m = up[1] /\ m \in Msg /\ Len(up) \in Nat \ {0} /\ DOMAIN up = 1 .. Len(up)
      /\ Len(up') = Len(up) - 1 /\ DOMAIN up' = 1 .. Len(up) - 1
      /\ \A i \in DOMAIN up' : up'[i] = up[i + 1]
  BY <1>1, <1>2 DEF Words
<1>4. h.at \in {"aborted", "over"} => other'.end = h \/ helper.way = "upload"
  <2>1. helper.way # "upload" => other' = [other EXCEPT !.end = t]  BY DEF OtherHears
  <2>2. h.at \in {"aborted", "over"} => t = h  OBVIOUS
  <2>. HIDE DEF h, t
  <2>. QED  BY <1>1, <2>1, <2>2 DEF Words
<1>5. helper.way = "upload" => other' = [other EXCEPT !.end.at = IF m.word \in {"can", "zfin"} THEN "over" ELSE @]
                /\ down' = down \o ReceiverAnswer(m)
  BY DEF OtherHears
<1>6. helper.way # "upload" => other' = [other EXCEPT !.end = t] /\ down' = down
  BY DEF OtherHears
<1>7. ~helper.gone /\ (helper.way = "upload" => end.at # "over")
  BY <1>1, <1>2 DEF CleanInv, Gone, Ending
<1>8. m.word = "can" => other'.end.at \in Over
  <2>1. m.word = "can" => h.at = "aborted"  BY <1>1, <1>3, SenderHearsIs
  <2>. HIDE DEF h, m, t
  <2>2. CASE helper.way # "upload"  BY <1>4, <2>1, <2>2 DEF Over
  <2>3. CASE helper.way = "upload"
    <3>1. m.word = "can" => other' = [other EXCEPT !.end.at = "over"]  BY <1>5, <2>3
    <3>. QED  BY <1>1, <3>1 DEF Words, End, Over
  <2>. QED  BY <2>2, <2>3
<1>9. Gone'  BY <1>2, <1>7 DEF Gone
<1>10. Ending'
  <2>1. SUFFICES ASSUME helper.way = "upload"
                 PROVE  \A i \in DOMAIN down' : down'[i].word = "zfin" => other'.end.at \in Over
    BY <1>2, <1>7 DEF Ending
  <2>2. \A i \in DOMAIN down : down[i].word # "zfin"
    BY <1>1, <1>2, <2>1 DEF CleanInv, Ending
  <2>3. CASE m.word = "zfin"
    <3>1. other' = [other EXCEPT !.end.at = "over"]  BY <1>5, <2>1, <2>3
    <3>. QED  BY <1>1, <3>1 DEF Words, End, Over
  <2>4. CASE m.word # "zfin"
    <3>1. ReceiverAnswer(m) = <<>> \/ \E w \in {"zrpos", "zrinit"} : ReceiverAnswer(m) = <<Word(w, 0)>>
      <4>1. CASE m.word = "zfile"  BY <4>1 DEF ReceiverAnswer
      <4>2. CASE m.word = "zeof"  BY <4>2 DEF ReceiverAnswer
      <4>3. CASE m.word \notin {"zfile", "zeof"}  BY <2>4, <4>3 DEF ReceiverAnswer
      <4>. QED  BY <4>1, <4>2, <4>3
    <3>2. \A i \in DOMAIN down' : down'[i].word # "zfin"
      <4>1. CASE ReceiverAnswer(m) = <<>>
        <5>1. down' = down \o <<>>  BY <1>5, <2>1, <4>1
        <5>2. down' = down  BY <1>1, <5>1 DEF Words
        <5>. QED  BY <2>2, <5>2
      <4>2. ASSUME NEW w \in {"zrpos", "zrinit"}, ReceiverAnswer(m) = <<Word(w, 0)>>
            PROVE  \A i \in DOMAIN down' : down'[i].word # "zfin"
        <5>. DEFINE k == Word(w, 0)
        <5>1. k \in Msg /\ k.word = w  BY Vocabulary
        <5>2. k.word # "zfin"  BY <5>1
        <5>3. down' = down \o <<k>>  BY <1>5, <2>1, <4>2
        <5>. HIDE DEF k
        <5>4. down' = Append(down, k) /\ down \in Seq(Msg)  BY <1>1, <5>1, <5>3 DEF Words
        <5>. QED  BY <2>2, <5>1, <5>2, <5>4, Few
      <4>. QED  BY <3>1, <4>1, <4>2
    <3>. QED  BY <3>2
  <2>. QED  BY <2>3, <2>4
<1>11. LastIs("can") => other'.end.at \in Over \/ LastIs("can")'
  <2>. SUFFICES ASSUME LastIs("can"), m.word # "can" PROVE LastIs("can")'
    BY <1>8
  <2>0. up[Len(up)].word = "can"  BY DEF LastIs, Last
  <2>1. Len(up) # 1  BY <1>3, <2>0
  <2>2. Len(up') \in DOMAIN up' /\ Len(up') + 1 = Len(up)  BY <1>3, <2>1
  <2>3. up' # <<>>  BY <2>2, Few
  <2>4. up'[Len(up')].word = "can"  BY <1>3, <2>0, <2>2
  <2>. QED  BY <2>3, <2>4 DEF LastIs, Last
<1>12. Draining' /\ Cancelled'
  BY <1>1, <1>2, <1>11 DEF CleanInv, Draining, Cancelled
<1>13. Finished'
  <2>1. SUFFICES ASSUME helper.at = "away", helper.outcome = "done" PROVE Finished'
    BY <1>2 DEF Finished
  <2>2. /\ \A i \in DOMAIN down : down[i].word = "can"
        /\ other.end.at = "fin" /\ helper.way = "download" /\ up[Len(up)].word = "zfin"
    BY <1>1, <1>2, <2>1 DEF CleanInv, Finished, LastIs, Last
  <2>3. other' = [other EXCEPT !.end = t] /\ down' = down  BY <1>6, <2>2
  <2>4. h.at \in {"fin", "over", "aborted"} /\ (m.word = "zfin" => h.at = "over")
    BY <1>1, <1>3, <2>2, SenderHearsIs
  <2>5. t = h  BY <2>4
  <2>. HIDE DEF h, t, m
  <2>6. other'.end = h /\ ~other'.deaf  BY <1>1, <1>2, <2>3, <2>5 DEF Words
  <2>7. CASE Len(up) = 1
    <3>1. m.word = "zfin"  BY <1>3, <2>2, <2>7
    <3>. QED  BY <2>2, <2>3, <2>4, <2>6, <3>1 DEF Finished, Over
  <2>8. CASE Len(up) # 1
    <3>1. Len(up') \in DOMAIN up' /\ Len(up') + 1 = Len(up)  BY <1>3, <2>8
    <3>2. up' # <<>>  BY <3>1, Few
    <3>3. up'[Len(up')].word = "zfin"  BY <1>3, <2>2, <3>1
    <3>4. LastIs("zfin")'  BY <3>2, <3>3 DEF LastIs, Last
    <3>. QED  BY <1>2, <2>2, <2>3, <2>4, <2>6, <3>4 DEF Finished, Over
  <2>. QED  BY <2>7, <2>8
<1>. QED  BY <1>9, <1>10, <1>12, <1>13 DEF CleanInv

\* It goes on, gives up or wants something again: then it has not ended.
LEMMA CleanFaults == ASSUME AllInv, OtherFails PROVE CleanInv'
<1>1. Words /\ CleanInv /\ other.end.at \notin Over /\ helper' = helper /\ end' = end
  BY DEF AllInv, SoundInv, OtherFails
<1>2. /\ ~helper.gone /\ (helper.way = "upload" => end.at # "over")
      /\ helper.way = "upload" => \A i \in DOMAIN down : down[i].word # "zfin"
  BY <1>1 DEF CleanInv, Gone, Ending
<1>3. ASSUME NEW w \in {"zrpos", "can", "data"}, NEW n \in Nat, down' = Append(down, Word(w, n))
      PROVE  /\ helper.way = "upload" => \A i \in DOMAIN down' : down'[i].word # "zfin"
             /\ w = "can" /\ (\A i \in DOMAIN down : down[i].word = "can")
                    => \A i \in DOMAIN down' : down'[i].word = "can"
  <2>. DEFINE k == Word(w, n)
  <2>1. k \in Msg /\ k.word = w /\ w # "zfin"  BY Vocabulary
  <2>2. down' = Append(down, k) /\ down \in Seq(Msg)  BY <1>1, <1>3 DEF Words
  <2>. HIDE DEF k
  <2>3. \A i \in DOMAIN down' : (i \in DOMAIN down /\ down'[i] = down[i]) \/ down'[i] = k
    BY <2>1, <2>2, Few
  <2>. QED  BY <1>2, <2>1, <2>3
<1>4. CASE /\ helper.way = "upload" /\ ~other.deaf /\ Says(Word("zrpos", 0)) /\ UNCHANGED <<other, up>>
  <2>1. \A i \in DOMAIN down' : down'[i].word # "zfin"  BY <1>3, <1>4 DEF Says
  <2>2. ~(helper.at = "away" /\ helper.outcome = "done")  BY <1>1, <1>4 DEF CleanInv, Finished
  <2>. QED
    BY <1>1, <1>2, <1>4, <2>1, <2>2 DEF CleanInv, Gone, Ending, Draining, Cancelled, Finished, LastIs
<1>5. CASE Says(Word("can", 0)) /\ other' = [other EXCEPT !.end.at = "over"] /\ up' = <<>>
  <2>1. other'.end.at \in Over  BY <1>1, <1>5 DEF Words, End, Over
  <2>2. (\A i \in DOMAIN down : down[i].word = "can") => \A i \in DOMAIN down' : down'[i].word = "can"
    BY <1>3, <1>5 DEF Says
  <2>. QED
    BY <1>1, <1>2, <2>1, <2>2 DEF CleanInv, Gone, Ending, Draining, Cancelled, Finished
<1>6. CASE other.deaf /\ Says(Word("data", 1)) /\ UNCHANGED <<other, up>>
  <2>1. helper.way = "upload" => \A i \in DOMAIN down' : down'[i].word # "zfin"
    BY <1>3, <1>6 DEF Says
  <2>2. ~(helper.at = "away" /\ helper.outcome = "done")  BY <1>1, <1>6 DEF CleanInv, Finished
  <2>. QED
    BY <1>1, <1>2, <1>6, <2>1, <2>2 DEF CleanInv, Gone, Ending, Draining, Cancelled, Finished, LastIs
<1>. QED  BY <1>4, <1>5, <1>6 DEF OtherFails

\* What has been heard is over by rz's last word alone.
LEMMA HeardOver ==
    ASSUME AllInv, helper.way = "upload", NEW s \in End, s.at # "over", Heard(s).at = "over"
    PROVE  other.end.at \in Over
<1>1. down \in Seq(Msg) /\ Ending  BY DEF AllInv, SoundInv, Words, CleanInv
<1>2. SUFFICES ASSUME \A i \in DOMAIN down : down[i].word # "zfin" PROVE FALSE
  BY <1>1 DEF Ending
<1>. DEFINE A == {e \in End : e.at # "over"}
<1>3. \A i \in DOMAIN down, e \in A : SenderHears(e, down[i]) \in A
  <2>1. \A i \in DOMAIN down : down[i] \in Msg  BY <1>1
  <2>. QED  BY <1>2, <2>1, SenderHearsIs
<1>4. s \in A  OBVIOUS
<1>. HIDE DEF A
<1>5. Heard(s) \in A  BY <1>1, <1>3, <1>4, HeardKeeps
<1>. QED  BY <1>5 DEF A

\* The steps of the helper that are no answer to a word.
LEMMA CleanHelper ==
    ASSUME AllInv, \/ Picks \/ Declines \/ Cancel \/ CancelSeen \/ Waits \/ DrainTakes \/ DrainEnds
                   \/ Stream \/ Takes \/ Told \/ Tick
    PROVE  CleanInv'
<1>1. /\ helper \in Helper /\ Words /\ CleanInv /\ Gone /\ Ending /\ Draining
      /\ Sound(end) /\ end \in End /\ version \in [File -> Version]
  BY DEF AllInv, IInv, Kinds, SoundInv, Words, CleanInv
<1>2. CASE Picks
  <2>1. /\ helper.at = "asks" /\ helper' = [helper EXCEPT !.at = "runs"]
        /\ other' = other /\ down' = down
        /\ \E skipped \in {0, 1} : end' = [at |-> "init", file |-> 1 + skipped, pos |-> 0]
    BY <1>2 DEF Picks
  <2>2. helper'.at = "runs" /\ helper'.way = helper.way /\ helper'.gone = helper.gone
    BY <1>1, <2>1 DEF Helper
  <2>3. end'.at = "init"  BY <2>1
  <2>4. Gone' /\ Ending'  BY <1>1, <2>1, <2>2, <2>3 DEF Gone, Ending
  <2>. QED  BY <2>2, <2>4, CleanRuns
<1>3. CASE Declines \/ CancelSeen
  <2>1. Abort /\ other' = other /\ down' = down  BY <1>3 DEF Declines, CancelSeen
  <2>. QED  BY <2>1, CleanAbort
<1>4. CASE Waits
  <2>1. (Abort \/ Fails) /\ other' = other /\ down' = down  BY <1>4 DEF Waits
  <2>. QED  BY <2>1, CleanAbort, CleanFails
<1>5. CASE Cancel
  <2>1. /\ helper.at = "runs" /\ helper' = [helper EXCEPT !.cancel = TRUE]
        /\ other' = other /\ down' = down /\ end' = end
    BY <1>5 DEF Cancel
  <2>2. helper'.at = "runs" /\ helper'.way = helper.way /\ helper'.gone = helper.gone
    BY <1>1, <2>1 DEF Helper
  <2>3. Gone' /\ Ending'  BY <1>1, <2>1, <2>2 DEF Gone, Ending
  <2>. QED  BY <2>2, <2>3, CleanRuns
<1>6. CASE Tick
  <2>1. /\ helper.at \in {"runs", "drains"} /\ UNCHANGED <<other, down, up, end>>
        /\ \E q : helper' = [helper EXCEPT !.quiet = q]
    BY <1>6 DEF Tick, Idle, Runs
  <2>2. helper'.at = helper.at /\ helper'.way = helper.way /\ helper'.gone = helper.gone
    BY <1>1, <2>1 DEF Helper
  <2>3. Gone' /\ Ending' /\ Draining'  BY <1>1, <2>1, <2>2 DEF Gone, Ending, Draining, LastIs
  <2>. QED  BY <2>1, <2>2, <2>3 DEF CleanInv, Cancelled, Finished
<1>7. CASE DrainTakes
  <2>1. /\ helper.at = "drains" /\ down # <<>> /\ down' = Tail(down)
        /\ UNCHANGED <<helper, end, other, up>>
    BY <1>7 DEF DrainTakes
  <2>2. \A i \in DOMAIN down' : down'[i] = down[i + 1] /\ i + 1 \in DOMAIN down
    BY <1>1, <2>1, Few DEF Words
  <2>3. Gone' /\ Ending' /\ Draining'  BY <1>1, <2>1, <2>2 DEF Gone, Ending, Draining, LastIs
  <2>. QED  BY <2>1, <2>3 DEF CleanInv, Cancelled, Finished
<1>8. CASE DrainEnds
  <2>1. /\ helper.at = "drains" /\ GiveBack("cancelled") /\ UNCHANGED <<end, other, down, up>>
    BY <1>8 DEF DrainEnds
  <2>2. /\ helper'.at = "away" /\ helper'.way = helper.way /\ helper'.gone = helper.gone
        /\ helper'.outcome = "cancelled"
    BY <1>1, <2>1, GivenBack
  <2>3. Gone' /\ Ending'  BY <1>1, <2>1, <2>2 DEF Gone, Ending
  <2>4. Cancelled'  BY <1>1, <2>1, <2>2 DEF Draining, Cancelled, LastIs
  <2>. QED  BY <2>2, <2>3, <2>4 DEF CleanInv, Draining, Finished
<1>9. CASE Stream
  <2>1. helper.way = "upload" /\ helper.at = "runs" /\ SenderWrites(end) /\ other' = other
    BY <1>9 DEF Stream, Runs
  <2>2. CASE end' = Heard(SenderWrote(end)) /\ down' = <<>> /\ helper' = helper
    <3>1. SenderWrote(end) \in End /\ SenderWrote(end).at # "over"
      BY <1>1, <2>1, SenderWroteIs
    <3>2. end'.at = "over" => other.end.at \in Over  BY <2>1, <2>2, <3>1, HeardOver
    <3>3. Gone' /\ Ending'  BY <1>1, <2>1, <2>2, <3>2, Few DEF Gone, Ending
    <3>. QED  BY <2>1, <2>2, <3>3, CleanRuns
  <2>3. CASE (Abort \/ Fails) /\ down' = down  BY <2>1, <2>3, CleanAbort, CleanFails
  <2>. QED  BY <1>9, <2>2, <2>3 DEF Stream
<1>10. CASE Takes
  <2>1. /\ helper.way = "upload" /\ helper.at = "runs" /\ end.at # "over" /\ other' = other
        /\ end' = Heard(end) /\ down' = <<>> /\ helper' = [helper EXCEPT !.quiet = 0]
    BY <1>10 DEF Takes, Idle, Runs
  <2>2. helper'.at = "runs" /\ helper'.way = "upload" /\ helper'.gone = helper.gone
    BY <1>1, <2>1, HelperIs
  <2>3. end'.at = "over" => other.end.at \in Over  BY <1>1, <2>1, HeardOver
  <2>4. Gone' /\ Ending'  BY <1>1, <2>1, <2>2, <2>3, Few DEF Gone, Ending
  <2>. QED  BY <2>2, <2>4, CleanRuns
<1>11. CASE Told
  <2>1. /\ helper.way = "upload" /\ helper.at = "runs" /\ UNCHANGED <<other, down, up>>
    BY <1>11 DEF Told, Runs
  <2>2. CASE helper' = helper /\ \E skipped \in {0, 1} : end' = NextFile(end, skipped)
    <3>1. end'.at # "over"  BY <1>1, <2>2, NextIs
    <3>2. Gone' /\ Ending'  BY <1>1, <2>1, <2>2, <3>1 DEF Gone, Ending
    <3>. QED  BY <2>1, <2>2, <3>2, CleanRuns
  <2>3. CASE end.at = "over" /\ GiveBack("done") /\ end' = end
    <3>1. /\ helper'.at = "away" /\ helper'.way = helper.way /\ helper'.gone = helper.gone
          /\ helper'.outcome = "done"
      BY <1>1, <2>3, GivenBack
    <3>2. other.end.at \in Over /\ down = <<>>  BY <1>1, <2>1, <2>3 DEF Ending
    <3>3. Gone' /\ Ending'  BY <1>1, <2>1, <2>3, <3>1, <3>2 DEF Gone, Ending
    <3>4. Finished'  BY <2>1, <3>1, <3>2, Few DEF Finished
    <3>. QED  BY <3>1, <3>3, <3>4 DEF CleanInv, Draining, Cancelled
  <2>4. CASE Fails
    BY <2>1, <2>4, CleanFails
  <2>5. CASE end.at = "aborted" /\ GiveBack("failed") /\ end' = end
    BY <2>1, <2>5, CleanFails DEF Fails
  <2>. QED  BY <1>11, <2>2, <2>3, <2>5 DEF Told
<1>. QED  BY <1>2, <1>3, <1>4, <1>5, <1>6, <1>7, <1>8, <1>9, <1>10, <1>11

\* A word is received.
LEMMA CleanReceive == ASSUME AllInv, Receive PROVE CleanInv'
<1>. DEFINE m == down[1]
<1>1. /\ IInv /\ helper \in Helper /\ Words /\ Gone
  BY DEF AllInv, IInv, Kinds, SoundInv, CleanInv
<1>2. /\ Live /\ Flow /\ helper.at = "runs" /\ helper.way = "download" /\ other' = other
      /\ down \in Seq(Msg) /\ down # <<>> /\ down' = Tail(down) /\ down' \in Seq(Msg)
      /\ 1 \in DOMAIN down /\ m = Head(down)
  BY <1>1, ReceiveIs DEF Receive, Live, Words
<1>3. ASSUME helper' = [helper EXCEPT !.quiet = 0] PROVE CleanInv'
  <2>1. helper'.at = "runs" /\ helper'.way = "download" /\ helper'.gone = helper.gone
    BY <1>1, <1>2, <1>3, HelperIs
  <2>2. Gone' /\ Ending'  BY <1>1, <1>2, <2>1 DEF Gone, Ending
  <2>. QED  BY <2>1, <2>2, CleanRuns
<1>4. CASE Abort  BY <1>2, <1>4, CleanAbort
<1>5. CASE Fails
  <2>1. /\ helper'.at = "away" /\ helper'.way = helper.way /\ helper'.gone = helper.gone
        /\ helper'.outcome = "failed"
    BY <1>1, <1>5, GivenBack DEF Fails
  <2>2. Gone' /\ Ending'  BY <1>1, <1>2, <2>1 DEF Gone, Ending
  <2>. QED  BY <2>1, <2>2, CleanFailed
<1>6. CASE SessionCompleted(m)
  <2>. DEFINE w == Word("zfin", 0)
  <2>1. m.word = "zfin" /\ end.at # "takes" /\ Writes(w) /\ GiveBack("done") /\ end' = end
    BY <1>6 DEF SessionCompleted
  <2>2. ~other.deaf  BY <1>2, <2>1 DEF Flow, Deaf
  <2>3. Between  BY <1>2, <2>1, <2>2 DEF Flow
  <2>4. \A i \in DOMAIN down' : down'[i].word = "can"
    <3>1. \A i \in DOMAIN down' : i \in Nat \ {0} /\ down'[i] = down[i + 1] /\ i + 1 \in DOMAIN down
      BY <1>2, Few
    <3>2. \A i \in Nat \ {0} : i + 1 > 1  OBVIOUS
    <3>. QED  BY <2>3, <3>1, <3>2 DEF Between
  <2>5. other.end.at \in Over \/ other.end.at = "fin"
    <3>1. other.end.at # "offered"
      <4>1. SUFFICES ASSUME other.end.at = "offered" PROVE FALSE  OBVIOUS
      <4>2. other.end.file \in File /\ down = <<Word("zfile", other.end.file)>>
        BY <2>3, <4>1 DEF Between
      <4>3. Word("zfile", other.end.file) \in Msg /\ Word("zfile", other.end.file).word = "zfile"
        BY <4>2, Vocabulary
      <4>4. m.word = "zfile"  BY <4>2, <4>3, Few
      <4>. QED  BY <2>1, <4>4
    <3>. QED  BY <1>2, <2>3, <3>1 DEF Between
  <2>6. /\ helper'.at = "away" /\ helper'.way = "download" /\ helper'.gone = helper.gone
        /\ helper'.outcome = "done"
    BY <1>1, <1>2, <2>1, GivenBack
  <2>7. w \in Msg /\ w.word = "zfin"  BY Vocabulary
  <2>. HIDE DEF w
  <2>8. other.end.at \in Over \/ LastIs("zfin")'
    <3>1. CASE helper.gone  BY <1>1, <3>1 DEF Gone
    <3>2. CASE ~helper.gone
      <4>1. up' = Append(up, w) /\ up \in Seq(Msg)  BY <1>1, <2>1, <3>2 DEF Writes, Words
      <4>2. up' # <<>> /\ up'[Len(up')].word = "zfin"  BY <2>7, <4>1, Few
      <4>. QED  BY <4>2 DEF LastIs, Last
    <3>. QED  BY <3>1, <3>2
  <2>9. Gone' /\ Ending'  BY <1>1, <1>2, <2>6 DEF Gone, Ending
  <2>10. Finished'  BY <1>2, <2>2, <2>4, <2>5, <2>6, <2>8 DEF Finished
  <2>. QED  BY <2>6, <2>9, <2>10 DEF CleanInv, Draining, Cancelled
<1>. QED
  BY <1>2, <1>3, <1>4, <1>5, <1>6
  DEF Receive, FileStarted, WriteFile, FileCompleted, Otherwise

\* Every step keeps it.
LEMMA CleanStep == ASSUME AllInv, [Next]_vars PROVE CleanInv'
<1>1. /\ helper \in Helper /\ Words /\ CleanInv
  BY DEF AllInv, IInv, Kinds, SoundInv
<1>2. CASE Begins
  <2>. DEFINE m == Word("zrinit", 0)
  <2>1. /\ helper'.at = "asks" /\ ~helper'.gone /\ end' = NoEnd /\ down' \in {<<>>, <<m>>}
    BY <1>2 DEF Begins
  <2>2. m \in Msg /\ m.word # "zfin" /\ NoEnd.at # "over"  BY Vocabulary DEF NoEnd
  <2>. HIDE DEF m
  <2>3. \A i \in DOMAIN down' : down'[i].word # "zfin"  BY <2>1, <2>2, Few
  <2>4. Gone' /\ Ending'  BY <2>1, <2>2, <2>3 DEF Gone, Ending
  <2>. QED  BY <2>1, <2>4, CleanRuns
<1>3. CASE ConnectionEnds
  <2>1. /\ helper.at # "away" /\ helper' = [helper EXCEPT !.gone = TRUE]
        /\ other' = [other EXCEPT !.end.at = "off"] /\ UNCHANGED <<end, down>>
    BY <1>3 DEF ConnectionEnds
  <2>2. helper'.at = helper.at /\ helper'.way = helper.way  BY <1>1, <2>1 DEF Helper
  <2>3. other'.end.at \in Over  BY <1>1, <2>1 DEF Words, End, Over
  <2>. QED
    BY <1>1, <2>1, <2>2, <2>3 DEF CleanInv, Gone, Ending, Draining, Cancelled, Finished, LastIs
<1>4. CASE TabCloses
  <2>1. /\ helper' = [helper EXCEPT !.at = "away", !.outcome = "killed"]
        /\ other' = [other EXCEPT !.end.at = "off"] /\ down' = <<>>
    BY <1>4 DEF TabCloses
  <2>2. helper'.at = "away" /\ helper'.outcome = "killed"  BY <1>1, <2>1 DEF Helper
  <2>3. other'.end.at \in Over  BY <1>1, <2>1 DEF Words, End, Over
  <2>4. Gone' /\ Ending'  BY <2>1, <2>3 DEF Gone, Ending
  <2>. QED  BY <2>2, <2>4, CleanFailed
<1>5. CASE Shows
  <2>1. helper' = helper /\ end' = end /\ up' = up /\ helper.at = "away"  BY <1>5 DEF Shows
  <2>2. CASE down = <<>>
    <3>1. down' = down /\ other' = [other EXCEPT !.end.at = "off"]  BY <1>5, <2>2 DEF Shows
    <3>2. other'.end.at \in Over  BY <1>1, <3>1 DEF Words, End, Over
    <3>. QED
      BY <1>1, <2>1, <3>1, <3>2 DEF CleanInv, Gone, Ending, Draining, Cancelled, Finished, LastIs
  <2>3. CASE down # <<>>
    <3>1. down' = Tail(down) /\ other' = other  BY <1>5, <2>3 DEF Shows
    <3>2. \A i \in DOMAIN down' : down'[i] = down[i + 1] /\ i + 1 \in DOMAIN down
      BY <1>1, <2>3, <3>1, Few DEF Words
    <3>. QED
      BY <1>1, <2>1, <2>3, <3>1, <3>2
      DEF CleanInv, Gone, Ending, Draining, Cancelled, Finished, LastIs
  <2>. QED  BY <2>2, <2>3
<1>6. CASE (\E f \in File : Change(f)) \/ UNCHANGED vars
  <2>1. UNCHANGED <<helper, other, end, down, up>>  BY <1>6 DEF Change, vars
  <2>. QED  BY <1>1, <2>1 DEF CleanInv, Gone, Ending, Draining, Cancelled, Finished, LastIs
<1>. QED
  BY <1>2, <1>3, <1>4, <1>5, <1>6, CleanSends, CleanHears, CleanFaults, CleanHelper, CleanReceive
  DEF Next, Turn

\* And it holds at first.
LEMMA CleanBegin == Init => AllInv
<1>. SUFFICES ASSUME Init PROVE AllInv  OBVIOUS
<1>1. NoEnd \in End /\ NoEnd.at = "off"  BY Vocabulary DEF NoEnd
<1>2. down = <<>> /\ up = <<>> /\ end = NoEnd  BY DEF Init
<1>3. other \in [end : End, deaf : BOOLEAN] /\ other.end = NoEnd  BY <1>1 DEF Init
<1>4. SoundInv  BY <1>1, <1>2, <1>3, Few DEF SoundInv, Words, Sound
<1>5. helper.at = "away" /\ ~helper.gone /\ helper.way = "download"  BY DEF Init
<1>6. CleanInv
  BY <1>1, <1>2, <1>3, <1>5, Few
  DEF CleanInv, Gone, Ending, Draining, Cancelled, Finished, Over
<1>. QED  BY <1>4, <1>6, Begin DEF AllInv

\* Every step keeps all of it.
LEMMA AllStep == ASSUME AllInv, [Next]_vars PROVE AllInv'
<1>1. IInv  BY DEF AllInv
<1>2. Kinds'  BY <1>1, KindsStep
<1>3. NamedAreWhole'  BY <1>1, NamedStep
<1>4. (Live => Flow)'  BY <1>1, FlowStep
<1>5. SoundInv'  BY <1>1, SoundStep DEF AllInv
<1>6. CleanInv'  BY CleanStep
<1>. QED  BY <1>2, <1>3, <1>4, <1>5, <1>6 DEF AllInv, IInv

\* After a transfer that is done nothing of it comes to the terminal but a
\* cancel; and, done or cancelled, the program on the server has ended, or
\* what ends it is the last it has to read.
THEOREM TerminalStaysCleanEver == Spec => []TerminalStaysClean
<1>1. AllInv /\ [Next]_vars => AllInv'  BY AllStep
<1>2. AllInv => TerminalStaysClean
  BY DEF AllInv, CleanInv, Cancelled, Finished, TerminalStaysClean
<1>. QED  BY CleanBegin, <1>1, <1>2, PTL DEF Spec

-----------------------------------------------------------------------------
(* How long, how far and how many. *)

\* A part is no longer than the longest version, and no file is empty.
Lengths ==
    /\ \A f \in File : part[f] # Absent => Len(part[f].data) <= Chunks
    /\ \A x \in named : x.data # <<>>

\* What comes of the file that is taken still fits in its version.
Fits ==
    Live /\ ~other.deaf /\ end.at = "takes" =>
        \A i \in DOMAIN down :
            down[i].word = "data" => Len(part[end.file].data) + i <= SizeOf(version[end.file])

\* rz wants a file from its start.
FromStart ==
    helper.way = "upload" => \A i \in DOMAIN down : down[i].word = "zrpos" => down[i].n = 0

\* Where the helper's end of the protocol is.
Placed(s) == s.file \in 1 .. Files + 1 /\ s.pos \in 0 .. Chunks

\* The time that has passed, as far as it is counted.
Timed == helper.quiet \in 0 .. GiveUp + 1 /\ silent \in 0 .. GiveUp + 1

\* The helper writes no more than the server takes.
Passed == helper.way = "upload" => Len(up) <= Window

SizeInv == Lengths /\ Fits /\ FromStart /\ Placed(end) /\ Timed /\ Passed

TypeInv == AllInv /\ SizeInv

\* A version has a chunk, and no more than the longest.
LEMMA VersionFits == \A v \in Version : SizeOf(v) \in 1 .. Chunks
<1>1. \A v \in Nat : v % 2 \in {0, 1}  BY SMT
<1>2. Version \subseteq Nat  BY ZmodemAssumption DEF Version
<1>. QED  BY <1>1, <1>2, ZmodemAssumption DEF SizeOf

\* The time is counted by its own steps; the others start it again, or leave it.
LEMMA TimedStep == ASSUME TypeInv, [Next]_vars PROVE Timed'
<1>1. /\ helper \in Helper /\ Timed /\ GiveUp \in Nat
  BY ZmodemAssumption DEF TypeInv, SizeInv, AllInv, IInv, Kinds
<1>2. ASSUME \/ helper' = helper \/ \E o : GiveBack(o)
             \/ Abort \/ helper' = [helper EXCEPT !.quiet = 0]
      PROVE  helper'.quiet \in {0, helper.quiet}
  BY <1>1, <1>2 DEF GiveBack, Abort, Helper
<1>3. ASSUME helper'.quiet \in {0, helper.quiet}, silent' \in {0, silent} PROVE Timed'
  BY <1>1, <1>3 DEF Timed
<1>4. CASE Begins
  <2>1. helper'.quiet = 0 /\ silent' = 0  BY <1>4 DEF Begins
  <2>. QED  BY <1>3, <2>1
<1>5. CASE OtherSends \/ OtherFails
  <2>1. helper' = helper /\ silent' \in {0, silent}  BY <1>5 DEF OtherSends, OtherFails, Says
  <2>. QED  BY <1>2, <1>3, <2>1
<1>6. CASE OtherHears
  <2>1. helper' = helper  BY <1>6 DEF OtherHears
  <2>2. silent' \in {0, silent}
    <3>1. CASE helper.way # "upload"  BY <1>6, <3>1 DEF OtherHears
    <3>2. CASE helper.way = "upload"
      <4>1. silent' = IF ReceiverAnswer(Head(up)) = <<>> THEN silent ELSE 0
        BY <1>6, <3>2 DEF OtherHears
      <4>. QED  BY <4>1
    <3>. QED  BY <3>1, <3>2
  <2>. QED  BY <1>2, <1>3, <2>1, <2>2
<1>7. CASE (\E f \in File : Change(f)) \/ DrainTakes \/ Shows \/ UNCHANGED vars
  <2>1. helper' = helper /\ silent' = silent  BY <1>7 DEF Change, DrainTakes, Shows, vars
  <2>. QED  BY <1>2, <1>3, <2>1
<1>8. CASE ConnectionEnds \/ Picks \/ Cancel \/ TabCloses
  <2>1. helper'.quiet = helper.quiet
    BY <1>1, <1>8 DEF ConnectionEnds, Picks, Cancel, TabCloses, Helper
  <2>2. silent' = silent  BY <1>8 DEF ConnectionEnds, Picks, Cancel, TabCloses
  <2>. QED  BY <1>3, <2>1, <2>2
<1>9. CASE Declines \/ CancelSeen \/ Waits \/ DrainEnds
  <2>1. (Abort \/ \E o : GiveBack(o)) /\ silent' = silent
    BY <1>9 DEF Declines, CancelSeen, Waits, DrainEnds, Fails
  <2>. QED  BY <1>2, <1>3, <2>1
<1>10. CASE Receive
  <2>1. silent' = silent  BY <1>10 DEF Receive
  <2>2. Abort \/ (\E o : GiveBack(o)) \/ helper' = [helper EXCEPT !.quiet = 0]
    BY <1>10
    DEF Receive, FileStarted, WriteFile, FileCompleted, SessionCompleted, Otherwise, Fails
  <2>. QED  BY <1>2, <1>3, <2>1, <2>2
<1>11. CASE Stream \/ Takes \/ Told
  <2>1. silent' = silent  BY <1>11 DEF Stream, Takes, Told
  <2>2. helper' = helper \/ Abort \/ (\E o : GiveBack(o)) \/ helper' = [helper EXCEPT !.quiet = 0]
    BY <1>11 DEF Stream, Takes, Told, Fails
  <2>. QED  BY <1>2, <1>3, <2>1, <2>2
<1>12. CASE Tick
  <2>1. PICK q \in 0 .. GiveUp + 1 : helper' = [helper EXCEPT !.quiet = q]
    <3>1. helper.quiet \in 0 .. GiveUp + 1  BY <1>1 DEF Timed
    <3>2. (IF helper.quiet > GiveUp THEN helper.quiet ELSE helper.quiet + 1) \in 0 .. GiveUp + 1
      BY <1>1, <3>1
    <3>3. helper' = [helper EXCEPT !.quiet = IF helper.quiet > GiveUp THEN helper.quiet ELSE helper.quiet + 1]
      BY <1>1, <1>12 DEF Tick, Helper
    <3>. QED  BY <3>2, <3>3
  <2>2. helper'.quiet = q  BY <1>1, <2>1 DEF Helper
  <2>3. silent' = IF silent > GiveUp THEN silent ELSE silent + 1  BY <1>12 DEF Tick
  <2>4. silent' \in 0 .. GiveUp + 1  BY <1>1, <2>3 DEF Timed
  <2>. QED  BY <2>2, <2>4 DEF Timed
<1>. QED  BY <1>4, <1>5, <1>6, <1>7, <1>8, <1>9, <1>10, <1>11, <1>12 DEF Next, Turn

\* What is written waits until the server takes what was written before.
LEMMA PassedStep == ASSUME TypeInv, [Next]_vars PROVE Passed'
<1>1. /\ helper \in Helper /\ up \in Seq(Msg) /\ Passed /\ Window \in Nat /\ Window > 0
  BY ZmodemAssumption DEF TypeInv, SizeInv, AllInv, IInv, Kinds, SoundInv, Words
<1>2. helper.way = "upload" => Len(up) \in Nat /\ Len(up) <= Window  BY <1>1 DEF Passed
<1>3. ASSUME helper'.way = helper.way, up' = up PROVE Passed'  BY <1>1, <1>3 DEF Passed
<1>4. ASSUME up' = <<>> PROVE Passed'  BY <1>1, <1>4, Few DEF Passed
<1>5. ASSUME helper'.way = helper.way, NEW m \in Msg, Writes(m) PROVE Passed'
  <2>1. CASE helper.gone  BY <1>3, <1>5, <2>1 DEF Writes
  <2>2. CASE ~helper.gone
    <3>1. up' = Append(up, m) /\ (helper.way = "upload" => Len(up) < Window)
      BY <1>5, <2>2 DEF Writes, Passes
    <3>2. Len(up') = Len(up) + 1 /\ Len(up) \in Nat  BY <1>1, <1>5, <3>1, Few
    <3>. QED  BY <1>1, <1>5, <3>1, <3>2 DEF Passed
  <2>. QED  BY <2>1, <2>2
<1>6. \A w \in {"zrinit", "zfin", "can"} : Word(w, 0) \in Msg  BY Vocabulary
<1>7. ASSUME Abort PROVE Passed'
  <2>1. helper'.way = helper.way  BY <1>1, <1>7, HelperIs
  <2>. QED  BY <1>5, <1>6, <1>7, <2>1 DEF Abort
<1>8. ASSUME Fails PROVE Passed'
  <2>1. helper'.way = helper.way /\ up' = up  BY <1>1, <1>8, HelperIs DEF Fails
  <2>. QED  BY <1>3, <2>1
<1>9. CASE Begins \/ TabCloses \/ ConnectionEnds
  BY <1>4, <1>9 DEF Begins, TabCloses, ConnectionEnds
<1>10. CASE OtherSends \/ OtherFails \/ DrainTakes \/ Shows \/ (\E f \in File : Change(f)) \/ UNCHANGED vars
  <2>1. helper' = helper /\ (up' = up \/ up' = <<>>)
    BY <1>10 DEF OtherSends, OtherFails, DrainTakes, Shows, Change, vars
  <2>. QED  BY <1>3, <1>4, <2>1
<1>11. CASE OtherHears
  <2>1. helper' = helper /\ up # <<>> /\ up' = Tail(up)  BY <1>11 DEF OtherHears
  <2>2. Len(up') = Len(up) - 1 /\ Len(up) \in Nat  BY <1>1, <2>1, Few
  <2>. QED  BY <1>1, <2>1, <2>2 DEF Passed
<1>12. CASE Picks
  <2>1. helper'.way = helper.way  BY <1>1, <1>12 DEF Picks, Helper
  <2>2. up' = up \/ Writes(Word("zrinit", 0))  BY <1>12 DEF Picks
  <2>. QED  BY <1>3, <1>5, <1>6, <2>1, <2>2
<1>13. CASE Declines \/ CancelSeen \/ Waits
  BY <1>7, <1>8, <1>13 DEF Declines, CancelSeen, Waits
<1>14. CASE Cancel \/ DrainEnds \/ Tick
  <2>1. helper'.way = helper.way  BY <1>1, <1>14, HelperIs DEF Cancel, DrainEnds, Tick, Helper
  <2>2. up' = up  BY <1>14 DEF Cancel, DrainEnds, Tick
  <2>. QED  BY <1>3, <2>1, <2>2
<1>15. CASE Receive
  <2>1. helper.way = "download"  BY <1>15 DEF Receive
  <2>2. helper'.way = helper.way
    <3>1. Abort \/ (\E o \in {"done", "failed"} : GiveBack(o)) \/ helper' = [helper EXCEPT !.quiet = 0]
      BY <1>15
      DEF Receive, FileStarted, WriteFile, FileCompleted, SessionCompleted, Otherwise, Fails
    <3>. QED  BY <1>1, <3>1, HelperIs
  <2>. QED  BY <2>1, <2>2 DEF Passed
<1>16. CASE Stream
  <2>1. CASE Writes(SenderWord(end)) /\ helper' = helper
    <3>1. SenderWord(end) \in Msg
      BY <1>16, SenderWroteIs DEF Stream, TypeInv, AllInv, IInv, Kinds, SoundInv, Words
    <3>. QED  BY <1>5, <2>1, <3>1
  <2>. QED  BY <1>7, <1>8, <1>16, <2>1 DEF Stream
<1>17. CASE Takes \/ Told
  <2>1. up' = up  BY <1>17 DEF Takes, Told
  <2>2. \/ helper' = helper \/ helper' = [helper EXCEPT !.quiet = 0]
        \/ \E o \in {"done", "failed"} : GiveBack(o)
    BY <1>17 DEF Takes, Told
  <2>3. helper'.way = helper.way  BY <1>1, <2>2, HelperIs
  <2>. QED  BY <1>3, <2>1, <2>3
<1>. QED
  BY <1>9, <1>10, <1>11, <1>12, <1>13, <1>14, <1>15, <1>16, <1>17 DEF Next, Turn

\* rz always wants a file from its start.
LEMMA FromStartStep == ASSUME TypeInv, [Next]_vars PROVE FromStart'
<1>1. helper \in Helper /\ down \in Seq(Msg) /\ FromStart
  BY DEF TypeInv, SizeInv, AllInv, IInv, Kinds, SoundInv, Words
<1>2. ASSUME helper'.way = helper.way, down' = down \/ down' = <<>> PROVE FromStart'
  BY <1>1, <1>2, Few DEF FromStart
<1>3. ASSUME helper'.way = helper.way, down # <<>>, down' = Tail(down) PROVE FromStart'
  <2>1. \A i \in DOMAIN down' : down'[i] = down[i + 1] /\ i + 1 \in DOMAIN down
    BY <1>1, <1>3, Few
  <2>. QED  BY <1>1, <1>3, <2>1 DEF FromStart
<1>4. ASSUME helper'.way = helper.way, NEW m \in Msg, m.word # "zrpos" \/ m.n = 0, down' = Append(down, m)
      PROVE  FromStart'
  <2>1. \A i \in DOMAIN down' : (i \in DOMAIN down /\ down'[i] = down[i]) \/ down'[i] = m
    BY <1>1, <1>4, Few
  <2>. QED  BY <1>1, <1>4, <2>1 DEF FromStart
<1>5. \A o \in {"done", "failed", "cancelled"} : GiveBack(o) => helper'.way = helper.way
  BY <1>1, HelperIs
<1>6. Abort => helper'.way = helper.way  BY <1>1, HelperIs
<1>7. helper' = [helper EXCEPT !.quiet = 0] => helper'.way = helper.way  BY <1>1, HelperIs
<1>8. \A w \in {"zrinit", "zrpos", "zfin", "can"} :
        Word(w, 0) \in Msg /\ Word(w, 0).word = w /\ Word(w, 0).n = 0
  BY Vocabulary
<1>9. Word("data", 1) \in Msg /\ Word("data", 1).word = "data"  BY Vocabulary
<1>10. CASE Begins
  <2>. DEFINE m == Word("zrinit", 0)
  <2>1. down' \in {<<>>, <<m>>}  BY <1>10 DEF Begins
  <2>2. m \in Msg /\ m.word # "zrpos"  BY <1>8
  <2>. HIDE DEF m
  <2>. QED  BY <2>1, <2>2, Few DEF FromStart
<1>11. CASE OtherSends
  <2>1. helper.way # "upload" /\ helper' = helper  BY <1>11 DEF OtherSends
  <2>. QED  BY <2>1 DEF FromStart
<1>12. CASE OtherHears
  <2>. DEFINE m == Head(up)
  <2>1. helper' = helper  BY <1>12 DEF OtherHears
  <2>2. CASE helper.way # "upload"  BY <2>1, <2>2 DEF FromStart
  <2>3. CASE helper.way = "upload"
    <3>1. down' = down \o ReceiverAnswer(m)  BY <1>12, <2>3 DEF OtherHears
    <3>2. ReceiverAnswer(m) = <<>>
            \/ \E w \in {"zrpos", "zrinit", "zfin"} : ReceiverAnswer(m) = <<Word(w, 0)>>
      <4>1. CASE m.word = "zfile"  BY <4>1 DEF ReceiverAnswer
      <4>2. CASE m.word = "zeof"  BY <4>2 DEF ReceiverAnswer
      <4>3. CASE m.word = "zfin"  BY <4>3 DEF ReceiverAnswer
      <4>4. CASE m.word \notin {"zfile", "zeof", "zfin"}  BY <4>4 DEF ReceiverAnswer
      <4>. QED  BY <4>1, <4>2, <4>3, <4>4
    <3>3. CASE ReceiverAnswer(m) = <<>>
      <4>1. down' = down \o <<>>  BY <3>1, <3>3
      <4>2. down' = down  BY <1>1, <4>1
      <4>. QED  BY <1>2, <2>1, <4>2
    <3>4. ASSUME NEW w \in {"zrpos", "zrinit", "zfin"}, ReceiverAnswer(m) = <<Word(w, 0)>>
          PROVE  FromStart'
      <4>. DEFINE k == Word(w, 0)
      <4>1. k \in Msg /\ k.n = 0 /\ down' = down \o <<k>>  BY <1>8, <3>1, <3>4
      <4>. HIDE DEF k
      <4>2. down' = Append(down, k)  BY <1>1, <4>1
      <4>. QED  BY <1>4, <2>1, <4>1, <4>2
    <3>. QED  BY <3>2, <3>3, <3>4
  <2>. QED  BY <2>2, <2>3
<1>13. CASE OtherFails
  <2>1. /\ helper' = helper
        /\ \/ down' = Append(down, Word("zrpos", 0))
           \/ down' = Append(down, Word("can", 0))
           \/ down' = Append(down, Word("data", 1))
    BY <1>13 DEF OtherFails, Says
  <2>. QED  BY <1>4, <1>8, <1>9, <2>1
<1>14. CASE (\E f \in File : Change(f)) \/ UNCHANGED vars
  <2>1. helper' = helper /\ down' = down  BY <1>14 DEF Change, vars
  <2>. QED  BY <1>2, <2>1
<1>15. CASE Shows
  <2>1. helper' = helper /\ (down' = down \/ (down # <<>> /\ down' = Tail(down)))
    <3>1. CASE down = <<>>  BY <1>15, <3>1 DEF Shows
    <3>2. CASE down # <<>>  BY <1>15, <3>2 DEF Shows
    <3>. QED  BY <3>1, <3>2
  <2>. QED  BY <1>2, <1>3, <2>1
<1>16. CASE DrainTakes  BY <1>3, <1>16 DEF DrainTakes
<1>17. CASE ConnectionEnds \/ Picks \/ Cancel \/ TabCloses \/ Tick
  <2>1. helper'.way = helper.way
    BY <1>1, <1>17 DEF ConnectionEnds, Picks, Cancel, TabCloses, Tick, Helper
  <2>2. down' = down \/ down' = <<>>
    BY <1>17 DEF ConnectionEnds, Picks, Cancel, TabCloses, Tick
  <2>. QED  BY <1>2, <2>1, <2>2
<1>18. CASE Declines \/ CancelSeen \/ Waits \/ DrainEnds
  <2>1. (Abort \/ Fails \/ GiveBack("cancelled")) /\ down' = down
    BY <1>18 DEF Declines, CancelSeen, Waits, DrainEnds
  <2>. QED  BY <1>2, <1>5, <1>6, <2>1 DEF Fails
<1>19. CASE Receive
  <2>1. helper.way = "download"  BY <1>19 DEF Receive
  <2>2. Abort \/ (\E o \in {"done", "failed"} : GiveBack(o)) \/ helper' = [helper EXCEPT !.quiet = 0]
    BY <1>19
    DEF Receive, FileStarted, WriteFile, FileCompleted, SessionCompleted, Otherwise, Fails
  <2>3. helper'.way = helper.way  BY <1>5, <1>6, <1>7, <2>2
  <2>. QED  BY <2>1, <2>3 DEF FromStart
<1>20. CASE Stream \/ Takes \/ Told
  <2>1. down' = down \/ down' = <<>>  BY <1>20 DEF Stream, Takes, Told
  <2>2. \/ helper' = helper \/ Abort \/ helper' = [helper EXCEPT !.quiet = 0]
        \/ \E o \in {"done", "failed"} : GiveBack(o)
    BY <1>20 DEF Stream, Takes, Told, Fails
  <2>. QED  BY <1>2, <1>5, <1>6, <1>7, <2>1, <2>2
<1>. QED
  BY <1>10, <1>11, <1>12, <1>13, <1>14, <1>15, <1>16, <1>17, <1>18, <1>19, <1>20
  DEF Next, Turn

\* The helper's end of the protocol stays at a file, and within it.
LEMMA PlacedStep == ASSUME TypeInv, [Next]_vars PROVE Placed(end)'
<1>1. /\ helper \in Helper /\ down \in Seq(Msg) /\ up \in Seq(Msg) /\ end \in End /\ Sound(end)
      /\ Placed(end) /\ FromStart /\ version \in [File -> Version] /\ Words /\ IInv
      /\ Files \in Nat \ {0} /\ Chunks \in Nat
  BY ZmodemAssumption DEF TypeInv, SizeInv, AllInv, IInv, Kinds, SoundInv, Words
<1>2. end' = end => Placed(end)'  BY <1>1
<1>3. Abort => Placed(end)'
  <2>1. Abort => end'.file = end.file /\ end'.pos = end.pos  BY <1>1, AbortIs
  <2>. QED  BY <1>1, <2>1 DEF Placed
<1>4. Fails => Placed(end)'  BY <1>2 DEF Fails
<1>5. ASSUME helper.way = "upload", NEW s \in End, Placed(s) PROVE Placed(Heard(s))
  <2>. DEFINE A == {e \in End : Placed(e)}
  <2>1. ASSUME NEW i \in DOMAIN down, NEW e \in A PROVE SenderHears(e, down[i]) \in A
    <3>. DEFINE h == SenderHears(e, down[i])
    <3>1. down[i] \in Msg /\ (down[i].word = "zrpos" => down[i].n = 0)
      BY <1>1, <1>5 DEF FromStart
    <3>2. h \in End /\ h.file = e.file /\ (h.pos = e.pos \/ h.pos = 0)
      BY <3>1, SenderHearsIs
    <3>. HIDE DEF h
    <3>3. Placed(h)  BY <1>1, <3>2 DEF Placed
    <3>. QED  BY <3>2, <3>3 DEF h
  <2>2. s \in A  BY <1>5
  <2>. HIDE DEF A
  <2>3. Heard(s) \in A  BY <1>1, <2>1, <2>2, HeardKeeps
  <2>. QED  BY <2>3 DEF A
<1>6. CASE Begins
  <2>1. end'.file = 1 /\ end'.pos = 0  BY <1>6 DEF Begins, NoEnd
  <2>. QED  BY <1>1, <2>1 DEF Placed
<1>7. CASE Picks
  <2>1. \E skipped \in {0, 1} : end'.file = 1 + skipped /\ end'.pos = 0  BY <1>7 DEF Picks
  <2>. QED  BY <1>1, <2>1 DEF Placed
<1>8. CASE Declines \/ CancelSeen \/ Waits
  BY <1>3, <1>4, <1>8 DEF Declines, CancelSeen, Waits
<1>9. CASE \/ OtherSends \/ OtherHears \/ OtherFails \/ ConnectionEnds \/ (\E f \in File : Change(f))
           \/ Cancel \/ TabCloses \/ DrainTakes \/ DrainEnds \/ Tick \/ Shows \/ UNCHANGED vars
  <2>1. end' = end
    BY <1>9 DEF OtherSends, OtherHears, OtherFails, ConnectionEnds, Change, Cancel, TabCloses,
        DrainTakes, DrainEnds, Tick, Shows, vars
  <2>. QED  BY <1>2, <2>1
<1>10. CASE Receive
  <2>. DEFINE m == down[1]
  <2>1. Head(down) = m  BY <1>1, <1>10, ReceiveIs
  <2>2. CASE FileStarted(m)
    <3>1. m.word = "zfile" /\ Between /\ 1 \in DOMAIN down  BY <1>1, <1>10, <2>2, ReceiveIs DEF FileStarted
    <3>2. m.n \in File  BY <3>1 DEF Between
    <3>3. Abort \/ end' = [at |-> "takes", file |-> m.n, pos |-> 0]  BY <2>2 DEF FileStarted
    <3>4. end' = [at |-> "takes", file |-> m.n, pos |-> 0] => end'.file = m.n /\ end'.pos = 0
      OBVIOUS
    <3>. HIDE DEF m
    <3>. QED  BY <1>1, <1>3, <3>2, <3>3, <3>4 DEF Placed, File
  <2>3. CASE FileCompleted(m)
    <3>1. end' = [end EXCEPT !.at = "next"]  BY <2>3 DEF FileCompleted
    <3>2. end'.file = end.file /\ end'.pos = end.pos  BY <1>1, <3>1 DEF End
    <3>. QED  BY <1>1, <3>2 DEF Placed
  <2>4. CASE WriteFile(m) \/ SessionCompleted(m) \/ Otherwise(m)
    <3>1. end' = end \/ Abort \/ Fails  BY <2>4 DEF WriteFile, SessionCompleted, Otherwise
    <3>. QED  BY <1>2, <1>3, <1>4, <3>1
  <2>. QED  BY <1>10, <2>1, <2>2, <2>3, <2>4 DEF Receive
<1>11. CASE Stream
  <2>1. helper.way = "upload" /\ SenderWrites(end)  BY <1>11 DEF Stream
  <2>2. CASE end' = Heard(SenderWrote(end))
    <3>. DEFINE s == SenderWrote(end)
    <3>1. s \in End /\ s.file = end.file
      BY <1>1, <2>1, SenderWroteIs
    <3>2. /\ end.pos \in 0 .. Chunks /\ end.file \in 1 .. Files + 1
          /\ s.pos \in 0 .. Chunks
      <4>1. end.pos \in 0 .. Chunks /\ end.file \in 1 .. Files + 1  BY <1>1 DEF Placed
      <4>2. \/ s.pos \in {0, end.pos}
            \/ end.at = "streams" /\ s.pos = end.pos + 1 /\ end.pos < SizeOf(version[end.file])
        BY <1>1, <2>1 DEF SenderWrote, End, SenderWrites
      <4>. HIDE DEF s
      <4>3. CASE s.pos \in {0, end.pos}  BY <1>1, <4>1, <4>3
      <4>4. CASE end.at = "streams" /\ s.pos = end.pos + 1 /\ end.pos < SizeOf(version[end.file])
        <5>1. end.file \in File  BY <1>1, <4>4 DEF Sound
        <5>2. SizeOf(version[end.file]) \in 1 .. Chunks  BY <1>1, <5>1, VersionFits
        <5>. QED  BY <1>1, <4>1, <4>4, <5>2
      <4>. QED  BY <4>1, <4>2, <4>3, <4>4
    <3>. HIDE DEF s
    <3>3. Placed(s)  BY <3>1, <3>2 DEF Placed
    <3>4. Placed(Heard(s))  BY <1>5, <2>1, <3>1, <3>3
    <3>. QED  BY <2>2, <3>4 DEF s
  <2>. QED  BY <1>3, <1>4, <1>11, <2>2 DEF Stream
<1>12. CASE Takes
  <2>1. helper.way = "upload" /\ end' = Heard(end)  BY <1>12 DEF Takes
  <2>. QED  BY <1>1, <1>5, <2>1
<1>13. CASE Told
  <2>1. end' = end \/ \E skipped \in {0, 1} : end' = NextFile(end, skipped)  BY <1>13 DEF Told
  <2>2. \A skipped \in {0, 1} : Placed(NextFile(end, skipped))  BY <1>1, NextIs DEF Placed
  <2>. QED  BY <1>2, <2>1, <2>2
<1>. QED  BY <1>6, <1>7, <1>8, <1>9, <1>10, <1>11, <1>12, <1>13 DEF Next, Turn

\* What comes of a file still fits.
LEMMA FitsStep == ASSUME TypeInv, [Next]_vars PROVE Fits'
<1>. SUFFICES ASSUME Live', ~other'.deaf, end'.at = "takes"
              PROVE  \A i \in DOMAIN down' : down'[i].word = "data" =>
                        Len(part'[end'.file].data) + i <= SizeOf(version'[end'.file])
  BY DEF Fits
<1>. DEFINE d == part[end.file].data  v == version[end.file]
<1>1. /\ IInv /\ Kinds /\ helper \in Helper /\ Words /\ down \in Seq(Msg) /\ Fits
      /\ (Live => Flow)
  BY DEF TypeInv, SizeInv, AllInv, IInv, Kinds, SoundInv, Words
<1>2. ASSUME Live, ~other.deaf, end.at = "takes"
      PROVE  /\ end.file \in File /\ part[end.file] \in Part /\ Len(d) \in Nat /\ SizeOf(v) \in Nat
             /\ \A i \in DOMAIN down : down[i].word = "data" => Len(d) + i <= SizeOf(v)
  <2>1. Taking  BY <1>1, <1>2 DEF Flow
  <2>2. end.file \in File /\ part[end.file] \in Part  BY <2>1 DEF Taking
  <2>3. Len(d) \in Nat /\ SizeOf(v) \in Nat  BY <1>1, <2>2, Sizes DEF Part, Kinds
  <2>. QED  BY <1>1, <1>2, <2>2, <2>3 DEF Fits
<1>3. ASSUME Live, other'.deaf = other.deaf, UNCHANGED <<end, part, version>>,
             \A i \in DOMAIN down' : down'[i].word = "data" => i \in DOMAIN down /\ down[i].word = "data"
      PROVE  Fits'
  <2>1. \A i \in DOMAIN down : down[i].word = "data" => Len(d) + i <= SizeOf(v)
    BY <1>2, <1>3
  <2>. QED  BY <1>3, <2>1, Zenon DEF Fits
<1>4. CASE Begins  BY <1>4 DEF Begins, NoEnd
<1>5. CASE OtherSends
  <2>. DEFINE m == SenderWord(other.end)
  <2>1. /\ Live /\ ~other.deaf /\ end' = end /\ part' = part /\ version' = version
        /\ SenderWrites(other.end) /\ down' = Append(down, m) /\ end.at = "takes"
    BY <1>5 DEF OtherSends, Live, Says
  <2>2. Taking  BY <1>1, <2>1 DEF Flow
  <2>3. other.end.at = "streams"  BY <2>1, <2>2 DEF SenderWrites, Taking, Over
  <2>4. /\ other.end.file = end.file /\ other.end.pos = Len(d) + Len(down)
        /\ other.end.pos \in Nat /\ Len(down) \in Nat
    BY <1>1, <2>2, <2>3 DEF Taking, Words, End
  <2>5. /\ Len(d) \in Nat /\ SizeOf(v) \in Nat /\ v \in Nat
        /\ \A i \in DOMAIN down : down[i].word = "data" => Len(d) + i <= SizeOf(v)
    <3>1. end.file \in File /\ v \in Nat  BY <1>1, <1>2, <2>1, Vocabulary DEF Kinds
    <3>. QED  BY <1>2, <2>1, <3>1
  <2>6. m \in Msg /\ (m.word = "data" => other.end.pos < SizeOf(v))
    <3>1. CASE other.end.pos < SizeOf(v)
      <4>1. m = Word("data", v)  BY <2>3, <2>4, <3>1 DEF SenderWord
      <4>. QED  BY <2>5, <3>1, <4>1, Vocabulary
    <3>2. CASE ~(other.end.pos < SizeOf(v))
      <4>1. m = Word("zeof", 0)  BY <2>3, <2>4, <3>2 DEF SenderWord
      <4>. QED  BY <4>1, Vocabulary
    <3>. QED  BY <3>1, <3>2
  <2>7. \A i \in DOMAIN down' : (i \in DOMAIN down /\ down'[i] = down[i]) \/ (i = Len(down) + 1 /\ down'[i] = m)
    <3>. HIDE DEF m
    <3>. QED  BY <1>1, <2>1, <2>6, Few
  <2>8. m.word = "data" => Len(d) + (Len(down) + 1) <= SizeOf(v)
    <3>. HIDE DEF d, v, m
    <3>. QED  BY <2>4, <2>5, <2>6
  <2>9. \A i \in DOMAIN down' : down'[i].word = "data" => Len(d) + i <= SizeOf(v)
    <3>. HIDE DEF d, v, m
    <3>. QED  BY <2>5, <2>7, <2>8
  <2>. QED  BY <2>1, <2>9
<1>6. CASE OtherHears
  <2>1. /\ Live /\ UNCHANGED <<end, part, version, down>> /\ ~other.deaf
    BY <1>6 DEF OtherHears, Live
  <2>. QED  BY <1>2, <2>1
<1>7. CASE OtherFails
  <2>1. Live /\ UNCHANGED <<end, part, version>>  BY <1>7 DEF OtherFails, Live
  <2>2. /\ down' = Append(down, Word("can", 0))
        /\ other' = [other EXCEPT !.end.at = "over"]
    BY <1>7, <2>1 DEF OtherFails, Says, Live
  <2>3. ~other.deaf  BY <1>1, <2>2 DEF Words
  <2>. DEFINE m == Word("can", 0)
  <2>4. m \in Msg /\ m.word # "data" /\ down' = Append(down, m)  BY <2>2, Vocabulary
  <2>. HIDE DEF m
  <2>5. \A i \in DOMAIN down' : (i \in DOMAIN down /\ down'[i] = down[i]) \/ down'[i] = m
    BY <1>1, <2>4, Few
  <2>6. \A i \in DOMAIN down : down[i].word = "data" => Len(d) + i <= SizeOf(v)
    BY <1>2, <2>1, <2>3
  <2>7. \A i \in DOMAIN down' : down'[i].word = "data" => Len(d) + i <= SizeOf(v)
    <3>. HIDE DEF d, v
    <3>. QED  BY <2>4, <2>5, <2>6
  <2>. QED  BY <2>1, <2>7
<1>8. CASE ConnectionEnds \/ Cancel \/ Tick \/ UNCHANGED vars
  <2>1. UNCHANGED <<end, part, version, down>>  BY <1>8 DEF ConnectionEnds, Cancel, Tick, vars
  <2>2. other'.deaf = other.deaf
    BY <1>1, <1>8 DEF ConnectionEnds, Cancel, Tick, vars, Words
  <2>3. helper'.way = helper.way /\ helper'.at = helper.at
    BY <1>1, <1>8 DEF ConnectionEnds, Cancel, Tick, vars, Helper
  <2>4. Live  BY <2>3 DEF Live
  <2>. QED  BY <1>2, <2>1, <2>2, <2>4
<1>9. CASE Picks  BY <1>9 DEF Picks
<1>10. CASE Receive
  <2>. DEFINE m == down[1]
  <2>1. /\ Live /\ m = Head(down) /\ other' = other /\ version' = version
        /\ down # <<>> /\ down' = Tail(down) /\ 1 \in DOMAIN down
    BY <1>1, <1>10, ReceiveIs DEF Receive
  <2>2. \A i \in DOMAIN down' : i \in Nat \ {0} /\ down'[i] = down[i + 1] /\ i + 1 \in DOMAIN down
    BY <1>1, <2>1, Few
  <2>3. CASE FileStarted(m)
    <3>1. Between  BY <1>1, <1>10, <2>3, ReceiveIs
    <3>2. \A i \in Nat \ {0} : i + 1 > 1  OBVIOUS
    <3>3. \A i \in DOMAIN down' : down'[i].word # "data"  BY <2>2, <3>1, <3>2 DEF Between
    <3>. QED  BY <3>3
  <2>4. CASE WriteFile(m)
    <3>. DEFINE e == Append(d, m.n)
    <3>1. m.word = "data" /\ end.at = "takes"  BY <2>4 DEF WriteFile
    <3>2. ~other.deaf /\ Taking  BY <1>1, <1>10, <3>1, ReceiveIs
    <3>3. m.n \in Version
      <4>1. m.n = v /\ end.file \in File  BY <2>1, <3>1, <3>2 DEF Taking
      <4>. QED  BY <1>1, <4>1 DEF Kinds
    <3>4. part' = [part EXCEPT ![end.file].data = e] /\ end' = end
      <4>1. ~Abort  BY <1>1, HelperIs DEF Live
      <4>. QED  BY <2>4, <4>1 DEF WriteFile
    <3>5. /\ end.file \in File /\ part[end.file] \in Part /\ Len(d) \in Nat /\ SizeOf(v) \in Nat
          /\ \A i \in DOMAIN down : down[i].word = "data" => Len(d) + i <= SizeOf(v)
      BY <1>2, <2>1, <3>1, <3>2
    <3>6. part'[end.file].data = e /\ Len(e) = Len(d) + 1
      <4>1. part'[end.file] = [part[end.file] EXCEPT !.data = e]  BY <1>1, <3>4, <3>5 DEF Kinds
      <4>2. d \in Seq(Version)  BY <3>5 DEF Part
      <4>. QED  BY <3>3, <3>5, <4>1, <4>2 DEF Part
    <3>7. \A i \in DOMAIN down' : down'[i].word = "data" => Len(e) + i <= SizeOf(v)
      <4>1. \A i \in DOMAIN down' : down'[i].word = "data" => Len(d) + (i + 1) <= SizeOf(v)
        <5>. HIDE DEF d, v
        <5>. QED  BY <2>2, <3>5, Zenon
      <4>. HIDE DEF d, v, e
      <4>. QED  BY <2>2, <3>5, <3>6, <4>1
    <3>. HIDE DEF e, d
    <3>. QED  BY <2>1, <3>4, <3>6, <3>7
  <2>5. CASE FileCompleted(m)
    <3>1. end'.at = "next"  BY <1>1, <2>5 DEF FileCompleted, Words, End
    <3>. QED  BY <3>1
  <2>6. CASE SessionCompleted(m)
    <3>1. GiveBack("done")  BY <2>6 DEF SessionCompleted
    <3>. QED  BY <1>1, <3>1, HelperIs DEF Live
  <2>7. CASE Otherwise(m)
    <3>1. end.at # "takes" /\ end' = end
      BY <1>1, <2>7, HelperIs DEF Otherwise, Fails, Live
    <3>. QED  BY <3>1
  <2>. QED  BY <1>10, <2>1, <2>3, <2>4, <2>5, <2>6, <2>7 DEF Receive
<1>11. CASE \/ \E f \in File : Change(f)
            \/ Declines \/ TabCloses \/ CancelSeen \/ Waits \/ DrainTakes \/ DrainEnds
            \/ Stream \/ Takes \/ Told \/ Shows
  BY <1>1, <1>11, NotLive
<1>. QED
  BY <1>4, <1>5, <1>6, <1>7, <1>8, <1>9, <1>10, <1>11 DEF Next, Turn

\* Parts stay as short, and no empty file gets its name.
LEMMA LengthsStep == ASSUME TypeInv, [Next]_vars PROVE Lengths'
<1>1. IInv /\ Kinds /\ Lengths /\ Fits /\ part \in [File -> Part \cup {Absent}] /\ Chunks \in Nat
  BY ZmodemAssumption DEF TypeInv, SizeInv, AllInv, IInv, Kinds
<1>2. ASSUME part' = part, named' = named PROVE Lengths'  BY <1>1, <1>2 DEF Lengths
<1>3. CASE Receive
  <2>. DEFINE m == down[1]
  <2>1. Live /\ Head(down) = m /\ 1 \in DOMAIN down /\ m \in Msg  BY <1>1, <1>3, ReceiveIs
  <2>2. ASSUME NEW f \in File, NEW x \in Part, Len(x.data) <= Chunks,
               part' = [part EXCEPT ![f] = x], named' = named
        PROVE  Lengths'
    <3>1. \A g \in File : part'[g] = IF g = f THEN x ELSE part[g]  BY <1>1, <2>2
    <3>. QED  BY <1>1, <2>2, <3>1 DEF Lengths
  <2>3. CASE FileStarted(m)
    <3>1. Between /\ m.word = "zfile"  BY <1>1, <1>3, <2>3, ReceiveIs DEF FileStarted
    <3>2. m.n \in File  BY <2>1, <3>1 DEF Between
    <3>3. /\ Continued(m.n) \in Part /\ Len(Continued(m.n).data) \in Nat
          /\ Len(Continued(m.n).data) <= SizeOf(version[m.n])
      BY <1>1, <3>2, ContinuedIs
    <3>4. SizeOf(version[m.n]) \in 1 .. Chunks  BY <1>1, <3>2, VersionFits DEF Kinds
    <3>5. Len(Continued(m.n).data) <= Chunks  BY <1>1, <3>3, <3>4
    <3>6. named' = named /\ (part' = part \/ part' = [part EXCEPT ![m.n] = Continued(m.n)])
      BY <2>3 DEF FileStarted
    <3>. HIDE DEF m
    <3>. QED  BY <1>2, <2>2, <3>2, <3>3, <3>5, <3>6
  <2>4. CASE WriteFile(m)
    <3>. DEFINE d == part[end.file].data  v == version[end.file]  e == Append(d, m.n)
                x == [part[end.file] EXCEPT !.data = e]
    <3>1. m.word = "data" /\ end.at = "takes"  BY <2>4 DEF WriteFile
    <3>2. ~other.deaf /\ Taking  BY <1>1, <1>3, <3>1, ReceiveIs
    <3>3. end.file \in File /\ part[end.file] \in Part /\ m.n = v
      BY <2>1, <3>1, <3>2 DEF Taking
    <3>4. m.n \in Version /\ SizeOf(v) \in 1 .. Chunks  BY <1>1, <3>3, VersionFits DEF Kinds
    <3>5. Len(d) + 1 <= SizeOf(v)  BY <1>1, <2>1, <3>1, <3>2 DEF Fits
    <3>6. d \in Seq(Version)  BY <3>3 DEF Part
    <3>7. e \in Seq(Version) /\ Len(e) = Len(d) + 1 /\ Len(d) \in Nat
      <4>. HIDE DEF d, m
      <4>. QED  BY <3>4, <3>6
    <3>8. x \in Part /\ x.data = e
      <4>. HIDE DEF e
      <4>. QED  BY <3>3, <3>7 DEF Part
    <3>9. Len(e) <= Chunks
      <4>. HIDE DEF d, e, v
      <4>. QED  BY <1>1, <3>4, <3>5, <3>7
    <3>10. named' = named /\ (part' = part \/ part' = [part EXCEPT ![end.file].data = e])
      BY <2>4 DEF WriteFile
    <3>11. part' = part \/ part' = [part EXCEPT ![end.file] = x]  BY <1>1, <3>3, <3>10
    <3>. HIDE DEF x, e
    <3>. QED  BY <1>2, <2>2, <3>3, <3>8, <3>9, <3>10, <3>11
  <2>5. CASE FileCompleted(m)
    <3>. DEFINE x == part[end.file]
    <3>1. m.word = "zeof" /\ end.at = "takes"  BY <2>5 DEF FileCompleted
    <3>2. Taking  BY <1>1, <1>3, <3>1, ReceiveIs
    <3>3. end.file \in File /\ x \in Part  BY <3>2 DEF Taking
    <3>4. SizeOf(version[end.file]) \in 1 .. Chunks  BY <1>1, <3>3, VersionFits DEF Kinds
    <3>5. Len(x.data) + 1 - 1 = SizeOf(version[end.file])  BY <2>1, <3>1, <3>2 DEF Taking
    <3>6. x.data # <<>>
      <4>1. Len(x.data) \in Nat  BY <3>3 DEF Part
      <4>2. Len(x.data) # 0  BY <3>4, <3>5, <4>1
      <4>. QED  BY <4>2, Few
    <3>7. \/ part' = part /\ named' = named
          \/ part' = [part EXCEPT ![end.file] = Absent] /\ named' = named \cup {x}
      BY <2>5 DEF FileCompleted
    <3>. QED  BY <1>1, <3>3, <3>6, <3>7 DEF Lengths
  <2>6. CASE SessionCompleted(m) \/ Otherwise(m)
    BY <1>2, <2>6 DEF SessionCompleted, Otherwise
  <2>. QED  BY <1>3, <2>1, <2>3, <2>4, <2>5, <2>6 DEF Receive
<1>4. ASSUME [Next]_vars, ~Receive PROVE part' = part /\ named' = named
  BY <1>4 DEF Next, Turn, Begins, OtherSends, OtherHears, OtherFails, ConnectionEnds, Change,
      Picks, Declines, Cancel, TabCloses, CancelSeen, Waits, DrainTakes, DrainEnds, Stream,
      Takes, Told, Tick, Shows, vars
<1>. QED  BY <1>2, <1>3, <1>4

\* What has its kinds and keeps within its bounds is of its type.
LEMMA TypeHolds == TypeInv => TypeOK
<1>. SUFFICES ASSUME TypeInv PROVE TypeOK  OBVIOUS
<1>1. /\ version \in [File -> Version] /\ part \in [File -> Part \cup {Absent}] /\ helper \in Helper
      /\ Lengths /\ Placed(end) /\ Timed /\ Passed /\ Chunks \in Nat
  BY ZmodemAssumption DEF TypeInv, SizeInv, AllInv, IInv, Kinds
<1>2. ASSUME NEW f \in File, part[f] # Absent PROVE part[f].data \in BoundedSeq(Version, Chunks)
  <2>. DEFINE d == part[f].data
  <2>1. d \in Seq(Version) /\ Len(d) <= Chunks  BY <1>1, <1>2 DEF Part, Lengths
  <2>. HIDE DEF d
  <2>2. Len(d) \in 0 .. Chunks /\ d \in [1 .. Len(d) -> Version]  BY <1>1, <2>1
  <2>. QED  BY <2>2 DEF BoundedSeq, SeqOf, d
<1>3. helper.at \in {"away", "asks", "runs", "drains"}  BY <1>1 DEF Helper
<1>. QED  BY <1>1, <1>2, <1>3 DEF TypeOK, Lengths, Placed, Timed, Passed

\* It holds at first.
LEMMA TypeBegin == Init => TypeInv
<1>. SUFFICES ASSUME Init PROVE TypeInv  OBVIOUS
<1>1. AllInv  BY CleanBegin
<1>2. part = [f \in File |-> Absent] /\ named = {}  BY DEF Init
<1>3. Lengths  BY <1>2 DEF Lengths
<1>4. Fits  BY DEF Init, Fits, Live
<1>5. FromStart /\ Passed  BY DEF Init, FromStart, Passed
<1>6. Placed(end)
  <2>1. end.file = 1 /\ end.pos = 0  BY DEF Init, NoEnd
  <2>. QED  BY <2>1, ZmodemAssumption DEF Placed
<1>7. Timed
  <2>1. helper.quiet = 0 /\ silent = 0  BY DEF Init
  <2>. QED  BY <2>1, ZmodemAssumption DEF Timed
<1>. QED  BY <1>1, <1>3, <1>4, <1>5, <1>6, <1>7 DEF TypeInv, SizeInv

\* The types hold in every transfer: a part is never longer than the longest
\* version, no empty file gets its name, the helper's end stays within the file
\* it is at, and no more is written than the server takes.
THEOREM ZmodemTypeCorrect == Spec => []TypeOK
<1>1. TypeInv /\ [Next]_vars => TypeInv'
  <2>. SUFFICES ASSUME TypeInv, [Next]_vars PROVE TypeInv'  OBVIOUS
  <2>1. AllInv'  BY AllStep DEF TypeInv
  <2>. QED
    BY <2>1, LengthsStep, FitsStep, FromStartStep, PlacedStep, TimedStep, PassedStep
    DEF TypeInv, SizeInv
<1>. QED  BY TypeBegin, TypeHolds, <1>1, PTL DEF Spec
=============================================================================
