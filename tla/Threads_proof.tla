----------------------------- MODULE Threads_proof -----------------------------
(***************************************************************************)
(* Proofs about what NativeTerm does on threads of their own: a tab waits  *)
(* for its turn to connect (ConnectQueue) and then answers what ssh asks   *)
(* (LoginQuestions), and files are transferred (Transfers). The three have *)
(* no state in common; each theorem is about one of them.                  *)
(*                                                                         *)
(* ConnectQueue, for any sessions, any limit, and however late the words of *)
(* the shims arrive: that the queue keeps to its limit, and that its states, *)
(* the line of the sessions that wait among them, are of their types.      *)
(*                                                                         *)
(* LoginQuestions, for any user names and any number of connections: the   *)
(* types, that a refused password is left alone, and that a key trusted once *)
(* is forgotten.                                                           *)
(*                                                                         *)
(* Transfers, where jobs of the same folder run one after the other and no *)
(* file changes under a plan: the types; and for each file, where the side *)
(* copied to renames over a file and until a discard that came late has    *)
(* taken the part from under an upload of it, that its name shows whole    *)
(* versions and nothing else (the refinement of WholeFiles), and that      *)
(* going on doesn't skip it.  For any number of files, jobs, workers,      *)
(* chunks, changes and faults.                                             *)
(***************************************************************************)
EXTENDS ConnectQueue, LoginQuestions, Transfers, TLAPS, FiniteSetTheorems,
        SequenceTheorems, WellFoundedInduction

-----------------------------------------------------------------------------
(* The connection queue (ConnectQueue).                                    *)

Shim == {"waiting", "login", "in", "ended", "gone"}

\* The types of what counts for the limit.  (What the queue's thread has taken
\* doesn't; it comes with the rest of the types.)
RecordTypes ==
    /\ shim \in [Sessions -> Shim]
    /\ wire \in [Sessions -> {"down", "up", "closing"}]
    /\ up \in [Sessions -> Seq(Word)]
    /\ connect \subseteq Sessions
    /\ state \in [Sessions -> State]
    /\ link \subseteq Sessions
    /\ excused \subseteq Sessions

NewestWord(s) == up[s][Len(up[s])]

\* Hello is never the newest word.  What is said last of a tab where nothing
\* runs is that nothing runs there; so with every word heard, a record that
\* can be connected belongs to a tab where nothing runs.
Heeded(s) ==
    /\ up[s] # << >> => NewestWord(s) # "Hello"
    /\ wire[s] = "up" =>
         /\ up[s] = << >> /\ CanConnect(state[s]) => shim[s] \in {"waiting", "ended"}
         /\ up[s] # << >> /\ NewestWord(s) \in {"Waiting", "Ended"} =>
              shim[s] \in {"waiting", "ended"}

\* At its login because of the queue, or about to be.
Hot == {s \in Sessions \ excused : s \in connect \/ shim[s] = "login"}

\* A session the queue has told counts as connecting from then on: no word on
\* its way says otherwise.
Counted(s) ==
    /\ wire[s] = "up"
    /\ s \in connect => shim[s] \in {"waiting", "ended"} /\ up[s] = << >>
    /\ s \notin connect => up[s] \in {<< >>, <<"Connecting">>}
    /\ \/ state[s] = "Connecting"
       \/ queuePc = "mark" /\ chosen = s /\ CanConnect(state[s])

QueueInv ==
    /\ RecordTypes
    /\ \A s \in Sessions : Heeded(s)
    /\ \A s \in Hot : Counted(s)
    /\ Cardinality(Hot) <= MaxConnecting

-----------------------------------------------------------------------------
(* Words. *)

\* The newest word is the one said last.
LEMMA SaidLast ==
    ASSUME NEW words \in Seq(Word), NEW m \in Word
    PROVE  /\ Append(words, m) \in Seq(Word)
           /\ Append(words, m) # << >>
           /\ Append(words, m)[Len(Append(words, m))] = m
           /\ words = << >> => Append(words, m) = <<m>>
<1>1. Append(words, m) \in Seq(Word)  OBVIOUS
<1>2. Len(Append(words, m)) = Len(words) + 1 /\ Len(words) \in Nat  OBVIOUS
<1>3. Append(words, m)[Len(words) + 1] = m  OBVIOUS
<1>4. Append(words, m) # << >>  BY <1>2
<1>5. words = << >> => Append(words, m) = <<m>>  OBVIOUS
<1>. QED  BY <1>1, <1>2, <1>3, <1>4, <1>5

\* Hearing the oldest word leaves the newest.
LEMMA HeardFirst ==
    ASSUME NEW words \in Seq(Word), words # << >>
    PROVE  /\ Tail(words) \in Seq(Word) /\ Head(words) \in Word
           /\ Tail(words) # << >> => Tail(words)[Len(Tail(words))] = words[Len(words)]
           /\ Tail(words) = << >> => Head(words) = words[Len(words)]
           /\ \A m \in Word : words = <<m>> => Head(words) = m /\ Tail(words) = << >>
<1>1. Tail(words) \in Seq(Word) /\ Head(words) \in Word  OBVIOUS
<1>2. Len(words) \in Nat \ {0} /\ Len(Tail(words)) = Len(words) - 1  OBVIOUS
<1>3. \A i \in 1..Len(words) - 1 : Tail(words)[i] = words[i + 1]  OBVIOUS
<1>4. Head(words) = words[1]  OBVIOUS
<1>5. Tail(words) = << >> => Len(words) = 1
  <2>1. Tail(words) = << >> => Len(Tail(words)) = 0
    <3>1. Len(<< >>) = 0  OBVIOUS
    <3>. QED  BY <3>1, Zenon
  <2>2. \A n, k : n \in Nat /\ k = n - 1 /\ k = 0 => n = 1  OBVIOUS
  <2>. QED  BY <1>2, <2>1, <2>2, Zenon
<1>6. Tail(words) # << >> => Len(words) - 1 \in 1..Len(words) - 1  BY <1>1, <1>2
<1>7. Tail(words) # << >> => Tail(words)[Len(words) - 1] = words[Len(words) - 1 + 1]
  BY <1>3, <1>6
<1>8. Len(words) - 1 + 1 = Len(words)  BY <1>2
<1>9. \A m \in Word : words = <<m>> => Head(words) = m /\ Tail(words) = << >>  OBVIOUS
<1>. QED  BY <1>1, <1>2, <1>4, <1>5, <1>7, <1>8, <1>9

\* A link that comes up repeats where its shim is.
LEMMA Repeated ==
    ASSUME NEW st \in Shim \ {"gone"}
    PROVE  /\ Replay(st) \in Seq(Word)
           /\ Replay(st) # << >>
           /\ Replay(st)[Len(Replay(st))] # "Hello"
           /\ Replay(st)[Len(Replay(st))] \in {"Waiting", "Ended"} => st \in {"waiting", "ended"}
<1>1. CASE st = "waiting"  BY <1>1 DEF Replay, Word
<1>2. CASE st = "login"  BY <1>2 DEF Replay, Word
<1>3. CASE st = "in"  BY <1>3 DEF Replay, Word
<1>4. CASE st = "ended"  BY <1>4 DEF Replay, Word
<1>. QED  BY <1>1, <1>2, <1>3, <1>4 DEF Shim

\* Where no further session is at its login, the limit is kept.
LEMMA Fewer ==
    ASSUME QueueInv, Hot' \subseteq Hot
    PROVE  Cardinality(Hot)' <= MaxConnecting
<1>1. IsFiniteSet(Hot)
  BY ConnectQueueAssumption, FS_Subset, Hot \subseteq Sessions DEF Hot
<1>2. /\ Cardinality(Hot') <= Cardinality(Hot)
      /\ Cardinality(Hot') \in Nat /\ Cardinality(Hot) \in Nat
  BY <1>1, FS_Subset, FS_CardinalityType
<1>3. Cardinality(Hot) <= MaxConnecting  BY DEF QueueInv
<1>4. MaxConnecting \in Nat  BY ConnectQueueAssumption
<1>. QED  BY <1>2, <1>3, <1>4

-----------------------------------------------------------------------------
(* The steps of a shim and its link change what is known of one session.   *)

\* Everything but the session s stays as it is.
Only(s) ==
    /\ \A t \in Sessions \ {s} :
         /\ shim'[t] = shim[t] /\ wire'[t] = wire[t] /\ up'[t] = up[t]
         /\ state'[t] = state[t]
         /\ t \in connect' <=> t \in connect
         /\ t \in excused' <=> t \in excused
    /\ UNCHANGED <<queuePc, chosen>>

\* Such a step keeps the invariant if it does so for its session, and doesn't
\* bring it to its login.
LEMMA OneSession ==
    ASSUME QueueInv, NEW s \in Sessions, Only(s), RecordTypes',
           Heeded(s)', s \in Hot' => s \in Hot /\ Counted(s)'
    PROVE  QueueInv'
<1>1. ASSUME NEW t \in Sessions  PROVE Heeded(t)'
  <2>1. CASE t = s  BY <2>1
  <2>2. CASE t # s
    <3>1. /\ up'[t] = up[t] /\ wire'[t] = wire[t] /\ shim'[t] = shim[t]
          /\ state'[t] = state[t]
      BY <2>2 DEF Only
    <3>2. Heeded(t)  BY DEF QueueInv
    <3>. QED  BY <3>1, <3>2 DEF Heeded, NewestWord
  <2>. QED  BY <2>1, <2>2
<1>2. ASSUME NEW t \in Sessions, t \in Hot'  PROVE t \in Hot /\ Counted(t)'
  <2>1. CASE t = s  BY <2>1, <1>2
  <2>2. CASE t # s
    <3>1. t \in Hot  BY <2>2, <1>2 DEF Only, Hot
    <3>2. Counted(t)  BY <3>1 DEF QueueInv
    <3>. QED  BY <2>2, <3>1, <3>2 DEF Only, Counted
  <2>. QED  BY <2>1, <2>2
<1>3. Hot' \subseteq Hot /\ \A t \in Hot' : Counted(t)'
  BY <1>2 DEF Hot
<1>4. Cardinality(Hot)' <= MaxConnecting  BY <1>3, Fewer
<1>. QED  BY <1>1, <1>3, <1>4 DEF QueueInv

\* What a shim says when its ssh starts, logs in or ends.
LEMMA Spoken ==
    ASSUME QueueInv, NEW s \in Sessions, NEW m \in Word \ {"Hello"}, Say(s, m)
    PROVE  /\ up' \in [Sessions -> Seq(Word)]
           /\ \A t \in Sessions \ {s} : up'[t] = up[t]
           /\ wire[s] = "up" => up'[s] # << >> /\ NewestWord(s)' = m
           /\ wire[s] = "up" /\ up[s] = << >> => up'[s] = <<m>>
           /\ wire[s] # "up" => up'[s] = up[s]
<1>1. up \in [Sessions -> Seq(Word)] /\ up[s] \in Seq(Word)  BY DEF QueueInv, RecordTypes
<1>2. up'[s] = IF wire[s] = "up" THEN Append(up[s], m) ELSE up[s]
  BY <1>1 DEF Say
<1>3. up' \in [Sessions -> Seq(Word)] /\ \A t \in Sessions \ {s} : up'[t] = up[t]
  BY <1>1, SaidLast DEF Say
<1>. QED  BY <1>1, <1>2, <1>3, SaidLast DEF NewestWord

\* A word said in a step keeps the newest word true of the tab.
LEMMA SpokenHeeded ==
    ASSUME QueueInv, NEW s \in Sessions, NEW m \in Word \ {"Hello"}, Say(s, m),
           wire'[s] = wire[s],
           m \in {"Waiting", "Ended"} => shim'[s] \in {"waiting", "ended"}
    PROVE  Heeded(s)'
<1>1. Heeded(s)  BY DEF QueueInv
<1>2. CASE wire[s] = "up"  BY <1>2, Spoken DEF Heeded
<1>3. CASE wire[s] # "up"  BY <1>1, <1>3, Spoken DEF Heeded, NewestWord
<1>. QED  BY <1>2, <1>3

\* A Connect that is heard starts ssh; the session was on its way to its login
\* before.
LEMMA HearConnectStep ==
    ASSUME QueueInv, NEW s \in Sessions, HearConnect(s)
    PROVE  QueueInv'
<1>. USE DEF HearConnect, records, queue
<1>1. CASE shim[s] \in {"waiting", "ended"}
  <2>1. shim' = [shim EXCEPT ![s] = "login"] /\ Say(s, "Connecting")  BY <1>1
  <2>2. RecordTypes'  BY <2>1, Spoken, "Connecting" \in Word DEF QueueInv, RecordTypes, Word, Shim
  <2>3. shim'[s] = "login" /\ \A t \in Sessions \ {s} : shim'[t] = shim[t]
    BY <2>1 DEF QueueInv, RecordTypes
  <2>4. Only(s)  BY <2>1, <2>3, Spoken DEF Only, Word
  <2>5. Heeded(s)'  BY <2>1, SpokenHeeded DEF Word
  <2>6. ASSUME s \in Hot'  PROVE s \in Hot /\ Counted(s)'
    <3>1. s \in Hot  BY <2>6 DEF Hot
    <3>2. Counted(s)  BY <3>1 DEF QueueInv
    <3>3. up'[s] = <<"Connecting">>  BY <2>1, <3>2, Spoken DEF Counted, Word
    <3>. QED  BY <3>1, <3>2, <3>3 DEF Counted
  <2>. QED  BY <2>2, <2>4, <2>5, <2>6, OneSession
<1>2. CASE shim[s] \notin {"waiting", "ended"}
  <2>1. UNCHANGED <<shim, up, wire, state, link, excused, queuePc, chosen>>  BY <1>2
  <2>2. RecordTypes'  BY <2>1 DEF QueueInv, RecordTypes
  <2>3. Only(s)  BY <2>1 DEF Only
  <2>4. Heeded(s)'  BY <2>1 DEF QueueInv, Heeded, NewestWord
  <2>5. s \notin Hot'
    <3>1. s \in Hot => Counted(s)  BY DEF QueueInv
    <3>. QED  BY <1>2, <2>1, <3>1 DEF Hot, Counted
  <2>. QED  BY <2>2, <2>3, <2>4, <2>5, OneSession
<1>. QED  BY <1>1, <1>2

\* The person connects in the tab: excused.
LEMMA PressRStep ==
    ASSUME QueueInv, NEW s \in Sessions, PressR(s)
    PROVE  QueueInv'
<1>. USE DEF PressR, records, queue
<1>1. RecordTypes'  BY Spoken, "Connecting" \in Word DEF QueueInv, RecordTypes, Word, Shim
<1>2. shim'[s] = "login" /\ \A t \in Sessions \ {s} : shim'[t] = shim[t]
  BY DEF QueueInv, RecordTypes
<1>3. Only(s)  BY <1>2, Spoken DEF Only, Word
<1>4. Heeded(s)'  BY SpokenHeeded DEF Word
<1>5. s \notin Hot'  BY DEF Hot
<1>. QED  BY <1>1, <1>3, <1>4, <1>5, OneSession

\* A login is over.
LEMMA LogInStep ==
    ASSUME QueueInv, NEW s \in Sessions, LogIn(s)
    PROVE  QueueInv'
<1>. USE DEF LogIn, records, queue
<1>1. RecordTypes'  BY Spoken, "In" \in Word DEF QueueInv, RecordTypes, Word, Shim
<1>2. shim'[s] = "in" /\ \A t \in Sessions \ {s} : shim'[t] = shim[t]
  BY DEF QueueInv, RecordTypes
<1>3. Only(s)  BY <1>2, Spoken DEF Only, Word
<1>4. Heeded(s)'  BY SpokenHeeded DEF Word
<1>5. s \notin Hot'
  <2>1. s \in Hot => Counted(s)  BY DEF QueueInv
  <2>. QED  BY <1>2, <2>1 DEF Hot, Counted
<1>. QED  BY <1>1, <1>3, <1>4, <1>5, OneSession

\* So is one that ends with its ssh.
LEMMA SshExitsStep ==
    ASSUME QueueInv, NEW s \in Sessions, SshExits(s)
    PROVE  QueueInv'
<1>. USE DEF SshExits, records, queue
<1>1. RecordTypes'  BY Spoken, "Ended" \in Word DEF QueueInv, RecordTypes, Word, Shim
<1>2. shim'[s] = "ended" /\ \A t \in Sessions \ {s} : shim'[t] = shim[t]
  BY DEF QueueInv, RecordTypes
<1>3. Only(s)  BY <1>2, Spoken DEF Only, Word
<1>4. Heeded(s)'  BY <1>2, SpokenHeeded DEF Word
<1>5. s \notin Hot'
  <2>1. s \in Hot => Counted(s)  BY DEF QueueInv
  <2>. QED  BY <1>2, <2>1 DEF Hot, Counted
<1>. QED  BY <1>1, <1>3, <1>4, <1>5, OneSession

\* A tab is closed.
LEMMA TabClosesStep ==
    ASSUME QueueInv, NEW s \in Sessions, TabCloses(s)
    PROVE  QueueInv'
<1>. USE DEF TabCloses, records, queue
<1>1. RecordTypes'  BY DEF QueueInv, RecordTypes, Shim
<1>2. /\ shim'[s] = "gone" /\ wire'[s] # "up"
      /\ \A t \in Sessions \ {s} : shim'[t] = shim[t] /\ wire'[t] = wire[t]
  BY DEF QueueInv, RecordTypes
<1>3. Only(s)  BY <1>2 DEF Only
<1>4. Heeded(s)  BY DEF QueueInv
<1>5. Heeded(s)'  BY <1>2, <1>4 DEF Heeded, NewestWord
<1>6. s \notin Hot'  BY <1>2 DEF Hot
<1>. QED  BY <1>1, <1>3, <1>5, <1>6, OneSession

\* A link comes up: no session at its login had none, but for those excused.
LEMMA LinkUpStep ==
    ASSUME QueueInv, NEW s \in Sessions, LinkUp(s)
    PROVE  QueueInv'
<1>. USE DEF LinkUp, records, queue
<1>1. shim[s] \in Shim \ {"gone"}  BY DEF QueueInv, RecordTypes
<1>2. /\ wire'[s] = "up" /\ up'[s] = Replay(shim[s])
      /\ \A t \in Sessions \ {s} : wire'[t] = wire[t] /\ up'[t] = up[t]
  BY DEF QueueInv, RecordTypes
<1>3. RecordTypes'  BY <1>1, Repeated DEF QueueInv, RecordTypes
<1>4. Only(s)  BY <1>2 DEF Only
<1>5. Heeded(s)'  BY <1>1, <1>2, Repeated DEF Heeded, NewestWord
<1>6. s \notin Hot'
  <2>1. s \in Hot => Counted(s)  BY DEF QueueInv
  <2>. QED  BY <2>1 DEF Hot, Counted
<1>. QED  BY <1>3, <1>4, <1>5, <1>6, OneSession

\* A link breaks: its Connect is lost, and a login under way is excused.
LEMMA BreakStep ==
    ASSUME QueueInv, NEW s \in Sessions, Break(s)
    PROVE  QueueInv'
<1>. USE DEF Break, records, queue
<1>1. RecordTypes'  BY DEF QueueInv, RecordTypes
<1>2. wire'[s] = "closing" /\ \A t \in Sessions \ {s} : wire'[t] = wire[t]
  BY DEF QueueInv, RecordTypes
<1>3. Only(s)  BY <1>2 DEF Only
<1>4. Heeded(s)  BY DEF QueueInv
<1>5. Heeded(s)'  BY <1>2, <1>4 DEF Heeded, NewestWord
<1>6. s \notin Hot'  BY DEF Hot
<1>. QED  BY <1>1, <1>3, <1>5, <1>6, OneSession

-----------------------------------------------------------------------------
(* NativeTerm's records. *)

\* Only what is heard of a tab where nothing runs makes a record that can be
\* connected, or leaves one as it was.
LEMMA AppliedRecord ==
    ASSUME NEW st \in State, NEW m \in Word
    PROVE  /\ Applied(st, m) \in State
           /\ m # "Hello" /\ CanConnect(Applied(st, m)) => m \in {"Waiting", "Ended"}
           /\ m = "Connecting" => Applied(st, m) = "Connecting"
<1>1. CASE m = "Hello"  BY <1>1 DEF Applied, State, IsOpen
<1>2. CASE m = "Waiting"  BY <1>2 DEF Applied, State
<1>3. CASE m = "Connecting"  BY <1>3 DEF Applied, State, CanConnect
<1>4. CASE m = "In"  BY <1>4 DEF Applied, State, CanConnect
<1>5. CASE m = "Ended"  BY <1>5 DEF Applied, State
<1>. QED  BY <1>1, <1>2, <1>3, <1>4, <1>5 DEF Word

\* NativeTerm hears a word: of a session at its login, only Connecting.
LEMMA HearStepKeeps ==
    ASSUME QueueInv, NEW s \in Sessions, Hear(s)
    PROVE  QueueInv'
<1>. DEFINE m == Head(up[s])
<1>. USE DEF Hear
<1>1. up[s] \in Seq(Word) /\ up[s] # << >> /\ state[s] \in State  BY DEF QueueInv, RecordTypes
<1>2. m \in Word /\ Tail(up[s]) \in Seq(Word)  BY <1>1, HeardFirst
<1>3. /\ up'[s] = Tail(up[s]) /\ state'[s] = Applied(state[s], m)
      /\ \A t \in Sessions \ {s} : up'[t] = up[t] /\ state'[t] = state[t]
  BY DEF QueueInv, RecordTypes
<1>4. RecordTypes'
  <2>1. up' \in [Sessions -> Seq(Word)]  BY <1>2 DEF QueueInv, RecordTypes
  <2>2. state' \in [Sessions -> State]  BY <1>1, <1>2, AppliedRecord DEF QueueInv, RecordTypes
  <2>3. link' \subseteq Sessions  BY DEF QueueInv, RecordTypes
  <2>. QED  BY <2>1, <2>2, <2>3 DEF QueueInv, RecordTypes
<1>5. Only(s)  BY <1>3 DEF Only
<1>6. Heeded(s)  BY DEF QueueInv
<1>7. Heeded(s)'
  <2>1. CASE Tail(up[s]) # << >>
    <3>1. up'[s] # << >> /\ NewestWord(s)' = NewestWord(s)
      BY <1>1, <1>3, <2>1, HeardFirst DEF NewestWord
    <3>. QED  BY <1>1, <1>6, <3>1 DEF Heeded
  <2>2. CASE Tail(up[s]) = << >>
    <3>1. m = NewestWord(s) /\ m # "Hello" /\ up'[s] = << >>
      BY <1>1, <1>3, <1>6, <2>2, HeardFirst DEF NewestWord, Heeded
    <3>2. CanConnect(state'[s]) => m \in {"Waiting", "Ended"}
      BY <1>1, <1>2, <1>3, <3>1, AppliedRecord
    <3>. QED  BY <1>1, <1>6, <3>1, <3>2 DEF Heeded
  <2>. QED  BY <2>1, <2>2
<1>8. ASSUME s \in Hot'  PROVE s \in Hot /\ Counted(s)'
  <2>1. s \in Hot  BY <1>8 DEF Hot
  <2>2. Counted(s)  BY <2>1 DEF QueueInv
  <2>3. up[s] = <<"Connecting">> /\ s \notin connect  BY <1>1, <2>2 DEF Counted
  <2>4. m = "Connecting" /\ up'[s] = << >>
    BY <1>1, <1>3, <2>3, HeardFirst DEF Word
  <2>5. state'[s] = "Connecting"  BY <1>1, <1>2, <1>3, <2>4, AppliedRecord
  <2>. QED  BY <2>1, <2>2, <2>3, <2>4, <2>5 DEF Counted
<1>. QED  BY <1>4, <1>5, <1>7, <1>8, OneSession

\* A link has been read to its end.
LEMMA LinkEndsStep ==
    ASSUME QueueInv, NEW s \in Sessions, LinkEnds(s)
    PROVE  QueueInv'
<1>. USE DEF LinkEnds, queue
<1>1. RecordTypes'  BY DEF QueueInv, RecordTypes, State
<1>2. /\ wire'[s] = "down"
      /\ \A t \in Sessions \ {s} : wire'[t] = wire[t] /\ state'[t] = state[t]
  BY DEF QueueInv, RecordTypes
<1>3. Only(s)  BY <1>2 DEF Only
<1>4. Heeded(s)'  BY <1>2 DEF Heeded, NewestWord
<1>5. s \notin Hot'
  <2>1. s \in Hot => Counted(s)  BY DEF QueueInv
  <2>. QED  BY <2>1 DEF Hot, Counted
<1>. QED  BY <1>1, <1>3, <1>4, <1>5, OneSession

-----------------------------------------------------------------------------
(* The queue's thread. *)

\* What a step that leaves shims and records alone keeps.
LEMMA Untouched ==
    ASSUME QueueInv, UNCHANGED <<shims, state, link, excused>>,
           queuePc # "mark", queuePc' # "mark"
    PROVE  QueueInv'
<1>. USE DEF shims
<1>1. RecordTypes'  BY DEF QueueInv, RecordTypes
<1>2. \A s \in Sessions : Heeded(s)'  BY DEF QueueInv, Heeded, NewestWord
<1>3. Hot' = Hot  BY DEF Hot
<1>4. \A s \in Hot' : Counted(s)'  BY <1>3 DEF QueueInv, Counted
<1>5. Cardinality(Hot)' <= MaxConnecting  BY <1>3, Fewer
<1>. QED  BY <1>1, <1>2, <1>4, <1>5 DEF QueueInv

\* The queue chooses a session.
LEMMA QueueLookStep ==
    ASSUME QueueInv, QueueLook
    PROVE  QueueInv'
<1>1. queuePc = "look" /\ UNCHANGED <<shims, records, events, excused>>
  BY DEF QueueLook
<1>2. queuePc' \in {"look", "slot"}  BY DEF QueueLook
<1>. QED  BY <1>1, <1>2, Untouched DEF records

\* The queue puts its session back.
LEMMA QueuePutsBackStep ==
    ASSUME QueueInv, QueuePutsBack
    PROVE  QueueInv'
BY Untouched DEF QueuePutsBack, records

\* Where there is a slot, one more session may be at its login; every other
\* one that is counts as connecting.
LEMMA QueueTellStep ==
    ASSUME QueueInv, QueueTell
    PROVE  QueueInv'
<1>. USE DEF QueueTell
<1>1. chosen \in Sessions  BY DEF QueueInv, RecordTypes
<1>2. /\ wire[chosen] = "up" /\ up[chosen] = << >> /\ chosen \notin connect
      /\ connect' = connect \cup {chosen}
      /\ UNCHANGED <<shim, wire, up, state, link, chosen>>
  BY DEF Heard, records
<1>3. queuePc = "slot" /\ queuePc' = "mark"  OBVIOUS
<1>4. excused' \subseteq Sessions /\ excused \subseteq excused'
  BY <1>1 DEF QueueInv, RecordTypes
<1>5. RecordTypes'  BY <1>1, <1>2, <1>4 DEF QueueInv, RecordTypes
<1>6. \A s \in Sessions : Heeded(s)'  BY <1>2 DEF QueueInv, Heeded, NewestWord
<1>7. \A s \in Hot : Counted(s) /\ state[s] = "Connecting"
  BY <1>3 DEF QueueInv, Counted
<1>8. Hot \subseteq Connecting  BY <1>7 DEF Hot, Connecting
<1>9. CASE Cardinality(Connecting) < MaxConnecting /\ CanConnect(state[chosen])
  <2>1. shim[chosen] \in {"waiting", "ended"}  BY <1>1, <1>2, <1>9 DEF QueueInv, Heeded
  <2>2. excused' = excused  BY <1>9
  <2>3. Hot' \subseteq Hot \cup {chosen}  BY <1>2, <2>2 DEF Hot
  <2>4. \A s \in Hot' : Counted(s)'
    <3>1. ASSUME NEW s \in Hot', s # chosen  PROVE Counted(s)'
      BY <1>2, <1>7, <2>3, <3>1 DEF Counted
    <3>2. Counted(chosen)'  BY <1>2, <1>3, <1>9, <2>1 DEF Counted
    <3>. QED  BY <3>1, <3>2
  <2>5. Cardinality(Hot') <= MaxConnecting
    <3>1. IsFiniteSet(Connecting)
      BY ConnectQueueAssumption, FS_Subset, Connecting \subseteq Sessions DEF Connecting
    <3>2. IsFiniteSet(Hot) /\ Cardinality(Hot) <= Cardinality(Connecting)
      BY <1>8, <3>1, FS_Subset
    <3>3. /\ IsFiniteSet(Hot \cup {chosen})
          /\ Cardinality(Hot \cup {chosen}) <= Cardinality(Hot) + 1
      <4>1. Cardinality(Hot) \in Nat  BY <3>2, FS_CardinalityType
      <4>2. /\ IsFiniteSet(Hot \cup {chosen})
            /\ Cardinality(Hot \cup {chosen}) =
                 IF chosen \in Hot THEN Cardinality(Hot) ELSE Cardinality(Hot) + 1
        BY <3>2, FS_AddElement, Zenon
      <4>. QED  BY <4>1, <4>2
    <3>4. Cardinality(Hot') <= Cardinality(Hot \cup {chosen}) /\ IsFiniteSet(Hot')
      BY <2>3, <3>3, FS_Subset
    <3>5. /\ Cardinality(Hot) \in Nat /\ Cardinality(Connecting) \in Nat
          /\ Cardinality(Hot') \in Nat /\ Cardinality(Hot \cup {chosen}) \in Nat
      BY <3>1, <3>2, <3>3, <3>4, FS_CardinalityType
    <3>. QED  BY <1>9, <3>2, <3>3, <3>4, <3>5, ConnectQueueAssumption
  <2>. QED  BY <1>5, <1>6, <2>4, <2>5 DEF QueueInv
<1>10. CASE ~(Cardinality(Connecting) < MaxConnecting /\ CanConnect(state[chosen]))
  <2>1. excused' = excused \cup {chosen}  BY <1>10
  <2>2. Hot' \subseteq Hot /\ chosen \notin Hot'  BY <1>2, <2>1 DEF Hot
  <2>3. \A s \in Hot' : Counted(s)'  BY <1>2, <1>7, <2>2 DEF Counted
  <2>4. Cardinality(Hot)' <= MaxConnecting  BY <2>2, Fewer
  <2>. QED  BY <1>5, <1>6, <2>3, <2>4 DEF QueueInv
<1>. QED  BY <1>9, <1>10

\* The queue marks the session it told: it counts from here on.
LEMMA QueueMarkStep ==
    ASSUME QueueInv, QueueMark
    PROVE  QueueInv'
<1>. USE DEF QueueMark, shims
<1>1. /\ UNCHANGED <<shim, wire, up, connect, link, excused>>
      /\ queuePc = "mark" /\ queuePc' = "look"
  OBVIOUS
<1>2. state' \in [Sessions -> State]
  BY DEF QueueInv, RecordTypes, State
<1>3. \A s \in Sessions : state'[s] = IF s = chosen /\ CanConnect(state[s])
                                       THEN "Connecting" ELSE state[s]
  BY DEF QueueInv, RecordTypes
<1>4. RecordTypes'  BY <1>1, <1>2 DEF QueueInv, RecordTypes
<1>5. \A s \in Sessions : Heeded(s)'
  BY <1>1, <1>3 DEF QueueInv, Heeded, NewestWord, CanConnect
<1>6. Hot' = Hot /\ Hot \subseteq Sessions  BY <1>1 DEF Hot
<1>7. \A s \in Hot' : Counted(s)'
  BY <1>1, <1>3, <1>6 DEF QueueInv, Counted
<1>8. Cardinality(Hot)' <= MaxConnecting  BY <1>6, Fewer
<1>. QED  BY <1>4, <1>5, <1>7, <1>8 DEF QueueInv

\* A session is queued once more.
LEMMA AskStep ==
    ASSUME QueueInv, NEW s \in Sessions, Ask(s)
    PROVE  QueueInv'
<1>. USE DEF Ask, shims, records
<1>1. UNCHANGED <<shim, wire, up, connect, state, link, chosen, queuePc, excused>>
  OBVIOUS
<1>2. RecordTypes'  BY <1>1 DEF QueueInv, RecordTypes
<1>3. Only(s)  BY <1>1 DEF Only
<1>4. Heeded(s)'  BY <1>1 DEF QueueInv, Heeded, NewestWord
<1>5. s \in Hot' => s \in Hot /\ Counted(s)'  BY <1>1 DEF QueueInv, Hot, Counted
<1>. QED  BY <1>2, <1>3, <1>4, <1>5, OneSession

-----------------------------------------------------------------------------
(* The theorem. *)

\* The invariant holds where the tabs were just opened.
LEMMA QueueBegins == QueueInit => QueueInv
<1>. SUFFICES ASSUME QueueInit PROVE QueueInv  OBVIOUS
<1>. USE DEF QueueInit
<1>1. RecordTypes  BY DEF RecordTypes, Shim, State
<1>2. \A s \in Sessions : Heeded(s)  BY DEF Heeded
<1>3. Hot = {}  BY DEF Hot
<1>4. Cardinality(Hot) <= MaxConnecting
  BY <1>3, FS_EmptySet, ConnectQueueAssumption
<1>. QED  BY <1>1, <1>2, <1>3, <1>4 DEF QueueInv

\* Every step keeps it.
LEMMA QueueGoes == QueueInv /\ [QueueNext]_queueVars => QueueInv'
<1>. SUFFICES ASSUME QueueInv, [QueueNext]_queueVars PROVE QueueInv'  OBVIOUS
<1>1. CASE QueueStep
  BY <1>1, QueueLookStep, QueueTellStep, QueuePutsBackStep, QueueMarkStep DEF QueueStep
<1>2. ASSUME NEW s \in Sessions,
             \/ HearStep(s) \/ HearConnect(s) \/ LinkUp(s) \/ PressR(s)
             \/ LogIn(s) \/ SshExits(s) \/ TabCloses(s) \/ Break(s) \/ Ask(s)
      PROVE  QueueInv'
  BY <1>2, HearStepKeeps, LinkEndsStep, HearConnectStep, LinkUpStep, PressRStep,
     LogInStep, SshExitsStep, TabClosesStep, BreakStep, AskStep DEF HearStep
<1>3. CASE UNCHANGED queueVars
  <2>1. UNCHANGED <<shim, wire, up, connect, state, link, chosen, queuePc, excused>>
    BY <1>3 DEF queueVars, shims, records, queue
  <2>2. RecordTypes'  BY <2>1 DEF QueueInv, RecordTypes
  <2>3. \A s \in Sessions : Heeded(s)'  BY <2>1 DEF QueueInv, Heeded, NewestWord
  <2>4. Hot' = Hot  BY <2>1 DEF Hot
  <2>5. \A s \in Hot' : Counted(s)'  BY <2>1, <2>4 DEF QueueInv, Counted
  <2>6. Cardinality(Hot)' <= MaxConnecting  BY <2>4, Fewer
  <2>. QED  BY <2>2, <2>3, <2>5, <2>6 DEF QueueInv
<1>. QED  BY <1>1, <1>2, <1>3 DEF QueueNext

\* The queue keeps to MAX_CONNECTING (connect_queue::run): no more sessions
\* than that are at their logins at a time, but for those excused, whatever
\* their number, and however late the shims' words arrive.
THEOREM LoginsBoundedEver == QueueSpec => []LoginsBounded
<1>1. QueueInv => LoginsBounded
  <2>. SUFFICES ASSUME QueueInv PROVE LoginsBounded  OBVIOUS
  <2>1. IsFiniteSet(Hot)
    BY ConnectQueueAssumption, FS_Subset, Hot \subseteq Sessions DEF Hot
  <2>2. LoggingIn \ excused \subseteq Hot  BY DEF LoggingIn, Hot
  <2>3. /\ Cardinality(LoggingIn \ excused) <= Cardinality(Hot)
        /\ IsFiniteSet(LoggingIn \ excused)
    BY <2>1, <2>2, FS_Subset
  <2>4. Cardinality(LoggingIn \ excused) \in Nat /\ Cardinality(Hot) \in Nat
    BY <2>1, <2>3, FS_CardinalityType
  <2>5. Cardinality(Hot) <= MaxConnecting /\ MaxConnecting \in Nat
    BY ConnectQueueAssumption DEF QueueInv
  <2>. QED  BY <2>3, <2>4, <2>5 DEF LoginsBounded
<1>. QED  BY <1>1, QueueBegins, QueueGoes, PTL DEF QueueSpec

-----------------------------------------------------------------------------
(* Lines are folded by the community modules over the set of their places. *)

\* Induction over the natural numbers, for a set.
LEMMA SetInduction ==
    ASSUME NEW S, 0 \in S, \A n \in Nat : n \in S => n + 1 \in S
    PROVE  \A n \in Nat : n \in S
<1>. DEFINE Out == Nat \ S
            Less == {p \in Nat \X Nat : p[1] < p[2]}
<1>1. IsWellFoundedOn(Less, Nat)  BY NatLessThanWellFounded DEF OpToRel
<1>2. ASSUME Out # {} PROVE FALSE
  <2>. HIDE DEF Less
  <2>1. PICK x \in Out : \A y \in Out : ~(<<y, x>> \in Less)  BY <1>1, <1>2, WFMin
  <2>2. x # 0 /\ x \in Nat  OBVIOUS
  <2>3. x - 1 \in Nat /\ x - 1 < x /\ (x - 1) + 1 = x  BY <2>2
  <2>4. <<x - 1, x>> \in Less  BY <2>2, <2>3 DEF Less
  <2>5. x - 1 \in S  BY <2>1, <2>3, <2>4
  <2>. QED  BY <2>3, <2>5
<1>. QED  BY <1>2

\* The greatest of the first places.
LEMMA MaxIs ==
    ASSUME NEW k \in Nat, NEW t \in SUBSET (1 .. k + 1), k + 1 \in t
    PROVE  Max(t) = k + 1 /\ t \ {k + 1} \in SUBSET (1 .. k)
<1>1. \A y \in t : k + 1 >= y  OBVIOUS
<1>2. \A x \in t : (\A y \in t : x >= y) => x = k + 1  OBVIOUS
<1>3. Max(t) = k + 1  BY <1>1, <1>2 DEF Max
<1>. QED  BY <1>3

\* The greatest of some of the first places is one of them.
LEMMA MaxIn ==
    ASSUME NEW n \in Nat
    PROVE  \A t \in SUBSET (1 .. n) : t # {} => Max(t) \in 1 .. n
<1>. DEFINE Top(k) == \A t \in SUBSET (1 .. k) : t # {} => Max(t) \in 1 .. k
            S == {k \in Nat : Top(k)}
<1>1. 0 \in S
  <2>1. \A t \in SUBSET (1 .. 0) : t = {}  OBVIOUS
  <2>. QED  BY <2>1
<1>2. ASSUME NEW k \in Nat, k \in S PROVE k + 1 \in S
  <2>1. ASSUME NEW t \in SUBSET (1 .. k + 1), t # {} PROVE Max(t) \in 1 .. k + 1
    <3>1. CASE k + 1 \in t
      <4>1. Max(t) = k + 1  BY <3>1, MaxIs
      <4>. QED  BY <4>1
    <3>2. CASE k + 1 \notin t
      <4>1. t \in SUBSET (1 .. k)  BY <3>2
      <4>2. Max(t) \in 1 .. k  BY <1>2, <2>1, <4>1
      <4>. QED  BY <4>2
    <3>. QED  BY <3>1, <3>2
  <2>. QED  BY <2>1
<1>3. \A k \in Nat : k \in S
  <2>. HIDE DEF S
  <2>. QED  BY <1>1, <1>2, SetInduction
<1>4. Top(n)
  <2>. HIDE DEF Top
  <2>. QED  BY <1>3
<1>. QED  BY <1>4

\* What is made of each set of the first places: of the last of them and of
\* what was made of the ones before.
Through(f, base, A, n, g) ==
    /\ f \in [SUBSET (1 .. n) -> A]
    /\ \A t \in SUBSET (1 .. n) : f[t] = IF t = {} THEN base ELSE g[f[t \ {Max(t)}], Max(t)]

\* Places can be gone through one after the other, by a function of what was
\* made of the ones before and of the place.
LEMMA GoneThrough ==
    ASSUME NEW base, NEW A, base \in A, NEW n \in Nat, NEW g \in [A \X (1 .. n) -> A]
    PROVE  \E f : Through(f, base, A, n, g)
<1>. DEFINE Value(f, t) == IF t = {} THEN base ELSE g[f[t \ {Max(t)}], Max(t)]
            Passes(f, k) == /\ f \in [SUBSET (1 .. k) -> A]
                            /\ \A t \in SUBSET (1 .. k) : f[t] = Value(f, t)
            S == {k \in Nat : k <= n => \E f : Passes(f, k)}
<1>1. 0 \in S
  <2>. DEFINE f == [t \in SUBSET (1 .. 0) |-> base]
  <2>1. \A t \in SUBSET (1 .. 0) : t = {}  OBVIOUS
  <2>2. f \in [SUBSET (1 .. 0) -> A]  OBVIOUS
  <2>3. \A t \in SUBSET (1 .. 0) : f[t] = Value(f, t)  BY <2>1
  <2>. HIDE DEF f, Value
  <2>4. Passes(f, 0)  BY <2>2, <2>3
  <2>. QED  BY <2>4
<1>2. ASSUME NEW k \in Nat, k \in S PROVE k + 1 \in S
  <2>. SUFFICES ASSUME k + 1 <= n PROVE \E f : Passes(f, k + 1)
    <3>. HIDE DEF Passes
    <3>. QED  OBVIOUS
  <2>1. PICK f : Passes(f, k)
    <3>1. k <= n  OBVIOUS
    <3>. HIDE DEF Passes
    <3>. QED  BY <1>2, <3>1
  <2>. DEFINE h == [t \in SUBSET (1 .. k + 1) |->
                    IF k + 1 \in t THEN g[f[t \ {k + 1}], k + 1] ELSE f[t]]
  <2>2. \A t \in SUBSET (1 .. k) : /\ t \in SUBSET (1 .. k + 1) /\ k + 1 \notin t /\ h[t] = f[t]
                                   /\ f[t] \in A
    <3>1. f \in [SUBSET (1 .. k) -> A]  BY <2>1
    <3>2. \A t \in SUBSET (1 .. k) : t \in SUBSET (1 .. k + 1) /\ k + 1 \notin t
      OBVIOUS
    <3>4. \A t \in SUBSET (1 .. k + 1) : k + 1 \notin t => h[t] = f[t]
      OBVIOUS
    <3>3. \A t \in SUBSET (1 .. k) : f[t] \in A  BY <3>1, Zenon
    <3>. HIDE DEF h
    <3>. QED  BY <3>2, <3>3, <3>4
  <2>3. ASSUME NEW t \in SUBSET (1 .. k + 1) PROVE h[t] = Value(h, t) /\ h[t] \in A
    <3>1. CASE k + 1 \in t
      <4>1. Max(t) = k + 1 /\ t \ {k + 1} \in SUBSET (1 .. k) /\ t # {}  BY <3>1, MaxIs
      <4>2. h[t] = g[f[t \ {k + 1}], k + 1]  BY <3>1
      <4>3. h[t \ {k + 1}] = f[t \ {k + 1}] /\ f[t \ {k + 1}] \in A  BY <2>2, <4>1
      <4>4. h[t] = Value(h, t)
        <5>. HIDE DEF h
        <5>. QED  BY <4>1, <4>2, <4>3
      <4>5. <<f[t \ {k + 1}], k + 1>> \in A \X (1 .. n)
        <5>1. k + 1 \in 1 .. n  OBVIOUS
        <5>. QED  BY <4>3, <5>1
      <4>6. g[f[t \ {k + 1}], k + 1] \in A  BY <4>5
      <4>. QED  BY <4>2, <4>4, <4>6
    <3>2. CASE k + 1 \notin t
      <4>1. t \in SUBSET (1 .. k)  BY <3>2
      <4>2. h[t] = f[t] /\ f[t] = Value(f, t) /\ f[t] \in A
        <5>1. f[t] = Value(f, t)
          <6>. HIDE DEF Value
          <6>. QED  BY <2>1, <4>1
        <5>. QED  BY <2>2, <4>1, <5>1
      <4>3. h[t \ {Max(t)}] = f[t \ {Max(t)}]
        <5>1. t \ {Max(t)} \in SUBSET (1 .. k)  BY <4>1
        <5>. HIDE DEF h
        <5>. QED  BY <2>2, <5>1
      <4>. HIDE DEF h
      <4>. QED  BY <4>2, <4>3
    <3>. QED  BY <3>1, <3>2
  <2>4. h \in [SUBSET (1 .. k + 1) -> A]
    <3>1. DOMAIN h = SUBSET (1 .. k + 1) /\ h = [t \in DOMAIN h |-> h[t]]  OBVIOUS
    <3>. HIDE DEF h, Value
    <3>. QED  BY <2>3, <3>1
  <2>5. Passes(h, k + 1)
    <3>. HIDE DEF h, Value
    <3>. QED  BY <2>3, <2>4
  <2>. HIDE DEF Passes
  <2>. QED  BY <2>5
<1>3. n \in S
  <2>1. \A k \in Nat : k \in S
    <3>. HIDE DEF S
    <3>. QED  BY <1>1, <1>2, SetInduction
  <2>. QED  BY <2>1
<1>4. PICK f : Passes(f, n)
  <2>. HIDE DEF Passes
  <2>. QED  BY <1>3
<1>. QED  BY <1>4 DEF Through

\* What is folded stays where each place leaves it.
LEMMA FoldStays ==
    ASSUME NEW A, NEW n \in Nat, NEW h, NEW base \in A,
           h[{}] = base,
           \A k \in 0 .. n - 1 : h[1 .. k] \in A => h[1 .. k + 1] \in A
    PROVE  h[1 .. n] \in A
<1>. DEFINE S == {k \in Nat : k <= n => h[1 .. k] \in A}
<1>1. 0 \in S
  <2>1. 1 .. 0 = {}  OBVIOUS
  <2>. QED  BY <2>1
<1>2. ASSUME NEW k \in Nat, k \in S PROVE k + 1 \in S
  <2>1. k + 1 <= n => k \in 0 .. n - 1 /\ k <= n  OBVIOUS
  <2>. QED  BY <1>2, <2>1
<1>3. \A k \in Nat : k \in S
  <2>. HIDE DEF S
  <2>. QED  BY <1>1, <1>2, SetInduction
<1>. QED  BY <1>3

\* The last of the first places.
LEMMA FirstPlaces ==
    ASSUME NEW n \in Nat, NEW k \in 0 .. n - 1
    PROVE  /\ 1 .. k + 1 \in SUBSET (1 .. n) /\ 1 .. k + 1 # {} /\ k + 1 \in 1 .. n
           /\ Max(1 .. k + 1) = k + 1 /\ (1 .. k + 1) \ {k + 1} = 1 .. k
<1>1. k + 1 \in 1 .. k + 1 /\ 1 .. k + 1 \in SUBSET (1 .. k + 1) /\ k \in Nat  OBVIOUS
<1>2. Max(1 .. k + 1) = k + 1  BY <1>1, MaxIs
<1>3. (1 .. k + 1) \ {k + 1} = 1 .. k  OBVIOUS
<1>4. 1 .. k + 1 \in SUBSET (1 .. n) /\ k + 1 \in 1 .. n  OBVIOUS
<1>. QED  BY <1>1, <1>2, <1>3, <1>4

\* What was taken from the channel is a line of sessions.
LEMMA TakenType ==
    ASSUME pending \in Seq(Sessions), arrived \in Seq(Sessions)
    PROVE  Taken \in Seq(Sessions)
<1>. DEFINE A == Seq(Sessions)
            n == Len(arrived)
            Add(l, s) == IF Contains(l, s) THEN l ELSE Append(l, s)
            g == [p \in A \X (1 .. n) |-> Add(p[1], arrived[p[2]])]
            Iter(f) == [t \in SUBSET DOMAIN arrived |->
                          IF t = {} THEN pending ELSE Add(f[t \ {Max(t)}], arrived[Max(t)])]
            h == CHOOSE f : f = Iter(f)
<1>1. n \in Nat /\ DOMAIN arrived = 1 .. n /\ \A i \in 1 .. n : arrived[i] \in Sessions  OBVIOUS
<1>2. \A l \in A, s \in Sessions : Add(l, s) \in A  OBVIOUS
<1>3. g \in [A \X (1 .. n) -> A]
  <2>1. \A p \in A \X (1 .. n) : Add(p[1], arrived[p[2]]) \in A
    <3>1. \A p \in A \X (1 .. n) : p[1] \in A /\ p[2] \in 1 .. n  OBVIOUS
    <3>. HIDE DEF A, n, Add
    <3>. QED  BY <1>1, <1>2, <3>1
  <2>. HIDE DEF A, n, Add
  <2>. QED  BY <2>1
<1>4. \A l \in A, i \in 1 .. n : g[<<l, i>>] = Add(l, arrived[i])
  <2>. HIDE DEF A, n, Add
  <2>. QED  OBVIOUS
<1>5. pending \in A  OBVIOUS
<1>6. PICK f : Through(f, pending, A, n, g)
  <2>. HIDE DEF A, n, g
  <2>. QED  BY <1>1, <1>3, <1>5, GoneThrough
<1>7. f = Iter(f)
  <2>1. ASSUME NEW t \in SUBSET (1 .. n)
        PROVE  f[t] = IF t = {} THEN pending ELSE Add(f[t \ {Max(t)}], arrived[Max(t)])
    <3>. HIDE DEF A, n, g, Add
    <3>1. CASE t = {}  BY <1>6, <3>1 DEF Through
    <3>2. CASE t # {}
      <4>1. Max(t) \in 1 .. n  BY <1>1, <3>2, MaxIn
      <4>2. t \ {Max(t)} \in SUBSET (1 .. n)  OBVIOUS
      <4>3. f[t \ {Max(t)}] \in A  BY <1>6, <4>2 DEF Through
      <4>4. f[t] = g[f[t \ {Max(t)}], Max(t)]  BY <1>6, <3>2 DEF Through
      <4>. QED  BY <1>4, <3>2, <4>1, <4>3, <4>4
    <3>. QED  BY <3>1, <3>2
  <2>2. f = [t \in SUBSET (1 .. n) |-> f[t]]  BY <1>6 DEF Through
  <2>. HIDE DEF A, n, g, Add
  <2>. QED  BY <1>1, <2>1, <2>2
<1>8. h = Iter(h)
  <2>. HIDE DEF Iter
  <2>. QED  BY <1>7
<1>. HIDE DEF h, n, A, g
<1>9. h[{}] = pending
  <2>1. {} \in SUBSET DOMAIN arrived  OBVIOUS
  <2>. HIDE DEF Add
  <2>. QED  BY <1>8, <2>1
<1>10. ASSUME NEW k \in 0 .. n - 1, h[1 .. k] \in A PROVE h[1 .. k + 1] \in A
  <2>1. /\ 1 .. k + 1 \in SUBSET (1 .. n) /\ 1 .. k + 1 # {} /\ k + 1 \in 1 .. n
        /\ Max(1 .. k + 1) = k + 1 /\ (1 .. k + 1) \ {k + 1} = 1 .. k
    BY <1>1, FirstPlaces
  <2>. HIDE DEF Add
  <2>2. h[1 .. k + 1] = Add(h[1 .. k], arrived[k + 1])  BY <1>1, <1>8, <2>1
  <2>. QED  BY <1>1, <1>2, <1>10, <2>1, <2>2
<1>11. h[1 .. n] \in A  BY <1>1, <1>5, <1>9, <1>10, FoldStays
<1>12. Taken = h[DOMAIN arrived]
  <2>. USE DEF h
  <2>. QED  BY DEF Taken, FoldLeft, MapThenFoldSet
<1>. QED  BY <1>1, <1>11, <1>12 DEF A

\* What is kept of a line of sessions is one.
LEMMA KeptType ==
    ASSUME NEW line \in Seq(Sessions), NEW kept
    PROVE  Kept(line, kept) \in Seq(Sessions)
<1>. DEFINE A == Seq(Sessions)
            n == Len(line)
            Add(l, s) == IF s \in kept THEN Append(l, s) ELSE l
            g == [p \in A \X (1 .. n) |-> Add(p[1], line[p[2]])]
            Iter(f) == [t \in SUBSET DOMAIN line |->
                          IF t = {} THEN << >> ELSE Add(f[t \ {Max(t)}], line[Max(t)])]
            h == CHOOSE f : f = Iter(f)
<1>1. n \in Nat /\ DOMAIN line = 1 .. n /\ \A i \in 1 .. n : line[i] \in Sessions  OBVIOUS
<1>2. \A l \in A, s \in Sessions : Add(l, s) \in A  OBVIOUS
<1>3. g \in [A \X (1 .. n) -> A]
  <2>1. \A p \in A \X (1 .. n) : Add(p[1], line[p[2]]) \in A
    <3>1. \A p \in A \X (1 .. n) : p[1] \in A /\ p[2] \in 1 .. n  OBVIOUS
    <3>. HIDE DEF A, n, Add
    <3>. QED  BY <1>1, <1>2, <3>1
  <2>. HIDE DEF A, n, Add
  <2>. QED  BY <2>1
<1>4. \A l \in A, i \in 1 .. n : g[<<l, i>>] = Add(l, line[i])
  <2>. HIDE DEF A, n, Add
  <2>. QED  OBVIOUS
<1>5. << >> \in A  OBVIOUS
<1>6. PICK f : Through(f, << >>, A, n, g)
  <2>. HIDE DEF A, n, g
  <2>. QED  BY <1>1, <1>3, <1>5, GoneThrough
<1>7. f = Iter(f)
  <2>1. ASSUME NEW t \in SUBSET (1 .. n)
        PROVE  f[t] = IF t = {} THEN << >> ELSE Add(f[t \ {Max(t)}], line[Max(t)])
    <3>. HIDE DEF A, n, g, Add
    <3>1. CASE t = {}  BY <1>6, <3>1 DEF Through
    <3>2. CASE t # {}
      <4>1. Max(t) \in 1 .. n  BY <1>1, <3>2, MaxIn
      <4>2. t \ {Max(t)} \in SUBSET (1 .. n)  OBVIOUS
      <4>3. f[t \ {Max(t)}] \in A  BY <1>6, <4>2 DEF Through
      <4>4. f[t] = g[f[t \ {Max(t)}], Max(t)]  BY <1>6, <3>2 DEF Through
      <4>. QED  BY <1>4, <3>2, <4>1, <4>3, <4>4
    <3>. QED  BY <3>1, <3>2
  <2>2. f = [t \in SUBSET (1 .. n) |-> f[t]]  BY <1>6 DEF Through
  <2>. HIDE DEF A, n, g, Add
  <2>. QED  BY <1>1, <2>1, <2>2
<1>8. h = Iter(h)
  <2>. HIDE DEF Iter
  <2>. QED  BY <1>7
<1>. HIDE DEF h, n, A, g
<1>9. h[{}] = << >>
  <2>1. {} \in SUBSET DOMAIN line  OBVIOUS
  <2>. HIDE DEF Add
  <2>. QED  BY <1>8, <2>1
<1>10. ASSUME NEW k \in 0 .. n - 1, h[1 .. k] \in A PROVE h[1 .. k + 1] \in A
  <2>1. /\ 1 .. k + 1 \in SUBSET (1 .. n) /\ 1 .. k + 1 # {} /\ k + 1 \in 1 .. n
        /\ Max(1 .. k + 1) = k + 1 /\ (1 .. k + 1) \ {k + 1} = 1 .. k
    BY <1>1, FirstPlaces
  <2>. HIDE DEF Add
  <2>2. h[1 .. k + 1] = Add(h[1 .. k], line[k + 1])  BY <1>1, <1>8, <2>1
  <2>. QED  BY <1>1, <1>2, <1>10, <2>1, <2>2
<1>11. h[1 .. n] \in A  BY <1>1, <1>5, <1>9, <1>10, FoldStays
<1>12. Kept(line, kept) = h[DOMAIN line]
  <2>. USE DEF h
  <2>. QED  BY DEF Kept, FoldLeft, MapThenFoldSet
<1>. QED  BY <1>1, <1>11, <1>12 DEF A

-----------------------------------------------------------------------------
(* The rest of the types. *)

\* What the queue's thread has taken and is about to do.
Line ==
    /\ told \subseteq Sessions
    /\ arrived \in Seq(Sessions)
    /\ pending \in Seq(Sessions)
    /\ chosen \in Sessions \cup {NoSession}
    /\ queuePc \in {"look", "slot", "mark"}
    /\ chosen = NoSession <=> queuePc = "look"
    /\ events \in 0..MaxEvents

\* The first ready session of a line has a place in it, or is the one behind it.
LEMMA FirstReady ==
    ASSUME NEW line \in Seq(Sessions), NEW ready
    PROVE  \E k \in 1..Len(line) + 1 : /\ k <= Len(line) => line[k] \in ready
                                       /\ \A i \in 1..k - 1 : line[i] \notin ready
<1>. DEFINE S == {k \in Nat : k <= Len(line) =>
                     \/ \E j \in 1..k : line[j] \in ready /\ \A i \in 1..j - 1 : line[i] \notin ready
                     \/ \A i \in 1..k : line[i] \notin ready}
<1>1. 0 \in S  OBVIOUS
<1>2. ASSUME NEW k \in Nat, k \in S PROVE k + 1 \in S
  <2>. SUFFICES ASSUME k + 1 <= Len(line)
                PROVE  \/ \E j \in 1..k + 1 : line[j] \in ready /\ \A i \in 1..j - 1 : line[i] \notin ready
                       \/ \A i \in 1..k + 1 : line[i] \notin ready
    OBVIOUS
  <2>1. CASE \E j \in 1..k : line[j] \in ready /\ \A i \in 1..j - 1 : line[i] \notin ready
    BY <2>1
  <2>2. CASE \A i \in 1..k : line[i] \notin ready
    <3>1. CASE line[k + 1] \in ready
      <4>1. k + 1 \in 1..k + 1 /\ (k + 1) - 1 = k  OBVIOUS
      <4>. QED  BY <2>2, <3>1, <4>1
    <3>2. CASE line[k + 1] \notin ready
      <4>1. \A i \in 1..k + 1 : i \in 1..k \/ i = k + 1  OBVIOUS
      <4>. QED  BY <2>2, <3>2, <4>1
    <3>. QED  BY <3>1, <3>2
  <2>3. k <= Len(line)  OBVIOUS
  <2>. QED  BY <1>2, <2>1, <2>2, <2>3
<1>3. Len(line) \in S
  <2>1. \A k \in Nat : k \in S
    <3>. HIDE DEF S
    <3>. QED  BY <1>1, <1>2, SetInduction
  <2>. QED  BY <2>1
<1>4. CASE \E j \in 1..Len(line) : line[j] \in ready /\ \A i \in 1..j - 1 : line[i] \notin ready
  BY <1>4
<1>5. CASE \A i \in 1..Len(line) : line[i] \notin ready
  <2>1. Len(line) + 1 \in 1..Len(line) + 1 /\ (Len(line) + 1) - 1 = Len(line)
        /\ ~(Len(line) + 1 <= Len(line))
    OBVIOUS
  <2>. QED  BY <1>5, <2>1
<1>. QED  BY <1>3, <1>4, <1>5

\* The queue's look leaves a line, and takes a session of it.
LEMMA LookTypes == ASSUME Line, QueueLook PROVE Line'
<1>. DEFINE Place(k) == /\ k <= Len(Taken) => Ready(Taken[k]) = "Yes"
                        /\ \A i \in 1..k - 1 : Ready(Taken[i]) # "Yes"
            first == CHOOSE k \in 1..Len(Taken) + 1 : Place(k)
            before == SubSeq(Taken, 1, first - 1)
<1>1. Taken \in Seq(Sessions)  BY TakenType DEF Line
<1>2. first \in 1..Len(Taken) + 1
  <2>1. \E k \in 1..Len(Taken) + 1 : Place(k)
    <3>. DEFINE Yes == {s \in Sessions : Ready(s) = "Yes"}
    <3>1. PICK k \in 1..Len(Taken) + 1 : /\ k <= Len(Taken) => Taken[k] \in Yes
                                        /\ \A i \in 1..k - 1 : Taken[i] \notin Yes
      <4>. HIDE DEF Yes
      <4>. QED  BY <1>1, FirstReady
    <3>2. \A i \in 1..k - 1 : Taken[i] \in Sessions  BY <1>1
    <3>. QED  BY <3>1, <3>2
  <2>. HIDE DEF Place
  <2>. QED  BY <2>1
<1>3. /\ arrived' = << >> /\ told' = told /\ events' = events
      /\ \E kept : pending' = Kept(before, kept) \o SubSeq(Taken, first + 1, Len(Taken))
      /\ IF first <= Len(Taken) THEN chosen' = Taken[first] /\ queuePc' = "slot"
                                ELSE chosen' = chosen /\ queuePc' = queuePc
  BY DEF QueueLook, records
<1>. HIDE DEF first
<1>4. before \in Seq(Sessions) /\ SubSeq(Taken, first + 1, Len(Taken)) \in Seq(Sessions)
  BY <1>1, <1>2
<1>5. pending' \in Seq(Sessions)
  <2>. PICK kept : pending' = Kept(before, kept) \o SubSeq(Taken, first + 1, Len(Taken))
    BY <1>3
  <2>. HIDE DEF before
  <2>1. Kept(before, kept) \in Seq(Sessions)  BY <1>4, KeptType
  <2>. QED  BY <1>4, <2>1
<1>6. arrived' \in Seq(Sessions)  BY <1>3
<1>7. first <= Len(Taken) => Taken[first] \in Sessions /\ Taken[first] # NoSession
  BY <1>1, <1>2, ConnectQueueAssumption
<1>8. /\ chosen' \in Sessions \cup {NoSession} /\ queuePc' \in {"look", "slot", "mark"}
      /\ chosen' = NoSession <=> queuePc' = "look"
  <2>1. CASE first <= Len(Taken)
    <3>1. chosen' = Taken[first] /\ queuePc' = "slot"  BY <1>3, <2>1
    <3>. QED  BY <1>7, <2>1, <3>1
  <2>2. CASE ~(first <= Len(Taken))
    <3>1. chosen' = chosen /\ queuePc' = queuePc  BY <1>3, <2>2
    <3>. QED  BY <3>1 DEF Line
  <2>. QED  BY <2>1, <2>2
<1>. QED  BY <1>3, <1>5, <1>6, <1>8 DEF Line

\* The other steps put a session in front of the line, or leave it.
LEMMA QueueTypes == ASSUME Line, QueueTell \/ QueuePutsBack \/ QueueMark PROVE Line'
<1>1. CASE QueueTell
  <2>1. /\ told' = told /\ arrived' = arrived /\ pending' = pending /\ chosen' = chosen
        /\ events' = events /\ queuePc = "slot" /\ queuePc' = "mark"
    BY <1>1 DEF QueueTell, records
  <2>. QED  BY <2>1 DEF Line
<1>2. CASE QueuePutsBack
  <2>1. /\ told' = told /\ arrived' = arrived /\ chosen' = NoSession
        /\ pending' \in {<<chosen>> \o pending, pending}
        /\ events' = events /\ queuePc = "slot" /\ queuePc' = "look"
    BY <1>2 DEF QueuePutsBack, records
  <2>2. chosen \in Sessions  BY <2>1 DEF Line
  <2>3. <<chosen>> \in Seq(Sessions) /\ pending \in Seq(Sessions)  BY <2>2 DEF Line
  <2>4. <<chosen>> \o pending \in Seq(Sessions)  BY <2>3
  <2>5. pending' \in Seq(Sessions)  BY <2>1, <2>3, <2>4
  <2>. QED  BY <2>1, <2>5 DEF Line
<1>3. CASE QueueMark
  <2>1. /\ told' = told \cup {chosen} /\ arrived' = arrived /\ pending' = pending
        /\ chosen' = NoSession /\ events' = events /\ queuePc = "mark" /\ queuePc' = "look"
    BY <1>3 DEF QueueMark
  <2>2. chosen \in Sessions  BY <2>1 DEF Line
  <2>. QED  BY <2>1, <2>2 DEF Line
<1>. QED  BY <1>1, <1>2, <1>3

\* What happens to a session adds it to the channel, or changes what it was
\* told.
LEMMA SessionTypes ==
    ASSUME Line, NEW s \in Sessions,
           \/ HearStep(s) \/ HearConnect(s) \/ LinkUp(s) \/ PressR(s)
           \/ LogIn(s) \/ SshExits(s) \/ TabCloses(s) \/ Break(s) \/ Ask(s)
    PROVE  Line'
<1>1. pending' = pending /\ chosen' = chosen /\ queuePc' = queuePc
  BY DEF HearStep, Hear, LinkEnds, HearConnect, LinkUp, PressR, LogIn, SshExits, TabCloses,
         Break, Ask, queue
<1>2. told' \in {told, told \ {s}}
  BY DEF HearStep, Hear, LinkEnds, HearConnect, LinkUp, PressR, LogIn, SshExits, TabCloses,
         Break, Ask, records
<1>3. arrived' \in {arrived, Append(arrived, s)}
  BY DEF HearStep, Hear, LinkEnds, HearConnect, LinkUp, PressR, LogIn, SshExits, TabCloses,
         Break, Ask, queue
<1>4. events' = events \/ (events < MaxEvents /\ events' = events + 1)
  BY DEF HearStep, Hear, LinkEnds, HearConnect, LinkUp, PressR, LogIn, SshExits, TabCloses,
         Break, Ask
<1>5. arrived' \in Seq(Sessions)  BY <1>3 DEF Line
<1>6. events' \in 0..MaxEvents  BY <1>4, ConnectQueueAssumption DEF Line
<1>. QED  BY <1>1, <1>2, <1>5, <1>6 DEF Line

\* It is so at the start.
LEMMA LineBegins == ASSUME QueueInit PROVE Line
<1>1. Cardinality(Sessions) \in Nat  BY ConnectQueueAssumption, FS_CardinalityType
<1>2. arrived \in [1..Cardinality(Sessions) -> Sessions]  BY DEF QueueInit, SetToSeqs
<1>3. arrived \in Seq(Sessions)  BY <1>1, <1>2
<1>4. << >> \in Seq(Sessions) /\ 0 \in 0..MaxEvents  BY ConnectQueueAssumption
<1>. QED  BY <1>3, <1>4 DEF QueueInit, Line

\* Every state of the records, the links, the shims and the queue's thread is of
\* its types, and the thread has chosen a session exactly while it is about to
\* tell it (connect_queue::run).
THEOREM QueueTypeCorrect == QueueSpec => []QueueTypeOK
<1>1. QueueInit => Line  BY LineBegins
<1>2. Line /\ [QueueNext]_queueVars => Line'
  <2>. SUFFICES ASSUME Line, [QueueNext]_queueVars PROVE Line'  OBVIOUS
  <2>1. CASE QueueStep  BY <2>1, LookTypes, QueueTypes DEF QueueStep
  <2>2. ASSUME NEW s \in Sessions,
               \/ HearStep(s) \/ HearConnect(s) \/ LinkUp(s) \/ PressR(s)
               \/ LogIn(s) \/ SshExits(s) \/ TabCloses(s) \/ Break(s) \/ Ask(s)
        PROVE  Line'
    BY <2>2, SessionTypes
  <2>3. CASE UNCHANGED queueVars  BY <2>3 DEF queueVars, records, queue, Line
  <2>. QED  BY <2>1, <2>2, <2>3 DEF QueueNext
<1>3. QueueInv /\ Line => QueueTypeOK  BY DEF QueueInv, RecordTypes, Line, QueueTypeOK, Shim
<1>. QED  BY <1>1, <1>2, <1>3, QueueBegins, QueueGoes, PTL DEF QueueSpec

-----------------------------------------------------------------------------
(* The questions at the login (LoginQuestions).                            *)

Tabs == [at : {"idle", "begin", "running", "closed"}, user : Users, preset : Given \cup {NotGiven}]
Armeds == [user : Users \cup {None}, stored : BOOLEAN, skipped : BOOLEAN,
           keep : Secrets, preset : Secrets, relogin : Given \cup {NotGiven}]
Steps == {"key", "asks_key", "tab_key", "login", "asks", "tab", "checks", "in", "ended"}
Sshs == [step : Steps, prompts : 0..2, given : Secrets, saved : BOOLEAN, in : BOOLEAN, failed : BOOLEAN]
Questions == [what : {None, "key", "changed_key", "password"}, user : Users, window : BOOLEAN]
Accounts == [secret : Secrets, refused : BOOLEAN]

\* The types of what changes one by one.
LoginTypes ==
    /\ tab \in Tabs
    /\ attempt \in 0..MaxAttempts
    /\ armed \in Armeds
    /\ ssh \in Sshs
    /\ asked \in [Attempts -> Questions]
    /\ store \in [Users -> Accounts]
    /\ served \in BOOLEAN /\ app \in BOOLEAN /\ once \in BOOLEAN
    /\ reported \in BOOLEAN /\ unworked \in BOOLEAN
    /\ known \in {None, "another", "kept", "once"}
    /\ loginActs \in 0..MaxLoginActs
    /\ denied \subseteq Users

\* ssh runs in a running tab, for an attempt, and has a prompt left.
Running == /\ tab.at # "running" => ssh.step = "ended"
           /\ ssh.step # "ended" => attempt > 0 /\ ssh.prompts > 0

\* What the window of the attempt asks is what its ssh waits for.
Waiting ==
    \A n \in Attempts : asked[n].what # None =>
        /\ n <= attempt
        /\ Runs(n) => IF asked[n].what = "password" THEN ssh.step = "asks"
                                                    ELSE ssh.step = "asks_key"

\* A saved password is for the only prompt of its ssh.
OnePrompt ==
    /\ ssh.step # "ended" /\ armed.stored => ssh.prompts = 1
    /\ ssh.step # "ended" /\ ssh.saved =>
           ssh.step \in {"checks", "in"} /\ served /\ ssh.prompts = 1
    /\ ssh.step = "checks" => ssh.given # None
    /\ ssh.in => ssh.step \in {"in", "ended"}

\* A refused password is marked, or is about to be.
Marked ==
    \A u \in denied :
        /\ store[u].secret # None
        /\ \/ store[u].refused
           \/ tab.at = "closed"
           \/ /\ u = tab.user /\ tab.at = "running" /\ ssh.step = "ended"
              /\ served /\ ssh.failed /\ ~ssh.in

\* A key trusted once is there to be taken out.
Once == known = "once" => once /\ tab.at \in {"running", "closed"}

LoginInv == LoginTypes /\ Running /\ Waiting /\ OnePrompt /\ Marked /\ Once

-----------------------------------------------------------------------------
(* What the steps make of ssh. *)

Is(s, step, prompts, given, saved, in, failed) ==
    /\ s \in Sshs
    /\ s.step = step /\ s.prompts = prompts /\ s.given = given
    /\ s.saved = saved /\ s.in = in /\ s.failed = failed

\* The forms of the next ssh: as it was but for what the step tells.
LEMMA Forms ==
    ASSUME ssh \in Sshs
    PROVE  /\ Is(Ended, "ended", ssh.prompts, ssh.given, ssh.saved, ssh.in, ssh.failed)
           /\ Is(Failed, "ended", ssh.prompts, ssh.given, ssh.saved, ssh.in, TRUE)
           /\ \A step \in Steps :
                Is([ssh EXCEPT !.step = step], step, ssh.prompts, ssh.given, ssh.saved, ssh.in, ssh.failed)
           /\ \A secret \in Secrets :
                Is(Tries(secret), "checks", ssh.prompts, secret, ssh.saved, ssh.in, ssh.failed)
           /\ \A secret \in Secrets :
                Is([Tries(secret) EXCEPT !.saved = TRUE], "checks", ssh.prompts, secret, TRUE, ssh.in, ssh.failed)
           /\ Is([ssh EXCEPT !.step = "in", !.in = TRUE], "in", ssh.prompts, ssh.given, ssh.saved, TRUE, ssh.failed)
           /\ ssh.prompts > 0 =>
                Is([ssh EXCEPT !.step = "login", !.prompts = @ - 1], "login", ssh.prompts - 1, ssh.given,
                   ssh.saved, ssh.in, ssh.failed)
           /\ Is([Failed EXCEPT !.prompts = 0], "ended", 0, ssh.given, ssh.saved, ssh.in, TRUE)
<1>1. Is(Ended, "ended", ssh.prompts, ssh.given, ssh.saved, ssh.in, ssh.failed)
  BY DEF Is, Ended, Sshs, Steps
<1>2. Is(Failed, "ended", ssh.prompts, ssh.given, ssh.saved, ssh.in, TRUE)
  BY DEF Is, Ended, Failed, Sshs, Steps
<1>3. ASSUME NEW step \in Steps
      PROVE  Is([ssh EXCEPT !.step = step], step, ssh.prompts, ssh.given, ssh.saved, ssh.in, ssh.failed)
  BY DEF Is, Sshs, Steps
<1>4. ASSUME NEW secret \in Secrets
      PROVE  /\ Is(Tries(secret), "checks", ssh.prompts, secret, ssh.saved, ssh.in, ssh.failed)
             /\ Is([Tries(secret) EXCEPT !.saved = TRUE], "checks", ssh.prompts, secret, TRUE, ssh.in, ssh.failed)
  BY DEF Is, Tries, Sshs, Steps
<1>5. Is([ssh EXCEPT !.step = "in", !.in = TRUE], "in", ssh.prompts, ssh.given, ssh.saved, TRUE, ssh.failed)
  BY DEF Is, Sshs, Steps
<1>6. ssh.prompts > 0 =>
         Is([ssh EXCEPT !.step = "login", !.prompts = @ - 1], "login", ssh.prompts - 1, ssh.given,
            ssh.saved, ssh.in, ssh.failed)
  <2> DEFINE left == ssh.prompts - 1
  <2>1. ssh.prompts > 0 => left \in 0..2
    BY DEF Sshs
  <2> HIDE DEF left
  <2>2. left \in 0..2 => Is([ssh EXCEPT !.step = "login", !.prompts = left], "login", left, ssh.given,
                            ssh.saved, ssh.in, ssh.failed)
    BY DEF Is, Sshs, Steps
  <2> QED BY <2>1, <2>2 DEF left
<1>7. Is([Failed EXCEPT !.prompts = 0], "ended", 0, ssh.given, ssh.saved, ssh.in, TRUE)
  <2> DEFINE zero == 0
             f == Failed
  <2>1. zero \in 0..2 /\ zero = 0
    OBVIOUS
  <2> HIDE DEF zero, f
  <2>2. Is([f EXCEPT !.prompts = zero], "ended", zero, ssh.given, ssh.saved, ssh.in, TRUE)
    BY <1>2, <2>1 DEF Is, Sshs, f
  <2> QED BY <2>1, <2>2 DEF f
<1> QED BY <1>1, <1>2, <1>3, <1>4, <1>5, <1>6, <1>7

\* A started ssh.
LEMMA Started ==
    /\ NoSsh \in Sshs /\ NoSsh.step = "ended" /\ ~NoSsh.in /\ ~NoSsh.saved
    /\ \A p \in {1, 2} : Is([NoSsh EXCEPT !.step = "key", !.prompts = p], "key", p, None, FALSE, FALSE, FALSE)
<1>1. Is(NoSsh, "ended", 0, None, FALSE, FALSE, FALSE)
  <2>1. 0 \in 0..2 /\ None \in Secrets
    BY DEF Secrets
  <2> QED BY <2>1 DEF Is, NoSsh, Sshs, Steps
<1>2. ASSUME NEW p \in {1, 2}
      PROVE  Is([NoSsh EXCEPT !.step = "key", !.prompts = p], "key", p, None, FALSE, FALSE, FALSE)
  <2> DEFINE start == NoSsh
  <2>1. Is(start, "ended", 0, None, FALSE, FALSE, FALSE)
    BY <1>1
  <2> HIDE DEF start
  <2>0. p \in 0..2
    OBVIOUS
  <2>2. Is([start EXCEPT !.step = "key", !.prompts = p], "key", p, None, FALSE, FALSE, FALSE)
    BY <2>0, <2>1 DEF Is, Sshs, Steps
  <2> QED BY <2>2 DEF start
<1> QED BY <1>1, <1>2 DEF Is

\* What the pipe serves.
LEMMA ArmedForms ==
    ASSUME LoginTypes
    PROVE  /\ Unarmed \in Armeds /\ Configured \in Armeds
           /\ ~Unarmed.stored
           /\ Configured.stored => Usable(tab.user)
           /\ \A s \in Secrets :
                /\ [armed EXCEPT !.keep = s] \in Armeds
                /\ [armed EXCEPT !.keep = s].stored = armed.stored
                /\ [armed EXCEPT !.preset = s] \in Armeds
                /\ [armed EXCEPT !.preset = s].stored = armed.stored
           /\ \A g \in Given :
                /\ [armed EXCEPT !.relogin = g] \in Armeds
                /\ [armed EXCEPT !.relogin = g].stored = armed.stored
           /\ \A b \in BOOLEAN :
                /\ [armed EXCEPT !.skipped = b] \in Armeds
                /\ [armed EXCEPT !.skipped = b].stored = armed.stored
<1>1. Unarmed \in Armeds /\ ~Unarmed.stored
  BY DEF Unarmed, Armeds, Secrets, NotGiven, None
<1>2. Configured \in Armeds /\ (Configured.stored => Usable(tab.user))
  <2> DEFINE given == tab.preset
             preset == IF given.secret # None THEN given.secret ELSE armed.preset
             keep == IF given.secret = None THEN armed.keep
                     ELSE IF given.save THEN given.secret ELSE None
             stored == Usable(tab.user) /\ preset = None
  <2>1. given.secret \in Secrets /\ tab.user \in Users
    BY DEF LoginTypes, Tabs, Given, NotGiven, Secrets, None
  <2>2. preset \in Secrets /\ keep \in Secrets /\ stored \in BOOLEAN
    BY <2>1 DEF LoginTypes, Armeds, Secrets, Usable
  <2>3. Configured = [Unarmed EXCEPT !.user = tab.user, !.stored = stored, !.keep = keep, !.preset = preset]
    BY DEF Configured
  <2>4. stored => Usable(tab.user)
    OBVIOUS
  <2> HIDE DEF given, preset, keep, stored
  <2> QED BY <1>1, <2>1, <2>2, <2>3, <2>4 DEF Armeds
<1>3. ASSUME NEW s \in Secrets
      PROVE  /\ [armed EXCEPT !.keep = s] \in Armeds
             /\ [armed EXCEPT !.keep = s].stored = armed.stored
             /\ [armed EXCEPT !.preset = s] \in Armeds
             /\ [armed EXCEPT !.preset = s].stored = armed.stored
  BY DEF LoginTypes, Armeds
<1>4. ASSUME NEW g \in Given
      PROVE  /\ [armed EXCEPT !.relogin = g] \in Armeds
             /\ [armed EXCEPT !.relogin = g].stored = armed.stored
  BY DEF LoginTypes, Armeds
<1>5. ASSUME NEW b \in BOOLEAN
      PROVE  /\ [armed EXCEPT !.skipped = b] \in Armeds
             /\ [armed EXCEPT !.skipped = b].stored = armed.stored
  BY DEF LoginTypes, Armeds
<1> QED BY <1>1, <1>2, <1>3, <1>4, <1>5

\* A question is put, and answered; the windows close.
LEMMA AskedForms ==
    ASSUME LoginTypes, attempt \in Attempts
    PROVE  \A what \in {"key", "changed_key", "password"} :
              /\ Asks(what) \in [Attempts -> Questions]
              /\ Asks(what)[attempt].what = what
              /\ \A n \in Attempts \ {attempt} : Asks(what)[n] = asked[n]
<1> SUFFICES ASSUME NEW what \in {"key", "changed_key", "password"}
             PROVE  /\ Asks(what) \in [Attempts -> Questions]
                    /\ Asks(what)[attempt].what = what
                    /\ \A n \in Attempts \ {attempt} : Asks(what)[n] = asked[n]
  OBVIOUS
<1>1. [what |-> what, user |-> tab.user, window |-> TRUE] \in Questions
  BY DEF LoginTypes, Tabs, Questions
<1> QED BY <1>1 DEF Asks, LoginTypes

LEMMA AnsweredForm ==
    ASSUME LoginTypes, NEW n \in Attempts, Answered(n)
    PROVE  /\ asked' \in [Attempts -> Questions]
           /\ asked'[n].what = None
           /\ \A k \in Attempts \ {n} : asked'[k] = asked[k]
<1>1. /\ [asked[n] EXCEPT !.what = None, !.window = FALSE] \in Questions
      /\ [asked[n] EXCEPT !.what = None, !.window = FALSE].what = None
  BY DEF LoginTypes, Questions
<1> QED BY <1>1 DEF Answered, LoginTypes

\* What the window of a password makes of what is served, and of ssh.
LEMMA PasswordForms ==
    ASSUME NEW n \in Attempts, AnswerPassword(n)
    PROVE  \/ \E g \in Given :
                /\ armed' = [armed EXCEPT !.keep = IF g.save THEN g.secret ELSE None]
                /\ ssh' = IF Runs(n) THEN Tries(g.secret) ELSE ssh
           \/ \E g \in Given :
                /\ armed' = [armed EXCEPT !.relogin = g]
                /\ ssh' = IF Runs(n) THEN Ended ELSE ssh
           \/ armed' = armed /\ ssh' = IF Runs(n) THEN Ended ELSE ssh
           \/ /\ armed' = [armed EXCEPT !.skipped = TRUE]
              /\ ssh' = IF Runs(n) THEN [ssh EXCEPT !.step = "tab"] ELSE ssh
  BY Zenon DEF AnswerPassword

LEMMA TypesStep == LoginInv /\ [LoginNext]_loginVars => LoginTypes'
<1> SUFFICES ASSUME LoginInv, [LoginNext]_loginVars
             PROVE  LoginTypes'
  OBVIOUS
<1> USE LoginQuestionsAssumption DEF NoTab
<1>u. /\ tab.user \in Users
      /\ \A u \in Users : Prompts(u) \in {1, 2}
      /\ ssh.step # "ended" => ssh.prompts > 0
      /\ ssh \in Sshs /\ LoginTypes
      /\ \A c \in Passwords : c \in Secrets
  BY DEF LoginInv, LoginTypes, Tabs, Running, Prompts, Secrets
<1>w. Unarmed \in Armeds /\ Configured \in Armeds /\ None \in Secrets /\ NotGiven \in Given \cup {NotGiven}
  BY <1>u, ArmedForms DEF Secrets
<1>1. CASE Begin
  <2>1. attempt' \in 0..MaxAttempts
    BY <1>1, <1>u DEF Begin, LoginTypes
  <2>2. tab' \in Tabs
    BY <1>1, <1>u DEF Begin, LoginTypes, Tabs
  <2>3. ssh' \in Sshs
    BY <1>1, <1>u, Started DEF Begin, Is
  <2>4. loginActs' \in 0..MaxLoginActs
    BY <1>1, <1>u DEF Begin, LoginAct, LoginTypes
  <2> QED BY <1>1, <1>u, <1>w, <2>1, <2>2, <2>3, <2>4 DEF Begin, LoginTypes
<1>2. CASE LoggedIn
  <2>1. armed' \in Armeds
    BY <1>2, <1>u, <1>w, ArmedForms DEF LoggedIn
  <2>2. store' \in [Users -> Accounts] /\ denied' \subseteq Users /\ unworked' \in BOOLEAN
    <3>1. [secret |-> armed.keep, refused |-> FALSE] \in Accounts
      BY <1>u DEF LoginTypes, Armeds, Accounts
    <3> QED BY <1>2, <1>u, <3>1 DEF LoggedIn, LoginTypes
  <2> QED BY <1>2, <1>u, <2>1, <2>2 DEF LoggedIn, LoginTypes
<1>3. CASE Finish
  <2>1. known' \in {None, "another", "kept", "once"} /\ once' \in BOOLEAN
    BY <1>3, <1>u DEF Finish, ForgetOnce, LoginTypes
  <2>2. CASE Again /\ armed.relogin.secret # None /\ UNCHANGED store
    <3>1. armed.relogin \in Given \cup {NotGiven} /\ armed.relogin.user \in Users
      BY <1>u DEF LoginTypes, Armeds, Given, NotGiven, Users
    <3>2. tab' \in Tabs
      BY <2>2, <3>1 DEF Again, Tabs
    <3> QED BY <1>3, <1>u, <1>w, <2>1, <2>2, <3>2 DEF Finish, Again, LoginTypes
  <2>3. CASE /\ tab' = [tab EXCEPT !.at = "idle"]
             /\ store' = [store EXCEPT ![tab.user].refused =
                          @ \/ (served /\ ssh.failed /\ ~ssh.in /\ store[tab.user].secret # None)]
             /\ UNCHANGED denied
    <3> DEFINE mark == store[tab.user].refused
                       \/ (served /\ ssh.failed /\ ~ssh.in /\ store[tab.user].secret # None)
    <3>1. tab' \in Tabs
      BY <1>u, <2>3 DEF LoginTypes, Tabs
    <3>2. mark \in BOOLEAN
      BY <1>u DEF LoginTypes, Accounts
    <3>3. store' = [store EXCEPT ![tab.user].refused = mark]
      BY <2>3
    <3> HIDE DEF mark
    <3>4. [store[tab.user] EXCEPT !.refused = mark] \in Accounts
      BY <1>u, <3>2 DEF LoginTypes, Accounts
    <3>5. store' = [store EXCEPT ![tab.user] = [store[tab.user] EXCEPT !.refused = mark]]
      BY <1>u, <3>3 DEF LoginTypes
    <3>6. store' \in [Users -> Accounts]
      BY <1>u, <3>4, <3>5 DEF LoginTypes
    <3> QED BY <1>3, <1>u, <1>w, <2>1, <2>3, <3>1, <3>6 DEF Finish, LoginTypes
  <2> QED BY <1>3, <2>2, <2>3 DEF Finish
<1>4. CASE ConnectAgain
  <2>1. tab' \in Tabs
    BY <1>4, <1>u DEF ConnectAgain, LoginTypes, Tabs
  <2> QED BY <1>4, <1>u, <2>1 DEF ConnectAgain, LoginTypes
<1>5. CASE Close
  <2>1. tab' \in Tabs
    BY <1>5, <1>u DEF Close, LoginTypes, Tabs
  <2>2. asked' \in [Attempts -> Questions]
    <3>1. \A n \in Attempts : [asked[n] EXCEPT !.what = None, !.window = FALSE] \in Questions
      BY <1>u DEF LoginTypes, Questions
    <3> QED BY <1>5, <3>1 DEF Close
  <2> QED BY <1>5, <1>u, <2>1, <2>2, Forms DEF Close, LoginTypes, Is
<1>a. ssh.step # "ended" => attempt \in Attempts
  BY <1>u DEF LoginInv, Attempts, Running, LoginTypes
<1>6. CASE AskKey
  <2>1. asked' \in [Attempts -> Questions]
    BY <1>6, <1>a, <1>u, AskedForms DEF AskKey, LoginTypes
  <2>2. ssh' \in Sshs
    BY <1>6, <1>u, Forms DEF AskKey, Is, Steps
  <2> QED BY <1>6, <1>u, <2>1, <2>2 DEF AskKey, LoginTypes
<1>k. ASSUME NEW n \in Attempts, NEW k \in {"kept", "once"}, KeyYes(n, k)
      PROVE  ssh' \in Sshs /\ known' \in {None, "another", "kept", "once"}
  BY <1>k, <1>u, Forms DEF KeyYes, Is, Steps, LoginTypes
<1>n. ASSUME NEW n \in Attempts, KeyNo(n)
      PROVE  ssh' \in Sshs /\ known' \in {None, "another", "kept", "once"}
  BY <1>n, <1>u, Forms DEF KeyNo, Is, LoginTypes
<1>7. ASSUME NEW n \in Attempts, AnswerKey(n) PROVE LoginTypes'
  <2>1. ssh' \in Sshs /\ known' \in {None, "another", "kept", "once"}
    BY <1>7, <1>k, <1>n, <1>u DEF AnswerKey, LoginTypes
  <2>2. asked' \in [Attempts -> Questions]
    BY <1>7, <1>u, AnsweredForm DEF AnswerKey
  <2> QED BY <1>7, <1>u, <2>1, <2>2 DEF AnswerKey, LoginTypes
<1>8. ASSUME NEW n \in Attempts, AnswerChangedKey(n) PROVE LoginTypes'
  <2>1. ssh' \in Sshs /\ known' \in {None, "another", "kept", "once"}
    BY <1>8, <1>k, <1>n DEF AnswerChangedKey
  <2>2. asked' \in [Attempts -> Questions]
    BY <1>8, <1>u, AnsweredForm DEF AnswerChangedKey
  <2> QED BY <1>8, <1>u, <2>1, <2>2 DEF AnswerChangedKey, LoginTypes
<1>9. CASE TabKey
  <2>1. ssh' \in Sshs /\ known' \in {None, "another", "kept", "once"}
    BY <1>9, <1>a, <1>k, <1>n DEF TabKey
  <2> QED BY <1>9, <1>u, <2>1 DEF TabKey, LoginTypes
<1>10. CASE AskPassword
  <2>1. armed.preset \in Secrets /\ store[tab.user].secret \in Secrets
    BY <1>u DEF LoginTypes, Armeds, Accounts
  <2>2. ssh' \in Sshs
    <3>1. \A c \in Secrets : Tries(c) \in Sshs /\ [Tries(c) EXCEPT !.saved = TRUE] \in Sshs
      BY <1>u, Forms DEF Is
    <3>2. [ssh EXCEPT !.step = "tab"] \in Sshs /\ [ssh EXCEPT !.step = "asks"] \in Sshs
      BY <1>u, Forms DEF Is, Steps
    <3>3. ssh' \in {Tries(armed.preset), [Tries(store[tab.user].secret) EXCEPT !.saved = TRUE],
                    [ssh EXCEPT !.step = "tab"], [ssh EXCEPT !.step = "asks"]}
      BY <1>10 DEF AskPassword
    <3> QED BY <2>1, <3>1, <3>2, <3>3
  <2>3. armed' \in Armeds
    BY <1>10, <1>u, <1>w, ArmedForms DEF AskPassword, LoginTypes
  <2>4. asked' \in [Attempts -> Questions]
    BY <1>10, <1>a, <1>u, AskedForms DEF AskPassword, LoginTypes
  <2>5. served' \in BOOLEAN
    BY <1>10, <1>u DEF AskPassword, LoginTypes
  <2> QED BY <1>10, <1>u, <2>2, <2>3, <2>4, <2>5 DEF AskPassword, LoginTypes
<1>11. ASSUME NEW n \in Attempts, AnswerPassword(n) PROVE LoginTypes'
  <2>1. \A g \in Given : g.secret \in Secrets
    BY <1>u DEF Given
  <2>2. ssh' \in Sshs
    <3>1. [ssh EXCEPT !.step = "tab"] \in Sshs /\ Ended \in Sshs
      BY <1>u, Forms DEF Is, Steps
    <3>2. \A c \in Secrets : Tries(c) \in Sshs
      BY <1>u, Forms DEF Is
    <3> QED BY <1>11, <1>u, <2>1, <3>1, <3>2, PasswordForms
  <2>3. armed' \in Armeds
    <3>1. \A g \in Given : (IF g.save THEN g.secret ELSE None) \in Secrets
      BY <1>w, <2>1
    <3>2. \A g \in Given : [armed EXCEPT !.keep = IF g.save THEN g.secret ELSE None] \in Armeds
      BY <1>u, <3>1, ArmedForms
    <3>3. \A g \in Given : [armed EXCEPT !.relogin = g] \in Armeds
      BY <1>u, ArmedForms
    <3>4. [armed EXCEPT !.skipped = TRUE] \in Armeds /\ armed \in Armeds
      BY <1>u, ArmedForms DEF LoginTypes
    <3> QED BY <1>11, <3>2, <3>3, <3>4, PasswordForms
  <2>4. asked' \in [Attempts -> Questions]
    BY <1>11, <1>u, AnsweredForm DEF AnswerPassword
  <2> QED BY <1>11, <1>u, <2>2, <2>3, <2>4 DEF AnswerPassword, LoginTypes
<1>12. ASSUME NEW n \in Attempts, Unanswered(n) PROVE LoginTypes'
  <2>1. ssh' \in Sshs
    <3>1. asked[n].what \in {"password", "key", "changed_key"}
      BY <1>12, <1>u DEF Unanswered, LoginTypes, Questions
    <3>2. ssh' \in {ssh, [ssh EXCEPT !.step = "tab"], [ssh EXCEPT !.step = "tab_key"], Failed}
      BY <1>12, <3>1 DEF Unanswered
    <3>3. [ssh EXCEPT !.step = "tab"] \in Sshs /\ [ssh EXCEPT !.step = "tab_key"] \in Sshs /\ Failed \in Sshs
      BY <1>u, Forms DEF Is, Steps
    <3> QED BY <1>u, <3>2, <3>3
  <2>2. armed' \in Armeds
    <3> DEFINE b == armed.skipped \/ asked[n].what = "password"
    <3>1. b \in BOOLEAN
      BY <1>u DEF LoginTypes, Armeds
    <3>2. armed' = [armed EXCEPT !.skipped = b]
      BY <1>12 DEF Unanswered
    <3> QED BY <1>u, <3>1, <3>2, ArmedForms
  <2>3. asked' \in [Attempts -> Questions]
    BY <1>12, <1>u, AnsweredForm DEF Unanswered
  <2> QED BY <1>12, <1>u, <2>1, <2>2, <2>3 DEF Unanswered, LoginTypes
<1>13. CASE TabPassword
  <2>1. ssh' \in Sshs
    BY <1>13, <1>u, Forms DEF TabPassword, Is
  <2> QED BY <1>13, <1>u, <2>1 DEF TabPassword, LoginTypes
<1>14. CASE Check
  <2>1. ssh' \in Sshs
    BY <1>14, <1>u, Forms DEF Check, Is
  <2>2. denied' \subseteq Users
    BY <1>14, <1>u DEF Check, LoginTypes
  <2> QED BY <1>14, <1>u, <2>1, <2>2 DEF Check, LoginTypes
<1>15. CASE KeyLogin \/ SshEnds
  <2>1. ssh' \in Sshs
    BY <1>15, <1>u, Forms DEF KeyLogin, SshEnds, Is
  <2> QED BY <1>15, <1>u, <2>1 DEF KeyLogin, SshEnds, LoginTypes
<1>16. CASE AppStops \/ AppStarts
  <2>1. asked' \in [Attempts -> Questions]
    <3>1. \A n \in Attempts : [asked[n] EXCEPT !.window = FALSE] \in Questions
      BY <1>u DEF LoginTypes, Questions
    <3> QED BY <1>16, <1>u, <3>1 DEF AppStops, AppStarts, LoginTypes
  <2>2. loginActs' \in 0..MaxLoginActs
    BY <1>16, <1>u DEF AppStops, AppStarts, LoginAct, LoginTypes
  <2> QED BY <1>16, <1>u, <2>1, <2>2 DEF AppStops, AppStarts, LoginTypes
<1>17. CASE OthersSave
  <2>1. \A secret \in Passwords : [secret |-> secret, refused |-> FALSE] \in Accounts
    BY <1>u DEF Accounts
  <2>2. store' \in [Users -> Accounts] /\ denied' \subseteq Users
    BY <1>17, <1>u, <2>1 DEF OthersSave, LoginTypes
  <2>3. loginActs' \in 0..MaxLoginActs
    BY <1>17, <1>u DEF OthersSave, LoginAct, LoginTypes
  <2> QED BY <1>17, <1>u, <2>2, <2>3 DEF OthersSave, LoginTypes
<1>18. CASE UNCHANGED loginVars
  BY <1>18, <1>u DEF loginVars, LoginTypes
<1> QED BY <1>1, <1>2, <1>3, <1>4, <1>5, <1>6, <1>7, <1>8, <1>9, <1>10, <1>11, <1>12, <1>13,
           <1>14, <1>15, <1>16, <1>17, <1>18 DEF LoginNext

-----------------------------------------------------------------------------
(* What the steps of ssh keep. *)

\* ssh goes on to another step, with the prompts it had.
LEMMA LoginGoesOn ==
    ASSUME LoginInv, LoginTypes', UNCHANGED <<tab, attempt>>, armed'.stored = armed.stored, served => served',
           ssh.step # "ended", ssh'.prompts = ssh.prompts,
           \/ ssh'.step = "ended" /\ ssh'.in = ssh.in
           \/ /\ ssh.step \notin {"checks", "in"} /\ ssh'.step \notin {"checks", "in"}
              /\ ssh'.saved = ssh.saved /\ ssh'.in = ssh.in
           \/ /\ ssh.step \notin {"checks", "in"} /\ ssh'.step = "checks" /\ ssh'.in = ssh.in
              /\ ssh'.given # None
              /\ ssh'.saved = ssh.saved \/ (ssh'.saved /\ served' /\ armed.stored)
           \/ ssh'.step = "in" /\ ssh'.saved = ssh.saved
    PROVE  Running' /\ OnePrompt'
<1>1. Running'
  BY DEF LoginInv, Running
<1>2. OnePrompt'
  BY DEF LoginInv, OnePrompt
<1> QED BY <1>1, <1>2

\* While ssh runs no mark is due.
LEMMA MarkedStays ==
    ASSUME Marked, UNCHANGED <<tab, store, denied>>,
           ssh.step # "ended" \/ UNCHANGED <<ssh, served>>
    PROVE  Marked'
  BY DEF Marked

\* What was asked before waits for its answer still, or is no matter.
LEMMA WaitingStays ==
    ASSUME Waiting, UNCHANGED <<tab, attempt, ssh>>,
           \A n \in Attempts : asked'[n].what \in {None, asked[n].what}
    PROVE  Waiting'
  BY DEF Waiting, Runs

\* What the attempt's ssh asks now is what it waits for.
LEMMA WaitingMoves ==
    ASSUME Waiting, UNCHANGED <<tab, attempt>>,
           \A n \in Attempts \ {attempt} : asked'[n] = asked[n],
           \/ ssh'.step = "ended" /\ asked' = asked
           \/ asked'[attempt].what = None
           \/ asked'[attempt].what = "password" /\ ssh'.step = "asks"
           \/ asked'[attempt].what \in {"key", "changed_key"} /\ ssh'.step = "asks_key"
    PROVE  Waiting'
<1> SUFFICES ASSUME NEW n \in Attempts, asked'[n].what # None
             PROVE  /\ n <= attempt'
                    /\ Runs(n)' => IF asked'[n].what = "password" THEN ssh'.step = "asks"
                                                                  ELSE ssh'.step = "asks_key"
  BY DEF Waiting
<1>1. CASE n = attempt
  BY <1>1, LoginQuestionsAssumption DEF Runs, Attempts
<1>2. CASE n # attempt
  BY <1>2 DEF Waiting, Runs
<1> QED BY <1>1, <1>2

\* Nothing is asked while ssh waits for no window.
LEMMA NothingAsked ==
    ASSUME LoginInv, ssh.step \notin {"ended", "asks", "asks_key"}
    PROVE  attempt \in Attempts /\ asked[attempt].what = None
<1>1. attempt > 0 /\ attempt \in 0..MaxAttempts
  BY DEF LoginInv, Running, LoginTypes
<1>2. attempt \in Attempts
  BY <1>1, LoginQuestionsAssumption DEF Attempts
<1>3. Runs(attempt)
  BY DEF LoginInv, Running, Runs
<1> QED BY <1>2, <1>3 DEF LoginInv, Waiting

\* An answer to attempt n's ssh that lets it go on in another step, and one
\* nothing comes of.
LEMMA AnswerKeeps ==
    ASSUME LoginInv, LoginTypes', NEW n \in Attempts, asked[n].what # None, Answered(n),
           UNCHANGED <<tab, attempt, served, store, denied>>, armed'.stored = armed.stored,
           \/ ssh' = ssh
           \/ /\ Runs(n) /\ ssh'.prompts = ssh.prompts /\ ssh'.in = ssh.in
              /\ \/ ssh'.step = "ended"
                 \/ ssh'.step \notin {"checks", "in"} /\ ssh'.saved = ssh.saved
                 \/ ssh'.step = "checks" /\ ssh'.given # None /\ ssh'.saved = ssh.saved
    PROVE  Running' /\ Waiting' /\ OnePrompt' /\ Marked'
<1>1. /\ asked'[n].what = None
      /\ \A k \in Attempts \ {n} : asked'[k] = asked[k]
  BY AnsweredForm DEF LoginInv
<1>2. CASE ssh' = ssh
  BY <1>1, <1>2, MarkedStays, WaitingStays DEF LoginInv, Running, OnePrompt
<1>3. CASE ssh' # ssh
  <2>1. Runs(n) /\ n = attempt /\ ssh.step \in {"asks", "asks_key"}
    BY <1>3 DEF LoginInv, Waiting, Runs
  <2>2. Running' /\ OnePrompt'
    BY <1>3, <2>1, LoginGoesOn
  <2>3. Waiting'
    BY <1>1, <2>1, WaitingMoves DEF LoginInv
  <2>4. Marked'
    BY <2>1, MarkedStays DEF LoginInv
  <2> QED BY <2>2, <2>3, <2>4
<1> QED BY <1>2, <1>3

\* A step that leaves the tab and what is asked, from where no window is
\* waited for.
LEMMA MoveKeeps ==
    ASSUME LoginInv, LoginTypes', UNCHANGED <<tab, attempt, served, armed, store, denied, asked>>,
           ssh.step \notin {"ended", "asks", "asks_key"}, ssh'.prompts = ssh.prompts,
           \/ ssh'.step = "ended" /\ ssh'.in = ssh.in
           \/ /\ ssh.step \notin {"checks", "in"}
              /\ ssh'.saved = ssh.saved /\ ssh'.in = ssh.in
              /\ \/ ssh'.step \notin {"checks", "in"}
                 \/ ssh'.step = "checks" /\ ssh'.given # None
           \/ ssh'.step = "in" /\ ssh'.saved = ssh.saved
    PROVE  Running' /\ Waiting' /\ OnePrompt' /\ Marked'
<1>1. Running' /\ OnePrompt'
  BY LoginGoesOn
<1>2. Waiting'
  BY NothingAsked, WaitingMoves DEF LoginInv
<1>3. Marked'
  BY MarkedStays DEF LoginInv
<1> QED BY <1>1, <1>2, <1>3

QuestionsKept == Running /\ Waiting /\ OnePrompt /\ Marked

\* The steps keep what is told of ssh, of its questions and of the marks.
LEMMA KeptStep == LoginInv /\ LoginTypes' /\ [LoginNext]_loginVars => QuestionsKept'
<1> SUFFICES ASSUME LoginInv, LoginTypes', [LoginNext]_loginVars
             PROVE  QuestionsKept'
  OBVIOUS
<1> USE LoginQuestionsAssumption DEF NoTab
<1>u. /\ LoginTypes /\ Running /\ Waiting /\ OnePrompt /\ Marked /\ ssh \in Sshs
      /\ tab.user \in Users
  BY DEF LoginInv, LoginTypes, Tabs
<1>f. /\ Is(Ended, "ended", ssh.prompts, ssh.given, ssh.saved, ssh.in, ssh.failed)
      /\ Is(Failed, "ended", ssh.prompts, ssh.given, ssh.saved, ssh.in, TRUE)
      /\ \A c \in Secrets : Is(Tries(c), "checks", ssh.prompts, c, ssh.saved, ssh.in, ssh.failed)
  BY <1>u, Forms
<1>s. \A step \in Steps :
         Is([ssh EXCEPT !.step = step], step, ssh.prompts, ssh.given, ssh.saved, ssh.in, ssh.failed)
  BY <1>u, Forms
<1>e. ASSUME ssh'.step = "ended", UNCHANGED <<attempt, asked>> PROVE Waiting'
  BY <1>u, <1>e DEF Waiting, Runs
<1>1. CASE Begin
  <2>1. ssh.step = "ended" /\ attempt' > 0
    BY <1>1, <1>u DEF Begin, Running, LoginTypes
  <2>2. Running' /\ OnePrompt'
    <3>1. CASE /\ tab' = [tab EXCEPT !.at = "running", !.preset = NotGiven]
               /\ ssh' = [NoSsh EXCEPT !.step = "key", !.prompts = Prompts(tab.user)]
      <4>1. Prompts(tab.user) \in {1, 2} /\ (Usable(tab.user) => Prompts(tab.user) = 1)
        BY DEF Prompts
      <4>2. Is(ssh', "key", Prompts(tab.user), None, FALSE, FALSE, FALSE)
        BY <3>1, <4>1, Started
      <4>3. armed'.stored => Usable(tab.user)
        BY <1>1, <1>u, ArmedForms DEF Begin
      <4>4. tab'.at = "running"
        BY <1>u, <3>1 DEF LoginTypes, Tabs
      <4> QED BY <2>1, <4>1, <4>2, <4>3, <4>4 DEF Running, OnePrompt, Is
    <3>2. CASE tab' = [tab EXCEPT !.at = "idle", !.preset = NotGiven] /\ UNCHANGED ssh
      BY <1>u, <2>1, <3>2 DEF Running, OnePrompt
    <3> QED BY <1>1, <3>1, <3>2 DEF Begin
  <2>3. Waiting'
    <3>1. \A n \in Attempts : asked'[n].what # None => n < attempt'
      BY <1>1, <1>u DEF Begin, Waiting, LoginTypes, Attempts
    <3> QED BY <1>1, <1>u, <3>1 DEF Begin, Waiting, Runs, LoginTypes, Attempts
  <2>4. Marked'
    BY <1>1, <1>u DEF Begin, Marked
  <2> QED BY <2>2, <2>3, <2>4 DEF QuestionsKept
<1>2. CASE LoggedIn
  <2>1. armed'.stored = armed.stored
    BY <1>2, <1>u, ArmedForms DEF LoggedIn, Secrets
  <2>2. Marked'
    <3>1. \A u \in denied' : u \in denied /\ store'[u] = store[u]
      BY <1>2, <1>u DEF LoggedIn, LoginTypes
    <3> QED BY <1>2, <1>u, <3>1 DEF LoggedIn, Marked
  <2> QED BY <1>2, <1>u, <2>1, <2>2 DEF LoggedIn, QuestionsKept, Running, Waiting, OnePrompt, Runs
<1>3. CASE Finish
  <2>1. ssh.step = "ended" /\ Running' /\ Waiting' /\ OnePrompt'
    BY <1>3, <1>e, <1>u DEF Finish, Running, OnePrompt
  <2>2. CASE Again
    BY <2>1, <2>2 DEF Again, QuestionsKept, Marked
  <2>3. CASE /\ store' = [store EXCEPT ![tab.user].refused =
                          @ \/ (served /\ ssh.failed /\ ~ssh.in /\ store[tab.user].secret # None)]
             /\ UNCHANGED denied
    <3> DEFINE mark == store[tab.user].refused
                       \/ (served /\ ssh.failed /\ ~ssh.in /\ store[tab.user].secret # None)
    <3>1. store' = [store EXCEPT ![tab.user].refused = mark]
      BY <2>3
    <3>2. tab.at = "running" /\ denied \subseteq Users
      BY <1>3, <1>u DEF Finish, LoginTypes
    <3>3. ASSUME NEW u \in denied
          PROVE  store[u].secret # None /\ (IF u = tab.user THEN mark ELSE store[u].refused)
      BY <1>u, <3>2, <3>3 DEF Marked
    <3> HIDE DEF mark
    <3>4. \A u \in Users : store'[u].secret = store[u].secret
                          /\ store'[u].refused = IF u = tab.user THEN mark ELSE store[u].refused
      BY <1>u, <3>1 DEF LoginTypes, Accounts
    <3>5. Marked'
      BY <2>3, <3>2, <3>3, <3>4 DEF Marked
    <3> QED BY <2>1, <3>5 DEF QuestionsKept
  <2> QED BY <1>3, <2>2, <2>3 DEF Finish
<1>4. CASE ConnectAgain
  <2>1. ssh.step = "ended" /\ tab'.at = "begin" /\ tab'.user = tab.user
    BY <1>4, <1>u DEF ConnectAgain, Running, LoginTypes, Tabs
  <2>2. Running' /\ Waiting' /\ OnePrompt'
    BY <1>4, <1>e, <1>u, <2>1 DEF ConnectAgain, Running, OnePrompt
  <2>3. Marked'
    BY <1>4, <1>u DEF ConnectAgain, Marked
  <2> QED BY <2>2, <2>3 DEF QuestionsKept
<1>5. CASE Close
  <2>1. ssh'.step = "ended" /\ ssh'.in = ssh.in /\ tab'.at = "closed"
    BY <1>5, <1>f, <1>u DEF Close, Is, LoginTypes, Tabs
  <2>2. Running' /\ OnePrompt'
    BY <2>1 DEF Running, OnePrompt
  <2>3. \A n \in Attempts : asked'[n].what = None
    <3>1. \A n \in Attempts : [asked[n] EXCEPT !.what = None, !.window = FALSE].what = None
      BY <1>u DEF LoginTypes, Questions
    <3> QED BY <1>5, <3>1 DEF Close
  <2>4. Marked'
    BY <1>5, <1>u, <2>1 DEF Close, Marked
  <2> QED BY <2>2, <2>3, <2>4 DEF QuestionsKept, Waiting
<1>6. CASE AskKey
  <2>1. ssh.step = "key" /\ attempt \in Attempts
    BY <1>6, NothingAsked DEF AskKey
  <2>2. CASE ssh' = [ssh EXCEPT !.step = "login"] /\ UNCHANGED asked
    <3>1. Is(ssh', "login", ssh.prompts, ssh.given, ssh.saved, ssh.in, ssh.failed)
      BY <1>s, <2>2 DEF Steps
    <3> QED BY <1>6, <2>1, <2>2, <3>1, MoveKeeps DEF AskKey, QuestionsKept, Is
  <2>3. CASE ssh' \in {[ssh EXCEPT !.step = "tab_key"], Failed} /\ UNCHANGED asked
    <3>1. \/ Is(ssh', "tab_key", ssh.prompts, ssh.given, ssh.saved, ssh.in, ssh.failed)
          \/ Is(ssh', "ended", ssh.prompts, ssh.given, ssh.saved, ssh.in, TRUE)
      BY <1>f, <1>s, <2>3 DEF Steps
    <3> QED BY <1>6, <2>1, <2>3, <3>1, MoveKeeps DEF AskKey, QuestionsKept, Is
  <2>4. ASSUME NEW what \in {"key", "changed_key"}, asked' = Asks(what),
               ssh' = [ssh EXCEPT !.step = "asks_key"]
        PROVE  QuestionsKept'
    <3>1. Is(ssh', "asks_key", ssh.prompts, ssh.given, ssh.saved, ssh.in, ssh.failed)
      BY <1>s, <2>4 DEF Steps
    <3>2. Running' /\ OnePrompt'
      BY <1>6, <2>1, <3>1, LoginGoesOn DEF AskKey, Is
    <3>3. Waiting'
      BY <1>6, <1>u, <2>1, <2>4, <3>1, AskedForms, WaitingMoves DEF AskKey, Is
    <3>4. Marked'
      BY <1>6, <1>u, <2>1, MarkedStays DEF AskKey
    <3> QED BY <3>2, <3>3, <3>4 DEF QuestionsKept
  <2> QED BY <1>6, <2>2, <2>3, <2>4 DEF AskKey
<1>k. ASSUME NEW n \in Attempts, NEW k \in {"kept", "once"}, KeyYes(n, k) \/ KeyNo(n)
      PROVE  \/ ssh' = ssh
             \/ /\ Runs(n) /\ ssh'.prompts = ssh.prompts /\ ssh'.in = ssh.in
                /\ ssh'.step = "ended" \/ (ssh'.step = "login" /\ ssh'.saved = ssh.saved)
  <2>1. Is([ssh EXCEPT !.step = "login"], "login", ssh.prompts, ssh.given, ssh.saved, ssh.in, ssh.failed)
    BY <1>s DEF Steps
  <2> QED BY <1>k, <1>f, <2>1 DEF KeyYes, KeyNo, Is
<1>7. ASSUME NEW n \in Attempts, AnswerKey(n) PROVE QuestionsKept'
  <2>1. \/ ssh' = ssh
        \/ /\ Runs(n) /\ ssh'.prompts = ssh.prompts /\ ssh'.in = ssh.in
           /\ ssh'.step = "ended" \/ (ssh'.step = "login" /\ ssh'.saved = ssh.saved)
    BY <1>7, <1>k DEF AnswerKey
  <2> QED BY <1>7, <2>1, AnswerKeeps DEF AnswerKey, QuestionsKept, None
<1>8. ASSUME NEW n \in Attempts, AnswerChangedKey(n) PROVE QuestionsKept'
  BY <1>8, <1>k, AnswerKeeps DEF AnswerChangedKey, QuestionsKept, None
<1>9. CASE TabKey
  <2>1. ssh.step = "tab_key" /\ attempt \in Attempts
    BY <1>9, NothingAsked DEF TabKey
  <2>2. \/ ssh' = ssh
        \/ /\ ssh'.prompts = ssh.prompts /\ ssh'.in = ssh.in
           /\ ssh'.step = "ended" \/ (ssh'.step = "login" /\ ssh'.saved = ssh.saved)
    BY <1>9, <1>k, <2>1 DEF TabKey
  <2> QED BY <1>9, <2>1, <2>2, MoveKeeps DEF TabKey, QuestionsKept
<1>10. CASE AskPassword
  <2>1. ssh.step = "login" /\ attempt \in Attempts /\ ~ssh.saved
    BY <1>10, <1>u, NothingAsked DEF AskPassword, OnePrompt
  <2>2. armed'.stored = armed.stored
    BY <1>10, <1>u, ArmedForms DEF AskPassword, Secrets
  <2>3. Marked'
    BY <1>10, <1>u, <2>1, MarkedStays DEF AskPassword
  <2>4. armed.preset \in Secrets /\ store[tab.user].secret \in Secrets
    BY <1>u DEF LoginTypes, Armeds, Accounts
  <2>5. CASE armed.preset # None /\ ssh' = Tries(armed.preset) /\ UNCHANGED <<served, asked>>
    <3>1. Is(ssh', "checks", ssh.prompts, armed.preset, ssh.saved, ssh.in, ssh.failed)
      BY <1>f, <2>4, <2>5
    <3>2. Running' /\ OnePrompt'
      BY <1>10, <2>1, <2>2, <2>5, <3>1, LoginGoesOn DEF AskPassword, Is
    <3>3. Waiting'
      BY <1>10, <1>u, <2>1, <2>5, NothingAsked, WaitingMoves DEF AskPassword
    <3> QED BY <2>3, <3>2, <3>3 DEF QuestionsKept
  <2>6. CASE /\ armed.stored /\ Usable(tab.user) /\ served' = TRUE /\ UNCHANGED asked
             /\ ssh' = [Tries(store[tab.user].secret) EXCEPT !.saved = TRUE]
    <3>1. Is(ssh', "checks", ssh.prompts, store[tab.user].secret, TRUE, ssh.in, ssh.failed)
      BY <1>u, <2>4, <2>6, Forms
    <3>2. Running' /\ OnePrompt'
      BY <1>10, <2>1, <2>2, <2>6, <3>1, LoginGoesOn DEF AskPassword, Is, Usable
    <3>3. Waiting'
      BY <1>10, <1>u, <2>1, <2>6, NothingAsked, WaitingMoves DEF AskPassword
    <3> QED BY <2>3, <3>2, <3>3 DEF QuestionsKept
  <2>7. CASE ssh' = [ssh EXCEPT !.step = "tab"] /\ UNCHANGED <<served, asked>>
    <3>1. Is(ssh', "tab", ssh.prompts, ssh.given, ssh.saved, ssh.in, ssh.failed)
      BY <1>s, <2>7 DEF Steps
    <3>2. Running' /\ OnePrompt'
      BY <1>10, <2>1, <2>2, <2>7, <3>1, LoginGoesOn DEF AskPassword, Is
    <3>3. Waiting'
      BY <1>10, <1>u, <2>1, <2>7, NothingAsked, WaitingMoves DEF AskPassword
    <3> QED BY <2>3, <3>2, <3>3 DEF QuestionsKept
  <2>8. CASE asked' = Asks("password") /\ ssh' = [ssh EXCEPT !.step = "asks"] /\ UNCHANGED served
    <3>1. Is(ssh', "asks", ssh.prompts, ssh.given, ssh.saved, ssh.in, ssh.failed)
      BY <1>s, <2>8 DEF Steps
    <3>2. Running' /\ OnePrompt'
      BY <1>10, <2>1, <2>2, <2>8, <3>1, LoginGoesOn DEF AskPassword, Is
    <3>3. Waiting'
      BY <1>10, <1>u, <2>1, <2>8, <3>1, AskedForms, WaitingMoves DEF AskPassword, Is
    <3> QED BY <2>3, <3>2, <3>3 DEF QuestionsKept
  <2> QED BY <1>10, <2>5, <2>6, <2>7, <2>8 DEF AskPassword
<1>11. ASSUME NEW n \in Attempts, AnswerPassword(n) PROVE QuestionsKept'
  <2>1. \A g \in Given : g.secret \in Secrets /\ g.secret # None
    BY DEF Given, Secrets, Passwords, None
  <2>2. armed'.stored = armed.stored
    <3>1. \A g \in Given : (IF g.save THEN g.secret ELSE None) \in Secrets
      BY <2>1 DEF Secrets
    <3>2. \A g \in Given : [armed EXCEPT !.keep = IF g.save THEN g.secret ELSE None].stored = armed.stored
      BY <1>u, <3>1, ArmedForms
    <3>3. \A g \in Given : [armed EXCEPT !.relogin = g].stored = armed.stored
      BY <1>u, ArmedForms
    <3>4. [armed EXCEPT !.skipped = TRUE].stored = armed.stored
      BY <1>u, ArmedForms
    <3>5. \/ \E g \in Given : armed' = [armed EXCEPT !.keep = IF g.save THEN g.secret ELSE None]
          \/ \E g \in Given : armed' = [armed EXCEPT !.relogin = g]
          \/ armed' = armed
          \/ armed' = [armed EXCEPT !.skipped = TRUE]
      BY <1>11, PasswordForms
    <3> QED BY Zenon, <3>2, <3>3, <3>4, <3>5
  <2>3. \/ ssh' = ssh
        \/ /\ Runs(n) /\ ssh'.prompts = ssh.prompts /\ ssh'.in = ssh.in
           /\ \/ ssh'.step = "ended"
              \/ ssh'.step = "tab" /\ ssh'.saved = ssh.saved
              \/ ssh'.step = "checks" /\ ssh'.given # None /\ ssh'.saved = ssh.saved
    <3>1. Is([ssh EXCEPT !.step = "tab"], "tab", ssh.prompts, ssh.given, ssh.saved, ssh.in, ssh.failed)
      BY <1>s DEF Steps
    <3>2. \/ ssh' = ssh
          \/ Runs(n) /\ ssh' \in {Ended, [ssh EXCEPT !.step = "tab"]}
          \/ Runs(n) /\ \E g \in Given : ssh' = Tries(g.secret)
      BY <1>11, PasswordForms
    <3>3. CASE Runs(n) /\ ssh' \in {Ended, [ssh EXCEPT !.step = "tab"]}
      BY <1>f, <3>1, <3>3 DEF Is
    <3>4. CASE Runs(n) /\ \E g \in Given : ssh' = Tries(g.secret)
      <4>1. PICK g \in Given : ssh' = Tries(g.secret)
        BY <3>4
      <4>2. Is(ssh', "checks", ssh.prompts, g.secret, ssh.saved, ssh.in, ssh.failed)
        BY <1>f, <2>1, <4>1
      <4> QED BY <2>1, <3>4, <4>2 DEF Is
    <3> QED BY <3>2, <3>3, <3>4
  <2> QED BY <1>11, <2>2, <2>3, AnswerKeeps DEF AnswerPassword, QuestionsKept, None
<1>12. ASSUME NEW n \in Attempts, Unanswered(n) PROVE QuestionsKept'
  <2>1. asked[n].what \in {"password", "key", "changed_key"}
    BY <1>12, <1>u DEF Unanswered, LoginTypes, Questions
  <2>2. armed'.stored = armed.stored
    <3> DEFINE b == armed.skipped \/ asked[n].what = "password"
    <3>1. b \in BOOLEAN
      BY <1>u DEF LoginTypes, Armeds
    <3>2. armed' = [armed EXCEPT !.skipped = b]
      BY <1>12 DEF Unanswered
    <3> HIDE DEF b
    <3>3. [armed EXCEPT !.skipped = b].stored = armed.stored
      BY <1>u, <3>1, ArmedForms
    <3> QED BY <3>2, <3>3
  <2>3. \/ ssh' = ssh
        \/ Runs(n) /\ ssh' \in {[ssh EXCEPT !.step = "tab"], [ssh EXCEPT !.step = "tab_key"], Failed}
    BY <1>12, <2>1 DEF Unanswered
  <2>4. /\ Is([ssh EXCEPT !.step = "tab"], "tab", ssh.prompts, ssh.given, ssh.saved, ssh.in, ssh.failed)
        /\ Is([ssh EXCEPT !.step = "tab_key"], "tab_key", ssh.prompts, ssh.given, ssh.saved, ssh.in, ssh.failed)
    BY <1>s DEF Steps
  <2>5. \/ ssh' = ssh
        \/ /\ Runs(n) /\ ssh'.prompts = ssh.prompts /\ ssh'.in = ssh.in
           /\ \/ ssh'.step = "ended"
              \/ ssh'.step \in {"tab", "tab_key"} /\ ssh'.saved = ssh.saved
    BY <1>f, <2>3, <2>4 DEF Is
  <2> QED BY <1>12, <2>2, <2>5, AnswerKeeps DEF Unanswered, QuestionsKept
<1>13. CASE TabPassword
  <2>1. PICK c \in Passwords : ssh' = Tries(c)
    BY <1>13 DEF TabPassword
  <2>2. c \in Secrets /\ c # None
    BY DEF Secrets, Passwords, None
  <2>3. Is(ssh', "checks", ssh.prompts, c, ssh.saved, ssh.in, ssh.failed)
    BY <1>f, <2>1, <2>2
  <2> QED BY <1>13, <2>2, <2>3, MoveKeeps DEF TabPassword, QuestionsKept, Is
<1>14. CASE Check
  <2>1. ssh.step = "checks" /\ ~ssh.in /\ attempt \in Attempts /\ asked[attempt].what = None
    BY <1>14, <1>u, NothingAsked DEF Check, OnePrompt
  <2>2. CASE ssh.given = "right"
    <3>1. Is(ssh', "in", ssh.prompts, ssh.given, ssh.saved, TRUE, ssh.failed)
      BY <1>14, <1>u, <2>2, Forms DEF Check
    <3> QED BY <1>14, <2>1, <2>2, <3>1, MoveKeeps DEF Check, QuestionsKept, Is
  <2>3. CASE ssh.given # "right" /\ ssh.prompts = 1
    <3>1. Is(ssh', "ended", 0, ssh.given, ssh.saved, ssh.in, TRUE)
      BY <1>14, <1>u, <2>3, Forms DEF Check
    <3>2. Running' /\ OnePrompt'
      BY <1>u, <2>1, <3>1 DEF Running, OnePrompt, Is
    <3>3. Waiting'
      BY <1>14, <1>e, <3>1 DEF Check, Is
    <3>4. Marked'
      <4>1. ASSUME NEW u \in denied'
            PROVE  \/ u \in denied
                   \/ u = tab.user /\ ssh.saved /\ store[u].secret = ssh.given
        BY <1>14, <2>3 DEF Check
      <4>2. ssh.saved => served /\ ssh.given # None
        BY <1>u, <2>1 DEF OnePrompt
      <4>3. ssh'.step = "ended" /\ ssh'.failed /\ ~ssh'.in /\ tab.at = "running"
        BY <1>u, <2>1, <3>1 DEF Is, Running
      <4>4. UNCHANGED <<tab, store, served>>
        BY <1>14 DEF Check
      <4>5. ASSUME NEW u \in denied'
            PROVE  store[u].secret # None
                   /\ (store[u].refused \/ (u = tab.user /\ served))
        <5>1. CASE u \in denied
          BY <1>u, <2>1, <4>3, <5>1 DEF Marked
        <5>2. CASE u = tab.user /\ ssh.saved /\ store[u].secret = ssh.given
          BY <4>2, <5>2
        <5> QED BY <4>1, <5>1, <5>2
      <4> QED BY <4>3, <4>4, <4>5 DEF Marked
    <3> QED BY <3>2, <3>3, <3>4 DEF QuestionsKept
  <2>4. CASE ssh.given # "right" /\ ssh.prompts # 1
    <3>1. ssh.prompts > 0 /\ ssh.prompts \in 0..2 /\ ~ssh.saved /\ ~armed.stored /\ tab.at = "running"
      BY <1>u, <2>1, <2>4 DEF Running, OnePrompt, Sshs
    <3>2. Is(ssh', "login", ssh.prompts - 1, ssh.given, ssh.saved, ssh.in, ssh.failed)
      BY <1>14, <1>u, <2>4, <3>1, Forms DEF Check
    <3>3. UNCHANGED <<tab, attempt, armed, served, store, asked, denied>>
      BY <1>14, <2>4, <3>1 DEF Check
    <3>4. ssh'.prompts > 0
      BY <2>4, <3>1, <3>2 DEF Is
    <3>5. Running' /\ OnePrompt'
      BY <1>u, <2>1, <3>1, <3>2, <3>3, <3>4 DEF Running, OnePrompt, Is
    <3>6. Waiting' /\ Marked'
      BY <1>u, <2>1, <3>3, WaitingMoves, MarkedStays
    <3> QED BY <3>5, <3>6 DEF QuestionsKept
  <2> QED BY <2>2, <2>3, <2>4
<1>15. CASE KeyLogin
  <2>1. Is(ssh', "in", ssh.prompts, ssh.given, ssh.saved, TRUE, ssh.failed)
    BY <1>15, <1>u, Forms DEF KeyLogin
  <2> QED BY <1>15, <2>1, MoveKeeps DEF KeyLogin, QuestionsKept, Is
<1>19. CASE SshEnds
  <2>1. ssh'.step = "ended" /\ ssh'.in = ssh.in /\ ssh'.prompts = ssh.prompts
    BY <1>19, <1>f DEF SshEnds, Is
  <2>2. Running' /\ OnePrompt'
    BY <1>19, <2>1, LoginGoesOn DEF SshEnds
  <2> QED BY <1>19, <1>e, <1>u, <2>1, <2>2, MarkedStays DEF SshEnds, QuestionsKept
<1>16. CASE AppStops \/ AppStarts
  <2>1. \A n \in Attempts : asked'[n].what = asked[n].what
    BY <1>16, <1>u DEF AppStops, AppStarts, LoginTypes, Questions
  <2>2. UNCHANGED <<tab, attempt, armed, served, ssh, store, denied>>
    BY <1>16 DEF AppStops, AppStarts
  <2> QED BY <1>u, <2>1, <2>2, WaitingStays, MarkedStays DEF QuestionsKept, Running, OnePrompt
<1>17. CASE OthersSave
  <2>1. UNCHANGED <<tab, attempt, armed, served, ssh, asked>>
    BY <1>17 DEF OthersSave
  <2>2. \A u \in denied' : u \in denied /\ store'[u] = store[u]
    BY <1>17, <1>u DEF OthersSave, LoginTypes
  <2>3. Marked'
    BY <1>u, <2>1, <2>2 DEF Marked
  <2> QED BY <1>u, <2>1, <2>3, WaitingStays DEF QuestionsKept, Running, OnePrompt
<1>18. CASE UNCHANGED loginVars
  BY <1>18, <1>u DEF loginVars, QuestionsKept, Running, Waiting, OnePrompt, Marked, Runs
<1> QED BY <1>1, <1>2, <1>3, <1>4, <1>5, <1>6, <1>7, <1>8, <1>9, <1>10, <1>11, <1>12, <1>13,
           <1>14, <1>15, <1>16, <1>17, <1>18, <1>19 DEF LoginNext

\* A key trusted once stays to be taken out, or is taken out.
LEMMA OnceStep == LoginInv /\ [LoginNext]_loginVars => Once'
<1> SUFFICES ASSUME LoginInv, [LoginNext]_loginVars
             PROVE  Once'
  OBVIOUS
<1> USE DEF NoTab
<1>u. tab \in Tabs /\ Running /\ Once
  BY DEF LoginInv, LoginTypes
<1>1. CASE Begin \/ ConnectAgain
  BY <1>1, <1>u DEF Begin, ConnectAgain, Once
<1>2. CASE Finish
  BY <1>2, <1>u DEF Finish, ForgetOnce, Once, None
<1>3. CASE Close
  BY <1>3, <1>u DEF Close, Once, Tabs
<1>k. ASSUME NEW n \in Attempts, KeyYes(n, "kept") \/ KeyNo(n)
      PROVE  known' \in {known, "kept", None}
  BY <1>k DEF KeyYes, KeyNo
<1>4. ASSUME NEW n \in Attempts, AnswerKey(n) PROVE Once'
  <2>1. CASE once' = TRUE /\ Runs(n) /\ KeyYes(n, "once")
    <3>1. tab' = tab
      BY <1>4 DEF AnswerKey
    <3>2. tab.at = "running"
      BY <2>1 DEF Runs
    <3> QED BY <2>1, <3>1, <3>2 DEF Once
  <2>2. CASE known' \in {known, "kept", None} /\ (once' = TRUE \/ UNCHANGED once)
    BY <1>4, <1>u, <2>2 DEF AnswerKey, Once, None
  <2>3. \/ once' = TRUE /\ Runs(n) /\ KeyYes(n, "once")
        \/ known' \in {known, "kept", None} /\ (once' = TRUE \/ UNCHANGED once)
    BY <1>4, <1>k DEF AnswerKey
  <2> QED BY <2>1, <2>2, <2>3
<1>5. ASSUME NEW n \in Attempts, AnswerChangedKey(n) PROVE Once'
  BY <1>5, <1>k, <1>u DEF AnswerChangedKey, Once, None
<1>6. CASE TabKey
  <2>1. known' \in {known, "kept", None}
    BY <1>6 DEF TabKey, KeyYes, KeyNo
  <2> QED BY <1>6, <1>u, <2>1 DEF TabKey, Once, None
<1>7. ASSUME UNCHANGED <<tab, known, once>> PROVE Once'
  BY <1>7, <1>u DEF Once
<1>8. CASE LoggedIn \/ AskKey \/ AskPassword \/ TabPassword \/ Check \/ KeyLogin \/ SshEnds
           \/ AppStops \/ AppStarts \/ OthersSave
  BY <1>7, <1>8 DEF LoggedIn, AskKey, AskPassword, TabPassword, Check, KeyLogin, SshEnds,
                    AppStops, AppStarts, OthersSave
<1>9. ASSUME NEW n \in Attempts, AnswerPassword(n) \/ Unanswered(n) PROVE Once'
  BY <1>7, <1>9 DEF AnswerPassword, Unanswered
<1>10. CASE UNCHANGED loginVars
  BY <1>7, <1>10 DEF loginVars
<1> QED BY <1>1, <1>2, <1>3, <1>4, <1>5, <1>6, <1>8, <1>9, <1>10 DEF LoginNext

\* A saved password is given where it isn't marked, so it wasn't refused.
LEMMA RefusedStep ==
    LoginInv /\ [LoginNext]_loginVars =>
        [ssh'.step = "checks" /\ ssh'.saved /\ ssh.step # "checks" => tab.user \notin denied]_loginVars
<1> SUFFICES ASSUME LoginInv, LoginNext, ssh'.step = "checks", ssh'.saved, ssh.step # "checks"
             PROVE  tab.user \notin denied
  BY DEF loginVars
<1>u. /\ LoginTypes /\ Running /\ Waiting /\ OnePrompt /\ Marked /\ ssh \in Sshs
      /\ \A u \in Users : Prompts(u) \in {1, 2}
      /\ tab.user \in Users
  BY DEF LoginInv, LoginTypes, Tabs, Prompts
<1>f. /\ Ended.step = "ended" /\ Failed.step = "ended"
      /\ \A c \in Secrets : Tries(c).saved = ssh.saved
      /\ \A step \in Steps : [ssh EXCEPT !.step = step].step = step
  BY <1>u, Forms DEF Is
<1>1. \/ AskPassword \/ TabPassword
      \/ \E n \in Attempts : AnswerPassword(n)
  <2>1. ~Begin
    BY <1>u, Started DEF Begin, Is
  <2>2. ~(LoggedIn \/ Finish \/ ConnectAgain \/ AppStops \/ AppStarts \/ OthersSave)
    BY DEF LoggedIn, Finish, ConnectAgain, AppStops, AppStarts, OthersSave
  <2>3. ~(Close \/ AskKey \/ SshEnds)
    BY <1>f DEF Close, AskKey, SshEnds, Steps
  <2>4. ~KeyLogin /\ ~Check
    BY <1>u, Forms DEF KeyLogin, Check, Is
  <2>5. \A n, k : ~KeyYes(n, k) /\ ~KeyNo(n)
    BY <1>f DEF KeyYes, KeyNo, Steps
  <2>6. ASSUME NEW n \in Attempts PROVE ~(AnswerKey(n) \/ AnswerChangedKey(n))
    BY <2>5 DEF AnswerKey, AnswerChangedKey
  <2>7. ASSUME NEW n \in Attempts PROVE ~Unanswered(n)
    <3>1. asked[n].what \in {None, "password", "key", "changed_key"}
      BY <1>u DEF LoginTypes, Questions
    <3> QED BY <1>f, <3>1 DEF Unanswered, Steps
  <2>8. ~TabKey
    BY <2>5 DEF TabKey
  <2> QED BY <2>1, <2>2, <2>3, <2>4, <2>6, <2>7, <2>8 DEF LoginNext
<1>2. \A g \in Given : g.secret \in Secrets
  BY DEF Given, Secrets
<1>3. CASE TabPassword
  BY <1>3, <1>f, <1>u DEF TabPassword, OnePrompt, Secrets
<1>4. ASSUME NEW n \in Attempts, AnswerPassword(n) PROVE FALSE
  <2>1. Runs(n) /\ ssh.step = "asks"
    <3>1. Runs(n)
      BY <1>4, <1>f DEF AnswerPassword
    <3> QED BY <1>4, <1>u, <3>1 DEF AnswerPassword, Waiting, None
  <2>2. ~ssh.saved
    BY <1>u, <2>1 DEF OnePrompt
  <2>3. \/ \E g \in Given : ssh' = Tries(g.secret)
        \/ ssh' = Ended
        \/ ssh' = [ssh EXCEPT !.step = "tab"]
    BY <1>4, <2>1, PasswordForms
  <2>4. [ssh EXCEPT !.step = "tab"].step = "tab"
    BY <1>f DEF Steps
  <2>5. \A g \in Given : Tries(g.secret).saved = ssh.saved
    BY <1>2, <1>f
  <2>6. ~\E g \in Given : ssh' = Tries(g.secret)
    BY Zenon, <2>2, <2>5
  <2> QED BY <1>f, <2>3, <2>4, <2>6
<1>5. CASE AskPassword
  <2>1. ssh.step = "login" /\ ~ssh.saved
    BY <1>5, <1>u DEF AskPassword, OnePrompt
  <2>2. armed.preset \in Secrets
    BY <1>u DEF LoginTypes, Armeds
  <2>3. Usable(tab.user)
    BY <1>5, <1>f, <2>1, <2>2 DEF AskPassword, Steps
  <2> QED BY <1>u, <2>1, <2>3 DEF Marked, Running, Usable
<1> QED BY <1>1, <1>3, <1>4, <1>5

-----------------------------------------------------------------------------
(* The theorems. *)

LEMMA Initially == LoginInit => LoginInv
<1> SUFFICES ASSUME LoginInit
             PROVE  LoginInv
  OBVIOUS
<1>1. ssh \in Sshs /\ ssh.step = "ended" /\ ~ssh.in
  BY Started DEF LoginInit
<1>2. tab \in Tabs /\ tab.at = "begin"
  BY DEF LoginInit, Tabs, Users
<1>3. Unarmed \in Armeds
  BY DEF Unarmed, Armeds, Secrets, NotGiven, None
<1>4. asked \in [Attempts -> Questions] /\ \A n \in Attempts : asked[n].what = None
  BY DEF LoginInit, Questions, Users
<1>5. store \in [Users -> Accounts]
  <2>1. /\ [secret |-> None, refused |-> FALSE] \in Accounts
        /\ [secret |-> "wrong", refused |-> FALSE] \in Accounts
    BY DEF Accounts, Secrets, Passwords
  <2>2. store \in [Users -> {[secret |-> None, refused |-> FALSE], [secret |-> "wrong", refused |-> FALSE]}]
    BY DEF LoginInit
  <2> QED BY <2>1, <2>2
<1>6. 0 \in 0..MaxAttempts /\ 0 \in 0..MaxLoginActs
  BY LoginQuestionsAssumption
<1>7. LoginTypes
  BY <1>1, <1>2, <1>3, <1>4, <1>5, <1>6 DEF LoginInit, LoginTypes
<1>8. Once
  BY DEF LoginInit, Once, None
<1> QED BY <1>1, <1>2, <1>4, <1>7, <1>8 DEF LoginInit, LoginInv, Running, Waiting, OnePrompt, Marked

LEMMA Always == LoginSpec => []LoginInv
<1>1. LoginInv /\ [LoginNext]_loginVars => LoginInv'
  BY TypesStep, KeptStep, OnceStep DEF LoginInv, QuestionsKept
<1> QED BY Initially, <1>1, PTL DEF LoginSpec

\* What a tab keeps while ssh logs in is always of its type, and ssh asks
\* only while it has a prompt left.
THEOREM LoginTypeCorrect == LoginSpec => []LoginTypeOK
<1>1. LoginInv => LoginTypeOK
  BY Zenon DEF LoginInv, LoginTypes, Running, LoginTypeOK, Tabs, Armeds, Steps, Sshs, Questions, Accounts
<1> QED BY <1>1, Always, PTL

\* A saved password the server refused is not given again before another is
\* saved, whatever is asked in the tab and answered late in a window
\* (saved.rs: refused() marks it, and NumberOfPasswordPrompts is 1).
THEOREM RefusedIsLeftAlone == LoginSpec => RefusedIsLeft
  BY Always, RefusedStep, PTL DEF LoginSpec, RefusedIsLeft

\* A key trusted once is not in known_hosts after its session, in whichever
\* way that ends but by closing the tab (hostkey.rs, forget_once).
THEOREM OnceAlwaysForgotten == LoginSpec => []OnceIsForgotten
<1>1. LoginInv => OnceIsForgotten
  BY DEF LoginInv, Once, OnceIsForgotten
<1> QED BY <1>1, Always, PTL

-----------------------------------------------------------------------------
JobRec == [state : {"new", "running", "paused", "failed", "cancelled", "done", "removed"},
           plan : [File -> Version \cup {0}], next : Items \cup {Files + 2},
           cancel : BOOLEAN, pause : BOOLEAN, discarding : BOOLEAN]
RunRec == [at : {"idle", "plan", "folders", "copy", "ended"},
           cursor : Nat, done : SUBSET Items,
           failed : {"none", "cancelled", "error"}, sftp : BOOLEAN]
WorkRec == [at : {"next", "wait", "open", "copy", "removed", "exit"},
            item : Items, pos : 0 .. Chunks, on : {"part", "target", "gone"}]
SlotRec == [free : Nat, width : 1 .. MaxWidth]

Types ==
    /\ way \in Ways
    /\ src \in [File -> Version]
    /\ part \in [File -> [data : Data, written : Version] \cup {Absent}]
    /\ target \in [File -> Data \cup {Absent}]
    /\ slots \in SlotRec
    /\ job \in [Job -> JobRec]
    /\ run \in [Job -> RunRec]
    /\ worker \in [Worker -> WorkRec]
    /\ connected \in BOOLEAN
    /\ acts \in 0 .. MaxActs
    /\ faults \in 0 .. MaxFaults
    /\ spoiled \in [File -> Data \cup {Absent}]

\* n chunks of version v.
Const(n, v) == [c \in 1 .. n |-> v]

\* A part with n chunks of version v.
Part(n, v) == [data |-> Const(n, v), written |-> v]

\* A part holds chunks of one version, the one it was written from.
PartAt(f) == \/ part[f] = Absent
             \/ \E v \in 2 .. src[f], n \in 0 .. Chunks : part[f] = Part(n, v)

\* A file is whole, and no newer than its source.
TargetAt(f) == \E v \in 1 .. src[f] : target[f] = Whole(v)

\* So are the files that are promised.
FileAt(f) == Unspoiled(f) => PartAt(f) /\ TargetAt(f)

\* A job that goes on, now or later, does so by the plan of today; one whose
\* part is to be thrown away doesn't.
RunAt(j) ==
    /\ run[j].at # "idle" => job[j].state = "running"
    /\ run[j].at \in {"folders", "copy"} => job[j].plan = src
    /\ job[j].state = "new" => job[j].plan = NoPlan
    /\ job[j].state \in {"running", "paused", "failed"} => job[j].plan \in {NoPlan, src}
    /\ job[j].discarding => job[j].state = "cancelled"

\* Jobs run one after the other.
OneRuns == \A j, k \in Job :
    job[j].state = "running" /\ job[k].state = "running" => j = k

Busy(w) == worker[w].at \in {"wait", "open", "copy", "removed"}

\* The part of a file ends at pos, and is of today's version; a download's may
\* have been removed.
EndsAt(f, pos) == \/ part[f] = Part(pos, src[f])
                  \/ ~Upload /\ part[f] = Absent

\* A worker has a file that was taken; the part of a file that is promised
\* ends where it goes on, and its handle is of that part, while it is there.
WorkAt(w) ==
    LET f == worker[w].item IN
    /\ worker[w].at # "exit" => run[w[1]].at = "copy"
    /\ Busy(w) => f \in File /\ f < run[w[1]].cursor
    /\ worker[w].at \in {"open", "copy"} => worker[w].pos \in 0 .. SizeOf(src[f])
    /\ worker[w].at = "open" /\ worker[w].pos # 0 /\ Unspoiled(f) => EndsAt(f, worker[w].pos)
    /\ worker[w].at = "copy" /\ Unspoiled(f) => EndsAt(f, worker[w].pos)
    /\ worker[w].at = "copy" =>
         \/ worker[w].on = "part" /\ part[f] # Absent
         \/ worker[w].on = "gone" /\ part[f] = Absent
    /\ worker[w].at = "removed" => ~Unspoiled(f)

\* No two workers have the same file.
Apart == \A w, x \in Worker :
    Busy(w) /\ Busy(x) /\ worker[w].item = worker[x].item => w = x

IInv ==
    /\ Types
    /\ \A f \in File : src[f] >= 2 /\ FileAt(f)
    /\ \A j \in Job : RunAt(j)
    /\ OneRuns
    /\ \A w \in Worker : WorkAt(w)
    /\ Apart

-----------------------------------------------------------------------------
(* Chunks and places.                                                      *)

\* The bounds.
LEMMA Constants ==
    /\ Files \in Nat \ {0} /\ Jobs \in Nat \ {0} /\ MaxWidth \in Nat \ {0}
    /\ StartWidth \in 1 .. MaxWidth
    /\ Chunks \in Nat /\ Chunks >= 2
    /\ MaxChanges \in Nat /\ MaxActs \in Nat /\ MaxFaults \in Nat
    /\ Version \subseteq Nat \ {0}
<1>1. {Files, Jobs, MaxWidth} \subseteq Nat \ {0} /\ Chunks \in Nat \ {0, 1}
      /\ {MaxChanges, MaxActs, MaxFaults} \subseteq Nat
      /\ StartWidth \in 1 .. MaxWidth
  BY TransfersAssumption, Zenon
<1>2. Files \in Nat \ {0} /\ Jobs \in Nat \ {0} /\ MaxWidth \in Nat \ {0}
  BY <1>1
<1>3. MaxChanges \in Nat /\ MaxActs \in Nat /\ MaxFaults \in Nat
  BY <1>1
<1>4. \A n \in Nat \ {0, 1} : n \in Nat /\ n >= 2  OBVIOUS
<1>5. Chunks \in Nat /\ Chunks >= 2  BY <1>1, <1>4
<1>6. Version \subseteq Nat \ {0}  BY <1>3 DEF Version
<1>. QED  BY <1>1, <1>2, <1>3, <1>5, <1>6

\* The folder comes before its files.
LEMMA Places ==
    /\ Files \in Nat /\ File \subseteq Items /\ Items \subseteq 1 .. Files + 1
    /\ Folder \in Items /\ Folder \notin File
BY Constants DEF File, Items, Folder

\* Where a job may go on.
LEMMA NextPlaces ==
    ASSUME NEW n \in Items \cup {Files + 2}
    PROVE  n \in 1 .. Files + 2 /\ n \in Nat
<1>1. Files \in Nat  BY Constants
<1>2. CASE n \in Items  BY <1>1, <1>2 DEF Items, Folder
<1>3. CASE n = Files + 2  BY <1>1, <1>3
<1>. QED  BY <1>2, <1>3

\* The length of a sequence of equal chunks.
LEMMA ConstLen ==
    ASSUME NEW n \in Nat, NEW v \in Nat
    PROVE  Const(n, v) \in Seq(Nat) /\ Len(Const(n, v)) = n
<1>1. Const(n, v) \in [1 .. n -> Nat]  BY DEF Const
<1>2. Const(n, v) \in Seq(Nat)  BY <1>1, IsASeq
<1>3. DOMAIN Const(n, v) = 1 .. n  BY DEF Const
<1>4. /\ Len(Const(n, v)) \in Nat
      /\ DOMAIN Const(n, v) = 1 .. Len(Const(n, v))
  BY <1>2, LenProperties, Zenon
<1>5. \A k \in Nat : 1 .. k = 1 .. n => k = n  OBVIOUS
<1>. QED  BY <1>2, <1>3, <1>4, <1>5

\* One more chunk written at the end.
LEMMA WriteNext ==
    ASSUME NEW n \in Nat, NEW v \in Nat
    PROVE  WriteAt(Const(n, v), n + 1, v) = Const(n + 1, v)
<1>1. Len(Const(n, v)) = n  BY ConstLen
<1>. QED  BY <1>1 DEF WriteAt, Const

\* What a download cuts its part to is the part.
LEMMA CutAtEnd ==
    ASSUME NEW n \in Nat, NEW v \in Nat
    PROVE  [c \in 1 .. n |-> IF c <= Len(Const(n, v)) THEN Const(n, v)[c] ELSE 0]
             = Const(n, v)
<1>1. Len(Const(n, v)) = n  BY ConstLen
<1>. QED  BY <1>1 DEF Const

\* Versions are as long as Chunks, or a chunk shorter.
LEMMA Sizes ==
    ASSUME NEW v \in Nat
    PROVE  SizeOf(v) \in 1 .. Chunks
<1>1. Chunks \in Nat /\ Chunks >= 2  BY Constants
<1>2. v % 2 \in {0, 1}  OBVIOUS
<1>. QED  BY <1>1, <1>2 DEF SizeOf

\* What the types say of such chunks.
LEMMA ChunkTypes ==
    ASSUME NEW n \in 0 .. Chunks, NEW v \in Version
    PROVE  /\ Const(n, v) \in Data
           /\ Part(n, v) \in [data : Data, written : Version]
           /\ Part(n, v).data = Const(n, v) /\ Part(n, v).written = v
           /\ Whole(v) \in Data /\ Whole(v) = Const(SizeOf(v), v)
<1>1. Const(n, v) \in [1 .. n -> Version \cup {0}]  BY DEF Const
<1>2. Const(n, v) \in Data  BY <1>1 DEF Data
<1>3. v \in Nat  BY Constants
<1>4. SizeOf(v) \in 0 .. Chunks  BY <1>3, Sizes
<1>5. Whole(v) = Const(SizeOf(v), v)  BY DEF Whole, Const
<1>6. Whole(v) \in [1 .. SizeOf(v) -> Version \cup {0}]  BY DEF Whole
<1>7. Whole(v) \in Data  BY <1>4, <1>6 DEF Data
<1>. QED  BY <1>2, <1>5, <1>7 DEF Part

\* Such files are there.
LEMMA IsThere ==
    ASSUME NEW n \in 0 .. Chunks, NEW v \in Version
    PROVE  Part(n, v) # Absent /\ Whole(v) # Absent
BY ChunkTypes, AbsentAssumption, Zenon

\* What a file may hold is no longer than Chunks.
LEMMA DataLen ==
    ASSUME NEW d \in Data
    PROVE  /\ Len(d) \in 0 .. Chunks /\ Len(d) \in Nat
           /\ d \in [1 .. Len(d) -> Version \cup {0}]
<1>1. PICK n \in 0 .. Chunks : d \in [1 .. n -> Version \cup {0}]  BY DEF Data
<1>2. n \in Nat  BY <1>1, Constants
<1>3. d \in Seq(Version \cup {0})  BY <1>1, <1>2, IsASeq
<1>4. /\ Len(d) \in Nat
      /\ DOMAIN d = 1 .. Len(d)
  BY <1>3, LenProperties, Zenon
<1>5. DOMAIN d = 1 .. n  BY <1>1
<1>6. \A k \in Nat : 1 .. k = 1 .. n => k = n  BY <1>2
<1>7. Len(d) = n  BY <1>4, <1>5, <1>6
<1>. QED  BY <1>1, <1>4, <1>7

\* What has a length up to Chunks is what a file may hold.
LEMMA IsData ==
    ASSUME NEW n \in 0 .. Chunks, NEW d \in [1 .. n -> Version \cup {0}]
    PROVE  d \in Data
BY DEF Data

\* A chunk written is what a file may hold.
LEMMA WriteTypes ==
    ASSUME NEW d \in Data, NEW c \in 1 .. Chunks, NEW v \in Version
    PROVE  WriteAt(d, c, v) \in Data
<1>. DEFINE n == IF c > Len(d) THEN c ELSE Len(d)
            e == [k \in 1 .. n |-> IF k = c THEN v ELSE IF k <= Len(d) THEN d[k] ELSE 0]
<1>1. Len(d) \in 0 .. Chunks /\ Len(d) \in Nat /\ d \in [1 .. Len(d) -> Version \cup {0}]
  BY DataLen
<1>2. n \in 0 .. Chunks  BY <1>1, Constants
<1>3. n \in Nat  BY <1>2, Constants
<1>4. ASSUME NEW k \in 1 .. n
      PROVE  (IF k = c THEN v ELSE IF k <= Len(d) THEN d[k] ELSE 0) \in Version \cup {0}
  <2>1. k \in Nat /\ k >= 1  BY <1>3
  <2>2. k <= Len(d) => k \in 1 .. Len(d)  BY <1>1, <2>1
  <2>3. k <= Len(d) => d[k] \in Version \cup {0}  BY <1>1, <2>2
  <2>. QED  BY <2>3, Zenon
<1>5. e \in [1 .. n -> Version \cup {0}]  BY <1>4
<1>6. WriteAt(d, c, v) = e  BY DEF WriteAt
<1>. HIDE DEF n, e
<1>. QED  BY <1>2, <1>5, <1>6, IsData

\* So is what a download cuts its part to.
LEMMA CutTypes ==
    ASSUME NEW d \in Data, NEW pos \in 0 .. Chunks
    PROVE  [c \in 1 .. pos |-> IF c <= Len(d) THEN d[c] ELSE 0] \in Data
<1>1. Len(d) \in Nat /\ d \in [1 .. Len(d) -> Version \cup {0}]  BY DataLen
<1>2. pos \in Nat  BY Constants
<1>3. ASSUME NEW k \in 1 .. pos
      PROVE  (IF k <= Len(d) THEN d[k] ELSE 0) \in Version \cup {0}
  <2>1. k \in Nat /\ k >= 1  BY <1>2
  <2>2. k <= Len(d) => k \in 1 .. Len(d)  BY <1>1, <2>1
  <2>3. k <= Len(d) => d[k] \in Version \cup {0}  BY <1>1, <2>2
  <2>. QED  BY <2>3, Zenon
<1>4. [c \in 1 .. pos |-> IF c <= Len(d) THEN d[c] ELSE 0] \in [1 .. pos -> Version \cup {0}]
  BY <1>3
<1>. QED  BY <1>4, IsData

\* A file that is new is empty.
LEMMA EmptyPart ==
    ASSUME NEW v \in Version
    PROVE  /\ [data |-> <<>>, written |-> v] = Part(0, v)
           /\ Part(0, v) \in [data : Data, written : Version]
<1>1. v \in Nat /\ 0 \in 0 .. Chunks  BY Constants
<1>2. Const(0, v) \in Seq(Nat) /\ Len(Const(0, v)) = 0  BY <1>1, ConstLen
<1>3. Const(0, v) = << >>  BY <1>2, EmptySeq
<1>. QED  BY <1>1, <1>3, ChunkTypes DEF Part

\* What is promised stays so, where neither the server nor the history changes.
LEMMA UnspoiledSame ==
    ASSUME UNCHANGED <<way, spoiled>>
    PROVE  \A f : Unspoiled(f)' <=> Unspoiled(f)
BY DEF Unspoiled, PosixRename

\* A job nobody can go on with.
LEMMA GoneJobIs ==
    ASSUME NEW left \in {"cancelled", "removed"}
    PROVE  /\ GoneJob(left) \in JobRec /\ GoneJob(left).state = left
           /\ GoneJob(left).plan = NoPlan /\ ~GoneJob(left).discarding
           /\ GoneJob(left).next = Folder
<1>1. Folder \in Items /\ NoPlan \in [File -> Version \cup {0}]  BY Places DEF NoPlan
<1>. QED  BY <1>1 DEF GoneJob, NewJob, JobRec

\* A set of numbers has a least one.
LEMMA Least ==
    ASSUME NEW T \in SUBSET Nat, T # {}
    PROVE  \E x \in T : \A y \in T : x <= y
<1>. DEFINE R == OpToRel(<, Nat)
<1>1. IsWellFoundedOn(R, Nat)  BY NatLessThanWellFounded
<1>. HIDE DEF R
<1>2. \E x \in T : \A y \in T : ~ (<<y, x>> \in R)  BY <1>1, WFMin, Zenon
<1>3. \A x, y \in Nat : y < x => <<y, x>> \in R  BY DEF R, OpToRel
<1>4. \A x, y \in Nat : ~ (y < x) => x <= y  OBVIOUS
<1>5. \A x, y \in Nat : ~ (<<y, x>> \in R) => x <= y  BY <1>3, <1>4, Zenon
<1>. QED  BY <1>2, <1>5, Zenon

\* Where a job goes on: at the first item that isn't done.
LEMMA NextAfterIs ==
    ASSUME NEW next \in 1 .. Files + 2, NEW done \in SUBSET Items
    PROVE  /\ NextAfter(next, done) \in next .. Files + 2
           /\ \A i \in next .. NextAfter(next, done) - 1 : i \in done
<1>. DEFINE T == {n \in next .. Files + 2 : n \notin done}
<1>1. Files \in Nat \ {0}  BY Constants
<1>2. T \subseteq Nat /\ Files + 2 \in T  BY <1>1 DEF Items, Folder
<1>3. PICK x \in T : \A y \in T : x <= y  BY <1>2, Least
<1>4. /\ x \notin done
      /\ x \in next .. Files + 2
      /\ \A i \in next .. x - 1 : i \in done
  BY <1>1, <1>3
<1>. QED  BY <1>4 DEF NextAfter

-----------------------------------------------------------------------------
(* Types.                                                                  *)

\* The first error is kept.
LEMMA FailIs ==
    ASSUME NEW r \in RunRec, NEW why \in {"none", "cancelled", "error"}
    PROVE  /\ Fail(r, why) \in RunRec
           /\ Fail(r, why).at = r.at /\ Fail(r, why).cursor = r.cursor
           /\ Fail(r, why).done = r.done /\ Fail(r, why).sftp = r.sftp
           /\ why # "none" => Fail(r, why).failed # "none"
           /\ r.failed # "none" => Fail(r, why).failed = r.failed
BY DEF Fail, RunRec

\* A run that has not begun, a job that is new, and a worker that is none.
LEMMA Beginnings ==
    /\ NewJob \in JobRec /\ NewJob.state = "new" /\ NewJob.plan = NoPlan
    /\ ~NewJob.discarding
    /\ NoRun \in RunRec /\ NoRun.at = "idle"
    /\ NoWorker \in WorkRec /\ NoWorker.at = "exit"
    /\ [NoWorker EXCEPT !.at = "next"] \in WorkRec
    /\ [NoWorker EXCEPT !.at = "next"].at = "next"
    /\ \A i \in Items : /\ [NoWorker EXCEPT !.at = "wait", !.item = i] \in WorkRec
                         /\ [NoWorker EXCEPT !.at = "wait", !.item = i].at = "wait"
                         /\ [NoWorker EXCEPT !.at = "wait", !.item = i].item = i
<1>1. Folder \in Items /\ Folder \in Nat  BY Places DEF Folder
<1>2. NoPlan \in [File -> Version \cup {0}]  BY DEF NoPlan
<1>3. NewJob \in JobRec /\ NewJob.state = "new" /\ NewJob.plan = NoPlan /\ ~NewJob.discarding
  BY <1>1, <1>2 DEF NewJob, JobRec
<1>4. NoRun \in RunRec /\ NoRun.at = "idle"  BY <1>1 DEF NoRun, RunRec
<1>5. 0 \in 0 .. Chunks  BY Constants
<1>6. NoWorker \in WorkRec /\ NoWorker.at = "exit"  BY <1>1, <1>5 DEF NoWorker, WorkRec
<1>7. /\ [NoWorker EXCEPT !.at = "next"] \in WorkRec
      /\ [NoWorker EXCEPT !.at = "next"].at = "next"
  BY <1>1, <1>5 DEF NoWorker, WorkRec
<1>8. ASSUME NEW i \in Items
      PROVE  /\ [NoWorker EXCEPT !.at = "wait", !.item = i] \in WorkRec
             /\ [NoWorker EXCEPT !.at = "wait", !.item = i].at = "wait"
             /\ [NoWorker EXCEPT !.at = "wait", !.item = i].item = i
  BY <1>5 DEF NoWorker, WorkRec
<1>. QED  BY <1>3, <1>4, <1>6, <1>7, <1>8

\* Where the copies go, there are the older files.
LEMMA Begins == Init => IInv
<1>. SUFFICES ASSUME Init PROVE IInv  OBVIOUS
<1>1. 1 \in Version /\ 2 \in Version  BY Constants DEF Version
<1>2. Whole(1) \in Data
  <2>1. 0 \in 0 .. Chunks  BY Constants
  <2>. QED  BY <1>1, <2>1, ChunkTypes
<1>. USE DEF Init
<1>3. slots \in SlotRec  BY Constants DEF SlotRec
<1>4. Types
  <2>1. 0 \in 0 .. MaxActs /\ 0 \in 0 .. MaxFaults  BY Constants
  <2>. QED  BY <1>1, <1>2, <1>3, <2>1, Beginnings DEF Types
<1>5. ASSUME NEW f \in File PROVE src[f] >= 2 /\ FileAt(f)
  <2>1. src[f] = 2 /\ part[f] = Absent /\ target[f] = Whole(1) /\ 1 \in 1 .. 2  OBVIOUS
  <2>. QED  BY <2>1 DEF FileAt, PartAt, TargetAt
<1>6. \A j \in Job : RunAt(j) /\ job[j].state = "new"  BY Beginnings DEF RunAt
<1>7. \A w \in Worker : worker[w].at = "exit"  BY Beginnings
<1>8. \A w \in Worker : WorkAt(w) /\ ~Busy(w)  BY <1>7 DEF WorkAt, Busy
<1>. QED  BY <1>4, <1>5, <1>6, <1>8 DEF IInv, OneRuns, Apart

-----------------------------------------------------------------------------
(* The steps that leave files and workers alone.                           *)

\* Such a step keeps the invariant if it keeps what it says of the jobs, and
\* the runs that workers work for.
LEMMA FilesAlone ==
    ASSUME IInv, Types', UNCHANGED <<way, src, part, target, worker, spoiled>>,
           \A j \in Job : RunAt(j)', OneRuns',
           \A w \in Worker : worker[w].at # "exit" =>
               run'[w[1]].at = "copy" /\ run'[w[1]].cursor = run[w[1]].cursor
    PROVE  IInv'
<1>0. \A f \in File : Unspoiled(f)' <=> Unspoiled(f)  BY UnspoiledSame
<1>1. \A f \in File : (src[f] >= 2 /\ FileAt(f))'
  BY <1>0 DEF IInv, FileAt, PartAt, TargetAt
<1>2. ASSUME NEW w \in Worker PROVE WorkAt(w)'
  BY <1>0 DEF IInv, WorkAt, Busy, EndsAt, Upload
<1>3. Apart'  BY DEF IInv, Apart, Busy
<1>. QED  BY <1>1, <1>2, <1>3 DEF IInv

\* The same where the runs don't change either.
LEMMA JobsOnly ==
    ASSUME IInv, Types', UNCHANGED <<way, src, part, target, worker, run, spoiled>>,
           \A j \in Job : RunAt(j)', OneRuns'
    PROVE  IInv'
<1>1. \A w \in Worker : worker[w].at # "exit" => run[w[1]].at = "copy"
  BY DEF IInv, WorkAt
<1>. QED  BY <1>1, FilesAlone

\* A job runs where none did.
LEMMA RunJobStep ==
    ASSUME ~Overlap, IInv, NEW j \in Job, RunJob(j), MayRun(j), acts' = acts,
           job[j].state \in {"new", "paused", "failed"}
    PROVE  IInv'
<1>. DEFINE r == [job[j] EXCEPT !.state = "running", !.cancel = FALSE, !.pause = FALSE]
            u == [NoRun EXCEPT !.at = "plan", !.sftp = TRUE]
<1>. USE DEF Types
<1>1. job[j] \in JobRec  BY DEF IInv
<1>0. ~job[j].discarding  BY DEF IInv, RunAt
<1>2. r \in JobRec /\ r.state = "running" /\ r.plan = job[j].plan /\ ~r.discarding
  BY <1>0, <1>1 DEF JobRec
<1>3. u \in RunRec /\ u.at = "plan"
  BY Constants DEF NoRun, RunRec, Folder
<1>4. /\ job' = [job EXCEPT ![j] = r] /\ run' = [run EXCEPT ![j] = u]
      /\ UNCHANGED <<way, src, part, target, slots, worker, connected, faults, spoiled>>
  BY DEF RunJob
<1>. HIDE DEF r, u
<1>5. Types'  BY <1>2, <1>3, <1>4 DEF IInv
<1>6. /\ job'[j] = r /\ run'[j] = u
      /\ \A k \in Job \ {j} : job'[k] = job[k] /\ run'[k] = run[k]
  BY <1>4 DEF IInv
<1>7. run[j].at = "idle"  BY DEF IInv, RunAt
<1>8. ASSUME NEW k \in Job PROVE RunAt(k)'
  BY <1>2, <1>3, <1>4, <1>6 DEF IInv, RunAt
<1>9. OneRuns'  BY <1>6 DEF OneRuns, MayRun
<1>10. ASSUME NEW w \in Worker, worker[w].at # "exit"
       PROVE  run'[w[1]].at = "copy" /\ run'[w[1]].cursor = run[w[1]].cursor
  BY <1>6, <1>7, <1>10 DEF IInv, WorkAt, Worker
<1>. QED  BY <1>4, <1>5, <1>8, <1>9, <1>10, FilesAlone

\* What the person does keeps the invariant.
LEMMA PersonStep ==
    ASSUME ~Overlap, IInv, Person
    PROVE  IInv'
<1>. USE DEF Types
<1>1. ASSUME NEW j \in Job, Start(j) \/ Resume(j)  PROVE IInv'
  BY <1>1, RunJobStep DEF Start, Resume
<1>2. ASSUME NEW j \in Job, NEW r \in JobRec, job' = [job EXCEPT ![j] = r],
             \/ /\ r.state = job[j].state /\ r.plan = job[j].plan
                /\ r.discarding = job[j].discarding
             \/ /\ r.state \in {"cancelled", "removed"} /\ job[j].state \in {"paused", "failed"}
                /\ r.discarding => r.state = "cancelled",
             UNCHANGED <<way, src, part, target, slots, run, worker, connected, faults, spoiled>>,
             acts' \in 0 .. MaxActs
      PROVE  IInv'
  <2>1. Types'  BY <1>2 DEF IInv
  <2>2. job'[j] = r /\ \A k \in Job \ {j} : job'[k] = job[k]  BY <1>2 DEF IInv
  <2>3. \A k \in Job : RunAt(k)'  BY <1>2, <2>2 DEF IInv, RunAt
  <2>4. OneRuns'  BY <1>2, <2>2 DEF IInv, OneRuns
  <2>. QED  BY <1>2, <2>1, <2>3, <2>4, JobsOnly
<1>3. Act => acts' \in 0 .. MaxActs  BY Constants DEF Act, IInv
<1>4. ASSUME NEW j \in Job, Pause(j)  PROVE IInv'
  <2>. DEFINE r == [job[j] EXCEPT !.pause = TRUE]
  <2>1. /\ r \in JobRec /\ r.plan = job[j].plan /\ r.state = job[j].state
        /\ r.discarding = job[j].discarding
    BY DEF IInv, JobRec
  <2>2. job' = [job EXCEPT ![j] = r]  BY <1>4 DEF Pause
  <2>. HIDE DEF r
  <2>. QED  BY <1>2, <1>3, <1>4, <2>1, <2>2 DEF Pause
<1>5. ASSUME NEW j \in Job, Cancel(j)  PROVE IInv'
  <2>. DEFINE r == [job[j] EXCEPT !.cancel = TRUE]
              c == [job[j] EXCEPT !.state = "cancelled", !.discarding = TRUE]
  <2>1. /\ r \in JobRec /\ r.plan = job[j].plan /\ r.state = job[j].state
        /\ r.discarding = job[j].discarding
        /\ c \in JobRec /\ c.state = "cancelled"
    BY DEF IInv, JobRec
  <2>2. \/ job' = [job EXCEPT ![j] = r]
        \/ job' = [job EXCEPT ![j] = c] /\ job[j].state \in {"paused", "failed"}
    BY <1>5 DEF Cancel
  <2>. HIDE DEF r, c
  <2>. QED  BY <1>2, <1>3, <1>5, <2>1, <2>2 DEF Cancel
<1>6. ASSUME NEW j \in Job, TakeOff(j)  PROVE IInv'
  <2>. DEFINE r == GoneJob("removed")
  <2>1. r \in JobRec /\ r.state = "removed" /\ ~r.discarding  BY GoneJobIs
  <2>2. job' = [job EXCEPT ![j] = r] /\ job[j].state = "failed"  BY <1>6 DEF TakeOff
  <2>. HIDE DEF r
  <2>3. acts' \in 0 .. MaxActs  BY <1>6 DEF TakeOff, IInv
  <2>. QED  BY <1>2, <1>6, <2>1, <2>2, <2>3 DEF TakeOff
<1>7. ASSUME NEW n \in 1 .. MaxWidth, SetWidth(n)  PROVE IInv'
  <2>1. slots' \in SlotRec  BY <1>7, Constants DEF SetWidth, IInv, SlotRec
  <2>2. UNCHANGED <<way, src, part, target, job, run, worker, connected, faults, spoiled>>
    BY <1>7 DEF SetWidth
  <2>3. Types'  BY <1>3, <1>7, <2>1, <2>2 DEF IInv, SetWidth
  <2>4. (\A j \in Job : RunAt(j)') /\ OneRuns'  BY <2>2 DEF IInv, RunAt, OneRuns
  <2>. QED  BY <2>2, <2>3, <2>4, JobsOnly
<1>8. CASE Reconnect
  <2>1. UNCHANGED <<way, src, part, target, slots, job, run, worker, acts, faults, spoiled>>
        /\ connected' \in BOOLEAN
    BY <1>8 DEF Reconnect
  <2>2. Types'  BY <2>1 DEF IInv
  <2>3. (\A j \in Job : RunAt(j)') /\ OneRuns'  BY <2>1 DEF IInv, RunAt, OneRuns
  <2>. QED  BY <2>1, <2>2, <2>3, JobsOnly
<1>. QED  BY <1>1, <1>4, <1>5, <1>6, <1>7, <1>8 DEF Person

-----------------------------------------------------------------------------
(* The thread of a job.                                                    *)

\* A run that ends, or waits for its workers no longer.
LEMMA RunOnly ==
    ASSUME IInv, NEW j \in Job, NEW u \in RunRec,
           run' = [run EXCEPT ![j] = u],
           run[j].at # "idle", u.at \in {"copy", "folders"} => job[j].plan = src,
           \A w \in Worker : w[1] = j => worker[w].at = "exit",
           UNCHANGED <<way, src, part, target, slots, job, worker, connected, acts, faults, spoiled>>
    PROVE  IInv'
<1>1. Types'  BY DEF IInv, Types
<1>2. run'[j] = u /\ \A k \in Job \ {j} : run'[k] = run[k]  BY DEF IInv, Types
<1>3. ASSUME NEW k \in Job PROVE RunAt(k)'  BY <1>2 DEF IInv, RunAt
<1>4. OneRuns'  BY DEF IInv, OneRuns
<1>5. ASSUME NEW w \in Worker, worker[w].at # "exit"
      PROVE  run'[w[1]].at = "copy" /\ run'[w[1]].cursor = run[w[1]].cursor
  BY <1>2, <1>5 DEF IInv, WorkAt, Worker
<1>. QED  BY <1>1, <1>3, <1>4, <1>5, FilesAlone

\* Where a run isn't copying, it has no workers.
LEMMA NoWorkers ==
    ASSUME IInv, NEW j \in Job, run[j].at # "copy", NEW w \in Worker, w[1] = j
    PROVE  worker[w].at = "exit"
BY DEF IInv, WorkAt

\* A run that ends early.
LEMMA EndStep ==
    ASSUME IInv, NEW j \in Job, NEW why \in {"cancelled", "error"}, End(j, why),
           run[j].at \in {"plan", "folders"},
           UNCHANGED <<way, src, part, target, slots, job, worker, connected, acts, faults, spoiled>>
    PROVE  IInv'
<1>. DEFINE u == [Fail(run[j], why) EXCEPT !.at = "ended"]
<1>1. run[j] \in RunRec  BY DEF IInv, Types
<1>2. Fail(run[j], why) \in RunRec  BY <1>1, FailIs
<1>3. u \in RunRec /\ u.at = "ended"  BY <1>2 DEF RunRec
<1>4. run' = [run EXCEPT ![j] = u]  BY DEF End
<1>. HIDE DEF u
<1>5. \A w \in Worker : w[1] = j => worker[w].at = "exit"  BY NoWorkers
<1>. QED  BY <1>3, <1>4, <1>5, RunOnly

\* A plan is made of the sources as they are.
LEMMA PlanStep ==
    ASSUME IInv, NEW j \in Job, Plan(j)
    PROVE  IInv'
<1>1. run[j].at = "plan" /\ job[j].state = "running" /\ job[j].plan \in {NoPlan, src}
  BY DEF Plan, IInv, RunAt
<1>2. run[j] \in RunRec /\ job[j] \in JobRec  BY DEF IInv, Types
<1>3. \A w \in Worker : w[1] = j => worker[w].at = "exit"  BY <1>1, NoWorkers
<1>4. UNCHANGED <<way, src, part, target, slots, worker, connected, acts, faults, spoiled>>
  BY DEF Plan
<1>5. CASE /\ job[j].plan # NoPlan /\ UNCHANGED job
           /\ run' = [run EXCEPT ![j].at = "folders", ![j].cursor = job[j].next]
  <2>. DEFINE u == [run[j] EXCEPT !.at = "folders", !.cursor = job[j].next]
  <2>1. job[j].next \in Nat
    <3>1. job[j].next \in Items \cup {Files + 2}  BY <1>2 DEF JobRec
    <3>. QED  BY <3>1, NextPlaces
  <2>2. u \in RunRec /\ u.at = "folders"  BY <1>2, <2>1 DEF RunRec
  <2>3. run' = [run EXCEPT ![j] = u]  BY <1>5
  <2>. HIDE DEF u
  <2>. QED  BY <1>1, <1>3, <1>4, <1>5, <2>2, <2>3, RunOnly
<1>6. CASE End(j, IF Stopped(j) THEN "cancelled" ELSE "error") /\ UNCHANGED job
  BY <1>1, <1>4, <1>6, EndStep
<1>7. CASE /\ job' = [job EXCEPT ![j].plan = src, ![j].next = Folder]
           /\ run' = [run EXCEPT ![j].at = "folders", ![j].cursor = Folder]
  <2>. DEFINE u == [run[j] EXCEPT !.at = "folders", !.cursor = Folder]
              r == [job[j] EXCEPT !.plan = src, !.next = Folder]
  <2>1. u \in RunRec /\ u.at = "folders"  BY <1>2, Places DEF RunRec, Folder
  <2>2. src \in [File -> Version \cup {0}]  BY DEF IInv, Types
  <2>3. /\ r \in JobRec /\ r.plan = src /\ r.state = job[j].state
        /\ r.discarding = job[j].discarding
    BY <1>2, <2>2, Places DEF JobRec
  <2>4. run' = [run EXCEPT ![j] = u] /\ job' = [job EXCEPT ![j] = r]  BY <1>7
  <2>. HIDE DEF u, r
  <2>5. Types'  BY <1>4, <2>1, <2>3, <2>4 DEF IInv, Types
  <2>6. /\ run'[j] = u /\ job'[j] = r
        /\ \A k \in Job \ {j} : run'[k] = run[k] /\ job'[k] = job[k]
    BY <2>4 DEF IInv, Types
  <2>7. ASSUME NEW k \in Job PROVE RunAt(k)'
    BY <1>1, <1>4, <2>1, <2>3, <2>6 DEF IInv, RunAt
  <2>8. OneRuns'  BY <2>3, <2>6 DEF IInv, OneRuns
  <2>9. ASSUME NEW w \in Worker, worker[w].at # "exit"
        PROVE  run'[w[1]].at = "copy" /\ run'[w[1]].cursor = run[w[1]].cursor
    BY <1>3, <2>6, <2>9 DEF IInv, WorkAt, Worker
  <2>. QED  BY <1>4, <2>5, <2>7, <2>8, <2>9, FilesAlone
<1>. QED  BY <1>5, <1>6, <1>7 DEF Plan

\* The workers start, and have no file yet.
LEMMA MakeFolderStep ==
    ASSUME IInv, NEW j \in Job, MakeFolder(j)
    PROVE  IInv'
<1>1. run[j].at = "folders" /\ job[j].state = "running" /\ job[j].plan = src
  BY DEF MakeFolder, IInv, RunAt
<1>2. run[j] \in RunRec /\ job[j] \in JobRec  BY DEF IInv, Types
<1>3. UNCHANGED <<way, src, part, target, slots, connected, acts, faults, spoiled>>
  BY DEF MakeFolder
<1>4. CASE End(j, IF Stopped(j) THEN "cancelled" ELSE "error") /\ UNCHANGED <<job, worker>>
  BY <1>1, <1>3, <1>4, EndStep
<1>5. CASE ~(End(j, IF Stopped(j) THEN "cancelled" ELSE "error") /\ UNCHANGED <<job, worker>>)
  <2>. DEFINE made == IF job[j].next = Folder THEN {Folder} ELSE {}
              u == [run[j] EXCEPT !.at = "copy", !.done = made]
              r == [job[j] EXCEPT !.next = NextAfter(@, made)]
              starts == [NoWorker EXCEPT !.at = "next"]
  <2>1. PICK n : worker' = [w \in Worker |->
                               IF w[1] = j /\ w[2] <= n THEN starts ELSE worker[w]]
    BY <1>5 DEF MakeFolder
  <2>2. run' = [run EXCEPT ![j] = u] /\ job' = [job EXCEPT ![j] = r]
    BY <1>5 DEF MakeFolder
  <2>3. made \in SUBSET Items  BY Places
  <2>. HIDE DEF made
  <2>4. u \in RunRec /\ u.at = "copy"  BY <1>2, <2>3 DEF RunRec
  <2>5. job[j].next \in 1 .. Files + 2
    <3>1. job[j].next \in Items \cup {Files + 2}  BY <1>2 DEF JobRec
    <3>. QED  BY <3>1, NextPlaces
  <2>6. NextAfter(job[j].next, made) \in Items \cup {Files + 2}
    <3>1. NextAfter(job[j].next, made) \in job[j].next .. Files + 2
      BY <2>3, <2>5, NextAfterIs
    <3>. QED  BY <2>5, <3>1, Places DEF Items, Folder
  <2>7. /\ r \in JobRec /\ r.plan = job[j].plan /\ r.state = job[j].state
        /\ r.discarding = job[j].discarding
    BY <1>2, <2>6 DEF JobRec
  <2>8. starts \in WorkRec /\ starts.at = "next"  BY Beginnings
  <2>. HIDE DEF u, r, starts
  <2>9. Types'  BY <1>3, <2>1, <2>2, <2>4, <2>7, <2>8 DEF IInv, Types
  <2>10. /\ run'[j] = u /\ job'[j] = r
         /\ \A k \in Job \ {j} : run'[k] = run[k] /\ job'[k] = job[k]
    BY <2>2 DEF IInv, Types
  <2>11. \A w \in Worker : \/ worker'[w] = worker[w] /\ w[1] # j
                           \/ w[1] = j /\ worker'[w].at \in {"next", "exit"}
    BY <1>1, <2>1, <2>8, NoWorkers
  <2>12. ASSUME NEW k \in Job PROVE RunAt(k)'
    BY <1>1, <1>3, <2>4, <2>7, <2>10 DEF IInv, RunAt
  <2>13. OneRuns'  BY <2>7, <2>10 DEF IInv, OneRuns
  <2>0. \A f : Unspoiled(f)' <=> Unspoiled(f)  BY <1>3, UnspoiledSame
  <2>14. ASSUME NEW w \in Worker PROVE WorkAt(w)'
    <3>1. CASE worker'[w] = worker[w] /\ w[1] # j
      BY <1>3, <2>0, <2>10, <3>1 DEF IInv, WorkAt, Busy, Worker, EndsAt, Upload
    <3>2. CASE w[1] = j /\ worker'[w].at \in {"next", "exit"}
      BY <2>4, <2>10, <3>2 DEF WorkAt, Busy
    <3>. QED  BY <2>11, <3>1, <3>2
  <2>15. Apart'  BY <2>11 DEF IInv, Apart, Busy
  <2>16. \A f \in File : (src[f] >= 2 /\ FileAt(f))'
    BY <1>3, <2>0 DEF IInv, FileAt, PartAt, TargetAt
  <2>. QED  BY <2>9, <2>12, <2>13, <2>14, <2>15, <2>16 DEF IInv
<1>. QED  BY <1>4, <1>5

\* A run whose workers are done ends, and its window hears how.
LEMMA RunEnds ==
    ASSUME IInv, NEW j \in Job, Join(j) \/ JobDone(j)
    PROVE  IInv'
<1>1. CASE Join(j)
  <2>. DEFINE u == [run[j] EXCEPT !.at = "ended"]
  <2>1. u \in RunRec /\ u.at = "ended"  BY DEF IInv, Types, RunRec
  <2>2. run' = [run EXCEPT ![j] = u]  BY <1>1 DEF Join
  <2>. HIDE DEF u
  <2>. QED  BY <1>1, <2>1, <2>2, RunOnly DEF Join
<1>2. CASE JobDone(j)
  <2>1. run[j].at = "ended" /\ job[j].state = "running"
    BY <1>2 DEF JobDone, IInv, RunAt
  <2>2. job[j] \in JobRec /\ ~job[j].discarding /\ job[j].plan \in {NoPlan, src}
    BY <2>1 DEF IInv, Types, RunAt
  <2>3. run[j].failed \in {"none", "cancelled", "error"} /\ job[j].pause \in BOOLEAN
    BY <2>2 DEF IInv, Types, RunRec, JobRec
  <2>4. PICK r : /\ job' = [job EXCEPT ![j] = r]
                 /\ \/ r = GoneJob("cancelled")
                    \/ \E st \in {"done", "paused", "failed"} : r = [job[j] EXCEPT !.state = st]
    BY <1>2, <2>3 DEF JobDone
  <2>5. /\ r \in JobRec /\ r.state \in {"done", "paused", "failed", "cancelled"}
        /\ ~r.discarding /\ r.plan \in {NoPlan, src}
    <3>1. CASE r = GoneJob("cancelled")  BY <3>1, GoneJobIs
    <3>2. CASE \E st \in {"done", "paused", "failed"} : r = [job[j] EXCEPT !.state = st]
      BY <2>2, <3>2 DEF JobRec
    <3>. QED  BY <2>4, <3>1, <3>2
  <2>6. job' = [job EXCEPT ![j] = r]  BY <2>4
  <2>7. /\ run' = [run EXCEPT ![j] = NoRun]
        /\ UNCHANGED <<way, src, part, target, slots, worker, connected, acts, faults, spoiled>>
    BY <1>2 DEF JobDone
  <2>8. Types'  BY <2>5, <2>6, <2>7, Beginnings DEF IInv, Types
  <2>9. /\ run'[j] = NoRun /\ job'[j] = r
        /\ \A k \in Job \ {j} : run'[k] = run[k] /\ job'[k] = job[k]
    BY <2>6, <2>7 DEF IInv, Types
  <2>10. ASSUME NEW k \in Job PROVE RunAt(k)'
    <3>1. CASE k # j  BY <2>7, <2>9, <3>1 DEF IInv, RunAt
    <3>2. CASE k = j
      <4>1. NoPlan' = NoPlan  BY DEF NoPlan
      <4>2. /\ run'[j].at = "idle" /\ job'[j].plan \in {NoPlan, src}
            /\ job'[j].state \notin {"new", "running"} /\ ~job'[j].discarding
        BY <2>5, <2>9, Beginnings
      <4>. QED  BY <2>7, <3>2, <4>1, <4>2 DEF RunAt
    <3>. QED  BY <3>1, <3>2
  <2>11. OneRuns'  BY <2>5, <2>9 DEF IInv, OneRuns
  <2>12. ASSUME NEW w \in Worker, worker[w].at # "exit"
         PROVE  run'[w[1]].at = "copy" /\ run'[w[1]].cursor = run[w[1]].cursor
    BY <2>1, <2>9, <2>12 DEF IInv, WorkAt, Worker
  <2>. QED  BY <2>7, <2>8, <2>10, <2>11, <2>12, FilesAlone
<1>. QED  BY <1>1, <1>2

-----------------------------------------------------------------------------
(* Handles.                                                                *)

\* A handle follows its file; nothing else of a worker changes.
LEMMA FollowedIs ==
    ASSUME NEW ws \in [Worker -> WorkRec], NEW f,
           NEW moves \in {PartGone, TargetGone, PartRenamed}
    PROVE  /\ Followed(ws, f, moves) \in [Worker -> WorkRec]
           /\ \A w \in Worker :
                /\ Followed(ws, f, moves)[w].at = ws[w].at
                /\ Followed(ws, f, moves)[w].item = ws[w].item
                /\ Followed(ws, f, moves)[w].pos = ws[w].pos
                /\ ~(ws[w].at = "copy" /\ ws[w].item = f) =>
                     Followed(ws, f, moves)[w] = ws[w]
                /\ ws[w].at = "copy" /\ ws[w].item = f =>
                     Followed(ws, f, moves)[w].on = moves[ws[w].on]
<1>1. \A on \in {"part", "target", "gone"} : moves[on] \in {"part", "target", "gone"}
  BY DEF PartGone, TargetGone, PartRenamed
<1>. DEFINE F == Followed(ws, f, moves)
<1>2. ASSUME NEW w \in Worker
      PROVE  /\ F[w] \in WorkRec
             /\ F[w].at = ws[w].at /\ F[w].item = ws[w].item /\ F[w].pos = ws[w].pos
             /\ ~(ws[w].at = "copy" /\ ws[w].item = f) => F[w] = ws[w]
             /\ ws[w].at = "copy" /\ ws[w].item = f => F[w].on = moves[ws[w].on]
  <2>1. ws[w] \in WorkRec  OBVIOUS
  <2>2. moves[ws[w].on] \in {"part", "target", "gone"}  BY <1>1, <2>1 DEF WorkRec
  <2>3. F[w] = IF ws[w].at = "copy" /\ ws[w].item = f
               THEN [ws[w] EXCEPT !.on = moves[@]] ELSE ws[w]
    BY DEF Followed
  <2>. QED  BY <2>1, <2>2, <2>3 DEF WorkRec
<1>3. F \in [Worker -> WorkRec]  BY <1>2 DEF Followed
<1>. QED  BY <1>2, <1>3

\* A part is removed under a worker that has it: it writes into nothing, and if
\* it is an upload's the file is promised no longer.
LEMMA DiscardStep ==
    ASSUME IInv, NEW j \in Job, Discard(j)
    PROVE  IInv'
<1>. DEFINE r == GoneJob("cancelled")
<1>1. /\ r \in JobRec /\ r.state = "cancelled" /\ r.plan = NoPlan /\ ~r.discarding
      /\ job[j].state = "cancelled" /\ run[j].at = "idle"
  BY GoneJobIs DEF Discard, IInv, RunAt
<1>2. /\ job' = [job EXCEPT ![j] = r]
      /\ UNCHANGED <<way, src, target, slots, run, connected, acts, faults>>
  BY DEF Discard
<1>. HIDE DEF r
<1>3. job'[j] = r /\ \A k \in Job \ {j} : job'[k] = job[k]  BY <1>2 DEF IInv, Types
<1>4. job' \in [Job -> JobRec]  BY <1>1, <1>2 DEF IInv, Types
<1>5. \A k \in Job : RunAt(k)'  BY <1>1, <1>2, <1>3 DEF IInv, RunAt
<1>6. OneRuns'  BY <1>1, <1>3 DEF IInv, OneRuns
<1>7. CASE UNCHANGED <<part, worker, spoiled>>
  <2>1. Types'  BY <1>2, <1>4, <1>7 DEF IInv, Types
  <2>. QED  BY <1>2, <1>5, <1>6, <1>7, <2>1, JobsOnly
<1>8. ASSUME NEW f \in File, part' = [part EXCEPT ![f] = Absent],
             worker' = Followed(worker, f, PartGone),
             spoiled' = IF Uploading(f) /\ PosixRename /\ part[f] # Absent /\ spoiled[f] = Absent
                        THEN [spoiled EXCEPT ![f] = target[f]] ELSE spoiled
      PROVE  IInv'
  <2>1. /\ worker' \in [Worker -> WorkRec]
        /\ \A w \in Worker :
             /\ worker'[w].at = worker[w].at /\ worker'[w].item = worker[w].item
             /\ worker'[w].pos = worker[w].pos
             /\ ~(worker[w].at = "copy" /\ worker[w].item = f) => worker'[w] = worker[w]
             /\ worker[w].at = "copy" /\ worker[w].item = f =>
                  worker'[w].on = PartGone[worker[w].on]
    BY <1>8, FollowedIs DEF IInv, Types
  <2>2. spoiled' \in [File -> Data \cup {Absent}]  BY <1>8 DEF IInv, Types
  <2>3. part'[f] = Absent /\ \A g \in File \ {f} : part'[g] = part[g]
    BY <1>8 DEF IInv, Types
  <2>4. Types'  BY <1>2, <1>4, <1>8, <2>1, <2>2 DEF IInv, Types
  <2>5. \A g \in File : /\ spoiled'[g] = spoiled[g] \/ (g = f /\ spoiled[g] = Absent)
                        /\ g # f => spoiled'[g] = spoiled[g]
    BY <1>8 DEF IInv, Types
  <2>6. PosixRename' = PosixRename /\ Upload' = Upload
    BY <1>2 DEF PosixRename, Upload
  <2>7. \A g \in File : Unspoiled(g)' => Unspoiled(g)
    BY <2>5, <2>6 DEF Unspoiled
  <2>8. Uploading(f) /\ part[f] # Absent => ~Unspoiled(f)'
    <3>. SUFFICES ASSUME Uploading(f), part[f] # Absent, Unspoiled(f)'  PROVE FALSE  OBVIOUS
    <3>1. Unspoiled(f) /\ PosixRename /\ spoiled[f] = Absent /\ spoiled'[f] = Absent
      BY <2>6, <2>7 DEF Unspoiled
    <3>2. PICK v \in 1 .. src[f] : target[f] = Whole(v)
      BY <3>1 DEF IInv, FileAt, TargetAt
    <3>3. spoiled'[f] = target[f]  BY <1>8, <3>1 DEF IInv, Types
    <3>4. v \in Version /\ 0 \in 0 .. Chunks
      <4>1. src[f] \in Version /\ MaxChanges \in Nat  BY Constants DEF IInv, Types
      <4>2. 0 \in 0 .. Chunks  BY Constants
      <4>. QED  BY <3>2, <4>1, <4>2 DEF Version
    <3>. QED  BY <3>1, <3>2, <3>3, <3>4, IsThere
  <2>9. ASSUME NEW g \in File PROVE (src[g] >= 2 /\ FileAt(g))'
    <3>1. src[g] >= 2 /\ FileAt(g) /\ src' = src /\ target' = target  BY <1>2 DEF IInv
    <3>2. Unspoiled(g)' => Unspoiled(g)  BY <2>7
    <3>3. part'[g] \in {part[g], Absent}  BY <2>3
    <3>. QED  BY <3>1, <3>2, <3>3 DEF FileAt, PartAt, TargetAt
  <2>10. ASSUME NEW w \in Worker PROVE WorkAt(w)'
    <3>1. WorkAt(w)  BY DEF IInv
    <3>2. CASE Busy(w) /\ worker[w].item = f
      <4>1. worker[w].at = "copy" => worker[w].on \in {"part", "gone"}  BY <3>1 DEF WorkAt
      <4>2. worker[w].at = "copy" => worker'[w].on = "gone"
        BY <2>1, <3>2, <4>1 DEF PartGone
      <4>3. Unspoiled(f)' => Unspoiled(f)  BY <2>7
      <4>4. /\ worker[w].at = "copy" \/ (worker[w].at = "open" /\ worker[w].pos # 0)
            /\ Unspoiled(f)'
            => ~Upload
        <5>. SUFFICES ASSUME worker[w].at = "copy" \/ (worker[w].at = "open" /\ worker[w].pos # 0),
                             Unspoiled(f)', Upload
                      PROVE  FALSE
          OBVIOUS
        <5>1. EndsAt(f, worker[w].pos)  BY <3>1, <3>2, <4>3 DEF WorkAt
        <5>3. worker[w].pos \in 0 .. Chunks /\ src[f] \in Version
          BY DEF IInv, Types, WorkRec
        <5>2. part[f] # Absent
          <6>1. part[f] = Part(worker[w].pos, src[f])  BY <5>1 DEF EndsAt
          <6>. QED  BY <5>3, <6>1, IsThere
        <5>4. worker[w].at = "open" => worker[w].pos > 0  BY <5>3, Constants
        <5>5. Uploading(f)  BY <3>2, <5>4 DEF Uploading
        <5>. QED  BY <2>8, <5>2, <5>5
      <4>. QED  BY <1>2, <2>1, <2>3, <2>6, <3>1, <3>2, <4>2, <4>3, <4>4 DEF WorkAt, Busy, EndsAt
    <3>3. CASE Busy(w) /\ worker[w].item # f
      <4>1. worker'[w] = worker[w]  BY <2>1, <3>3
      <4>2. PICK g \in File : g = worker[w].item  BY <3>1, <3>3 DEF WorkAt
      <4>3. part'[g] = part[g] /\ (Unspoiled(g)' => Unspoiled(g))  BY <2>3, <2>7, <3>3, <4>2
      <4>. QED  BY <1>2, <2>6, <3>1, <4>1, <4>2, <4>3 DEF WorkAt, Busy, EndsAt
    <3>4. CASE ~Busy(w)
      BY <1>2, <2>1, <3>1, <3>4 DEF WorkAt, Busy
    <3>. QED  BY <3>2, <3>3, <3>4
  <2>11. Apart'  BY <2>1 DEF IInv, Apart, Busy
  <2>. QED  BY <1>5, <1>6, <2>4, <2>9, <2>10, <2>11 DEF IInv
<1>. QED  BY <1>7, <1>8 DEF Discard

-----------------------------------------------------------------------------
(* The steps of a worker.                                                  *)

\* They change one worker, and the files of the one it has.
LEMMA OneWorker ==
    ASSUME IInv, NEW w \in Worker, Types', UNCHANGED <<way, src, spoiled>>,
           \A x \in Worker \ {w} : worker'[x] = worker[x],
           \A g \in File : ~(Busy(w) /\ g = worker[w].item) =>
               part'[g] = part[g] /\ target'[g] = target[g],
           \A g \in File : Busy(w) /\ g = worker[w].item => FileAt(g)',
           \A k \in Job : /\ job'[k].state = job[k].state /\ job'[k].plan = job[k].plan
                          /\ job'[k].discarding = job[k].discarding
                          /\ run'[k].at = run[k].at /\ run'[k].cursor >= run[k].cursor,
           WorkAt(w)',
           \/ ~Busy(w)'
           \/ Busy(w) /\ worker'[w].item = worker[w].item
           \/ worker[w].at # "exit" /\ worker'[w].item = run[w[1]].cursor
    PROVE  IInv'
<1>0. \A f : Unspoiled(f)' <=> Unspoiled(f)  BY UnspoiledSame
<1>1. ASSUME NEW g \in File PROVE (src[g] >= 2 /\ FileAt(g))'
  <2>1. src'[g] >= 2  BY DEF IInv
  <2>2. CASE Busy(w) /\ g = worker[w].item  BY <2>1, <2>2, Zenon
  <2>3. CASE ~(Busy(w) /\ g = worker[w].item)
    <3>1. part'[g] = part[g] /\ target'[g] = target[g] /\ FileAt(g)
      BY <2>3 DEF IInv
    <3>2. FileAt(g)'  BY <1>0, <3>1 DEF FileAt, PartAt, TargetAt
    <3>. QED  BY <2>1, <3>2
  <2>. QED  BY <2>2, <2>3
<1>2. \A k \in Job : RunAt(k)'  BY DEF IInv, RunAt
<1>3. OneRuns'  BY DEF IInv, OneRuns
<1>4. ASSUME NEW x \in Worker PROVE WorkAt(x)'
  <2>1. CASE x = w  BY <2>1
  <2>2. CASE x # w
    <3>1. WorkAt(x) /\ worker'[x] = worker[x] /\ x[1] \in Job  BY <2>2 DEF IInv, Worker
    <3>2. Busy(x) => worker[x].item \in File
                       /\ part'[worker[x].item] = part[worker[x].item]
      BY <2>2, <3>1 DEF IInv, WorkAt, Apart
    <3>3. run[x[1]].cursor \in Nat /\ run'[x[1]].cursor \in Nat /\ worker[x].item \in Items
      BY <3>1 DEF IInv, Types, RunRec, WorkRec
    <3>4. Busy(x) => worker[x].item < run'[x[1]].cursor
      <4>1. Busy(x) => worker[x].item < run[x[1]].cursor  BY <3>1 DEF WorkAt
      <4>2. worker[x].item \in Nat  BY <3>3, NextPlaces
      <4>3. run'[x[1]].cursor >= run[x[1]].cursor  BY <3>1
      <4>. QED  BY <3>3, <4>1, <4>2, <4>3
    <3>. QED  BY <1>0, <3>1, <3>2, <3>4 DEF WorkAt, Busy, EndsAt, Upload
  <2>. QED  BY <2>1, <2>2
<1>5. ASSUME NEW x \in Worker, x # w, Busy(w)', Busy(x)',
             worker'[w].item = worker'[x].item
      PROVE  FALSE
  <2>1. Busy(x) /\ worker'[x] = worker[x]  BY <1>5 DEF Busy
  <2>2. worker[w].at # "exit" /\ worker'[w].item = run[w[1]].cursor
    BY <1>5, <2>1 DEF IInv, Apart
  <2>3. w[1] \in Job /\ x[1] \in Job  BY DEF Worker
  <2>4. run[w[1]].at = "copy" /\ run[x[1]].at = "copy" /\ worker[x].item < run[x[1]].cursor
    BY <2>1, <2>2 DEF IInv, WorkAt, Busy
  <2>5. w[1] = x[1]  BY <2>3, <2>4 DEF IInv, RunAt, OneRuns
  <2>6. worker[x].item = run[x[1]].cursor  BY <1>5, <2>1, <2>2, <2>5
  <2>7. run[x[1]].cursor \in Nat  BY <2>3 DEF IInv, Types, RunRec
  <2>. QED  BY <2>4, <2>6, <2>7
<1>6. Apart'
  <2>1. ASSUME NEW x \in Worker, NEW y \in Worker, (Busy(x) /\ Busy(y))',
               worker'[x].item = worker'[y].item
        PROVE  x = y
    <3>1. CASE x # w /\ y # w  BY <2>1, <3>1 DEF IInv, Apart, Busy
    <3>. QED  BY <1>5, <2>1, <3>1
  <2>. QED  BY <2>1 DEF Apart
<1>. QED  BY <1>1, <1>2, <1>3, <1>4, <1>6 DEF IInv

\* What a worker at work knows of its job, its file and the part it writes.
LEMMA AtWork ==
    ASSUME IInv, NEW w \in Worker, Busy(w)
    PROVE  /\ w[1] \in Job /\ run[w[1]] \in RunRec /\ worker[w] \in WorkRec
           /\ worker[w].item \in File /\ worker[w].item < run[w[1]].cursor
           /\ run[w[1]].at = "copy" /\ job[w[1]].state = "running" /\ job[w[1]].plan = src
           /\ src[worker[w].item] \in Version /\ src[worker[w].item] \in Nat
           /\ src[worker[w].item] >= 2
           /\ \A x \in Worker \ {w} :
                ~(worker[x].at = "copy" /\ worker[x].item = worker[w].item)
<1>1. w[1] \in Job  BY DEF Worker
<1>2. run[w[1]] \in RunRec /\ worker[w] \in WorkRec  BY <1>1 DEF IInv, Types
<1>3. WorkAt(w)  BY DEF IInv
<1>4. worker[w].item \in File /\ worker[w].item < run[w[1]].cursor /\ run[w[1]].at = "copy"
  BY <1>3 DEF WorkAt, Busy
<1>5. job[w[1]].state = "running" /\ job[w[1]].plan = src
  BY <1>1, <1>4 DEF IInv, RunAt
<1>6. src[worker[w].item] \in Version /\ src[worker[w].item] >= 2
  BY <1>4 DEF IInv, Types
<1>7. src[worker[w].item] \in Nat  BY <1>6, Constants
<1>8. \A x \in Worker \ {w} :
        ~(worker[x].at = "copy" /\ worker[x].item = worker[w].item)
  BY DEF IInv, Apart, Busy
<1>. QED  BY <1>1, <1>2, <1>4, <1>5, <1>6, <1>7, <1>8

\* A worker that takes a file, or finds none.
LEMMA TakeStep ==
    ASSUME IInv, NEW w \in Worker, Take(w)
    PROVE  IInv'
<1>. DEFINE j == w[1]
            i == run[j].cursor
            u == [run[j] EXCEPT !.cursor = @ + 1]
            Takes(v, r) ==
                /\ v \in RunRec /\ v.at = run[j].at /\ v.cursor \in {i, i + 1}
                /\ run' = [run EXCEPT ![j] = v]
                /\ r \in WorkRec /\ worker' = [worker EXCEPT ![w] = r]
                /\ \/ r.at \in {"exit", "next"}
                   \/ r.at = "wait" /\ r.item = i /\ r.item \in File /\ v.cursor = i + 1
<1>1. j \in Job /\ run[j] \in RunRec /\ worker[w] \in WorkRec
  BY DEF IInv, Types, Worker
<1>2. i \in Nat  BY <1>1 DEF RunRec
<1>3. u \in RunRec /\ u.at = run[j].at /\ u.cursor = i + 1
  BY <1>1, <1>2 DEF RunRec
<1>4. worker[w].at = "next" /\ UNCHANGED <<way, src, part, target, slots, job, connected, acts, faults, spoiled>>
  BY DEF Take
<1>5. run[j].at = "copy"  BY <1>4 DEF IInv, WorkAt
<1>6. ASSUME NEW v, NEW r, Takes(v, r)
      PROVE  IInv'
  <2>1. Types'  BY <1>1, <1>4, <1>6 DEF IInv, Types
  <2>2. /\ run'[j] = v /\ worker'[w] = r
        /\ \A k \in Job \ {j} : run'[k] = run[k]
        /\ \A x \in Worker \ {w} : worker'[x] = worker[x]
    BY <1>1, <1>6 DEF IInv, Types
  <2>3. \A k \in Job : run[k].cursor \in Nat  BY DEF IInv, Types, RunRec
  <2>4. v.cursor >= i /\ i + 1 > i  BY <1>2, <1>6
  <2>5. \A k \in Job : run'[k].at = run[k].at /\ run'[k].cursor >= run[k].cursor
    <3>1. ASSUME NEW k \in Job PROVE run'[k].cursor >= run[k].cursor
      <4>1. CASE k = j  BY <2>2, <2>4, <4>1
      <4>2. CASE k # j
        <5>1. run'[k].cursor = run[k].cursor  BY <2>2, <4>2
        <5>. QED  BY <2>3, <5>1
      <4>. QED  BY <4>1, <4>2
    <3>2. \A k \in Job : run'[k].at = run[k].at  BY <1>6, <2>2
    <3>. QED  BY <3>1, <3>2
  <2>6. ~Busy(w)  BY <1>4 DEF Busy
  <2>7. WorkAt(w)'
    <3>1. run'[w[1]].at = "copy"  BY <1>5, <1>6, <2>2
    <3>2. r.at = "wait" => r.item \in File /\ r.item < run'[w[1]].cursor
      BY <1>6, <2>2, <2>4
    <3>3. worker'[w].at \in {"exit", "next", "wait"}  BY <1>6, <2>2
    <3>. QED  BY <2>2, <3>1, <3>2, <3>3 DEF WorkAt, Busy
  <2>8. Busy(w)' => worker'[w].item = run[w[1]].cursor  BY <1>6, <2>2 DEF Busy
  <2>9. \A g \in File : part'[g] = part[g] /\ target'[g] = target[g]  BY <1>4
  <2>. QED  BY <1>4, <2>1, <2>2, <2>5, <2>6, <2>7, <2>8, <2>9, OneWorker
<1>7. NoWorker \in WorkRec /\ NoWorker.at = "exit"  BY Beginnings
<1>8. i \in {i, i + 1} /\ i + 1 \in {i, i + 1}  OBVIOUS
<1>9. CASE /\ worker' = Quit(w)
           /\ run' = IF run[j].failed # "none" THEN run ELSE [run EXCEPT ![j].cursor = @ + 1]
  <2>1. worker' = [worker EXCEPT ![w] = NoWorker]  BY <1>9 DEF Quit
  <2>2. run' = [run EXCEPT ![j] = run[j]] \/ run' = [run EXCEPT ![j] = u]
    BY <1>1, <1>9 DEF IInv, Types
  <2>. HIDE DEF u
  <2>3. Takes(run[j], NoWorker) \/ Takes(u, NoWorker)
    BY <1>1, <1>3, <1>7, <1>8, <2>1, <2>2
  <2>. HIDE DEF Takes
  <2>. QED  BY <1>6, <2>3
<1>10. CASE run' = [run EXCEPT ![j].cursor = @ + 1] /\ UNCHANGED worker
  <2>1. worker' = [worker EXCEPT ![w] = worker[w]]  BY <1>10 DEF IInv, Types
  <2>2. run' = [run EXCEPT ![j] = u]  BY <1>10
  <2>. HIDE DEF u
  <2>3. Takes(u, worker[w])  BY <1>1, <1>3, <1>4, <1>8, <2>1, <2>2
  <2>. HIDE DEF Takes
  <2>. QED  BY <1>6, <2>3
<1>11. CASE /\ i \in File /\ run' = [run EXCEPT ![j].cursor = @ + 1]
            /\ worker' = [worker EXCEPT ![w] = [NoWorker EXCEPT !.at = "wait", !.item = i]]
  <2>. DEFINE r == [NoWorker EXCEPT !.at = "wait", !.item = i]
  <2>1. i \in Items  BY <1>11, Places
  <2>2. r \in WorkRec /\ r.at = "wait" /\ r.item = i  BY <2>1, Beginnings
  <2>3. run' = [run EXCEPT ![j] = u] /\ worker' = [worker EXCEPT ![w] = r]  BY <1>11
  <2>. HIDE DEF u, r
  <2>4. Takes(u, r)  BY <1>3, <1>8, <1>11, <2>2, <2>3
  <2>. HIDE DEF Takes
  <2>. QED  BY <1>6, <2>4
<1>12. CASE /\ run' = [run EXCEPT ![j] = Fail([@ EXCEPT !.cursor = i + 1], "cancelled")]
            /\ worker' = Quit(w)
  <2>. DEFINE v == Fail(u, "cancelled")
  <2>1. v \in RunRec /\ v.at = run[j].at /\ v.cursor = i + 1  BY <1>3, FailIs
  <2>2. run' = [run EXCEPT ![j] = v] /\ worker' = [worker EXCEPT ![w] = NoWorker]
    BY <1>12 DEF Quit
  <2>. HIDE DEF v
  <2>3. Takes(v, NoWorker)  BY <1>7, <1>8, <2>1, <2>2
  <2>. HIDE DEF Takes
  <2>. QED  BY <1>6, <2>3
<1>. QED  BY <1>9, <1>10, <1>11, <1>12, Zenon DEF Take

\* A part is gone on with up to where the file will end.
LEMMA ResumesWithin ==
    ASSUME IInv, NEW w \in Worker, Busy(w), NEW f, f = worker[w].item
    PROVE  ResumeAt(f, job[w[1]].plan[f]) \in 0 .. SizeOf(src[f])
<1>1. f \in File /\ job[w[1]].plan[f] = src[f] /\ src[f] \in Nat  BY AtWork
<1>2. SizeOf(src[f]) \in Nat  BY <1>1, Sizes, Constants
<1>3. CASE part[f] = Absent \/ Len(part[f].data) > SizeOf(src[f]) \/ src[f] > part[f].written
  <2>1. ResumeAt(f, job[w[1]].plan[f]) = 0  BY <1>1, <1>3 DEF ResumeAt
  <2>. QED  BY <1>2, <2>1
<1>4. CASE ~(part[f] = Absent \/ Len(part[f].data) > SizeOf(src[f]) \/ src[f] > part[f].written)
  <2>1. ResumeAt(f, job[w[1]].plan[f]) = Len(part[f].data)  BY <1>1, <1>4 DEF ResumeAt
  <2>2. part[f].data \in Data  BY <1>1, <1>4 DEF IInv, Types
  <2>3. Len(part[f].data) \in Nat  BY <2>2, DataLen
  <2>4. ~(Len(part[f].data) > SizeOf(src[f]))  BY <1>4
  <2>. QED  BY <1>2, <2>1, <2>3, <2>4
<1>. QED  BY <1>3, <1>4

\* A part that can be gone on with is of today's version.
LEMMA ResumesRight ==
    ASSUME IInv, NEW w \in Worker, Busy(w), NEW f, f = worker[w].item, Unspoiled(f),
           ResumeAt(f, job[w[1]].plan[f]) # 0
    PROVE  part[f] = Part(ResumeAt(f, job[w[1]].plan[f]), src[f])
<1>. DEFINE n == ResumeAt(f, job[w[1]].plan[f])
<1>1. f \in File /\ job[w[1]].plan[f] = src[f] /\ src[f] \in Nat  BY AtWork
<1>2. /\ part[f] # Absent /\ ~(Len(part[f].data) > SizeOf(src[f]))
      /\ ~(src[f] > part[f].written) /\ n = Len(part[f].data)
  BY <1>1 DEF ResumeAt
<1>3. PICK v \in 2 .. src[f], m \in 0 .. Chunks : part[f] = Part(m, v)
  BY <1>1, <1>2 DEF IInv, FileAt, PartAt
<1>4. part[f].data = Const(m, v) /\ part[f].written = v  BY <1>3 DEF Part
<1>5. v = src[f]
  <2>1. ~(src[f] > v) /\ v \in 2 .. src[f]  BY <1>2, <1>4
  <2>. QED  BY <1>1, <2>1
<1>6. m \in Nat /\ v \in Nat  BY <1>1, <1>5, Constants
<1>7. n = m  BY <1>2, <1>4, <1>6, ConstLen
<1>. QED  BY <1>3, <1>5, <1>7

\* Slots given back and taken.
LEMMA SlotTypes ==
    ASSUME slots \in SlotRec
    PROVE  /\ [slots EXCEPT !.free = @ + 1] \in SlotRec
           /\ slots.free > 0 => [slots EXCEPT !.free = @ - 1] \in SlotRec
<1>1. slots.free \in Nat /\ slots.width \in 1 .. MaxWidth  BY DEF SlotRec
<1>2. slots.free + 1 \in Nat /\ (slots.free > 0 => slots.free - 1 \in Nat)  BY <1>1
<1>. QED  BY <1>1, <1>2 DEF SlotRec

\* A worker that ends early; of the files, its part may have changed.
LEMMA Quits ==
    ASSUME IInv, NEW w \in Worker, NEW f \in File, Busy(w), f = worker[w].item,
           NEW why \in {"cancelled", "error"},
           run' = [run EXCEPT ![w[1]] = Fail(@, why)],
           worker' \in [Worker -> WorkRec], worker'[w].at = "exit",
           \A x \in Worker \ {w} : worker'[x] = worker[x],
           part' \in [File -> [data : Data, written : Version] \cup {Absent}],
           \A g \in File \ {f} : part'[g] = part[g],
           Unspoiled(f) => PartAt(f)',
           slots' \in SlotRec, faults' \in 0 .. MaxFaults,
           UNCHANGED <<way, src, target, job, connected, acts, spoiled>>
    PROVE  IInv'
<1>. DEFINE j == w[1]
            u == Fail(run[j], why)
<1>1. j \in Job /\ run[j] \in RunRec  BY AtWork
<1>2. u \in RunRec /\ u.at = run[j].at /\ u.cursor = run[j].cursor  BY <1>1, FailIs
<1>3. run' = [run EXCEPT ![j] = u]  OBVIOUS
<1>. HIDE DEF u
<1>4. Types'  BY <1>1, <1>2, <1>3 DEF IInv, Types
<1>5. run'[j] = u /\ \A k \in Job \ {j} : run'[k] = run[k]
  BY <1>1, <1>3 DEF IInv, Types
<1>6. \A k \in Job : run[k].cursor \in Nat  BY DEF IInv, Types, RunRec
<1>7. \A k \in Job : run'[k].at = run[k].at /\ run'[k].cursor = run[k].cursor
  BY <1>2, <1>5
<1>8. \A n \in Nat : n >= n  OBVIOUS
<1>9. \A k \in Job : run'[k].cursor >= run[k].cursor  BY <1>6, <1>7, <1>8, Zenon
<1>10. FileAt(f)'
  <2>1. Unspoiled(f)' => Unspoiled(f)  BY UnspoiledSame
  <2>2. Unspoiled(f) => TargetAt(f)  BY DEF IInv, FileAt
  <2>3. Unspoiled(f) => TargetAt(f)'  BY <2>2 DEF TargetAt
  <2>. QED  BY <2>1, <2>3 DEF FileAt
<1>11. WorkAt(w)'  BY DEF WorkAt, Busy
<1>12. ~Busy(w)'  BY DEF Busy
<1>13. \A g \in File : ~(Busy(w) /\ g = worker[w].item) =>
          part'[g] = part[g] /\ target'[g] = target[g]
  OBVIOUS
<1>. QED  BY <1>4, <1>7, <1>9, <1>10, <1>11, <1>12, <1>13, OneWorker

\* A worker whose turn has come.
LEMMA TurnStep ==
    ASSUME IInv, NEW w \in Worker, Turn(w)
    PROVE  IInv'
<1>0. PICK f \in File : Turn(w) /\ f = worker[w].item  BY AtWork DEF Turn, Busy
<1>. DEFINE j == w[1]
            offset == ResumeAt(f, job[j].plan[f])
<1>1. /\ worker[w].at = "wait" /\ slots.free > 0 /\ Busy(w)
      /\ UNCHANGED <<way, src, part, target, job, connected, acts, faults, spoiled>>
  BY <1>0 DEF Turn, Busy
<1>2. /\ j \in Job /\ run[j] \in RunRec /\ worker[w] \in WorkRec
      /\ src[f] \in Version /\ src[f] \in Nat /\ src[f] >= 2
      /\ f < run[j].cursor /\ run[j].at = "copy"
  BY <1>0, <1>1, AtWork
<1>3. CASE /\ run' = [run EXCEPT ![j] = Fail(@, IF Stopped(j) THEN "cancelled" ELSE "error")]
           /\ worker' = Quit(w) /\ UNCHANGED slots
  <2>1. /\ worker' \in [Worker -> WorkRec] /\ worker'[w].at = "exit"
        /\ \A x \in Worker \ {w} : worker'[x] = worker[x]
    BY <1>3, Beginnings DEF Quit, IInv, Types
  <2>2. /\ part' \in [File -> [data : Data, written : Version] \cup {Absent}]
        /\ slots' \in SlotRec /\ faults' \in 0 .. MaxFaults
    BY <1>1, <1>3 DEF IInv, Types
  <2>3. Unspoiled(f) => PartAt(f)'
    <3>1. Unspoiled(f) => PartAt(f)  BY <1>2 DEF IInv, FileAt
    <3>. QED  BY <1>1, <3>1 DEF PartAt
  <2>4. \A g \in File \ {f} : part'[g] = part[g]  BY <1>1
  <2>5. PICK why \in {"cancelled", "error"} : run' = [run EXCEPT ![j] = Fail(@, why)]
    BY <1>3
  <2>. QED  BY <1>1, <2>1, <2>2, <2>3, <2>4, <2>5, <1>0, Quits
<1>4. CASE /\ slots' = [slots EXCEPT !.free = @ - 1] /\ run' = run
           /\ worker' = [worker EXCEPT ![w] =
                            [at |-> "open", item |-> f, pos |-> offset, on |-> "gone"]]
  <2>. DEFINE r == [at |-> "open", item |-> f, pos |-> offset, on |-> "gone"]
  <2>1. /\ offset \in 0 .. SizeOf(src[f])
        /\ offset # 0 /\ Unspoiled(f) => part[f] = Part(offset, src[f])
    BY <1>0, <1>1, ResumesWithin, ResumesRight
  <2>. HIDE DEF offset
  <2>2. offset \in 0 .. Chunks
    <3>1. SizeOf(src[f]) \in 1 .. Chunks /\ Chunks \in Nat  BY <1>2, Sizes, Constants
    <3>. QED  BY <2>1, <3>1
  <2>3. f \in Items  BY <1>2, Places
  <2>4. r \in WorkRec /\ r.at = "open" /\ r.item = f /\ r.pos = offset
    BY <2>2, <2>3 DEF WorkRec
  <2>5. worker' = [worker EXCEPT ![w] = r]  BY <1>4
  <2>. HIDE DEF r
  <2>6. slots' \in SlotRec  BY <1>1, <1>4, SlotTypes DEF IInv, Types
  <2>9. Types'  BY <1>1, <1>4, <2>4, <2>5, <2>6 DEF IInv, Types
  <2>10. worker'[w] = r /\ \A x \in Worker \ {w} : worker'[x] = worker[x]
    BY <2>5 DEF IInv, Types
  <2>0. Unspoiled(f)' <=> Unspoiled(f)  BY <1>1, UnspoiledSame
  <2>11. FileAt(f)'
    <3>1. FileAt(f)  BY <1>2 DEF IInv
    <3>. QED  BY <1>1, <2>0, <3>1 DEF FileAt, PartAt, TargetAt
  <2>13. WorkAt(w)'
    BY <1>1, <1>2, <1>4, <2>0, <2>1, <2>4, <2>10 DEF WorkAt, Busy, EndsAt
  <2>14. \A k \in Job : run'[k].at = run[k].at /\ run'[k].cursor >= run[k].cursor
    <3>1. \A k \in Job : run[k].cursor \in Nat  BY DEF IInv, Types, RunRec
    <3>2. \A n \in Nat : n >= n  OBVIOUS
    <3>. QED  BY <1>4, <3>1, <3>2, Zenon
  <2>15. \A g \in File : part'[g] = part[g] /\ target'[g] = target[g]
    BY <1>1
  <2>. QED  BY <1>0, <1>1, <2>4, <2>9, <2>10, <2>11, <2>13, <2>14, <2>15, OneWorker
<1>. QED  BY <1>0, <1>3, <1>4, Zenon DEF Turn

\* A copy that ends early, with or without its part.
LEMMA BrokenStep ==
    ASSUME IInv, NEW w \in Worker, NEW f \in File, worker[w].at \in {"open", "copy"}, f = worker[w].item,
           NEW parts \in [File -> [data : Data, written : Version] \cup {Absent}],
           \A g \in File \ {f} : parts[g] = part[g],
           \/ parts[f] = part[f]
           \/ Unspoiled(f) => \E n \in 0 .. Chunks : parts[f] = Part(n, src[f]),
           NEW why \in {"cancelled", "error"}, Broken(w, parts, why),
           target' = target, faults' \in 0 .. MaxFaults
    PROVE  IInv'
<1>1. Busy(w)  BY DEF Busy
<1>2. /\ slots' = [slots EXCEPT !.free = @ + 1]
      /\ run' = [run EXCEPT ![w[1]] = Fail(@, why)]
      /\ UNCHANGED <<way, src, job, connected, acts, spoiled>>
  BY DEF Broken, Release
<1>3. \/ part' = parts /\ worker' = Quit(w)
      \/ part' = [parts EXCEPT ![f] = Absent] /\ worker' = Followed(Quit(w), f, PartGone)
  BY DEF Broken
<1>4. /\ Quit(w) \in [Worker -> WorkRec] /\ Quit(w)[w].at = "exit"
      /\ \A x \in Worker \ {w} : Quit(w)[x] = worker[x]
  BY Beginnings DEF Quit, IInv, Types
<1>5. \A x \in Worker \ {w} : ~(worker[x].at = "copy" /\ worker[x].item = f)
  BY <1>1, AtWork
<1>6. /\ worker' \in [Worker -> WorkRec] /\ worker'[w].at = "exit"
      /\ \A x \in Worker \ {w} : worker'[x] = worker[x]
  <2>1. CASE worker' = Quit(w)  BY <1>4, <2>1
  <2>2. CASE worker' = Followed(Quit(w), f, PartGone)
    BY <1>4, <1>5, <2>2, FollowedIs
  <2>. QED  BY <1>3, <2>1, <2>2
<1>7. /\ part' \in [File -> [data : Data, written : Version] \cup {Absent}]
      /\ \A g \in File \ {f} : part'[g] = part[g]
      /\ part'[f] \in {parts[f], Absent}
  BY <1>3
<1>8. Unspoiled(f) => PartAt(f)'
  <2>. SUFFICES ASSUME Unspoiled(f)  PROVE PartAt(f)'  OBVIOUS
  <2>1. PartAt(f) /\ src[f] \in Nat /\ src[f] >= 2  BY <1>1, AtWork DEF IInv, FileAt
  <2>2. src[f] \in 2 .. src[f]  BY <2>1
  <2>. QED  BY <1>2, <1>7, <2>1, <2>2 DEF PartAt
<1>9. slots' \in SlotRec  BY <1>2, SlotTypes DEF IInv, Types
<1>. QED  BY <1>1, <1>2, <1>6, <1>7, <1>8, <1>9, Quits

\* A copy that fails.
LEMMA CopyFailsStep ==
    ASSUME IInv, NEW w \in Worker, CopyFails(w)
    PROVE  IInv'
<1>1. worker[w].at \in {"open", "copy"} /\ target' = target /\ Broken(w, part, "error")
  BY DEF CopyFails
<1>2. faults' \in 0 .. MaxFaults
  <2>1. faults \in 0 .. MaxFaults /\ MaxFaults \in Nat  BY Constants DEF IInv, Types
  <2>2. faults' = faults \/ (faults < MaxFaults /\ faults' = faults + 1)
    BY DEF CopyFails
  <2>. QED  BY <2>1, <2>2
<1>3. worker[w].item \in File  BY <1>1, AtWork DEF Busy
<1>4. part \in [File -> [data : Data, written : Version] \cup {Absent}]
  BY DEF IInv, Types
<1>. QED  BY <1>1, <1>2, <1>3, <1>4, BrokenStep

\* The part is opened: begun, or gone on with where it ends.
LEMMA OpenStep ==
    ASSUME IInv, NEW w \in Worker, Open(w)
    PROVE  IInv'
<1>0. PICK f \in File : Open(w) /\ f = worker[w].item  BY AtWork DEF Open, Busy
<1>. DEFINE pos == worker[w].pos
            v == src[f]
            begins == pos = 0 \/ (Upload /\ part[f] = Absent)
<1>1. worker[w].at = "open" /\ Busy(w) /\ target' = target /\ faults' = faults
  BY <1>0 DEF Open, Busy
<1>2. /\ w[1] \in Job /\ worker[w] \in WorkRec /\ v \in Version /\ v \in Nat /\ v >= 2
      /\ run[w[1]].at = "copy" /\ f < run[w[1]].cursor
  BY <1>0, <1>1, AtWork
<1>3. /\ pos \in 0 .. SizeOf(v)
      /\ pos # 0 /\ Unspoiled(f) => EndsAt(f, pos)
  BY <1>0, <1>1 DEF IInv, WorkAt
<1>4. part \in [File -> [data : Data, written : Version] \cup {Absent}] /\ faults' \in 0 .. MaxFaults
  BY <1>1 DEF IInv, Types
<1>5. CASE Broken(w, part, "error")
  BY <1>0, <1>1, <1>4, <1>5, BrokenStep
<1>6. CASE /\ begins \/ part[f] # Absent
           /\ part' = IF begins THEN [part EXCEPT ![f] = [data |-> <<>>, written |-> v]] ELSE part
           /\ worker' = [worker EXCEPT ![w].at = "copy", ![w].on = "part"]
           /\ UNCHANGED <<way, src, slots, job, run, connected, acts, spoiled>>
  <2>. DEFINE r == [worker[w] EXCEPT !.at = "copy", !.on = "part"]
  <2>0. Unspoiled(f)' <=> Unspoiled(f)  BY <1>6, UnspoiledSame
  <2>1. /\ r \in WorkRec /\ r.at = "copy" /\ r.item = f /\ r.pos = pos /\ r.on = "part"
    BY <1>0, <1>2 DEF WorkRec
  <2>2. worker' = [worker EXCEPT ![w] = r]  BY <1>6
  <2>. HIDE DEF r
  <2>3. worker'[w] = r /\ \A x \in Worker \ {w} : worker'[x] = worker[x]
    BY <2>2 DEF IInv, Types
  <2>4. /\ part' \in [File -> [data : Data, written : Version] \cup {Absent}]
        /\ \A g \in File \ {f} : part'[g] = part[g]
        /\ part'[f] # Absent
        /\ Unspoiled(f) => \E n \in 0 .. Chunks : n = pos /\ part'[f] = Part(n, v)
    <3>1. CASE begins
      <4>1. part' = [part EXCEPT ![f] = Part(0, v)]  BY <1>2, <1>6, <3>1, EmptyPart
      <4>2. Part(0, v) \in [data : Data, written : Version] /\ 0 \in 0 .. Chunks
        BY <1>2, EmptyPart, Constants
      <4>3. Part(0, v) # Absent  BY <1>2, <4>2, IsThere
      <4>4. Unspoiled(f) => pos = 0
        <5>. SUFFICES ASSUME Unspoiled(f), pos # 0  PROVE FALSE  OBVIOUS
        <5>1. EndsAt(f, pos) /\ Upload /\ part[f] = Absent  BY <1>3, <3>1
        <5>2. part[f] = Part(pos, v)  BY <5>1 DEF EndsAt
        <5>3. pos \in 0 .. Chunks  BY <1>2 DEF WorkRec
        <5>. QED  BY <1>2, <5>1, <5>2, <5>3, IsThere
      <4>. HIDE DEF pos, v
      <4>. QED  BY <1>4, <4>1, <4>2, <4>3, <4>4
    <3>2. CASE ~begins
      <4>1. part' = part /\ part[f] # Absent /\ pos # 0  BY <1>6, <3>2
      <4>2. Unspoiled(f) => part[f] = Part(pos, v)  BY <1>3, <4>1 DEF EndsAt
      <4>3. pos \in 0 .. Chunks  BY <1>2 DEF WorkRec
      <4>. QED  BY <1>4, <4>1, <4>2, <4>3
    <3>. QED  BY <3>1, <3>2
  <2>. HIDE DEF begins
  <2>5. Types'  BY <1>1, <1>4, <1>6, <2>1, <2>2, <2>4 DEF IInv, Types
  <2>6. FileAt(f)'
    <3>1. Unspoiled(f) => TargetAt(f)'
      <4>1. Unspoiled(f) => TargetAt(f)  BY DEF IInv, FileAt
      <4>. QED  BY <1>1, <1>6, <4>1 DEF TargetAt
    <3>2. Unspoiled(f) => PartAt(f)'
      <4>1. v \in 2 .. v /\ src' = src  BY <1>2, <1>6
      <4>. QED  BY <2>4, <4>1 DEF PartAt
    <3>. QED  BY <2>0, <3>1, <3>2 DEF FileAt
  <2>7. WorkAt(w)'
    <3>1. Unspoiled(f) => part'[f] = Part(pos, v)  BY <2>4
    <3>. QED  BY <1>2, <1>3, <1>6, <2>0, <2>1, <2>3, <2>4, <3>1 DEF WorkAt, Busy, EndsAt
  <2>8. \A k \in Job : run'[k].at = run[k].at /\ run'[k].cursor >= run[k].cursor
    <3>1. \A k \in Job : run[k].cursor \in Nat  BY DEF IInv, Types, RunRec
    <3>2. \A n \in Nat : n >= n  OBVIOUS
    <3>. QED  BY <1>6, <3>1, <3>2, Zenon
  <2>9. \A g \in File : ~(Busy(w) /\ g = worker[w].item) =>
           part'[g] = part[g] /\ target'[g] = target[g]
    BY <1>0, <1>1, <2>4
  <2>. QED  BY <1>0, <1>1, <1>6, <2>1, <2>3, <2>5, <2>6, <2>7, <2>8, <2>9, OneWorker
<1>. QED  BY <1>0, <1>5, <1>6 DEF Open

\* A chunk written by a worker whose part is there goes at its end, and is of
\* today's version.
LEMMA CopyStep ==
    ASSUME IInv, NEW w \in Worker, Copy(w)
    PROVE  IInv'
<1>0. PICK f \in File : Copy(w) /\ f = worker[w].item  BY AtWork DEF Copy, Busy
<1>. DEFINE pos == worker[w].pos
            v == src[f]
            data == WriteAt(Shown(w), pos + 1, v)
            parts == PartWith(w, data)
<1>1. /\ worker[w].at = "copy" /\ Busy(w) /\ pos + 1 <= SizeOf(v)
      /\ target' = TargetWith(w, data) /\ faults' = faults
  BY <1>0 DEF Copy, Busy
<1>2. /\ w[1] \in Job /\ worker[w] \in WorkRec /\ v \in Version /\ v \in Nat /\ v >= 2
      /\ run[w[1]].at = "copy" /\ f < run[w[1]].cursor
  BY <1>0, <1>1, AtWork
<1>3. /\ pos \in 0 .. SizeOf(v)
      /\ Unspoiled(f) => EndsAt(f, pos)
      /\ \/ worker[w].on = "part" /\ part[f] # Absent
         \/ worker[w].on = "gone" /\ part[f] = Absent
  BY <1>0, <1>1 DEF IInv, WorkAt
<1>4. SizeOf(v) \in 1 .. Chunks /\ Chunks \in Nat  BY <1>2, Sizes, Constants
<1>5. /\ pos \in Nat /\ pos \in 0 .. Chunks /\ pos + 1 \in 0 .. SizeOf(v)
      /\ pos + 1 \in 0 .. Chunks /\ pos + 1 \in 1 .. Chunks
  BY <1>1, <1>3, <1>4
<1>6. target' = target
  <2>1. worker[w].on # "target"  BY <1>3
  <2>. QED  BY <1>1, <2>1 DEF TargetWith
<1>7. /\ parts \in [File -> [data : Data, written : Version] \cup {Absent}]
      /\ \A g \in File \ {f} : parts[g] = part[g]
      /\ \/ /\ worker[w].on = "part" /\ parts[f] # Absent
            /\ Unspoiled(f) => parts[f] = Part(pos + 1, v)
         \/ /\ worker[w].on = "gone" /\ parts = part /\ part[f] = Absent
            /\ Unspoiled(f) => ~Upload
  <2>0. part \in [File -> [data : Data, written : Version] \cup {Absent}]
    BY DEF IInv, Types
  <2>1. CASE worker[w].on = "part" /\ part[f] # Absent
    <3>1. Shown(w) = part[f].data /\ part[f] \in [data : Data, written : Version]
      BY <1>0, <2>0, <2>1 DEF Shown
    <3>2. data \in Data
      <4>1. Shown(w) \in Data  BY <3>1
      <4>. QED  BY <1>2, <1>5, <4>1, WriteTypes
    <3>3. Unspoiled(f) => data = Const(pos + 1, v)
      <4>. SUFFICES ASSUME Unspoiled(f)  PROVE data = Const(pos + 1, v)  OBVIOUS
      <4>1. Shown(w) = Const(pos, v)  BY <1>3, <2>1, <3>1 DEF EndsAt, Part
      <4>. QED  BY <1>2, <1>5, <4>1, WriteNext
    <3>. HIDE DEF data, v
    <3>4. parts = [part EXCEPT ![f] = [data |-> data, written |-> v]]
      BY <1>0, <2>1 DEF PartWith, v
    <3>5. [data |-> data, written |-> v] \in [data : Data, written : Version]
      BY <1>2, <3>2
    <3>6. [data |-> data, written |-> v] # Absent  BY <3>5, AbsentAssumption
    <3>7. Unspoiled(f) => [data |-> data, written |-> v] = Part(pos + 1, v)  BY <3>3 DEF Part
    <3>. HIDE DEF parts
    <3>. QED  BY <2>0, <2>1, <3>4, <3>5, <3>6, <3>7
  <2>2. CASE worker[w].on = "gone" /\ part[f] = Absent
    <3>1. parts = part  BY <2>2 DEF PartWith
    <3>2. Unspoiled(f) => ~Upload
      <4>1. Part(pos, v) # Absent  BY <1>2, <1>5, IsThere
      <4>. QED  BY <1>3, <2>2, <4>1 DEF EndsAt
    <3>. QED  BY <2>0, <2>2, <3>1, <3>2
  <2>. QED  BY <1>3, <2>1, <2>2
<1>8. CASE Broken(w, parts, "cancelled")
  <2>1. faults' \in 0 .. MaxFaults  BY <1>1 DEF IInv, Types
  <2>2. parts[f] = part[f] \/ (Unspoiled(f) => \E n \in 0 .. Chunks : parts[f] = Part(n, src[f]))
    BY <1>5, <1>7
  <2>. HIDE DEF parts
  <2>. QED  BY <1>0, <1>1, <1>6, <1>7, <1>8, <2>1, <2>2, BrokenStep
<1>9. CASE /\ part' = parts /\ worker' = [worker EXCEPT ![w].pos = pos + 1]
           /\ UNCHANGED <<way, src, slots, job, run, connected, acts, spoiled>>
  <2>. DEFINE r == [worker[w] EXCEPT !.pos = pos + 1]
  <2>1. /\ r \in WorkRec /\ r.at = "copy" /\ r.item = f /\ r.pos = pos + 1
        /\ r.on = worker[w].on
    BY <1>0, <1>1, <1>2, <1>5 DEF WorkRec
  <2>2. worker' = [worker EXCEPT ![w] = r]  BY <1>9
  <2>. HIDE DEF r, parts
  <2>3. worker'[w] = r /\ \A x \in Worker \ {w} : worker'[x] = worker[x]
    BY <2>2 DEF IInv, Types
  <2>4. Types'  BY <1>1, <1>6, <1>7, <1>9, <2>1, <2>2 DEF IInv, Types
  <2>0. Unspoiled(f)' <=> Unspoiled(f)  BY <1>9, UnspoiledSame
  <2>5. FileAt(f)'
    <3>1. Unspoiled(f) => TargetAt(f)'
      <4>1. Unspoiled(f) => TargetAt(f)  BY DEF IInv, FileAt
      <4>. QED  BY <1>6, <1>9, <4>1 DEF TargetAt
    <3>2. Unspoiled(f) => PartAt(f)'
      <4>1. v \in 2 .. v /\ src' = src /\ part' = parts  BY <1>2, <1>9
      <4>. QED  BY <1>5, <1>7, <4>1 DEF PartAt
    <3>. QED  BY <2>0, <3>1, <3>2 DEF FileAt
  <2>7. WorkAt(w)'
    <3>1. \/ /\ r.on = "part" /\ part'[f] # Absent
             /\ Unspoiled(f) => part'[f] = Part(pos + 1, v)
          \/ /\ r.on = "gone" /\ part'[f] = Absent
             /\ Unspoiled(f) => ~Upload
      BY <1>7, <1>9, <2>1
    <3>2. Upload' = Upload  BY <1>9 DEF Upload
    <3>. QED  BY <1>2, <1>5, <1>9, <2>0, <2>1, <2>3, <3>1, <3>2 DEF WorkAt, Busy, EndsAt
  <2>8. \A k \in Job : run'[k].at = run[k].at /\ run'[k].cursor >= run[k].cursor
    <3>1. \A k \in Job : run[k].cursor \in Nat  BY DEF IInv, Types, RunRec
    <3>2. \A n \in Nat : n >= n  OBVIOUS
    <3>. QED  BY <1>9, <3>1, <3>2, Zenon
  <2>9. \A g \in File : ~(Busy(w) /\ g = worker[w].item) =>
           part'[g] = part[g] /\ target'[g] = target[g]
    BY <1>0, <1>1, <1>6, <1>7, <1>9
  <2>. QED  BY <1>0, <1>1, <1>9, <2>1, <2>3, <2>4, <2>5, <2>7, <2>8, <2>9, OneWorker
<1>10. Broken(w, parts, "cancelled") \/
         (/\ part' = parts /\ worker' = [worker EXCEPT ![w].pos = pos + 1]
          /\ UNCHANGED <<way, src, slots, job, run, connected, acts, spoiled>>)
  BY <1>0 DEF Copy
<1>. QED  BY <1>8, <1>9, <1>10

\* A part takes the file's place, whole where the file is promised.
LEMMA InPlaceStep ==
    ASSUME IInv, NEW w \in Worker, NEW f \in File, f = worker[w].item,
           NEW data \in Data, Unspoiled(f) => data = Whole(src[f]),
           worker[w].at \in {"copy", "removed"}, InPlace(w, data),
           UNCHANGED <<way, src, connected, acts, faults, spoiled>>
    PROVE  IInv'
<1>. DEFINE j == w[1]
            done == run[j].done \cup {f}
            u == [run[j] EXCEPT !.done = done]
            r == [job[j] EXCEPT !.next = NextAfter(@, done)]
            starts == [NoWorker EXCEPT !.at = "next"]
            ws == [worker EXCEPT ![w] = starts]
<1>1. Busy(w)  BY DEF Busy
<1>2. /\ j \in Job /\ run[j] \in RunRec /\ src[f] \in Version /\ src[f] \in Nat /\ src[f] >= 2
      /\ run[j].at = "copy"
  BY <1>1, AtWork
<1>3. job[j] \in JobRec  BY <1>2 DEF IInv, Types
<1>4. /\ target' = [target EXCEPT ![f] = data]
      /\ part' = [part EXCEPT ![f] = Absent]
      /\ worker' = Followed(ws, f, PartRenamed)
      /\ run' = [run EXCEPT ![j] = u] /\ job' = [job EXCEPT ![j] = r]
      /\ slots' = [slots EXCEPT !.free = @ + 1]
  BY DEF InPlace, Finished, Release
<1>5. done \in SUBSET Items
  <2>1. run[j].done \in SUBSET Items  BY <1>2 DEF RunRec
  <2>. QED  BY <2>1, Places
<1>. HIDE DEF done
<1>6. u \in RunRec /\ u.at = run[j].at /\ u.cursor = run[j].cursor  BY <1>2, <1>5 DEF RunRec
<1>7. NextAfter(job[j].next, done) \in Items \cup {Files + 2}
  <2>1. job[j].next \in Items \cup {Files + 2}  BY <1>3 DEF JobRec
  <2>2. job[j].next \in 1 .. Files + 2  BY <2>1, NextPlaces
  <2>3. NextAfter(job[j].next, done) \in job[j].next .. Files + 2
    BY <1>5, <2>2, NextAfterIs
  <2>. QED  BY <2>2, <2>3, Places DEF Items, Folder
<1>8. r \in JobRec /\ r.plan = job[j].plan /\ r.state = job[j].state
     /\ r.discarding = job[j].discarding
  BY <1>3, <1>7 DEF JobRec
<1>9. starts \in WorkRec /\ starts.at = "next"  BY Beginnings
<1>. HIDE DEF u, r, starts
<1>10. /\ ws \in [Worker -> WorkRec] /\ ws[w] = starts
       /\ \A x \in Worker \ {w} : ws[x] = worker[x]
  BY <1>9 DEF IInv, Types
<1>. HIDE DEF ws
<1>11. \A x \in Worker \ {w} : ~(worker[x].at = "copy" /\ worker[x].item = f)
  BY <1>1, AtWork
<1>12. /\ worker' \in [Worker -> WorkRec] /\ worker'[w].at = "next"
       /\ \A x \in Worker \ {w} : worker'[x] = worker[x]
  <2>. DEFINE next == Followed(ws, f, PartRenamed)
  <2>1. ws \in [Worker -> WorkRec] /\ w \in Worker  BY <1>10
  <2>2. \A x \in Worker \ {w} : ~(ws[x].at = "copy" /\ ws[x].item = f)  BY <1>10, <1>11
  <2>3. /\ next \in [Worker -> WorkRec]
        /\ \A x \in Worker : /\ next[x].at = ws[x].at
                             /\ ~(ws[x].at = "copy" /\ ws[x].item = f) => next[x] = ws[x]
    BY <2>1, FollowedIs
  <2>. HIDE DEF next
  <2>4. worker' = next  BY <1>4 DEF next
  <2>5. next[w].at = "next"  BY <1>9, <1>10, <2>1, <2>3
  <2>6. \A x \in Worker \ {w} : next[x] = worker[x]  BY <1>10, <2>2, <2>3
  <2>. QED  BY <2>3, <2>4, <2>5, <2>6
<1>13. /\ part' \in [File -> [data : Data, written : Version] \cup {Absent}]
       /\ part'[f] = Absent /\ \A g \in File \ {f} : part'[g] = part[g]
  BY <1>4 DEF IInv, Types
<1>14. /\ target' \in [File -> Data \cup {Absent}]
       /\ target'[f] = data /\ \A g \in File \ {f} : target'[g] = target[g]
  BY <1>4 DEF IInv, Types
<1>15. slots' \in SlotRec  BY <1>4, SlotTypes DEF IInv, Types
<1>16. Types'  BY <1>4, <1>6, <1>8, <1>12, <1>13, <1>14, <1>15 DEF IInv, Types
<1>17. /\ run'[j] = u /\ job'[j] = r
       /\ \A k \in Job \ {j} : run'[k] = run[k] /\ job'[k] = job[k]
  BY <1>2, <1>4 DEF IInv, Types
<1>18. /\ \A k \in Job : run[k].cursor \in Nat
       /\ \A n \in Nat : n >= n
  BY DEF IInv, Types, RunRec
<1>19. \A k \in Job : /\ job'[k].state = job[k].state /\ job'[k].plan = job[k].plan
                      /\ job'[k].discarding = job[k].discarding
                      /\ run'[k].at = run[k].at /\ run'[k].cursor = run[k].cursor
  BY <1>6, <1>8, <1>17
<1>20. \A k \in Job : run'[k].cursor >= run[k].cursor  BY <1>18, <1>19, Zenon
<1>21. PartAt(f)'  BY <1>13 DEF PartAt
<1>22. FileAt(f)'
  <2>1. Unspoiled(f)' => Unspoiled(f)  BY UnspoiledSame
  <2>2. src[f] \in 1 .. src[f]  BY <1>2
  <2>3. Unspoiled(f) => TargetAt(f)'  BY <1>14, <2>2 DEF TargetAt
  <2>. QED  BY <1>21, <2>1, <2>3 DEF FileAt
<1>23. ~Busy(w)' /\ WorkAt(w)'  BY <1>2, <1>12, <1>19 DEF WorkAt, Busy
<1>24. \A g \in File : ~(Busy(w) /\ g = worker[w].item) =>
           part'[g] = part[g] /\ target'[g] = target[g]
  BY <1>1, <1>13, <1>14
<1>. QED  BY <1>12, <1>16, <1>19, <1>20, <1>22, <1>23, <1>24, OneWorker

\* A worker that gives up leaves the files alone.
LEMMA GivesUpStep ==
    ASSUME IInv, NEW w \in Worker, Busy(w), GivesUp(w),
           UNCHANGED <<way, src, connected, acts, faults, spoiled>>
    PROVE  IInv'
<1>1. PICK f \in File : f = worker[w].item  BY AtWork
<1>2. /\ run' = [run EXCEPT ![w[1]] = Fail(@, "error")] /\ worker' = Quit(w)
      /\ slots' = [slots EXCEPT !.free = @ + 1] /\ UNCHANGED <<part, target, job>>
  BY DEF GivesUp, Release
<1>3. /\ worker' \in [Worker -> WorkRec] /\ worker'[w].at = "exit"
      /\ \A x \in Worker \ {w} : worker'[x] = worker[x]
  BY <1>2, Beginnings DEF Quit, IInv, Types
<1>4. slots' \in SlotRec  BY <1>2, SlotTypes DEF IInv, Types
<1>5. Unspoiled(f) => PartAt(f)'
  <2>1. Unspoiled(f) => PartAt(f)  BY DEF IInv, FileAt
  <2>. QED  BY <1>2, <2>1 DEF PartAt
<1>6. /\ part' \in [File -> [data : Data, written : Version] \cup {Absent}]
      /\ faults' \in 0 .. MaxFaults
  BY <1>2 DEF IInv, Types
<1>. QED  BY <1>1, <1>2, <1>3, <1>4, <1>5, <1>6, Quits

\* What a worker ends with.
EndData(w) ==
    LET f == worker[w].item IN
    IF part[f] = Absent THEN <<>>
    ELSE IF Upload THEN part[f].data
    ELSE [c \in 1 .. worker[w].pos |-> IF c <= Len(part[f].data) THEN part[f].data[c] ELSE 0]

\* It is all of the file, where that is promised.
LEMMA WholePart ==
    ASSUME IInv, NEW w \in Worker, NEW f \in File, f = worker[w].item,
           worker[w].at = "copy", worker[w].pos >= SizeOf(src[f]), part[f] # Absent
    PROVE  /\ EndData(w) \in Data
           /\ Unspoiled(f) => EndData(w) = Whole(src[f])
<1>. DEFINE pos == worker[w].pos
            v == src[f]
            cut == [c \in 1 .. pos |-> IF c <= Len(part[f].data) THEN part[f].data[c] ELSE 0]
<1>1. v \in Version /\ v \in Nat  BY AtWork DEF Busy
<1>2. pos \in 0 .. SizeOf(v) /\ (Unspoiled(f) => EndsAt(f, pos))  BY DEF IInv, WorkAt
<1>3. SizeOf(v) \in 1 .. Chunks /\ Chunks \in Nat  BY <1>1, Sizes, Constants
<1>4. pos = SizeOf(v) /\ pos \in Nat /\ pos \in 0 .. Chunks  BY <1>2, <1>3
<1>5. part[f].data \in Data  BY DEF IInv, Types
<1>6. cut \in Data  BY <1>4, <1>5, CutTypes
<1>7. EndData(w) = part[f].data \/ EndData(w) = cut  BY DEF EndData
<1>8. EndData(w) \in Data  BY <1>5, <1>6, <1>7
<1>9. ASSUME Unspoiled(f)  PROVE EndData(w) = Whole(v)
  <2>1. part[f] = Part(pos, v)  BY <1>2, <1>9 DEF EndsAt
  <2>2. part[f].data = Const(pos, v)  BY <2>1 DEF Part
  <2>3. Whole(v) = Const(pos, v)  BY <1>1, <1>4, ChunkTypes
  <2>4. cut = Const(pos, v)
    <3>1. PICK d : d = part[f].data  OBVIOUS
    <3>2. PICK p \in Nat : p = pos  BY <1>4
    <3>3. PICK u \in Nat : u = v  BY <1>1
    <3>4. d = Const(p, u)  BY <2>2, <3>1, <3>2, <3>3, Zenon
    <3>5. [c \in 1 .. p |-> IF c <= Len(d) THEN d[c] ELSE 0] = Const(p, u)
      BY <3>4, CutAtEnd, Zenon
    <3>. QED  BY <3>1, <3>2, <3>3, <3>5, Zenon
  <2>. HIDE DEF cut
  <2>. QED  BY <1>7, <2>2, <2>3, <2>4
<1>. QED  BY <1>8, <1>9

\* What a worker may do at the end of its source.
LEMMA EndsBy ==
    ASSUME IInv, NEW w \in Worker, NEW f \in File, f = worker[w].item, SourceEnds(w)
    PROVE  /\ worker[w].at = "copy" /\ worker[w].pos >= SizeOf(src[f]) /\ faults' = faults
           /\ \/ Broken(w, part, "cancelled") /\ UNCHANGED target
              \/ GivesUp(w) /\ UNCHANGED <<way, src, connected, acts, spoiled>>
              \/ /\ part[f] # Absent /\ InPlace(w, EndData(w))
                 /\ UNCHANGED <<way, src, connected, acts, spoiled>>
              \/ /\ ~Unspoiled(f)
                 /\ target' = [target EXCEPT ![f] = Absent]
                 /\ worker' = Followed([worker EXCEPT ![w].at = "removed"], f, TargetGone)
                 /\ UNCHANGED <<way, src, part, slots, job, run, connected, acts, spoiled>>
<1>1. worker[w].at = "copy" /\ worker[w].pos >= SizeOf(src[f]) /\ faults' = faults
  BY DEF SourceEnds
<1>2. Upload /\ ~(part[f] # Absent /\ (PosixRename \/ target[f] = Absent)) => ~Unspoiled(f)
  <2>. SUFFICES ASSUME Upload, Unspoiled(f), part[f] = Absent \/ ~PosixRename  PROVE FALSE
    OBVIOUS
  <2>1. part[f] = Absent  BY DEF Unspoiled
  <2>2. part[f] = Part(worker[w].pos, src[f])  BY <1>1 DEF IInv, WorkAt, EndsAt
  <2>3. worker[w].pos \in 0 .. Chunks /\ src[f] \in Version  BY DEF IInv, Types, WorkRec
  <2>. QED  BY <2>1, <2>2, <2>3, IsThere
<1>3. \/ Broken(w, part, "cancelled") /\ UNCHANGED target
      \/ GivesUp(w) /\ UNCHANGED <<way, src, connected, acts, spoiled>>
      \/ /\ part[f] # Absent /\ InPlace(w, EndData(w))
         /\ UNCHANGED <<way, src, connected, acts, spoiled>>
      \/ /\ Upload /\ ~(part[f] # Absent /\ (PosixRename \/ target[f] = Absent))
         /\ target' = [target EXCEPT ![f] = Absent]
         /\ worker' = Followed([worker EXCEPT ![w].at = "removed"], f, TargetGone)
         /\ UNCHANGED <<way, src, part, slots, job, run, connected, acts, spoiled>>
  BY Zenon DEF SourceEnds, EndData
<1>. QED  BY <1>1, <1>2, <1>3, Zenon

\* The source ends, and the part takes the file's place.
LEMMA SourceEndsStep ==
    ASSUME IInv, NEW w \in Worker, SourceEnds(w)
    PROVE  IInv'
<1>0. PICK f \in File : f = worker[w].item  BY AtWork DEF SourceEnds, Busy
<1>1. worker[w].at = "copy" /\ worker[w].pos >= SizeOf(src[f]) /\ faults' = faults /\ Busy(w)
  BY <1>0, EndsBy DEF Busy
<1>2. /\ w[1] \in Job /\ worker[w] \in WorkRec
      /\ run[w[1]].at = "copy" /\ f < run[w[1]].cursor
  BY <1>0, <1>1, AtWork
<1>7. CASE Broken(w, part, "cancelled") /\ UNCHANGED target
  <2>1. faults' \in 0 .. MaxFaults  BY <1>1 DEF IInv, Types
  <2>2. part \in [File -> [data : Data, written : Version] \cup {Absent}]
    BY DEF IInv, Types
  <2>. QED  BY <1>0, <1>1, <1>7, <2>1, <2>2, BrokenStep
<1>8. CASE GivesUp(w) /\ UNCHANGED <<way, src, connected, acts, spoiled>>
  BY <1>1, <1>8, GivesUpStep
<1>9. CASE /\ part[f] # Absent /\ InPlace(w, EndData(w))
           /\ UNCHANGED <<way, src, connected, acts, spoiled>>
  <2>1. EndData(w) \in Data /\ (Unspoiled(f) => EndData(w) = Whole(src[f]))
    BY <1>0, <1>1, <1>9, WholePart
  <2>. QED  BY <1>0, <1>1, <1>9, <2>1, InPlaceStep
<1>10. CASE /\ ~Unspoiled(f)
            /\ target' = [target EXCEPT ![f] = Absent]
            /\ worker' = Followed([worker EXCEPT ![w].at = "removed"], f, TargetGone)
            /\ UNCHANGED <<way, src, part, slots, job, run, connected, acts, spoiled>>
  <2>. DEFINE r == [worker[w] EXCEPT !.at = "removed"]
              ws == [worker EXCEPT ![w] = r]
  <2>1. r \in WorkRec /\ r.at = "removed" /\ r.item = f  BY <1>0, <1>2 DEF WorkRec
  <2>2. worker' = Followed(ws, f, TargetGone)  BY <1>10
  <2>. HIDE DEF r
  <2>3. /\ ws \in [Worker -> WorkRec] /\ ws[w] = r
        /\ \A x \in Worker \ {w} : ws[x] = worker[x]
    BY <2>1 DEF IInv, Types
  <2>. HIDE DEF ws
  <2>4. \A x \in Worker \ {w} : ~(worker[x].at = "copy" /\ worker[x].item = f)
    BY <1>0, <1>1, AtWork
  <2>5. /\ worker' \in [Worker -> WorkRec]
        /\ worker'[w].at = "removed" /\ worker'[w].item = f
        /\ \A x \in Worker \ {w} : worker'[x] = worker[x]
    BY <2>1, <2>2, <2>3, <2>4, FollowedIs
  <2>6. /\ target' \in [File -> Data \cup {Absent}]
        /\ target'[f] = Absent /\ \A g \in File \ {f} : target'[g] = target[g]
    BY <1>10 DEF IInv, Types
  <2>7. Types'  BY <1>1, <1>10, <2>5, <2>6 DEF IInv, Types
  <2>8. ~Unspoiled(f)'  BY <1>10, UnspoiledSame
  <2>9. FileAt(f)'  BY <2>8 DEF FileAt
  <2>11. WorkAt(w)'  BY <1>2, <1>10, <2>5, <2>8 DEF WorkAt, Busy
  <2>12. \A k \in Job : run'[k].at = run[k].at /\ run'[k].cursor >= run[k].cursor
    <3>1. \A k \in Job : run[k].cursor \in Nat  BY DEF IInv, Types, RunRec
    <3>2. \A n \in Nat : n >= n  OBVIOUS
    <3>. QED  BY <1>10, <3>1, <3>2, Zenon
  <2>13. \A g \in File : ~(Busy(w) /\ g = worker[w].item) =>
           part'[g] = part[g] /\ target'[g] = target[g]
    BY <1>0, <1>1, <1>10, <2>6
  <2>. QED  BY <1>0, <1>1, <1>10, <2>5, <2>7, <2>9, <2>11, <2>12, <2>13, OneWorker
<1>. QED  BY <1>0, <1>7, <1>8, <1>9, <1>10, EndsBy, Zenon

\* Where a file had to be removed first.
LEMMA RenameAfterRemoveStep ==
    ASSUME IInv, NEW w \in Worker, RenameAfterRemove(w)
    PROVE  IInv'
<1>0. PICK f \in File : RenameAfterRemove(w) /\ f = worker[w].item
  BY AtWork DEF RenameAfterRemove, Busy
<1>1. /\ worker[w].at = "removed" /\ Busy(w)
      /\ UNCHANGED <<way, src, connected, acts, faults, spoiled>>
  BY <1>0 DEF RenameAfterRemove, Busy
<1>2. CASE GivesUp(w)  BY <1>1, <1>2, GivesUpStep
<1>3. CASE part[f] # Absent /\ InPlace(w, part[f].data)
  <2>1. ~Unspoiled(f)  BY <1>0, <1>1 DEF IInv, WorkAt
  <2>2. part[f].data \in Data  BY <1>3 DEF IInv, Types
  <2>. QED  BY <1>0, <1>1, <1>3, <2>1, <2>2, InPlaceStep
<1>. QED  BY <1>0, <1>2, <1>3, Zenon DEF RenameAfterRemove

-----------------------------------------------------------------------------
(* What happens around the jobs.                                           *)

\* One more fault.
LEMMA FaultCounted ==
    ASSUME Types, faults < MaxFaults, faults' = faults + 1
    PROVE  faults' \in 0 .. MaxFaults
<1>1. faults \in 0 .. MaxFaults /\ MaxFaults \in Nat  BY Constants DEF Types
<1>. QED  BY <1>1

\* A source changes only where no job has it in its plan.
LEMMA SourceChangesStep ==
    ASSUME ~ChangePlanned, IInv, NEW f \in File, SourceChanges(f)
    PROVE  IInv'
<1>1. /\ src[f] + 1 \in Version /\ src' = [src EXCEPT ![f] = @ + 1]
      /\ \A j \in Job : job[j].state \notin {"running", "paused", "failed"}
      /\ UNCHANGED <<way, part, target, slots, job, run, worker, connected, acts, faults, spoiled>>
  BY DEF SourceChanges
<1>2. Types'  BY <1>1 DEF IInv, Types
<1>3. src'[f] = src[f] + 1 /\ \A g \in File \ {f} : src'[g] = src[g]
  BY <1>1 DEF IInv, Types
<1>4. ASSUME NEW g \in File PROVE (src[g] >= 2 /\ FileAt(g))'
  <2>1. src[g] \in Nat /\ src[g] >= 2 /\ FileAt(g)
    <3>1. src[g] \in Version  BY DEF IInv, Types
    <3>. QED  BY <3>1, Constants DEF IInv
  <2>2. src'[g] \in {src[g], src[g] + 1}  BY <1>3
  <2>3. src'[g] >= 2  BY <2>1, <2>2
  <2>4. 2 .. src[g] \subseteq 2 .. src'[g] /\ 1 .. src[g] \subseteq 1 .. src'[g]
    BY <2>1, <2>2
  <2>5. PartAt(g) => PartAt(g)'  BY <1>1, <2>4 DEF PartAt
  <2>6. TargetAt(g) => TargetAt(g)'  BY <1>1, <2>4 DEF TargetAt
  <2>7. Unspoiled(g)' => Unspoiled(g)  BY <1>1, UnspoiledSame
  <2>. QED  BY <2>1, <2>3, <2>5, <2>6, <2>7 DEF FileAt
<1>5. \A j \in Job : run[j].at = "idle"  BY <1>1 DEF IInv, RunAt
<1>6. \A j \in Job : RunAt(j)'  BY <1>1, <1>5 DEF IInv, RunAt
<1>7. \A w \in Worker : worker[w].at = "exit"  BY <1>5 DEF IInv, WorkAt, Worker
<1>8. \A w \in Worker : WorkAt(w)' /\ ~Busy(w)'  BY <1>1, <1>7 DEF WorkAt, Busy
<1>9. Apart' /\ OneRuns'  BY <1>1, <1>8 DEF IInv, Apart, OneRuns
<1>. QED  BY <1>2, <1>4, <1>6, <1>8, <1>9 DEF IInv

\* The connection is lost: no more is read or written.
LEMMA LoseStep ==
    ASSUME IInv, Lose
    PROVE  IInv'
<1>1. /\ run' = [j \in Job |-> [run[j] EXCEPT !.sftp = FALSE]] /\ connected' = FALSE
      /\ UNCHANGED <<way, src, part, target, slots, job, worker, acts, spoiled>>
  BY DEF Lose
<1>2. \A j \in Job : run[j] \in RunRec  BY DEF IInv, Types
<1>3. \A j \in Job : /\ run'[j] \in RunRec /\ run'[j].at = run[j].at
                     /\ run'[j].cursor = run[j].cursor
  BY <1>1, <1>2 DEF RunRec
<1>4. run' \in [Job -> RunRec]  BY <1>1, <1>3
<1>5. faults' \in 0 .. MaxFaults  BY FaultCounted DEF Lose, IInv
<1>6. Types'  BY <1>1, <1>4, <1>5 DEF IInv, Types
<1>7. \A j \in Job : RunAt(j)'  BY <1>1, <1>3 DEF IInv, RunAt
<1>8. OneRuns'  BY <1>1 DEF IInv, OneRuns
<1>9. ASSUME NEW w \in Worker, worker[w].at # "exit"
      PROVE  run'[w[1]].at = "copy" /\ run'[w[1]].cursor = run[w[1]].cursor
  BY <1>3, <1>9 DEF IInv, WorkAt, Worker
<1>. QED  BY <1>1, <1>6, <1>7, <1>8, <1>9, FilesAlone

\* The program ends: the files are as they were, and no job goes on.
LEMMA RestartStep ==
    ASSUME IInv, Restart
    PROVE  IInv'
<1>. DEFINE gone == GoneJob("removed")
<1>1. /\ job' = [j \in Job |-> IF job[j].state = "new" THEN NewJob ELSE gone]
      /\ run' = [j \in Job |-> NoRun]
      /\ worker' = [w \in Worker |-> NoWorker]
      /\ slots' = [free |-> slots.width, width |-> slots.width] /\ connected' = FALSE
      /\ UNCHANGED <<way, src, part, target, acts, spoiled>>
  BY DEF Restart
<1>2. gone \in JobRec /\ gone.state = "removed" /\ ~gone.discarding  BY GoneJobIs
<1>. HIDE DEF gone
<1>3. slots' \in SlotRec
  <2>1. slots.width \in 1 .. MaxWidth  BY DEF IInv, Types, SlotRec
  <2>2. slots.width \in Nat  BY <2>1, Constants
  <2>. QED  BY <1>1, <2>1, <2>2 DEF SlotRec
<1>4. faults' \in 0 .. MaxFaults  BY FaultCounted DEF Restart, IInv
<1>5. Types'  BY <1>1, <1>2, <1>3, <1>4, Beginnings DEF IInv, Types
<1>6. \A f \in File : (src[f] >= 2 /\ FileAt(f))'
  <2>1. \A f : Unspoiled(f)' => Unspoiled(f)  BY <1>1, UnspoiledSame
  <2>. QED  BY <1>1, <2>1 DEF IInv, FileAt, PartAt, TargetAt
<1>7. ASSUME NEW j \in Job
      PROVE  /\ run'[j].at = "idle" /\ ~job'[j].discarding
             /\ \/ job'[j].state = "new" /\ job'[j].plan = NoPlan
                \/ job'[j].state = "removed"
  BY <1>1, <1>2, Beginnings
<1>8. NoPlan' = NoPlan  BY DEF NoPlan
<1>9. \A j \in Job : RunAt(j)' /\ job'[j].state # "running"  BY <1>7, <1>8 DEF RunAt
<1>10. \A w \in Worker : worker'[w].at = "exit"  BY <1>1, Beginnings
<1>11. \A w \in Worker : WorkAt(w)' /\ ~Busy(w)'  BY <1>10 DEF WorkAt, Busy
<1>. QED  BY <1>5, <1>6, <1>9, <1>11 DEF IInv, OneRuns, Apart

\* Every step keeps the invariant.
LEMMA Goes ==
    ASSUME ~Overlap, ~ChangePlanned, IInv, [Next]_vars
    PROVE  IInv'
<1>1. CASE Person  BY <1>1, PersonStep
<1>2. ASSUME NEW j \in Job, Thread(j) PROVE IInv'
  BY <1>2, PlanStep, MakeFolderStep, RunEnds, DiscardStep DEF Thread
<1>3. ASSUME NEW w \in Worker, Step(w) PROVE IInv'
  BY <1>3, TakeStep, TurnStep, OpenStep, CopyStep, CopyFailsStep, SourceEndsStep,
     RenameAfterRemoveStep DEF Step
<1>4. ASSUME NEW f \in File, SourceChanges(f) PROVE IInv'
  BY <1>4, SourceChangesStep
<1>5. CASE Lose  BY <1>5, LoseStep
<1>6. CASE Restart  BY <1>6, RestartStep
<1>7. CASE UNCHANGED vars
  <2>1. UNCHANGED <<way, src, part, target, slots, job, run, worker, connected, acts, faults, spoiled>>
    BY <1>7 DEF vars
  <2>2. Types'  BY <2>1 DEF IInv, Types
  <2>3. (\A j \in Job : RunAt(j)') /\ OneRuns'  BY <2>1 DEF IInv, RunAt, OneRuns
  <2>. QED  BY <2>1, <2>2, <2>3, JobsOnly
<1>. QED  BY <1>1, <1>2, <1>3, <1>4, <1>5, <1>6, <1>7 DEF Next

-----------------------------------------------------------------------------
(* The theorems.                                                           *)

\* The assumptions on the jobs, and the invariant.
Orderly == ~Overlap /\ ~ChangePlanned /\ IInv

\* The types, where jobs of the same folder run one after the other and no
\* file changes under a plan.
THEOREM TransfersTypeCorrect == ~Overlap /\ ~ChangePlanned /\ Spec => []TypeOK
<1>1. ~Overlap /\ ~ChangePlanned /\ Init => Orderly  BY Begins DEF Orderly
<1>2. Orderly /\ [Next]_vars => Orderly'  BY Goes DEF Orderly
<1>3. Orderly => TypeOK
  BY DEF Orderly, IInv, Types, TypeOK, SlotRec, JobRec, RunRec, WorkRec
<1>. QED  BY <1>1, <1>2, <1>3, PTL DEF Spec

\* A step changes what no more than one name shows.
LEMMA OneName ==
    ASSUME IInv, Next
    PROVE  way' = way /\ \E f \in File : \A g \in File \ {f} : target'[g] = target[g]
<1>0. 2 \in File  BY Constants DEF File
<1>1. CASE Person \/ Lose \/ Restart \/ (\E f \in File : SourceChanges(f))
  <2>1. UNCHANGED <<way, target>>
    BY <1>1 DEF Person, Start, Resume, RunJob, Pause, Cancel, TakeOff, SetWidth, Reconnect,
       Lose, Restart, SourceChanges
  <2>. QED  BY <1>0, <2>1
<1>2. ASSUME NEW j \in Job, Thread(j) PROVE UNCHANGED <<way, target>>
  BY <1>2 DEF Thread, Plan, MakeFolder, Join, JobDone, Discard
<1>3. ASSUME NEW w \in Worker, Take(w) \/ Turn(w) \/ Open(w) \/ CopyFails(w)
      PROVE  UNCHANGED <<way, target>>
  BY <1>3 DEF Take, Turn, Open, CopyFails, Broken
<1>4. ASSUME NEW w \in Worker, Copy(w) \/ SourceEnds(w) \/ RenameAfterRemove(w)
      PROVE  way' = way /\ \E f \in File : \A g \in File \ {f} : target'[g] = target[g]
  <2>0. PICK f \in File : f = worker[w].item
    BY <1>4, AtWork DEF Copy, SourceEnds, RenameAfterRemove, Busy
  <2>1. way' = way  BY <1>4 DEF Copy, SourceEnds, RenameAfterRemove, Broken
  <2>2. target' = target \/ \E data : target' = [target EXCEPT ![f] = data]
    <3>1. CASE Copy(w)
      <4>1. PICK data : target' = TargetWith(w, data)  BY <3>1 DEF Copy
      <4>. QED  BY <2>0, <4>1 DEF TargetWith
    <3>2. CASE SourceEnds(w)
      <4>1. ASSUME NEW data, InPlace(w, data)
            PROVE  target' = [target EXCEPT ![f] = data]
        BY <2>0, <4>1 DEF InPlace
      <4>2. \/ UNCHANGED target \/ GivesUp(w) \/ (\E data : InPlace(w, data))
            \/ target' = [target EXCEPT ![f] = Absent]
        BY <2>0, <3>2, EndsBy
      <4>. QED  BY <4>1, <4>2 DEF GivesUp
    <3>3. CASE RenameAfterRemove(w)
      <4>1. \/ GivesUp(w) \/ InPlace(w, part[f].data)
        BY <2>0, <3>3 DEF RenameAfterRemove
      <4>2. GivesUp(w) => target' = target  BY DEF GivesUp
      <4>3. InPlace(w, part[f].data) => target' = [target EXCEPT ![f] = part[f].data]
        BY <2>0 DEF InPlace
      <4>. QED  BY <4>1, <4>2, <4>3
    <3>. QED  BY <1>4, <3>1, <3>2, <3>3
  <2>3. \A g \in File \ {f} : target'[g] = target[g]  BY <2>2 DEF IInv, Types
  <2>. QED  BY <2>1, <2>3
<1>. QED  BY <1>0, <1>1, <1>2, <1>3, <1>4 DEF Next, Step

\* What is promised no longer is kept in mind as it showed.
LEMMA Spoils ==
    ASSUME IInv, Next
    PROVE  \A g \in File :
               \/ spoiled'[g] = spoiled[g]
               \/ Unspoiled(g) /\ spoiled'[g] = target[g] /\ target' = target
<1>1. CASE Person \/ Lose \/ Restart \/ (\E f \in File : SourceChanges(f))
  BY <1>1 DEF Person, Start, Resume, RunJob, Pause, Cancel, TakeOff, SetWidth, Reconnect,
     Lose, Restart, SourceChanges
<1>2. ASSUME NEW j \in Job, Thread(j), ~Discard(j)  PROVE spoiled' = spoiled
  BY <1>2 DEF Thread, Plan, MakeFolder, Join, JobDone
<1>3. ASSUME NEW w \in Worker, Step(w)  PROVE spoiled' = spoiled
  BY <1>3 DEF Step, Take, Turn, Open, Copy, CopyFails, SourceEnds, RenameAfterRemove, Broken
<1>4. ASSUME NEW j \in Job, Discard(j), NEW g \in File
      PROVE  \/ spoiled'[g] = spoiled[g]
             \/ Unspoiled(g) /\ spoiled'[g] = target[g] /\ target' = target
  <2>. DEFINE f == job[j].next
  <2>1. target' = target  BY <1>4 DEF Discard
  <2>2. \/ spoiled' = spoiled
        \/ /\ f \in File /\ PosixRename /\ spoiled[f] = Absent
           /\ spoiled' = [spoiled EXCEPT ![f] = target[f]]
    BY <1>4 DEF Discard
  <2>3. spoiled \in [File -> Data \cup {Absent}]  BY DEF IInv, Types
  <2>. HIDE DEF f
  <2>. QED  BY <2>1, <2>2, <2>3 DEF Unspoiled
<1>. QED  BY <1>1, <1>2, <1>3, <1>4 DEF Next, Thread

\* What is not promised is not promised again.
LEMMA UnspoiledGoes ==
    ASSUME IInv, Next
    PROVE  \A g \in File : Unspoiled(g)' => Unspoiled(g)
<1>1. way' = way  BY OneName
<1>2. PosixRename' = PosixRename  BY <1>1 DEF PosixRename
<1>3. \A g \in File : spoiled'[g] = spoiled[g] \/ Unspoiled(g)  BY Spoils
<1>. QED  BY <1>2, <1>3 DEF Unspoiled

\* A step shows nothing new, or one file whole in one step.
LEMMA ShownStep ==
    ASSUME ~Overlap, ~ChangePlanned, IInv, [Next]_vars
    PROVE  [Replaced!Next]_Promised
<1>1. IInv'  BY Goes
<1>2. CASE UNCHANGED vars
  <2>1. UNCHANGED <<way, target, spoiled>>  BY <1>2 DEF vars
  <2>2. \A f : Unspoiled(f)' <=> Unspoiled(f)  BY <2>1, UnspoiledSame
  <2>. QED  BY <2>1, <2>2 DEF Promised
<1>3. CASE Next
  <2>1. PosixRename' = PosixRename
    <3>1. way' = way  BY <1>3, OneName
    <3>. QED  BY <3>1 DEF PosixRename
  <2>2. PICK f \in File : \A g \in File \ {f} : target'[g] = target[g]
    BY <1>3, OneName
  <2>3. \A g \in File :
            \/ spoiled'[g] = spoiled[g]
            \/ Unspoiled(g) /\ spoiled'[g] = target[g] /\ target'[g] = target[g]
    BY <1>3, Spoils
  <2>4. \A g \in File : Promised[g] = IF Unspoiled(g) THEN target[g] ELSE spoiled[g]
    BY DEF Promised
  <2>5. \A g \in File : Promised'[g] = IF Unspoiled(g)' THEN target'[g] ELSE spoiled'[g]
    BY DEF Promised
  <2>6. ASSUME NEW g \in File
        PROVE  Promised'[g] = Promised[g] \/ (Unspoiled(g) /\ Unspoiled(g)' /\ Promised'[g] = target'[g])
    <3>1. CASE Unspoiled(g) /\ Unspoiled(g)'  BY <2>5, <3>1
    <3>2. CASE Unspoiled(g) /\ ~Unspoiled(g)'
      <4>1. spoiled[g] = Absent /\ spoiled'[g] # Absent
        BY <2>1, <3>2 DEF Unspoiled
      <4>2. spoiled'[g] = target[g]  BY <2>3, <4>1
      <4>. QED  BY <2>4, <2>5, <3>2, <4>2
    <3>3. CASE ~Unspoiled(g)
      <4>1. ~Unspoiled(g)'  BY <1>3, <3>3, UnspoiledGoes
      <4>2. spoiled'[g] = spoiled[g]  BY <2>3, <3>3
      <4>. QED  BY <2>4, <2>5, <3>3, <4>1, <4>2
    <3>. QED  BY <3>1, <3>2, <3>3
  <2>7. \A g \in File \ {f} : Promised'[g] = Promised[g]
    BY <2>2, <2>4, <2>6
  <2>8. /\ Promised = [g \in File |-> Promised[g]]
        /\ Promised' = [g \in File |-> Promised'[g]]
    BY DEF Promised
  <2>9. CASE Promised'[f] = Promised[f]
    <3>1. \A g \in File : Promised'[g] = Promised[g]  BY <2>7, <2>9
    <3>2. Promised' = Promised  BY <2>8, <3>1
    <3>. QED  BY <3>2
  <2>10. CASE Unspoiled(f) /\ Unspoiled(f)' /\ Promised'[f] = target'[f]
    <3>2. PICK v \in 1 .. src'[f] : target'[f] = Whole(v)
      BY <1>1, <2>10 DEF IInv, FileAt, TargetAt
    <3>3. v \in Version
      <4>1. src'[f] \in Version /\ MaxChanges \in Nat  BY <1>1, Constants DEF IInv, Types
      <4>. QED  BY <3>2, <4>1 DEF Version
    <3>4. Promised' = [Promised EXCEPT ![f] = Whole(v)]
      BY <2>7, <2>8, <2>10, <3>2
    <3>. QED  BY <3>3, <3>4 DEF Replaced!Next, Replaced!Replace
  <2>. QED  BY <2>6, <2>9, <2>10
<1>. QED  BY <1>2, <1>3

\* A partial file never looks like the real one (transfer.rs): the files'
\* names implement WholeFiles, a new file appears whole and in one step,
\* whatever was paused, cancelled, lost, ended and gone on with - where jobs of
\* the same folder run one after the other and no file changes under a plan.
\* Promised leaves out what is on a server that can't rename over a file, and
\* a file whose part a late discard took from under its upload.
THEOREM PartialNeverLooksRealEver ==
    ~Overlap /\ ~ChangePlanned /\ Spec => PartialNeverLooksReal
<1>1. ~Overlap /\ ~ChangePlanned /\ Init => Orderly  BY Begins DEF Orderly
<1>2. Orderly /\ [Next]_vars => Orderly'  BY Goes DEF Orderly
<1>3. Init => Replaced!Init
  <2>. SUFFICES ASSUME Init  PROVE Replaced!Init  OBVIOUS
  <2>1. 1 \in Version  BY Constants DEF Version
  <2>2. \A f \in File : target[f] = Whole(1) /\ spoiled[f] = Absent  BY DEF Init
  <2>. QED  BY <2>1, <2>2 DEF Replaced!Init, Promised
<1>4. Orderly /\ [Next]_vars => [Replaced!Next]_Promised  BY ShownStep DEF Orderly
<1>. QED  BY <1>1, <1>2, <1>3, <1>4, PTL DEF Spec, PartialNeverLooksReal, Replaced!Spec

-----------------------------------------------------------------------------
(* Nothing is skipped.                                                     *)

\* The file has come, in the planned version or a later one, if it is promised.
Arrived(j, f) ==
    Unspoiled(f) => \E v \in job[j].plan[f] .. MaxChanges + 2 : target[f] = Whole(v)

KeptStates == {"new", "running", "paused", "failed", "done"}

\* Every file before the place where a job goes on has arrived.
Placed(j) == job[j].state \in KeptStates => \A f \in File :
    f < job[j].next \/ job[j].state = "done" => Arrived(j, f)

\* No plan is newer than the source.
Dated(j) == \A f \in File : job[j].plan[f] <= src[f]

\* So has what the workers are done with, or all of it when they end well.
Copied(j) ==
    /\ \A f \in File : f \in run[j].done => Arrived(j, f)
    /\ run[j].at = "ended" /\ run[j].failed = "none" => \A f \in File : Arrived(j, f)

\* A file taken is done, or a worker has it, or the run has failed; and a worker
\* doesn't leave before the last file was taken unless it has.
TakenOne(j) == run[j].at = "copy" =>
    /\ run[j].cursor >= 1
    /\ \A f \in File : f < run[j].cursor =>
          \/ f \in run[j].done \/ f < job[j].next \/ run[j].failed # "none"
          \/ \E w \in Worker : w[1] = j /\ Busy(w) /\ worker[w].item = f
    /\ worker[<<j, 1>>].at = "exit" =>
          run[j].failed # "none" \/ run[j].cursor > Files + 1

\* A run begins where the job goes on.
Begun(j) ==
    /\ run[j].at \in {"idle", "plan"} => run[j].done = {}
    /\ run[j].at \in {"idle", "plan", "folders"} => run[j].failed = "none"
    /\ run[j].at = "folders" => run[j].cursor = job[j].next /\ run[j].done = {}

Going(j) == Placed(j) /\ Dated(j) /\ Copied(j) /\ TakenOne(j) /\ Begun(j)
GoInv == \A j \in Job : Going(j)

\* A name that is promised shows what it did, or the version of today.
LEMMA ShownVersion ==
    ASSUME IInv, Next
    PROVE  \A f \in File : Unspoiled(f) => target'[f] \in {target[f], Whole(src[f])}
<1>1. CASE Person \/ Lose \/ Restart \/ (\E f \in File : SourceChanges(f))
  BY <1>1 DEF Person, Start, Resume, RunJob, Pause, Cancel, TakeOff, SetWidth, Reconnect,
     Lose, Restart, SourceChanges
<1>2. ASSUME NEW j \in Job, Thread(j) PROVE target' = target
  BY <1>2 DEF Thread, Plan, MakeFolder, Join, JobDone, Discard
<1>3. ASSUME NEW w \in Worker, Take(w) \/ Turn(w) \/ Open(w) \/ CopyFails(w)
      PROVE  target' = target
  BY <1>3 DEF Take, Turn, Open, CopyFails, Broken
<1>4. ASSUME NEW w \in Worker, Copy(w)  PROVE target' = target
  <2>1. worker[w].on # "target"  BY <1>4 DEF IInv, WorkAt, Copy
  <2>. QED  BY <1>4, <2>1 DEF Copy, TargetWith
<1>5. ASSUME NEW f \in File, NEW data, target' = [target EXCEPT ![f] = data],
             Unspoiled(f) => data = Whole(src[f])
      PROVE  \A g \in File : Unspoiled(g) => target'[g] \in {target[g], Whole(src[g])}
  BY <1>5 DEF IInv, Types
<1>6. ASSUME NEW w \in Worker, SourceEnds(w)
      PROVE  \A g \in File : Unspoiled(g) => target'[g] \in {target[g], Whole(src[g])}
  <2>0. PICK f \in File : f = worker[w].item  BY <1>6, AtWork DEF SourceEnds, Busy
  <2>1. CASE UNCHANGED target \/ GivesUp(w)  BY <2>1 DEF GivesUp
  <2>2. CASE part[f] # Absent /\ InPlace(w, EndData(w))
    <3>1. Unspoiled(f) => EndData(w) = Whole(src[f])  BY <1>6, <2>0, <2>2, EndsBy, WholePart
    <3>2. target' = [target EXCEPT ![f] = EndData(w)]  BY <2>0, <2>2 DEF InPlace
    <3>. QED  BY <1>5, <3>1, <3>2
  <2>3. CASE ~Unspoiled(f) /\ target' = [target EXCEPT ![f] = Absent]
    BY <1>5, <2>3
  <2>. QED  BY <1>6, <2>0, <2>1, <2>2, <2>3, EndsBy
<1>7. ASSUME NEW w \in Worker, RenameAfterRemove(w)
      PROVE  \A g \in File : Unspoiled(g) => target'[g] \in {target[g], Whole(src[g])}
  <2>0. PICK f \in File : RenameAfterRemove(w) /\ f = worker[w].item
    BY <1>7, AtWork DEF RenameAfterRemove, Busy
  <2>1. ~Unspoiled(f)  BY <2>0 DEF IInv, WorkAt, RenameAfterRemove
  <2>2. GivesUp(w) \/ InPlace(w, part[f].data)
    BY <2>0, Zenon DEF RenameAfterRemove
  <2>3. target' = target \/ target' = [target EXCEPT ![f] = part[f].data]
    BY <2>0, <2>2 DEF GivesUp, InPlace
  <2>. QED  BY <1>5, <2>1, <2>3
<1>. QED  BY <1>1, <1>2, <1>3, <1>4, <1>6, <1>7 DEF Next, Step

\* What has arrived stays, for a job that keeps its plan.
LEMMA ArrivedStays ==
    ASSUME IInv, Next, NEW j \in Job, NEW f \in File, Arrived(j, f),
           job'[j].plan[f] = job[j].plan[f], job[j].plan[f] <= src[f]
    PROVE  Arrived(j, f)'
<1>1. Unspoiled(f)' => Unspoiled(f)  BY UnspoiledGoes
<1>2. CASE ~Unspoiled(f)'  BY <1>2 DEF Arrived
<1>3. CASE Unspoiled(f)
  <2>1. target'[f] \in {target[f], Whole(src[f])}  BY <1>3, ShownVersion
  <2>2. PICK v \in job[j].plan[f] .. MaxChanges + 2 : target[f] = Whole(v)
    BY <1>3 DEF Arrived
  <2>3. src[f] \in job[j].plan[f] .. MaxChanges + 2
    <3>1. src[f] \in Version  BY DEF IInv, Types
    <3>2. job[j].plan \in [File -> Version \cup {0}]  BY DEF IInv, Types, JobRec
    <3>3. job[j].plan[f] \in Nat
      <4>1. job[j].plan[f] \in Version \cup {0}  BY <3>2
      <4>2. Version \cup {0} \subseteq Nat  BY Constants
      <4>. QED  BY <4>1, <4>2, Zenon
    <3>. QED  BY <3>1, <3>3, Constants DEF Version
  <2>. QED  BY <2>1, <2>2, <2>3 DEF Arrived
<1>. QED  BY <1>1, <1>2, <1>3

\* A source grows only newer.
LEMMA SourceGrows ==
    ASSUME IInv, Next
    PROVE  \A f \in File : src'[f] >= src[f]
<1>1. src \in [File -> Version]  BY DEF IInv, Types
<1>2. \A f \in File : src[f] \in Nat  BY <1>1, Constants
<1>3. CASE UNCHANGED src  BY <1>2, <1>3
<1>4. ASSUME NEW f \in File, SourceChanges(f)  PROVE \A g \in File : src'[g] >= src[g]
  <2>1. src' = [src EXCEPT ![f] = src[f] + 1]  BY <1>4 DEF SourceChanges
  <2>2. src'[f] = src[f] + 1 /\ \A g \in File \ {f} : src'[g] = src[g]  BY <1>1, <2>1
  <2>3. \A n \in Nat : n + 1 >= n /\ n >= n  OBVIOUS
  <2>4. ASSUME NEW g \in File  PROVE src'[g] >= src[g]
    BY <1>2, <2>2, <2>3
  <2>. QED  BY <2>4
<1>5. ASSUME Next, \A f \in File : ~SourceChanges(f)  PROVE UNCHANGED src
  <2>1. CASE Person \/ Lose \/ Restart
    BY <2>1 DEF Person, Start, Resume, RunJob, Pause, Cancel, TakeOff, SetWidth, Reconnect,
       Lose, Restart
  <2>2. ASSUME NEW j \in Job, Thread(j) PROVE UNCHANGED src
    BY <2>2 DEF Thread, Plan, MakeFolder, Join, JobDone, Discard
  <2>3. ASSUME NEW w \in Worker, Step(w) PROVE UNCHANGED src
    BY <2>3 DEF Step, Take, Turn, Open, Copy, CopyFails, SourceEnds, RenameAfterRemove, Broken
  <2>. QED  BY <1>5, <2>1, <2>2, <2>3 DEF Next
<1>. QED  BY <1>3, <1>4, <1>5

\* What is told of a job's workers is not lost by a step of another.
Same(j) == \A w \in Worker : w[1] = j =>
    /\ Busy(w) => Busy(w)' /\ worker'[w].item = worker[w].item
    /\ worker'[w].at = "exit" => worker[w].at = "exit"

\* The plan and the place of a job are kept.
Keeps(j) == /\ job'[j].plan = job[j].plan /\ job'[j].next = job[j].next
            /\ job'[j].state \in KeptStates => job'[j].state = job[j].state

\* What has arrived stays, for every file of a job.
LEMMA AllStay ==
    ASSUME IInv, IInv', Next, NEW j \in Job, Dated(j), job'[j].plan = job[j].plan
    PROVE  Dated(j)' /\ \A f \in File : Arrived(j, f) => Arrived(j, f)'
<1>1. \A f \in File : job[j].plan[f] <= src[f]  BY DEF Dated
<1>2. ASSUME NEW f \in File, Arrived(j, f)  PROVE Arrived(j, f)'
  BY <1>1, <1>2, ArrivedStays
<1>3. ASSUME NEW f \in File  PROVE job'[j].plan[f] <= src'[f]
  <2>1. job[j].plan \in [File -> Version \cup {0}]  BY DEF IInv, Types, JobRec
  <2>2. src[f] \in Version /\ src'[f] \in Version /\ job[j].plan[f] \in Version \cup {0}
    BY <2>1 DEF IInv, Types
  <2>3. Version \cup {0} \subseteq Nat  BY Constants
  <2>4. src[f] \in Nat /\ src'[f] \in Nat /\ job[j].plan[f] \in Nat
    BY <2>2, <2>3, Zenon
  <2>5. src'[f] >= src[f]  BY SourceGrows
  <2>. QED  BY <1>1, <2>4, <2>5
<1>. QED  BY <1>2, <1>3 DEF Dated

\* A step that leaves the run of a job and its workers alone.
LEMMA Alike ==
    ASSUME IInv, IInv', Next, NEW j \in Job, Going(j), Keeps(j), Same(j),
           run'[j].at = run[j].at, run'[j].cursor = run[j].cursor,
           run'[j].done = run[j].done, run'[j].failed = run[j].failed
    PROVE  Going(j)'
<1>1. Dated(j)' /\ \A f \in File : Arrived(j, f) => Arrived(j, f)'
  BY AllStay DEF Keeps, Going
<1>2. Placed(j)'  BY <1>1 DEF Placed, Keeps, Going
<1>3. Copied(j)'  BY <1>1 DEF Copied, Going
<1>4. <<j, 1>> \in Worker /\ <<j, 1>>[1] = j  BY Constants DEF Worker
<1>5. TakenOne(j)'  BY <1>4 DEF TakenOne, Keeps, Same, Going
<1>6. Begun(j)'  BY DEF Begun, Keeps, Going
<1>. QED  BY <1>1, <1>2, <1>3, <1>5, <1>6 DEF Going

\* A step by which the run fails.
LEMMA Fails ==
    ASSUME IInv, IInv', Next, NEW j \in Job, Going(j), Keeps(j),
           run[j].at = "copy", run'[j].at = "copy", run'[j].cursor >= run[j].cursor,
           run'[j].done = run[j].done, run'[j].failed # "none"
    PROVE  Going(j)'
<1>1. Dated(j)' /\ \A f \in File : Arrived(j, f) => Arrived(j, f)'
  BY AllStay DEF Keeps, Going
<1>2. Placed(j)'  BY <1>1 DEF Placed, Keeps, Going
<1>3. Copied(j)'  BY <1>1 DEF Copied, Going
<1>4. run[j].cursor \in Nat /\ run'[j].cursor \in Nat  BY DEF IInv, Types, RunRec
<1>5. TakenOne(j)'  BY <1>4 DEF TakenOne, Going
<1>6. Begun(j)'  BY DEF Begun
<1>. QED  BY <1>1, <1>2, <1>3, <1>5, <1>6 DEF Going

\* A step of one job leaves the others alone.
LEMMA Others ==
    ASSUME IInv, IInv', Next, GoInv, NEW j \in Job,
           \A k \in Job \ {j} : job'[k] = job[k] /\ run'[k] = run[k],
           \A w \in Worker : w[1] # j =>
               worker'[w].at = worker[w].at /\ worker'[w].item = worker[w].item,
           Going(j)'
    PROVE  GoInv'
<1>1. ASSUME NEW k \in Job \ {j}  PROVE Going(k)'
  <2>1. Same(k)  BY DEF Same, Busy
  <2>2. Keeps(k)  BY DEF Keeps
  <2>. QED  BY <2>1, <2>2, Alike DEF GoInv
<1>. QED  BY <1>1 DEF GoInv

\* A job nobody can go on with.
LEMMA GoneGoes ==
    ASSUME IInv, IInv', NEW j \in Job, NEW left \in {"cancelled", "removed"},
           job'[j] = GoneJob(left), run'[j].at = "idle", run'[j].done = {},
           run'[j].failed = "none"
    PROVE  Going(j)'
<1>1. job'[j].state \notin KeptStates /\ job'[j].plan = NoPlan
  BY GoneJobIs DEF KeptStates
<1>2. ASSUME NEW f \in File  PROVE NoPlan[f] <= src'[f]
  <2>1. src'[f] \in Nat
    <3>1. src'[f] \in Version  BY DEF IInv, Types
    <3>. QED  BY <3>1, Constants
  <2>2. NoPlan[f] = 0  BY DEF NoPlan
  <2>. QED  BY <2>1, <2>2
<1>3. Placed(j)'  BY <1>1 DEF Placed
<1>4. Dated(j)'  BY <1>1, <1>2 DEF Dated
<1>5. Copied(j)' /\ TakenOne(j)' /\ Begun(j)'  BY DEF Copied, TakenOne, Begun
<1>. QED  BY <1>3, <1>4, <1>5 DEF Going

\* A job that stood still is given up.
LEMMA GivenUp ==
    ASSUME IInv, IInv', Next, GoInv, NEW j \in Job, NEW left \in {"cancelled", "removed"},
           run[j].at = "idle", job' = [job EXCEPT ![j] = GoneJob(left)], run' = run,
           \A w \in Worker : worker'[w].at = worker[w].at /\ worker'[w].item = worker[w].item
    PROVE  GoInv'
<1>1. /\ job'[j] = GoneJob(left)
      /\ \A k \in Job \ {j} : job'[k] = job[k] /\ run'[k] = run[k]
  BY DEF IInv, Types
<1>2. run[j].done = {} /\ run[j].failed = "none"  BY DEF GoInv, Going, Begun
<1>3. Going(j)'  BY <1>1, <1>2, GoneGoes
<1>. QED  BY <1>1, <1>3, Others

\* What the person does.
LEMMA PersonGoes ==
    ASSUME IInv, IInv', Next, GoInv, Person
    PROVE  GoInv'
<1>1. ASSUME NEW j \in Job, RunJob(j), job[j].state \in {"new", "paused", "failed"}
      PROVE  GoInv'
  <2>. DEFINE r == [job[j] EXCEPT !.state = "running", !.cancel = FALSE, !.pause = FALSE]
              u == [NoRun EXCEPT !.at = "plan", !.sftp = TRUE]
  <2>1. job[j] \in JobRec  BY DEF IInv, Types
  <2>2. r.state = "running" /\ r.plan = job[j].plan /\ r.next = job[j].next
    BY <2>1 DEF JobRec
  <2>3. u.at = "plan" /\ u.done = {} /\ u.failed = "none"  BY DEF NoRun
  <2>4. job' = [job EXCEPT ![j] = r] /\ run' = [run EXCEPT ![j] = u] /\ worker' = worker
    BY <1>1 DEF RunJob
  <2>. HIDE DEF r, u
  <2>5. /\ job'[j] = r /\ run'[j] = u
        /\ \A k \in Job \ {j} : job'[k] = job[k] /\ run'[k] = run[k]
    BY <2>4 DEF IInv, Types
  <2>6. Going(j)  BY DEF GoInv
  <2>7. Dated(j)' /\ \A f \in File : Arrived(j, f) => Arrived(j, f)'
    BY <2>2, <2>5, <2>6, AllStay DEF Going
  <2>8. Placed(j)'  BY <1>1, <2>2, <2>5, <2>6, <2>7 DEF Placed, Going, KeptStates
  <2>9. Copied(j)' /\ TakenOne(j)' /\ Begun(j)'
    BY <2>3, <2>5 DEF Copied, TakenOne, Begun
  <2>10. Going(j)'  BY <2>7, <2>8, <2>9 DEF Going
  <2>. QED  BY <2>4, <2>5, <2>10, Others
<1>2. ASSUME NEW j \in Job, NEW r, job' = [job EXCEPT ![j] = r],
             r.plan = job[j].plan, r.next = job[j].next,
             r.state \in KeptStates => r.state = job[j].state, UNCHANGED <<run, worker>>
      PROVE  GoInv'
  <2>1. /\ job'[j] = r
        /\ \A k \in Job \ {j} : job'[k] = job[k]
    BY <1>2 DEF IInv, Types
  <2>2. \A k \in Job : Keeps(k) /\ Same(k)  BY <1>2, <2>1 DEF Keeps, Same, Busy
  <2>. QED  BY <1>2, <2>2, Alike DEF GoInv
<1>3. ASSUME NEW j \in Job, Start(j) \/ Resume(j)  PROVE GoInv'
  BY <1>1, <1>3 DEF Start, Resume
<1>0. ASSUME NEW j \in Job, TakeOff(j)  PROVE GoInv'
  <2>1. job[j].state = "failed" /\ UNCHANGED <<run, worker>>
        /\ job' = [job EXCEPT ![j] = GoneJob("removed")]
    BY <1>0 DEF TakeOff
  <2>2. run[j].at = "idle"
    <3>1. run[j].at # "idle" => job[j].state = "running"  BY DEF IInv, RunAt
    <3>. QED  BY <2>1, <3>1
  <2>. QED  BY <2>1, <2>2, GivenUp
<1>4. ASSUME NEW j \in Job, Pause(j) \/ Cancel(j)  PROVE GoInv'
  <2>. DEFINE P(r) == /\ r.plan = job[j].plan /\ r.next = job[j].next
                      /\ r.state \in KeptStates => r.state = job[j].state
  <2>1. job[j] \in JobRec  BY DEF IInv, Types
  <2>2. /\ P([job[j] EXCEPT !.pause = TRUE]) /\ P([job[j] EXCEPT !.cancel = TRUE])
        /\ P([job[j] EXCEPT !.state = "cancelled", !.discarding = TRUE])
    BY <2>1 DEF JobRec, KeptStates
  <2>3. /\ UNCHANGED <<run, worker>>
        /\ \/ job' = [job EXCEPT ![j] = [job[j] EXCEPT !.pause = TRUE]]
           \/ job' = [job EXCEPT ![j] = [job[j] EXCEPT !.cancel = TRUE]]
           \/ job' = [job EXCEPT ![j] =
                        [job[j] EXCEPT !.state = "cancelled", !.discarding = TRUE]]
    BY <1>4 DEF Pause, Cancel
  <2>4. \E r : P(r) /\ job' = [job EXCEPT ![j] = r]
    <3>. HIDE DEF P
    <3>. QED  BY <2>2, <2>3, Zenon
  <2>. QED  BY <1>2, <2>3, <2>4
<1>5. ASSUME UNCHANGED <<job, run, worker>>  PROVE GoInv'
  <2>1. \A k \in Job : Keeps(k) /\ Same(k)  BY <1>5 DEF Keeps, Same, Busy
  <2>. QED  BY <1>5, <2>1, Alike DEF GoInv
<1>6. ASSUME (\E n \in 1 .. MaxWidth : SetWidth(n)) \/ Reconnect  PROVE GoInv'
  BY <1>5, <1>6 DEF SetWidth, Reconnect
<1>. QED  BY <1>0, <1>3, <1>4, <1>6 DEF Person

\* What goes on around the jobs.
LEMMA AroundGoes ==
    ASSUME IInv, IInv', Next, GoInv,
           Lose \/ Restart \/ (\E f \in File : SourceChanges(f))
    PROVE  GoInv'
<1>1. CASE \E f \in File : SourceChanges(f)
  <2>1. UNCHANGED <<job, run, worker>>  BY <1>1 DEF SourceChanges
  <2>2. \A k \in Job : Keeps(k) /\ Same(k)  BY <2>1 DEF Keeps, Same, Busy
  <2>. QED  BY <2>1, <2>2, Alike DEF GoInv
<1>2. CASE Lose
  <2>1. /\ UNCHANGED <<job, worker>>
        /\ run' = [j \in Job |-> [run[j] EXCEPT !.sftp = FALSE]]
    BY <1>2 DEF Lose
  <2>2. ASSUME NEW k \in Job
        PROVE  /\ run'[k].at = run[k].at /\ run'[k].cursor = run[k].cursor
               /\ run'[k].done = run[k].done /\ run'[k].failed = run[k].failed
    <3>1. run[k] \in RunRec  BY DEF IInv, Types
    <3>. QED  BY <2>1, <3>1 DEF RunRec
  <2>3. \A k \in Job : Keeps(k) /\ Same(k)  BY <2>1 DEF Keeps, Same, Busy
  <2>. QED  BY <2>2, <2>3, Alike DEF GoInv
<1>3. CASE Restart
  <2>1. ASSUME NEW k \in Job  PROVE Going(k)'
    <3>1. /\ run'[k] = NoRun
          /\ job'[k] \in {NewJob, GoneJob("removed")}
      BY <1>3 DEF Restart
    <3>2. /\ job'[k].plan = NoPlan /\ job'[k].next = Folder
          /\ job'[k].state \in {"new", "removed"}
      BY <3>1, GoneJobIs DEF NewJob
    <3>3. run'[k].at = "idle" /\ run'[k].done = {} /\ run'[k].failed = "none"
      BY <3>1 DEF NoRun
    <3>4. ASSUME NEW f \in File  PROVE ~(f < Folder) /\ NoPlan[f] = 0 /\ src'[f] >= 0
      <4>1. src'[f] \in Nat
        <5>1. src'[f] \in Version  BY DEF IInv, Types
        <5>. QED  BY <5>1, Constants
      <4>2. f \in 2 .. Files + 1 /\ Files \in Nat  BY Constants DEF File
      <4>. QED  BY <4>1, <4>2 DEF Folder, NoPlan
    <3>5. Placed(k)'  BY <3>2, <3>4 DEF Placed, KeptStates
    <3>6. Dated(k)'  BY <3>2, <3>4 DEF Dated
    <3>7. Copied(k)' /\ TakenOne(k)' /\ Begun(k)'  BY <3>3 DEF Copied, TakenOne, Begun
    <3>. QED  BY <3>5, <3>6, <3>7 DEF Going
  <2>. QED  BY <2>1 DEF GoInv
<1>. QED  BY <1>1, <1>2, <1>3

\* A run that ends early.
LEMMA EndGoes ==
    ASSUME IInv, IInv', Next, GoInv, NEW j \in Job, NEW why \in {"cancelled", "error"},
           End(j, why), run[j].at \in {"plan", "folders"}, UNCHANGED <<job, worker>>
    PROVE  GoInv'
<1>. DEFINE u == [Fail(run[j], why) EXCEPT !.at = "ended"]
<1>1. run[j] \in RunRec  BY DEF IInv, Types
<1>2. Fail(run[j], why) \in RunRec /\ Fail(run[j], why).done = run[j].done
      /\ Fail(run[j], why).failed # "none"
  <2>1. run[j].failed = "none"  BY DEF GoInv, Going, Begun
  <2>. QED  BY <1>1, FailIs
<1>3. u.at = "ended" /\ u.done = run[j].done /\ u.failed # "none"  BY <1>2 DEF RunRec
<1>4. run' = [run EXCEPT ![j] = u]  BY DEF End
<1>. HIDE DEF u
<1>5. run'[j] = u /\ \A k \in Job \ {j} : run'[k] = run[k]  BY <1>4 DEF IInv, Types
<1>6. Going(j)  BY DEF GoInv
<1>7. Dated(j)' /\ \A f \in File : Arrived(j, f) => Arrived(j, f)'
  BY <1>6, AllStay DEF Going
<1>8. Placed(j)' /\ Copied(j)'  BY <1>3, <1>5, <1>6, <1>7 DEF Placed, Copied, Going
<1>9. TakenOne(j)' /\ Begun(j)'  BY <1>3, <1>5 DEF TakenOne, Begun
<1>10. Going(j)'  BY <1>7, <1>8, <1>9 DEF Going
<1>. QED  BY <1>5, <1>10, Others

\* A run plans, or takes up the plan there is.
LEMMA PlanGoes ==
    ASSUME IInv, IInv', Next, GoInv, NEW j \in Job, Plan(j)
    PROVE  GoInv'
<1>1. run[j].at = "plan" /\ job[j].state = "running" /\ worker' = worker
  BY DEF Plan, IInv, RunAt
<1>2. run[j] \in RunRec /\ job[j] \in JobRec  BY DEF IInv, Types
<1>3. Going(j) /\ run[j].done = {} /\ run[j].failed = "none"
  BY <1>1 DEF GoInv, Going, Begun
<1>4. CASE /\ job[j].plan # NoPlan /\ UNCHANGED job
           /\ run' = [run EXCEPT ![j].at = "folders", ![j].cursor = job[j].next]
  <2>. DEFINE u == [run[j] EXCEPT !.at = "folders", !.cursor = job[j].next]
  <2>1. u.at = "folders" /\ u.cursor = job[j].next /\ u.done = {} /\ u.failed = "none"
    BY <1>2, <1>3 DEF RunRec
  <2>2. run' = [run EXCEPT ![j] = u]  BY <1>4
  <2>. HIDE DEF u
  <2>3. run'[j] = u /\ \A k \in Job \ {j} : run'[k] = run[k]  BY <2>2 DEF IInv, Types
  <2>4. Dated(j)' /\ \A f \in File : Arrived(j, f) => Arrived(j, f)'
    BY <1>3, <1>4, AllStay DEF Going
  <2>5. Placed(j)'  BY <1>3, <1>4, <2>4 DEF Placed, Going
  <2>6. Copied(j)' /\ TakenOne(j)' /\ Begun(j)'
    BY <1>4, <2>1, <2>3 DEF Copied, TakenOne, Begun
  <2>7. Going(j)'  BY <2>4, <2>5, <2>6 DEF Going
  <2>. QED  BY <1>1, <1>4, <2>3, <2>7, Others
<1>5. CASE End(j, IF Stopped(j) THEN "cancelled" ELSE "error") /\ UNCHANGED job
  BY <1>1, <1>5, EndGoes
<1>6. CASE /\ job' = [job EXCEPT ![j].plan = src, ![j].next = Folder]
           /\ run' = [run EXCEPT ![j].at = "folders", ![j].cursor = Folder]
  <2>. DEFINE u == [run[j] EXCEPT !.at = "folders", !.cursor = Folder]
              r == [job[j] EXCEPT !.plan = src, !.next = Folder]
  <2>1. u.at = "folders" /\ u.cursor = Folder /\ u.done = {} /\ u.failed = "none"
    BY <1>2, <1>3 DEF RunRec
  <2>2. r.plan = src /\ r.next = Folder /\ r.state = "running"  BY <1>1, <1>2 DEF JobRec
  <2>3. run' = [run EXCEPT ![j] = u] /\ job' = [job EXCEPT ![j] = r]  BY <1>6
  <2>. HIDE DEF u, r
  <2>4. /\ run'[j] = u /\ job'[j] = r
        /\ \A k \in Job \ {j} : run'[k] = run[k] /\ job'[k] = job[k]
    BY <2>3 DEF IInv, Types
  <2>5. ASSUME NEW f \in File  PROVE ~(f < Folder) /\ src[f] <= src'[f]
    <3>1. src[f] \in Version /\ src'[f] \in Version  BY DEF IInv, Types
    <3>2. src[f] \in Nat /\ src'[f] \in Nat  BY <3>1, Constants
    <3>3. src'[f] >= src[f]  BY SourceGrows
    <3>4. f \in 2 .. Files + 1 /\ Files \in Nat  BY Constants DEF File
    <3>. QED  BY <3>2, <3>3, <3>4 DEF Folder
  <2>6. Placed(j)'  BY <2>2, <2>4, <2>5 DEF Placed
  <2>7. Dated(j)'  BY <2>2, <2>4, <2>5 DEF Dated
  <2>8. Copied(j)' /\ TakenOne(j)' /\ Begun(j)'
    BY <2>1, <2>2, <2>4 DEF Copied, TakenOne, Begun
  <2>9. Going(j)'  BY <2>6, <2>7, <2>8 DEF Going
  <2>. QED  BY <1>1, <2>4, <2>9, Others
<1>. QED  BY <1>4, <1>5, <1>6 DEF Plan

\* At least one worker starts, at the place where the job goes on.
LEMMA MakeFolderGoes ==
    ASSUME IInv, IInv', Next, GoInv, NEW j \in Job, MakeFolder(j)
    PROVE  GoInv'
<1>1. run[j].at = "folders" /\ job[j].state = "running"
  BY DEF MakeFolder, IInv, RunAt
<1>2. run[j] \in RunRec /\ job[j] \in JobRec  BY DEF IInv, Types
<1>3. Going(j) /\ run[j].cursor = job[j].next /\ run[j].failed = "none"
  BY <1>1 DEF GoInv, Going, Begun
<1>4. CASE End(j, IF Stopped(j) THEN "cancelled" ELSE "error") /\ UNCHANGED <<job, worker>>
  BY <1>1, <1>4, EndGoes
<1>5. CASE ~(End(j, IF Stopped(j) THEN "cancelled" ELSE "error") /\ UNCHANGED <<job, worker>>)
  <2>. DEFINE made == IF job[j].next = Folder THEN {Folder} ELSE {}
              u == [run[j] EXCEPT !.at = "copy", !.done = made]
              r == [job[j] EXCEPT !.next = NextAfter(@, made)]
              starts == [NoWorker EXCEPT !.at = "next"]
              left == Files + 2 - run[j].cursor
              n == IF left < 1 THEN 1 ELSE IF left < slots.width THEN left ELSE slots.width
  <2>1. worker' = [w \in Worker |->
                       IF w[1] = j /\ w[2] <= n THEN starts ELSE worker[w]]
    BY <1>5 DEF MakeFolder
  <2>2. run' = [run EXCEPT ![j] = u] /\ job' = [job EXCEPT ![j] = r]
    BY <1>5 DEF MakeFolder
  <2>3. job[j].next \in 1 .. Files + 2 /\ job[j].next \in Nat /\ Files \in Nat
    <3>1. job[j].next \in Items \cup {Files + 2}  BY <1>2 DEF JobRec
    <3>. QED  BY <3>1, NextPlaces, Constants
  <2>4. 1 <= n
    <3>1. slots.width \in 1 .. MaxWidth /\ MaxWidth \in Nat
      BY Constants DEF IInv, Types, SlotRec
    <3>2. run[j].cursor \in Nat  BY <1>3, <2>3
    <3>3. slots.width \in Nat /\ slots.width >= 1  BY <3>1
    <3>. QED  BY <2>3, <3>2, <3>3
  <2>5. made \in SUBSET Items /\ \A f \in File : f \notin made
    BY Places DEF File, Folder
  <2>. HIDE DEF n, left, made
  <2>6. u.at = "copy" /\ u.done = made /\ u.failed = "none" /\ u.cursor = job[j].next
    BY <1>2, <1>3 DEF RunRec
  <2>7. /\ r.next = NextAfter(job[j].next, made)
        /\ r.plan = job[j].plan /\ r.state = "running"
    BY <1>1, <1>2 DEF JobRec
  <2>8. starts.at = "next"  BY Beginnings
  <2>. HIDE DEF u, r, starts
  <2>9. /\ run'[j] = u /\ job'[j] = r
        /\ \A k \in Job \ {j} : run'[k] = run[k] /\ job'[k] = job[k]
    BY <2>2 DEF IInv, Types
  <2>10. /\ r.next \in job[j].next .. Files + 2
         /\ \A i \in job[j].next .. r.next - 1 : i \in made
    BY <2>3, <2>5, <2>7, NextAfterIs
  <2>11. ASSUME NEW f \in File, f < r.next  PROVE f < job[j].next
    <3>1. f \in Nat  BY <2>3 DEF File
    <3>. QED  BY <2>3, <2>5, <2>10, <2>11, <3>1
  <2>12. ASSUME NEW f \in File, f < u.cursor  PROVE f < r.next
    <3>1. f \in Nat  BY <2>3 DEF File
    <3>. QED  BY <2>3, <2>6, <2>10, <2>12, <3>1
  <2>13. <<j, 1>> \in Worker /\ worker'[<<j, 1>>] = starts
    <3>1. <<j, 1>> \in Worker  BY Constants DEF Worker
    <3>. QED  BY <2>1, <2>4, <3>1
  <2>14. Dated(j)' /\ \A f \in File : Arrived(j, f) => Arrived(j, f)'
    BY <1>3, <2>7, <2>9, AllStay DEF Going
  <2>15. Placed(j)'
    BY <1>1, <1>3, <2>7, <2>9, <2>11, <2>14 DEF Placed, Going, KeptStates
  <2>16. Copied(j)'  BY <2>5, <2>6, <2>9 DEF Copied
  <2>17. TakenOne(j)'
    <3>1. u.cursor >= 1  BY <2>3, <2>6
    <3>. QED  BY <2>8, <2>9, <2>12, <2>13, <3>1 DEF TakenOne
  <2>18. Begun(j)'  BY <2>6, <2>9 DEF Begun
  <2>19. Going(j)'  BY <2>14, <2>15, <2>16, <2>17, <2>18 DEF Going
  <2>20. \A w \in Worker : w[1] # j => worker'[w] = worker[w]  BY <2>1
  <2>. QED  BY <2>9, <2>19, <2>20, Others
<1>. QED  BY <1>4, <1>5

\* When a job's workers are gone and no error is told, all of it has arrived.
LEMMA EndsGo ==
    ASSUME IInv, IInv', Next, GoInv, NEW j \in Job, Join(j) \/ JobDone(j)
    PROVE  GoInv'
<1>1. run[j] \in RunRec /\ job[j] \in JobRec /\ Going(j) /\ worker' = worker
  BY DEF IInv, Types, GoInv, Join, JobDone
<1>2. CASE Join(j)
  <2>. DEFINE u == [run[j] EXCEPT !.at = "ended"]
  <2>1. u.at = "ended" /\ u.done = run[j].done /\ u.failed = run[j].failed
    BY <1>1 DEF RunRec
  <2>2. run' = [run EXCEPT ![j] = u] /\ job' = job  BY <1>2 DEF Join
  <2>. HIDE DEF u
  <2>3. run'[j] = u /\ \A k \in Job \ {j} : run'[k] = run[k]  BY <2>2 DEF IInv, Types
  <2>4. /\ run[j].at = "copy" /\ job[j].state = "running"
        /\ \A w \in Worker : w[1] = j => worker[w].at = "exit"
    BY <1>2 DEF Join, IInv, RunAt
  <2>5. Dated(j)' /\ \A f \in File : Arrived(j, f) => Arrived(j, f)'
    BY <1>1, <2>2, AllStay DEF Going
  <2>6. ASSUME run[j].failed = "none", NEW f \in File  PROVE Arrived(j, f)
    <3>1. <<j, 1>> \in Worker /\ <<j, 1>>[1] = j  BY Constants DEF Worker
    <3>2. run[j].cursor > Files + 1  BY <1>1, <2>4, <2>6, <3>1 DEF Going, TakenOne
    <3>3. f < run[j].cursor
      <4>1. run[j].cursor \in Nat /\ Files \in Nat /\ f \in 2 .. Files + 1
        BY <1>1, Constants DEF RunRec, File
      <4>. QED  BY <3>2, <4>1
    <3>4. f \in run[j].done \/ f < job[j].next
      BY <1>1, <2>4, <2>6, <3>3 DEF Going, TakenOne, Busy
    <3>. QED  BY <1>1, <2>4, <3>4 DEF Going, Placed, Copied, KeptStates
  <2>7. Copied(j)'  BY <1>1, <2>1, <2>3, <2>5, <2>6 DEF Copied, Going
  <2>8. Placed(j)'  BY <1>1, <2>2, <2>5 DEF Placed, Going
  <2>9. TakenOne(j)' /\ Begun(j)'  BY <2>1, <2>3 DEF TakenOne, Begun
  <2>10. Going(j)'  BY <2>5, <2>7, <2>8, <2>9 DEF Going
  <2>. QED  BY <1>1, <2>2, <2>3, <2>10, Others
<1>3. CASE JobDone(j)
  <2>1. run[j].at = "ended" /\ job[j].state = "running"
    BY <1>3 DEF JobDone, IInv, RunAt
  <2>3. run[j].failed \in {"none", "cancelled", "error"} /\ job[j].pause \in BOOLEAN
    BY <1>1 DEF RunRec, JobRec
  <2>4. PICK r : /\ job' = [job EXCEPT ![j] = r]
                 /\ \/ r = GoneJob("cancelled")
                    \/ \E st \in {"done", "paused", "failed"} :
                          /\ r = [job[j] EXCEPT !.state = st]
                          /\ st = "done" => run[j].failed = "none"
    BY <1>3, <2>3 DEF JobDone
  <2>6. run' = [run EXCEPT ![j] = NoRun]  BY <1>3 DEF JobDone
  <2>7. /\ run'[j] = NoRun /\ job'[j] = r
        /\ \A k \in Job \ {j} : run'[k] = run[k] /\ job'[k] = job[k]
    BY <2>4, <2>6 DEF IInv, Types
  <2>11. NoRun.at = "idle" /\ NoRun.done = {} /\ NoRun.failed = "none"  BY DEF NoRun
  <2>12. CASE r = GoneJob("cancelled")
    <3>1. Going(j)'  BY <2>7, <2>11, <2>12, GoneGoes
    <3>. QED  BY <1>1, <2>7, <3>1, Others
  <2>13. ASSUME NEW st \in {"done", "paused", "failed"}, r = [job[j] EXCEPT !.state = st],
                st = "done" => run[j].failed = "none"
         PROVE  GoInv'
    <3>1. r.state = st /\ r.plan = job[j].plan /\ r.next = job[j].next
      BY <1>1, <2>13 DEF JobRec
    <3>2. Dated(j)' /\ \A f \in File : Arrived(j, f) => Arrived(j, f)'
      BY <1>1, <2>7, <3>1, AllStay DEF Going
    <3>3. \A f \in File : f < job[j].next \/ st = "done" => Arrived(j, f)
      BY <1>1, <2>1, <2>13 DEF Going, Placed, Copied, KeptStates
    <3>4. Placed(j)'  BY <2>7, <3>1, <3>2, <3>3 DEF Placed
    <3>5. Copied(j)' /\ TakenOne(j)' /\ Begun(j)'  BY <2>7, <2>11 DEF Copied, TakenOne, Begun
    <3>6. Going(j)'  BY <3>2, <3>4, <3>5 DEF Going
    <3>. QED  BY <1>1, <2>7, <3>6, Others
  <2>. QED  BY <2>4, <2>12, <2>13
<1>. QED  BY <1>2, <1>3

\* A part thrown away was of a job that is given up.
LEMMA DiscardGoes ==
    ASSUME IInv, IInv', Next, GoInv, NEW j \in Job, Discard(j)
    PROVE  GoInv'
<1>1. job' = [job EXCEPT ![j] = GoneJob("cancelled")] /\ run' = run  BY DEF Discard
<1>2. run[j].at = "idle"
  <2>1. job[j].discarding  BY DEF Discard
  <2>. QED  BY <2>1 DEF IInv, RunAt
<1>3. \A w \in Worker : worker'[w].at = worker[w].at /\ worker'[w].item = worker[w].item
  <2>1. worker' = worker \/ \E f : worker' = Followed(worker, f, PartGone)
    BY DEF Discard
  <2>2. worker \in [Worker -> WorkRec]  BY DEF IInv, Types
  <2>. QED  BY <2>1, <2>2, FollowedIs
<1>. QED  BY <1>1, <1>2, <1>3, GivenUp

\* A worker by whose step the run fails.
LEMMA WorkerFails ==
    ASSUME IInv, IInv', Next, GoInv, NEW w \in Worker, NEW v \in RunRec,
           run[w[1]].at = "copy",
           run' = [run EXCEPT ![w[1]] = v], v.at = "copy", v.done = run[w[1]].done,
           v.cursor >= run[w[1]].cursor, v.failed # "none", job' = job,
           \A x \in Worker \ {w} :
               worker'[x].at = worker[x].at /\ worker'[x].item = worker[x].item
    PROVE  GoInv'
<1>1. w[1] \in Job  BY DEF Worker
<1>2. run'[w[1]] = v /\ \A k \in Job \ {w[1]} : run'[k] = run[k]  BY <1>1 DEF IInv, Types
<1>3. Keeps(w[1]) /\ Going(w[1])  BY <1>1 DEF Keeps, GoInv
<1>4. Going(w[1])'  BY <1>1, <1>2, <1>3, Fails
<1>5. \A x \in Worker : x[1] # w[1] =>
          worker'[x].at = worker[x].at /\ worker'[x].item = worker[x].item
  OBVIOUS
<1>. QED  BY <1>1, <1>2, <1>4, <1>5, Others

\* A worker by whose step nothing is done, taken or left.
LEMMA WorkerAlike ==
    ASSUME IInv, IInv', Next, GoInv, NEW w \in Worker, UNCHANGED <<job, run>>,
           \A x \in Worker \ {w} :
               worker'[x].at = worker[x].at /\ worker'[x].item = worker[x].item,
           Busy(w) => Busy(w)' /\ worker'[w].item = worker[w].item,
           worker'[w].at # "exit"
    PROVE  GoInv'
<1>1. \A k \in Job : Same(k) /\ Keeps(k)  BY DEF Same, Keeps, Busy
<1>. QED  BY <1>1, Alike DEF GoInv

\* A run that fails, as it is written.
LEMMA FailsBy ==
    ASSUME IInv, NEW w \in Worker, run[w[1]].at = "copy", NEW why \in {"cancelled", "error"},
           run' = [run EXCEPT ![w[1]] = Fail(@, why)]
    PROVE  \E v \in RunRec :
             /\ run' = [run EXCEPT ![w[1]] = v] /\ v.at = "copy"
             /\ v.done = run[w[1]].done /\ v.cursor >= run[w[1]].cursor /\ v.failed # "none"
<1>1. w[1] \in Job /\ run[w[1]] \in RunRec  BY DEF Worker, IInv, Types
<1>. DEFINE v == Fail(run[w[1]], why)
<1>2. /\ v \in RunRec /\ v.at = "copy" /\ v.done = run[w[1]].done
      /\ v.cursor = run[w[1]].cursor /\ v.failed # "none"
  BY <1>1, FailIs
<1>3. run[w[1]].cursor \in Nat  BY <1>1 DEF RunRec
<1>4. v.cursor >= run[w[1]].cursor  BY <1>2, <1>3
<1>5. run' = [run EXCEPT ![w[1]] = v]  OBVIOUS
<1>. HIDE DEF v
<1>. QED  BY <1>2, <1>4, <1>5

\* A file is taken, or there is none left.
LEMMA TakeGoes ==
    ASSUME IInv, IInv', Next, GoInv, NEW w \in Worker, Take(w)
    PROVE  GoInv'
<1>. DEFINE j == w[1]
            i == run[j].cursor
            u == [run[j] EXCEPT !.cursor = @ + 1]
<1>1. j \in Job /\ run[j] \in RunRec /\ worker[w] \in WorkRec /\ w = <<w[1], w[2]>>
  BY DEF IInv, Types, Worker
<1>2. worker[w].at = "next" /\ job' = job  BY DEF Take
<1>3. run[j].at = "copy"  BY <1>2 DEF IInv, WorkAt
<1>4. Going(j)  BY <1>1 DEF GoInv
<1>5. i \in Nat /\ i >= 1  BY <1>1, <1>3, <1>4 DEF RunRec, Going, TakenOne
<1>6. /\ u \in RunRec /\ u.at = "copy" /\ u.cursor = i + 1 /\ u.done = run[j].done
      /\ u.failed = run[j].failed
  BY <1>1, <1>3, <1>5 DEF RunRec
<1>7. \A f \in File : f \in Nat /\ f >= 2 /\ f <= Files + 1
  BY Constants DEF File
<1>8. NoWorker.at = "exit"  BY Beginnings
<1>9. CASE run[j].failed # "none" /\ worker' = Quit(w) /\ run' = run
  <2>1. \A x \in Worker \ {w} : worker'[x] = worker[x]  BY <1>9 DEF Quit, IInv, Types
  <2>2. run' = [run EXCEPT ![j] = run[j]]  BY <1>9 DEF IInv, Types
  <2>3. run[j].cursor >= run[j].cursor  BY <1>5
  <2>. QED  BY <1>1, <1>2, <1>3, <1>9, <2>1, <2>2, <2>3, WorkerFails
<1>10. ASSUME run' = [run EXCEPT ![j] = u],
              \A x \in Worker \ {w} : worker'[x] = worker[x],
              TakenOne(j)'
       PROVE  GoInv'
  <2>1. run'[j] = u /\ \A k \in Job \ {j} : run'[k] = run[k]
    BY <1>1, <1>10 DEF IInv, Types
  <2>2. Dated(j)' /\ \A f \in File : Arrived(j, f) => Arrived(j, f)'
    BY <1>1, <1>2, <1>4, AllStay DEF Going
  <2>3. Placed(j)'  BY <1>2, <1>4, <2>2 DEF Placed, Going
  <2>4. Copied(j)' /\ Begun(j)'  BY <1>4, <1>6, <2>1, <2>2 DEF Copied, Begun, Going
  <2>5. Going(j)'  BY <1>10, <2>2, <2>3, <2>4 DEF Going
  <2>. QED  BY <1>1, <1>2, <1>10, <2>1, <2>5, Others
<1>11. CASE /\ run[j].failed = "none" /\ i \notin Items /\ worker' = Quit(w)
            /\ run' = [run EXCEPT ![j].cursor = @ + 1]
  <2>1. \A x \in Worker \ {w} : worker'[x] = worker[x]  BY <1>11 DEF Quit, IInv, Types
  <2>2. i > Files + 1  BY <1>5, <1>11, Constants DEF Items, Folder
  <2>3. run' = [run EXCEPT ![j] = u]  BY <1>11
  <2>4. run'[j] = u  BY <1>1, <2>3 DEF IInv, Types
  <2>5. \A f \in File : f < i  BY <1>5, <1>7, <2>2, Constants
  <2>6. i + 1 >= 1 /\ i + 1 > Files + 1  BY <1>5, <2>2, Constants
  <2>7. ASSUME NEW f \in File
        PROVE  \/ f \in run[j].done \/ f < job[j].next \/ run[j].failed # "none"
               \/ \E x \in Worker : x[1] = j /\ Busy(x)' /\ worker'[x].item = f
    <3>1. \/ f \in run[j].done \/ f < job[j].next \/ run[j].failed # "none"
          \/ \E x \in Worker : x[1] = j /\ Busy(x) /\ worker[x].item = f
      BY <1>3, <1>4, <2>5 DEF Going, TakenOne
    <3>2. ~Busy(w)  BY <1>2 DEF Busy
    <3>. QED  BY <2>1, <3>1, <3>2 DEF Busy
  <2>8. TakenOne(j)'  BY <1>2, <1>6, <2>4, <2>6, <2>7 DEF TakenOne
  <2>. QED  BY <1>10, <2>1, <2>3, <2>8
<1>12. CASE /\ run[j].failed = "none" /\ i = Folder /\ worker' = worker
            /\ run' = [run EXCEPT ![j].cursor = @ + 1]
  <2>1. run' = [run EXCEPT ![j] = u]  BY <1>12
  <2>2. run'[j] = u  BY <1>1, <2>1 DEF IInv, Types
  <2>3. \A f \in File : ~(f < i + 1)  BY <1>7, <1>12 DEF Folder
  <2>4. i + 1 >= 1 /\ (i > Files + 1 => i + 1 > Files + 1)  BY <1>5, Constants
  <2>5. TakenOne(j)'
    BY <1>3, <1>4, <1>6, <1>12, <2>2, <2>3, <2>4 DEF TakenOne, Going
  <2>. QED  BY <1>10, <1>12, <2>1, <2>5
<1>13. CASE /\ run[j].failed = "none" /\ i \in File
            /\ run' = [run EXCEPT ![j].cursor = @ + 1]
            /\ worker' = [worker EXCEPT ![w] = [NoWorker EXCEPT !.at = "wait", !.item = i]]
  <2>1. run' = [run EXCEPT ![j] = u]  BY <1>13
  <2>2. run'[j] = u  BY <1>1, <2>1 DEF IInv, Types
  <2>3. i \in Items  BY <1>13, Places
  <2>4. /\ worker'[w].at = "wait" /\ worker'[w].item = i
        /\ \A x \in Worker \ {w} : worker'[x] = worker[x]
    BY <1>13, <2>3, Beginnings DEF IInv, Types
  <2>5. ASSUME NEW f \in File, f < i + 1
        PROVE  \/ f \in run[j].done \/ f < job[j].next \/ run[j].failed # "none"
               \/ \E x \in Worker : x[1] = j /\ Busy(x)' /\ worker'[x].item = f
    <3>1. CASE f = i  BY <2>4, <3>1 DEF Busy
    <3>2. CASE f # i
      <4>1. f < i  BY <1>5, <1>7, <2>5, <3>2
      <4>2. \/ f \in run[j].done \/ f < job[j].next \/ run[j].failed # "none"
            \/ \E x \in Worker : x[1] = j /\ Busy(x) /\ worker[x].item = f
        BY <1>3, <1>4, <4>1 DEF Going, TakenOne
      <4>3. ~Busy(w)  BY <1>2 DEF Busy
      <4>. QED  BY <2>4, <4>2, <4>3 DEF Busy
    <3>. QED  BY <3>1, <3>2
  <2>6. i + 1 >= 1 /\ (i > Files + 1 => i + 1 > Files + 1)  BY <1>5, Constants
  <2>7. worker'[<<j, 1>>].at = "exit" => i + 1 > Files + 1
    <3>1. <<j, 1>> \in Worker  BY <1>1, Constants DEF Worker
    <3>2. worker'[<<j, 1>>].at = "exit" => worker[<<j, 1>>].at = "exit"
      BY <2>4, <3>1
    <3>3. worker[<<j, 1>>].at = "exit" => i > Files + 1
      BY <1>3, <1>4, <1>13 DEF Going, TakenOne
    <3>. QED  BY <2>6, <3>2, <3>3
  <2>8. TakenOne(j)'  BY <1>2, <1>6, <2>2, <2>5, <2>6, <2>7 DEF TakenOne
  <2>. QED  BY <1>10, <2>1, <2>4, <2>8
<1>14. CASE /\ worker' = Quit(w)
            /\ run' = [run EXCEPT ![j] = Fail([@ EXCEPT !.cursor = i + 1], "cancelled")]
  <2>. DEFINE v == Fail(u, "cancelled")
  <2>1. \A x \in Worker \ {w} : worker'[x] = worker[x]  BY <1>14 DEF Quit, IInv, Types
  <2>2. run' = [run EXCEPT ![j] = v]  BY <1>14
  <2>3. /\ v \in RunRec /\ v.at = "copy" /\ v.done = run[j].done
        /\ v.cursor = i + 1 /\ v.failed # "none"
    <3>. HIDE DEF u
    <3>. QED  BY <1>6, FailIs
  <2>4. v.cursor >= run[j].cursor  BY <1>5, <2>3
  <2>. HIDE DEF v
  <2>. QED  BY <1>2, <1>3, <2>1, <2>2, <2>3, <2>4, WorkerFails
<1>. QED  BY <1>9, <1>11, <1>12, <1>13, <1>14 DEF Take

\* A worker that tells an error.
LEMMA TellsGoes ==
    ASSUME IInv, IInv', Next, GoInv, NEW w \in Worker, Busy(w),
           NEW why \in {"cancelled", "error"},
           run' = [run EXCEPT ![w[1]] = Fail(@, why)], job' = job,
           \A x \in Worker \ {w} :
               worker'[x].at = worker[x].at /\ worker'[x].item = worker[x].item
    PROVE  GoInv'
<1>1. run[w[1]].at = "copy"  BY AtWork
<1>2. PICK v \in RunRec :
        /\ run' = [run EXCEPT ![w[1]] = v] /\ v.at = "copy"
        /\ v.done = run[w[1]].done /\ v.cursor >= run[w[1]].cursor /\ v.failed # "none"
  BY <1>1, FailsBy
<1>. QED  BY <1>1, <1>2, WorkerFails

\* Its turn comes.
LEMMA TurnGoes ==
    ASSUME IInv, IInv', Next, GoInv, NEW w \in Worker, Turn(w)
    PROVE  GoInv'
<1>1. worker[w].at = "wait" /\ Busy(w) /\ job' = job  BY DEF Turn, Busy
<1>2. CASE /\ run' = [run EXCEPT ![w[1]] =
                         Fail(@, IF Stopped(w[1]) THEN "cancelled" ELSE "error")]
           /\ worker' = Quit(w)
  <2>1. PICK why \in {"cancelled", "error"} : run' = [run EXCEPT ![w[1]] = Fail(@, why)]
    BY <1>2
  <2>2. \A x \in Worker \ {w} : worker'[x] = worker[x]  BY <1>2 DEF Quit, IInv, Types
  <2>. QED  BY <1>1, <2>1, <2>2, TellsGoes
<1>3. ASSUME run' = run, NEW pos,
             worker' = [worker EXCEPT ![w] =
                          [at |-> "open", item |-> worker[w].item, pos |-> pos, on |-> "gone"]]
      PROVE  GoInv'
  <2>1. /\ worker'[w].at = "open" /\ worker'[w].item = worker[w].item
        /\ \A x \in Worker \ {w} : worker'[x] = worker[x]
    BY <1>3 DEF IInv, Types
  <2>2. Busy(w)'  BY <2>1 DEF Busy
  <2>. QED  BY <1>1, <1>3, <2>1, <2>2, WorkerAlike
<1>. QED  BY <1>2, <1>3 DEF Turn

\* A copy that ends early.
LEMMA BrokenGoes ==
    ASSUME IInv, IInv', Next, GoInv, NEW w \in Worker, Busy(w), NEW parts,
           NEW why \in {"cancelled", "error"}, Broken(w, parts, why)
    PROVE  GoInv'
<1>1. run' = [run EXCEPT ![w[1]] = Fail(@, why)] /\ job' = job  BY DEF Broken
<1>2. Quit(w) \in [Worker -> WorkRec] /\ \A x \in Worker \ {w} : Quit(w)[x] = worker[x]
  BY Beginnings DEF Quit, IInv, Types
<1>3. worker' = Quit(w) \/ worker' = Followed(Quit(w), worker[w].item, PartGone)
  BY DEF Broken
<1>4. \A x \in Worker \ {w} :
          worker'[x].at = worker[x].at /\ worker'[x].item = worker[x].item
  BY <1>2, <1>3, FollowedIs
<1>. QED  BY <1>1, <1>4, TellsGoes

\* The part takes the file's place: the file has arrived, and the job goes on
\* behind all that has.
LEMMA InPlaceGoes ==
    ASSUME IInv, IInv', Next, GoInv, NEW w \in Worker, NEW f \in File, Busy(w),
           f = worker[w].item, NEW data, Unspoiled(f) => data = Whole(src[f]), InPlace(w, data),
           UNCHANGED <<way, src, spoiled>>
    PROVE  GoInv'
<1>. DEFINE j == w[1]
            done == run[j].done \cup {f}
            u == [run[j] EXCEPT !.done = done]
            r == [job[j] EXCEPT !.next = NextAfter(@, done)]
            idle == [NoWorker EXCEPT !.at = "next"]
            ws == [worker EXCEPT ![w] = idle]
<1>1. /\ j \in Job /\ run[j] \in RunRec /\ job[j] \in JobRec
      /\ run[j].at = "copy" /\ job[j].state = "running" /\ job[j].plan = src
  BY AtWork DEF IInv, Types
<1>2. Going(j)  BY <1>1 DEF GoInv
<1>3. /\ run' = [run EXCEPT ![j] = u] /\ job' = [job EXCEPT ![j] = r]
      /\ target' = [target EXCEPT ![f] = data]
      /\ worker' = Followed(ws, f, PartRenamed)
  BY DEF InPlace, Finished
<1>4. idle \in WorkRec /\ idle.at = "next"  BY Beginnings
<1>. HIDE DEF idle
<1>5. /\ ws \in [Worker -> WorkRec] /\ ws[w].at = "next"
      /\ \A x \in Worker \ {w} : ws[x] = worker[x]
  BY <1>4 DEF IInv, Types
<1>. HIDE DEF ws
<1>6. /\ worker'[w].at = "next"
      /\ \A x \in Worker \ {w} :
            worker'[x].at = worker[x].at /\ worker'[x].item = worker[x].item
  BY <1>3, <1>5, FollowedIs
<1>7. done \in SUBSET Items  BY <1>1, Places DEF RunRec
<1>. HIDE DEF done
<1>8. u.done = done /\ u.at = "copy" /\ u.cursor = run[j].cursor /\ u.failed = run[j].failed
  BY <1>1, <1>7 DEF RunRec
<1>9. /\ r.next = NextAfter(job[j].next, done) /\ r.plan = src /\ r.state = "running"
  BY <1>1 DEF JobRec
<1>. HIDE DEF u, r
<1>10. /\ run'[j] = u /\ job'[j] = r
       /\ \A k \in Job \ {j} : run'[k] = run[k] /\ job'[k] = job[k]
  BY <1>1, <1>3 DEF IInv, Types
<1>11. job[j].next \in 1 .. Files + 2 /\ job[j].next \in Nat /\ Files \in Nat
  <2>1. job[j].next \in Items \cup {Files + 2}  BY <1>1 DEF JobRec
  <2>. QED  BY <2>1, NextPlaces, Constants
<1>12. /\ r.next \in job[j].next .. Files + 2
       /\ \A i \in job[j].next .. r.next - 1 : i \in done
  BY <1>7, <1>9, <1>11, NextAfterIs
<1>13. Dated(j)' /\ \A g \in File : Arrived(j, g) => Arrived(j, g)'
  BY <1>1, <1>2, <1>9, <1>10, AllStay DEF Going
<1>14. Arrived(j, f)'
  <2>0. Unspoiled(f)' => Unspoiled(f)  BY UnspoiledSame
  <2>1. Unspoiled(f) => target'[f] = Whole(src[f])  BY <1>3 DEF IInv, Types
  <2>2. job'[j].plan[f] = src[f]  BY <1>9, <1>10
  <2>3. src[f] \in src[f] .. MaxChanges + 2
    <3>1. src[f] \in Version /\ MaxChanges \in Nat  BY Constants DEF IInv, Types
    <3>. QED  BY <3>1 DEF Version
  <2>. QED  BY <2>0, <2>1, <2>2, <2>3 DEF Arrived
<1>15. ASSUME NEW g \in File, g \in done  PROVE Arrived(j, g)'
  <2>1. g = f \/ g \in run[j].done  BY <1>15 DEF done
  <2>2. g \in run[j].done => Arrived(j, g)  BY <1>2 DEF Going, Copied
  <2>. QED  BY <1>13, <1>14, <2>1, <2>2, Zenon
<1>16. ASSUME NEW g \in File, g < r.next  PROVE Arrived(j, g)'
  <2>1. g \in Nat  BY <1>11 DEF File
  <2>2. g < job[j].next \/ g \in done  BY <1>11, <1>12, <1>16, <2>1
  <2>3. g < job[j].next => Arrived(j, g)  BY <1>1, <1>2 DEF Going, Placed, KeptStates
  <2>. QED  BY <1>13, <1>15, <2>2, <2>3, Zenon
<1>17. Placed(j)'
  <2>1. job'[j].state = "running" /\ job'[j].next = r.next  BY <1>9, <1>10
  <2>. QED  BY <1>16, <2>1 DEF Placed
<1>18. Copied(j)'
  <2>1. run'[j].at = "copy" /\ run'[j].done = done  BY <1>8, <1>10
  <2>. QED  BY <1>15, <2>1 DEF Copied
<1>19. ASSUME NEW g \in File, g < run[j].cursor
       PROVE  \/ g \in done \/ g < r.next \/ run[j].failed # "none"
              \/ \E x \in Worker : x[1] = j /\ Busy(x)' /\ worker'[x].item = g
  <2>1. \/ g \in run[j].done \/ g < job[j].next \/ run[j].failed # "none"
        \/ \E x \in Worker : x[1] = j /\ Busy(x) /\ worker[x].item = g
    BY <1>1, <1>2, <1>19 DEF Going, TakenOne
  <2>2. CASE g \in run[j].done  BY <2>2 DEF done
  <2>3. CASE g < job[j].next
    <3>1. g \in Nat  BY <1>11 DEF File
    <3>. QED  BY <1>11, <1>12, <2>3, <3>1
  <2>4. CASE run[j].failed # "none"  BY <2>4
  <2>5. ASSUME NEW x \in Worker, x[1] = j, Busy(x), worker[x].item = g
        PROVE  g \in done \/ \E y \in Worker : y[1] = j /\ Busy(y)' /\ worker'[y].item = g
    <3>1. CASE x = w  BY <2>5, <3>1 DEF done
    <3>2. CASE x # w  BY <1>6, <2>5, <3>2 DEF Busy
    <3>. QED  BY <3>1, <3>2
  <2>. QED  BY <2>1, <2>2, <2>3, <2>4, <2>5
<1>20. TakenOne(j)'
  <2>1. /\ run'[j].cursor = run[j].cursor /\ run'[j].done = done
        /\ run'[j].failed = run[j].failed /\ job'[j].next = r.next
    BY <1>8, <1>10
  <2>2. <<j, 1>> \in Worker  BY <1>1, Constants DEF Worker
  <2>3. worker'[<<j, 1>>].at = "exit" => worker[<<j, 1>>].at = "exit"
    BY <1>6, <2>2
  <2>. QED  BY <1>1, <1>2, <1>19, <2>1, <2>3 DEF TakenOne, Going
<1>21. Begun(j)'  BY <1>8, <1>10 DEF Begun
<1>22. Going(j)'  BY <1>13, <1>17, <1>18, <1>20, <1>21 DEF Going
<1>23. \A x \in Worker : x[1] # j =>
          worker'[x].at = worker[x].at /\ worker'[x].item = worker[x].item
  BY <1>6
<1>. QED  BY <1>1, <1>10, <1>22, <1>23, Others

\* A worker that gives up.
LEMMA GivesUpGoes ==
    ASSUME IInv, IInv', Next, GoInv, NEW w \in Worker, Busy(w), GivesUp(w)
    PROVE  GoInv'
<1>1. /\ run' = [run EXCEPT ![w[1]] = Fail(@, "error")] /\ job' = job
      /\ worker' = Quit(w)
  BY DEF GivesUp
<1>2. \A x \in Worker \ {w} : worker'[x] = worker[x]  BY <1>1 DEF Quit, IInv, Types
<1>. QED  BY <1>1, <1>2, TellsGoes

\* What a worker does with its file.
LEMMA CopiesGo ==
    ASSUME IInv, IInv', Next, GoInv, NEW w \in Worker,
           Open(w) \/ Copy(w) \/ CopyFails(w) \/ SourceEnds(w) \/ RenameAfterRemove(w)
    PROVE  GoInv'
<1>1. Busy(w)  BY DEF Open, Copy, CopyFails, SourceEnds, RenameAfterRemove, Busy
<1>2. PICK f \in File : f = worker[w].item  BY <1>1, AtWork
<1>3. ASSUME NEW parts, NEW why \in {"cancelled", "error"}, Broken(w, parts, why)
      PROVE  GoInv'
  BY <1>1, <1>3, BrokenGoes
<1>8. CASE Open(w)
  <2>1. CASE Broken(w, part, "error")  BY <1>3, <2>1
  <2>2. CASE /\ worker' = [worker EXCEPT ![w].at = "copy", ![w].on = "part"]
             /\ UNCHANGED <<job, run>>
    <3>1. /\ worker'[w].at = "copy" /\ worker'[w].item = worker[w].item
          /\ \A x \in Worker \ {w} : worker'[x] = worker[x]
      BY <2>2 DEF IInv, Types, WorkRec
    <3>2. Busy(w)' /\ worker'[w].at # "exit"  BY <3>1 DEF Busy
    <3>. QED  BY <2>2, <3>1, <3>2, WorkerAlike
  <2>. QED  BY <1>8, <2>1, <2>2 DEF Open
<1>4. CASE Copy(w)
  <2>1. CASE \E parts : Broken(w, parts, "cancelled")  BY <1>3, <2>1
  <2>2. CASE /\ worker' = [worker EXCEPT ![w].pos = worker[w].pos + 1]
             /\ UNCHANGED <<job, run>>
    <3>1. /\ worker'[w].at = worker[w].at /\ worker'[w].item = worker[w].item
          /\ \A x \in Worker \ {w} : worker'[x] = worker[x]
      BY <2>2 DEF IInv, Types, WorkRec
    <3>2. Busy(w)' /\ worker'[w].at # "exit"  BY <1>1, <3>1 DEF Busy
    <3>. QED  BY <2>2, <3>1, <3>2, WorkerAlike
  <2>. QED  BY <1>4, <2>1, <2>2 DEF Copy
<1>5. CASE CopyFails(w)  BY <1>3, <1>5 DEF CopyFails
<1>6. CASE SourceEnds(w)
  <2>1. worker[w].at = "copy" /\ worker[w].pos >= SizeOf(src[f])
    BY <1>2, <1>6, EndsBy
  <2>2. CASE Broken(w, part, "cancelled")  BY <1>3, <2>2
  <2>3. CASE GivesUp(w)  BY <1>1, <2>3, GivesUpGoes
  <2>4. CASE part[f] # Absent /\ InPlace(w, EndData(w)) /\ UNCHANGED <<way, src, spoiled>>
    <3>1. Unspoiled(f) => EndData(w) = Whole(src[f])  BY <1>2, <2>1, <2>4, WholePart
    <3>. QED  BY <1>1, <1>2, <2>4, <3>1, InPlaceGoes
  <2>5. CASE /\ worker' = Followed([worker EXCEPT ![w].at = "removed"], f, TargetGone)
             /\ UNCHANGED <<job, run>>
    <3>. DEFINE ws == [worker EXCEPT ![w].at = "removed"]
    <3>1. /\ ws \in [Worker -> WorkRec] /\ ws[w].at = "removed" /\ ws[w].item = worker[w].item
          /\ \A x \in Worker \ {w} : ws[x] = worker[x]
      BY DEF IInv, Types, WorkRec
    <3>. HIDE DEF ws
    <3>2. worker' = Followed(ws, f, TargetGone)  BY <2>5 DEF ws
    <3>3. /\ worker'[w].at = "removed" /\ worker'[w].item = worker[w].item
          /\ \A x \in Worker \ {w} :
                worker'[x].at = worker[x].at /\ worker'[x].item = worker[x].item
      BY <3>1, <3>2, FollowedIs
    <3>4. Busy(w)' /\ worker'[w].at # "exit"  BY <3>3 DEF Busy
    <3>. QED  BY <2>5, <3>3, <3>4, WorkerAlike
  <2>6. \/ Broken(w, part, "cancelled") \/ GivesUp(w)
        \/ part[f] # Absent /\ InPlace(w, EndData(w)) /\ UNCHANGED <<way, src, spoiled>>
        \/ /\ worker' = Followed([worker EXCEPT ![w].at = "removed"], f, TargetGone)
           /\ UNCHANGED <<job, run>>
    BY <1>2, <1>6, EndsBy
  <2>. QED  BY <2>2, <2>3, <2>4, <2>5, <2>6
<1>7. CASE RenameAfterRemove(w)
  <2>1. worker[w].at = "removed" /\ UNCHANGED <<way, src, spoiled>>
    BY <1>7 DEF RenameAfterRemove
  <2>2. ~Unspoiled(f)  BY <1>2, <2>1 DEF IInv, WorkAt
  <2>3. GivesUp(w) \/ InPlace(w, part[f].data)
    BY <1>2, <1>7, Zenon DEF RenameAfterRemove
  <2>. QED  BY <1>1, <1>2, <2>1, <2>2, <2>3, GivesUpGoes, InPlaceGoes
<1>. QED  BY <1>4, <1>5, <1>6, <1>7, <1>8

\* Every step keeps it.
LEMMA GoesOn ==
    ASSUME IInv, IInv', GoInv, [Next]_vars
    PROVE  GoInv'
<1>1. CASE UNCHANGED vars
  <2>1. UNCHANGED <<way, src, target, job, run, worker, spoiled>>  BY <1>1 DEF vars
  <2>0. \A f : Unspoiled(f)' <=> Unspoiled(f)  BY <2>1, UnspoiledSame
  <2>2. ASSUME NEW j \in Job, Going(j)  PROVE Going(j)'
    <3>1. \A f \in File : Arrived(j, f) <=> Arrived(j, f)'
      BY <2>0, <2>1 DEF Arrived
    <3>2. Placed(j)'  BY <2>1, <2>2, <3>1 DEF Going, Placed
    <3>3. Dated(j)'  BY <2>1, <2>2 DEF Going, Dated
    <3>4. Copied(j)'  BY <2>1, <2>2, <3>1 DEF Going, Copied
    <3>5. TakenOne(j)'  BY <2>1, <2>2 DEF Going, TakenOne, Busy
    <3>6. Begun(j)'  BY <2>1, <2>2 DEF Going, Begun
    <3>. QED  BY <3>2, <3>3, <3>4, <3>5, <3>6 DEF Going
  <2>. QED  BY <2>2 DEF GoInv
<1>2. CASE Next
  <2>1. CASE Person  BY <1>2, <2>1, PersonGoes
  <2>2. ASSUME NEW j \in Job, Thread(j)  PROVE GoInv'
    BY <1>2, <2>2, PlanGoes, MakeFolderGoes, EndsGo, DiscardGoes DEF Thread
  <2>3. ASSUME NEW w \in Worker, Step(w)  PROVE GoInv'
    BY <1>2, <2>3, TakeGoes, TurnGoes, CopiesGo DEF Step
  <2>4. CASE Lose \/ Restart \/ (\E f \in File : SourceChanges(f))
    BY <1>2, <2>4, AroundGoes
  <2>. QED  BY <1>2, <2>1, <2>2, <2>3, <2>4 DEF Next
<1>. QED  BY <1>1, <1>2

\* It holds when nothing has been started.
LEMMA GoesFrom == Init => GoInv
<1>. SUFFICES ASSUME Init, NEW j \in Job  PROVE Going(j)  BY DEF GoInv
<1>1. job[j] = NewJob /\ run[j] = NoRun /\ \A f \in File : src[f] = 2  BY DEF Init
<1>2. job[j].plan = NoPlan /\ job[j].next = Folder /\ job[j].state = "new"
  BY <1>1 DEF NewJob
<1>3. run[j].at = "idle" /\ run[j].done = {} /\ run[j].failed = "none"  BY <1>1 DEF NoRun
<1>4. \A f \in File : ~(f < Folder) /\ NoPlan[f] = 0 /\ 0 <= 2
  BY Constants DEF File, Folder, NoPlan
<1>5. Placed(j)  BY <1>2, <1>4 DEF Placed
<1>6. Dated(j)  BY <1>1, <1>2, <1>4 DEF Dated
<1>7. Copied(j) /\ TakenOne(j) /\ Begun(j)  BY <1>3 DEF Copied, TakenOne, Begun
<1>. QED  BY <1>5, <1>6, <1>7 DEF Going

\* Going on never skips a file: every file before the place where a job goes on
\* has arrived, and all of them when it is told to be done - of those promised
\* (Unspoiled), as above.
THEOREM NothingIsSkippedEver ==
    ~Overlap /\ ~ChangePlanned /\ Spec => []NothingIsSkipped
<1>. DEFINE Inv == Orderly /\ GoInv
<1>1. ~Overlap /\ ~ChangePlanned /\ Init => Inv  BY Begins, GoesFrom DEF Orderly
<1>2. Inv /\ [Next]_vars => Inv'
  <2>. SUFFICES ASSUME Inv, [Next]_vars PROVE Inv'  OBVIOUS
  <2>1. Orderly /\ IInv /\ GoInv  BY DEF Orderly
  <2>2. Orderly' /\ IInv'  BY <2>1, Goes DEF Orderly
  <2>3. GoInv'  BY <2>1, <2>2, GoesOn
  <2>. QED  BY <2>2, <2>3
<1>3. Inv => NothingIsSkipped
  BY DEF GoInv, Going, Placed, Arrived, KeptStates, NothingIsSkipped
<1>. QED  BY <1>1, <1>2, <1>3, PTL DEF Spec
===============================================================================
