---------------------------- MODULE ConnectQueue ----------------------------
(***************************************************************************)
(* The connection queue (native-term-app/src/connect_queue.rs) over        *)
(* several sessions: opened folders, "Connect all" and reconnects wait     *)
(* here, and at most MaxConnecting log in at a time, unless a login is so  *)
(* slow that the next is let through (SLOT_WAIT).                          *)
(*                                                                         *)
(* The queue counts what NativeTerm's records say; what logs in is the     *)
(* shims' ssh.  Links break, words are on their way, and the queue's       *)
(* thread looks, waits, tells and marks with the list unlocked in between. *)
(*                                                                         *)
(* Time is left open: a login is slow, and a shim is missing for           *)
(* SHIM_WAIT, whenever it may be.  SPACING has no part in the properties.  *)
(* A shim says Waiting, Connecting, In or Ended; SessionLink has the rest. *)
(***************************************************************************)
EXTENDS FiniteSets, Naturals, Sequences, SequencesExt

CONSTANTS
    Sessions,        \* the sessions of a folder, opened together
    NoSession,
    MaxConnecting,   \* MAX_CONNECTING
    MaxEvents        \* bound: breaks of links, and times somebody queues or
                     \* connects a session, together

ASSUME ConnectQueueAssumption ==
    /\ IsFiniteSet(Sessions)
    /\ NoSession \notin Sessions
    /\ MaxConnecting \in Nat \ {0}
    /\ MaxEvents \in Nat

VARIABLES
    shim,            \* what each shim does
    wire,            \* each link: "down", "up", "closing"
    up,              \* the words on their way to NativeTerm
    connect,         \* the sessions with a Connect on its way to the shim
    state,           \* NativeTerm's records
    link,            \* the sessions with a link, as NativeTerm knows
    told,            \* the sessions told to connect, as NativeTerm knows
    arrived,         \* the channel to the queue's thread
    pending,         \* what it has taken from there, in order
    chosen,          \* the session it is about to tell
    queuePc,         \* "look", "slot", "mark"
    events,
    excused          \* sessions that log in beside the others rightly: let
                     \* through after SLOT_WAIT, connected by the person, or
                     \* their link broke meanwhile (history)

shims == <<shim, wire, up, connect>>
records == <<state, link, told>>
queue == <<arrived, pending, chosen, queuePc>>
queueVars == <<shims, records, queue, events, excused>>

State == {"Opening", "Waiting", "Connecting", "Connected", "Ended", "Gone"}

IsOpen(st) == st # "Gone"
CanConnect(st) == st \in {"Waiting", "Ended"}

Word == {"Hello", "Waiting", "Connecting", "In", "Ended"}

QueueTypeOK ==
    /\ shim \in [Sessions -> {"waiting", "login", "in", "ended", "gone"}]
    /\ wire \in [Sessions -> {"down", "up", "closing"}]
    /\ up \in [Sessions -> Seq(Word)]
    /\ connect \subseteq Sessions
    /\ state \in [Sessions -> State]
    /\ link \subseteq Sessions
    /\ told \subseteq Sessions
    /\ arrived \in Seq(Sessions)
    /\ pending \in Seq(Sessions)
    /\ chosen \in Sessions \cup {NoSession}
    /\ queuePc \in {"look", "slot", "mark"}
    /\ chosen = NoSession <=> queuePc = "look"
    /\ events \in 0..MaxEvents
    /\ excused \subseteq Sessions

\* A folder was opened: its tabs wait, and are queued in their order.
QueueInit ==
    /\ shim = [s \in Sessions |-> "waiting"]
    /\ wire = [s \in Sessions |-> "down"]
    /\ up = [s \in Sessions |-> << >>]
    /\ connect = {}
    /\ state = [s \in Sessions |-> "Opening"]
    /\ link = {}
    /\ told = {}
    /\ arrived \in SetToSeqs(Sessions)
    /\ pending = << >>
    /\ chosen = NoSession
    /\ queuePc = "look"
    /\ events = 0
    /\ excused = {}

-----------------------------------------------------------------------------
(* The shims.                                                              *)

Say(s, m) == up' = [up EXCEPT ![s] = IF wire[s] = "up" THEN Append(@, m) ELSE @]

\* A Connect has an effect where ssh isn't running.
HearConnect(s) ==
    /\ s \in connect /\ wire[s] = "up"
    /\ connect' = connect \ {s}
    /\ IF shim[s] \in {"waiting", "ended"}
         THEN /\ shim' = [shim EXCEPT ![s] = "login"]
              /\ Say(s, "Connecting")
         ELSE UNCHANGED <<shim, up>>
    /\ UNCHANGED <<wire, records, queue, events, excused>>

\* The person presses R in the tab.
PressR(s) ==
    /\ events < MaxEvents
    /\ events' = events + 1
    /\ shim[s] \in {"waiting", "ended"}
    /\ shim' = [shim EXCEPT ![s] = "login"]
    /\ Say(s, "Connecting")
    /\ excused' = excused \cup {s}
    /\ UNCHANGED <<wire, connect, records, queue>>

LogIn(s) ==
    /\ shim[s] = "login"
    /\ shim' = [shim EXCEPT ![s] = "in"]
    /\ Say(s, "In")
    /\ excused' = excused \ ({s} \ connect)
    /\ UNCHANGED <<wire, connect, records, queue, events>>

\* The login is refused, or the connection drops or is closed.
SshExits(s) ==
    /\ shim[s] \in {"login", "in"}
    /\ shim' = [shim EXCEPT ![s] = "ended"]
    /\ Say(s, "Ended")
    /\ excused' = excused \ ({s} \ connect)
    /\ UNCHANGED <<wire, connect, records, queue, events>>

TabCloses(s) ==
    /\ shim[s] # "gone"
    /\ shim' = [shim EXCEPT ![s] = "gone"]
    /\ wire' = [wire EXCEPT ![s] = IF @ = "up" THEN "closing" ELSE @]
    /\ connect' = connect \ {s}
    /\ excused' = excused \ {s}
    /\ UNCHANGED <<up, records, queue, events>>

\* What the link says on a new connection.
Replay(st) == CASE st = "waiting" -> <<"Hello", "Waiting">>
                [] st = "login" -> <<"Hello", "Connecting">>
                [] st = "in" -> <<"Hello", "Connecting", "In">>
                [] st = "ended" -> <<"Hello", "Connecting", "Ended">>

\* RETRY (2 s) after the last one has ended: by then the queue's thread has
\* marked what it told.
LinkUp(s) ==
    /\ shim[s] # "gone"
    /\ wire[s] = "down"
    /\ ~(queuePc = "mark" /\ chosen = s)
    /\ wire' = [wire EXCEPT ![s] = "up"]
    /\ up' = [up EXCEPT ![s] = Replay(shim[s])]
    /\ UNCHANGED <<shim, connect, records, queue, events, excused>>

Break(s) ==
    /\ wire[s] = "up"
    /\ events < MaxEvents
    /\ events' = events + 1
    /\ wire' = [wire EXCEPT ![s] = "closing"]
    /\ connect' = connect \ {s}
    /\ excused' = IF shim[s] = "login" THEN excused \cup {s} ELSE excused
    /\ UNCHANGED <<shim, up, records, queue>>

-----------------------------------------------------------------------------
(* NativeTerm's records (handle_connection, Shared::apply).                *)

Applied(st, m) ==
    CASE m = "Hello" -> IF IsOpen(st) THEN st ELSE "Connecting"
      [] m = "Waiting" -> "Waiting"
      [] m = "Connecting" -> "Connecting"
      [] m = "In" -> "Connected"
      [] m = "Ended" -> "Ended"

\* A session that waits although it was told to connect is queued again.
Hear(s) ==
    /\ up[s] # << >>
    /\ up' = [up EXCEPT ![s] = Tail(@)]
    /\ LET m == Head(up[s])
       IN /\ state' = [state EXCEPT ![s] = Applied(@, m)]
          /\ link' = IF m = "Hello" THEN link \cup {s} ELSE link
          /\ told' = IF m = "Connecting" THEN told \ {s} ELSE told
          /\ arrived' = IF m = "Waiting" /\ s \in told
                          THEN Append(arrived, s) ELSE arrived
    /\ UNCHANGED <<shim, wire, connect, pending, chosen, queuePc, events,
                   excused>>

LinkEnds(s) ==
    /\ wire[s] = "closing" /\ up[s] = << >>
    /\ wire' = [wire EXCEPT ![s] = "down"]
    /\ link' = link \ {s}
    /\ state' = [state EXCEPT ![s] = "Gone"]
    /\ UNCHANGED <<shim, up, connect, told, queue, events, excused>>

\* "Connect all", or a reconnect whose time has come.
Ask(s) ==
    /\ events < MaxEvents
    /\ events' = events + 1
    /\ CanConnect(state[s])
    /\ arrived' = Append(arrived, s)
    /\ UNCHANGED <<shims, records, pending, chosen, queuePc, excused>>

-----------------------------------------------------------------------------
(* The queue's thread (connect_queue::run).                                *)

Ready(s) ==
    CASE ~IsOpen(state[s]) -> "Never"
      [] s \in link /\ CanConnect(state[s]) -> "Yes"
      [] state[s] \in {"Connecting", "Connected"} -> "Never"
      [] OTHER -> "NotYet"

\* The thread pauses (POLL, SPACING) before it looks for a session or a slot,
\* for longer than words take, either way; those of a shim that was told
\* and has to start ssh may take longer.
Heard == {s \in Sessions : up[s] = << >> /\ s \notin connect}

Connecting == {s \in Sessions : state[s] = "Connecting"}

\* What has arrived is taken, unless it is there already.
Taken == LET Add(line, s) == IF Contains(line, s) THEN line ELSE Append(line, s)
         IN FoldLeft(Add, pending, arrived)

\* A line without those that are dropped from it.
Kept(line, kept) ==
    LET Keep(l, s) == IF s \in kept THEN Append(l, s) ELSE l
    IN FoldLeft(Keep, << >>, line)

\* The first ready session is taken out; before it, the hopeless are dropped,
\* and those whose shim has been missing for too long.
QueueLook ==
    /\ queuePc = "look"
    /\ Sessions \ told \subseteq Heard
    /\ Taken # << >>
    /\ arrived' = << >>
    /\ LET first == CHOOSE n \in 1..Len(Taken) + 1 :
                      /\ n <= Len(Taken) => Ready(Taken[n]) = "Yes"
                      /\ \A i \in 1..n - 1 : Ready(Taken[i]) # "Yes"
           before == SubSeq(Taken, 1, first - 1)
           missing == {s \in ToSet(before) : Ready(s) = "NotYet"}
       IN /\ \E kept \in SUBSET missing :
                pending' = Kept(before, kept) \o SubSeq(Taken, first + 1, Len(Taken))
          /\ IF first <= Len(Taken)
               THEN chosen' = Taken[first] /\ queuePc' = "slot"
               ELSE UNCHANGED <<chosen, queuePc>>
    /\ UNCHANGED <<shims, records, events, excused>>

\* Wrong variant: a slow login holds the others back for as long as it takes.
QueueTellWaits ==
    /\ queuePc = "slot"
    /\ Cardinality(Connecting) < MaxConnecting
    /\ chosen \in link /\ wire[chosen] = "up" /\ chosen \in Heard
    /\ connect' = connect \cup {chosen}
    /\ queuePc' = "mark"
    /\ UNCHANGED <<shim, wire, up, records, arrived, pending, chosen,
                   events, excused>>

\* There is a slot, or SLOT_WAIT has passed.
QueueTell ==
    /\ queuePc = "slot"
    /\ chosen \in link /\ wire[chosen] = "up" /\ chosen \in Heard
    /\ connect' = connect \cup {chosen}
    /\ excused' = IF Cardinality(Connecting) < MaxConnecting
                     /\ CanConnect(state[chosen])
                    THEN excused ELSE excused \cup {chosen}
    /\ queuePc' = "mark"
    /\ UNCHANGED <<shim, wire, up, records, arrived, pending, chosen,
                   events>>

\* The link has gone meanwhile: it is put back in front, unless it has waited
\* too long.
QueuePutsBack ==
    /\ queuePc = "slot"
    /\ ~(chosen \in link /\ wire[chosen] = "up")
    /\ pending' \in {<<chosen>> \o pending, pending}
    /\ chosen' = NoSession
    /\ queuePc' = "look"
    /\ UNCHANGED <<shims, records, arrived, events, excused>>

\* Wrong variant: it counts only when its shim says so.
QueueMarkTold ==
    /\ queuePc = "mark"
    /\ told' = told \cup {chosen}
    /\ chosen' = NoSession
    /\ queuePc' = "look"
    /\ UNCHANGED <<shims, state, link, arrived, pending, events, excused>>

\* Wrong variant: it goes on with the same session.
QueueMarkKeeps ==
    /\ queuePc = "mark"
    /\ told' = told \cup {chosen}
    /\ state' = [state EXCEPT ![chosen] = IF CanConnect(@) THEN "Connecting" ELSE @]
    /\ queuePc' = "look"
    /\ UNCHANGED <<shims, link, arrived, pending, chosen, events, excused>>

\* It counts as connecting right away, not only when its shim says so.
QueueMark ==
    /\ queuePc = "mark"
    /\ told' = told \cup {chosen}
    /\ state' = [state EXCEPT ![chosen] = IF CanConnect(@) THEN "Connecting" ELSE @]
    /\ chosen' = NoSession
    /\ queuePc' = "look"
    /\ UNCHANGED <<shims, link, arrived, pending, events, excused>>

-----------------------------------------------------------------------------
QueueStep == QueueLook \/ QueueTell \/ QueuePutsBack \/ QueueMark

HearStep(s) == Hear(s) \/ LinkEnds(s)

QueueNext == \/ QueueStep
        \/ \E s \in Sessions : \/ HearStep(s) \/ HearConnect(s) \/ LinkUp(s)
                               \/ PressR(s)
                               \/ LogIn(s) \/ SshExits(s) \/ TabCloses(s)
                               \/ Break(s) \/ Ask(s)

QueueSpec == QueueInit /\ [][QueueNext]_queueVars

(* NativeTerm's threads and the shims' links run.  No login ever has to    *)
(* end: the person may leave it at its prompt.                             *)
QueueFairness ==
    /\ WF_queueVars(QueueLook) /\ WF_queueVars(QueueTell \/ QueuePutsBack) /\ WF_queueVars(QueueMark)
    /\ \A s \in Sessions : /\ WF_queueVars(HearStep(s))
                           /\ WF_queueVars(HearConnect(s))
                           /\ WF_queueVars(LinkUp(s))

QueueFairSpec == QueueSpec /\ QueueFairness

-----------------------------------------------------------------------------
(* Properties.                                                             *)

LoggingIn == {s \in Sessions : shim[s] = "login"}

\* No more than MaxConnecting sessions are at their logins at a time, beside
\* those let through after SLOT_WAIT, those the person connects in their tab
\* (even while the queue's thread waits for a slot for them), and those whose
\* link broke meanwhile.  (The queue marks a session it has told, however late
\* its words arrive.)
LoginsBounded == Cardinality(LoggingIn \ excused) <= MaxConnecting

InLine == ToSet(arrived) \cup ToSet(pending) \cup {chosen}

\* A session that is ready and in the queue has its turn, even if every login
\* before it hangs at its prompt - or it stops being ready by itself; and one
\* that was told to connect doesn't wait in its tab for ever: it is told again
\* if the Connect went down with its link.
EverySessionIsTold ==
    \A s \in Sessions :
        /\ s \in InLine /\ Ready(s) = "Yes"
              ~> ~(s \in InLine /\ Ready(s) = "Yes")
        /\ s \in told /\ shim[s] = "waiting"
              ~> shim[s] # "waiting"
=============================================================================
