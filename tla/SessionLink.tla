---------------------------- MODULE SessionLink ----------------------------
(***************************************************************************)
(* One session: the shim in its tab, ssh under the shim, NativeTerm's      *)
(* record of the session, and what joins them -                            *)
(*                                                                         *)
(*   - the link: a pipe connection the shim keeps alive in the background, *)
(*     with one FIFO of words each way (`up`, `down`), which breaks and    *)
(*     comes back, and on every connection starts with Hello and the       *)
(*     remembered words (link.rs);                                         *)
(*   - the login signal: a helper ssh runs once logged in, which sets an   *)
(*     event the shim waits on and tells NativeTerm over a connection of   *)
(*     its own (`signal`), racing the link;                                *)
(*   - the connection queue's thread, which tells the shim to connect and  *)
(*     then marks the session, with the list unlocked in between.          *)
(*                                                                         *)
(* NativeTerm may be killed and started again; the tab may be closed, or   *)
(* its shim killed, at any moment; the terminal may restore a tab closed   *)
(* with its window, and NativeTerm puts a waiting tab in its place.        *)
(*                                                                         *)
(* Timing the model takes from the code: RETRY (2 s, link.rs) passes       *)
(* between the end of a connection and the next one, so by then the old    *)
(* connection has been read to its end and a queue thread that was between *)
(* its two lines has finished them (the guard of Reconnect).               *)
(***************************************************************************)
EXTENDS Protocol

CONSTANTS
    MaxBreaks,        \* bound: times the link breaks with both ends alive
    MaxCrashes,       \* bound: times NativeTerm is killed and started again
    MaxActs,          \* bound: things the person does, in the tab or at
                      \* NativeTerm's window
    MaxRestores,      \* bound: times a closed tab is restored
    LoginCommand,     \* the host has a command to type after the login
    KillCode,         \* what an ssh ended by the shim exits with: "status"
                      \* on Windows (1), "connection" on Unix (no status: -1)
    LateSignals       \* FALSE: NativeTerm hears the login signal before what
                      \* it is of ends (the helper stays 300 ms for it, and
                      \* ssh stays for the helper); TRUE: any time later

ASSUME SessionLinkAssumption ==
    /\ MaxBreaks \in Nat
    /\ MaxCrashes \in Nat
    /\ MaxActs \in Nat
    /\ MaxRestores \in Nat
    /\ LoginCommand \in BOOLEAN
    /\ KillCode \in Code
    /\ LateSignals \in BOOLEAN

VARIABLES
    \* the shim
    pc,               \* where its main thread is
    attempt,          \* the number of this attempt, 1-based
    ssh,              \* "none", "login" (at its prompts), "in" (logged in),
                      \* or the Code it has exited with
    auth,             \* the login event
    reported,         \* this attempt's login has been said on the link
    inbox,            \* arrived, not yet taken by the main thread
    replay,           \* what the link says again on a new connection
    closing,          \* the console's close handler has run
    \* the pipe
    wire,             \* "down", "up", or "closing" (ended, not yet noticed)
    up, down,         \* words on the way to NativeTerm, and to the shim
    breaks,
    \* NativeTerm
    running,
    session,          \* its record of the session
    signal,           \* the helper's connection: "none", "sent", "found"
    queued,           \* the session is in the connection queue
    queuePc,          \* the queue's thread: "idle", "chosen", "sent"
    typing,           \* a thread is about to type the login command
    crashes,
    \* the person, and what the properties remember
    acts,             \* things the person did so far
    restores,
    asked,            \* somebody wanted this tab to connect (history)
    commandsTyped     \* login commands sent for this login (history)

shim == <<pc, attempt, ssh, auth, reported, inbox, replay, closing>>
pipe == <<wire, up, down, breaks>>
app == <<running, session, signal, queued, queuePc, typing, crashes>>
person == <<acts, restores, asked>>
vars == <<shim, pipe, app, person, commandsTyped>>

ShimPc == {"start",     \* the process runs, nothing said yet
           "startWait", \* the same, with --wait
           "begin",     \* at the top of run_host's loop
           "top",       \* supervising: about to look whether ssh has exited
           "asleep",    \* supervising: waiting for ssh, a word or the login
           "report",    \* about to say Exited
           "after",     \* after_exit: ssh isn't running, keys and words
           "gone"}

ShimTypeOK ==
    /\ pc \in ShimPc
    /\ attempt \in 0..MaxAttempt
    /\ ssh \in {"none", "login", "in"} \cup Code
    /\ auth \in BOOLEAN
    /\ reported \in BOOLEAN
    /\ inbox \in Seq(AppMessage)
    /\ replay \in Replay
    /\ closing \in BOOLEAN

PipeTypeOK ==
    /\ wire \in {"down", "up", "closing"}
    /\ up \in Seq(ShimMessage)
    /\ down \in Seq(AppMessage)
    /\ breaks \in 0..MaxBreaks

AppTypeOK ==
    /\ running \in BOOLEAN
    /\ session \in Session
    /\ signal \in {"none", "sent", "found"}
    /\ queued \in BOOLEAN
    /\ queuePc \in {"idle", "chosen", "sent"}
    /\ typing \in BOOLEAN
    /\ crashes \in 0..MaxCrashes

PersonTypeOK ==
    /\ acts \in 0..MaxActs
    /\ restores \in 0..MaxRestores
    /\ asked \in BOOLEAN
    /\ commandsTyped \in 0..2

TypeOK == ShimTypeOK /\ PipeTypeOK /\ AppTypeOK /\ PersonTypeOK

(* The tab was just asked for: to connect at once, or to wait - for its    *)
(* turn in the queue (a folder opened) or for the person (a restored tab). *)
Init ==
    /\ pc \in {"start", "startWait"}
    /\ attempt = 0
    /\ ssh = "none"
    /\ auth = FALSE
    /\ reported = FALSE
    /\ inbox = << >>
    /\ replay = NoReplay
    /\ closing = FALSE
    /\ wire = "down"
    /\ up = << >>
    /\ down = << >>
    /\ breaks = 0
    /\ running = TRUE
    /\ session = NewSession("Opening")
    /\ signal = "none"
    /\ queued \in BOOLEAN
    /\ queued => pc = "startWait"
    /\ queuePc = "idle"
    /\ typing = FALSE
    /\ crashes = 0
    /\ acts = 0
    /\ restores = 0
    /\ asked = (pc = "start" \/ queued)
    /\ commandsTyped = 0

-----------------------------------------------------------------------------
(* Saying a word: remembered first, then written if there is a connection. *)
Say(m) ==
    /\ replay' = Remember(replay, m)
    /\ up' = IF wire = "up" THEN Append(up, m) ELSE up

Quiet == UNCHANGED <<replay, up>>

\* The process is gone, and with it its end of the pipe.
Hangup == wire' = IF wire = "up" THEN "closing" ELSE wire

PersonActs == acts < MaxActs /\ acts' = acts + 1

Has(words, m) == \E i \in DOMAIN words : words[i] = m

SshRuns == ssh \in {"login", "in"}

\* What ends an ssh waits for the login signal to be heard (see LateSignals).
SignalSettled == LateSignals \/ signal = "none"

-----------------------------------------------------------------------------
(* The shim: run_host, supervise, after_exit.                              *)

Start ==
    /\ \/ pc = "startWait" /\ Say(Word("Waiting")) /\ pc' = "after"
       \/ pc = "start" /\ Quiet /\ pc' = "begin"
    /\ UNCHANGED <<attempt, ssh, auth, reported, inbox, closing, wire, down,
                   breaks, app, person, commandsTyped>>

\* The command to run before connecting says not to.
PreconnectStops ==
    /\ pc = "begin"
    /\ attempt < MaxAttempt
    /\ attempt' = attempt + 1
    /\ Say(Exited("connection"))
    /\ pc' = "after"
    /\ UNCHANGED <<ssh, auth, reported, inbox, closing, wire, down, breaks, app,
                   person, commandsTyped>>

\* The login event is reset, the attempt said, ssh started (or not: then its
\* end is said as -1).
Connect ==
    /\ pc = "begin"
    /\ attempt < MaxAttempt
    /\ attempt' = attempt + 1
    /\ auth' = FALSE
    /\ reported' = FALSE
    /\ Say(Connecting(attempt'))
    /\ \/ ssh' = "login" /\ pc' = "top"
       \/ ssh' = "connection" /\ pc' = "report"
    /\ commandsTyped' = 0
    /\ UNCHANGED <<inbox, closing, wire, down, breaks, app, person>>

Sleep ==
    /\ pc = "top"
    /\ ssh \notin Code
    /\ pc' = "asleep"
    /\ UNCHANGED <<attempt, ssh, auth, reported, inbox, replay, closing, pipe,
                   app, person, commandsTyped>>

\* Woken: what arrived is taken, the login is said if it is new, and then the
\* words are acted on in their order.
Wake ==
    /\ pc = "asleep"
    /\ ssh \in Code \/ inbox # << >> \/ (auth /\ ~reported)
    /\ Has(inbox, "Close") \/ Has(inbox, "Disconnect") => SignalSettled
    /\ inbox' = << >>
    /\ IF auth /\ ~reported THEN Say(Word("Authenticated")) ELSE Quiet
    /\ reported' = auth
    /\ IF Has(inbox, "Close")
         THEN pc' = "gone" /\ ssh' = "none" /\ Hangup
         ELSE /\ pc' = "top"
              /\ ssh' = IF Has(inbox, "Disconnect") /\ SshRuns THEN KillCode
                                                               ELSE ssh
              /\ UNCHANGED wire
    /\ UNCHANGED <<attempt, auth, closing, down, breaks, app, person,
                   commandsTyped>>

\* ssh has exited before the login. Another user name was given in the
\* password window: connected again at once, and no end is said.
Relogin ==
    /\ pc = "top"
    /\ ssh \in Code
    /\ ~auth
    /\ ssh' = "none"
    /\ pc' = "begin"
    /\ UNCHANGED <<attempt, auth, reported, inbox, replay, closing, pipe, app,
                   person, commandsTyped>>

\* ssh has exited; Unreachable goes before Exited, and only for a failed login.
SshEnded ==
    /\ pc = "top"
    /\ ssh \in Code
    /\ \/ Quiet
       \/ ClassifyExit(ssh, auth) = "LoginFailed" /\ Say(Word("Unreachable"))
    /\ pc' = "report"
    /\ UNCHANGED <<attempt, ssh, auth, reported, inbox, closing, wire, down,
                   breaks, app, person, commandsTyped>>

Report ==
    /\ pc = "report"
    /\ Say(Exited(ssh))
    /\ ssh' = "none"
    /\ pc' = "after"
    /\ UNCHANGED <<attempt, auth, reported, inbox, closing, wire, down, breaks,
                   app, person, commandsTyped>>

\* R (or Enter), and C, in the tab.
PressR ==
    /\ PersonActs
    /\ pc = "after"
    /\ pc' = "begin"
    /\ asked' = TRUE
    /\ UNCHANGED <<attempt, ssh, auth, reported, inbox, replay, closing, pipe,
                   app, restores, commandsTyped>>

PressC ==
    /\ PersonActs
    /\ pc = "after"
    /\ pc' = "gone"
    /\ Hangup
    /\ UNCHANGED <<attempt, ssh, auth, reported, inbox, replay, closing, up,
                   down, breaks, app, restores, asked, commandsTyped>>

\* What arrived is taken at once; the first Connect or Close decides, and the
\* words after it are gone with the batch. Text that arrives here is typed into
\* the same console, where the R or Enter, or the C, in it is such a key.
\*
\* Wrong variant: only Connect is followed where ssh isn't running.
DecidesConnectOnly(i) == inbox[i] = "Connect"

Decides(i) == inbox[i] \in {"Connect", "Close"}

Decision ==
    IF \E i \in DOMAIN inbox : Decides(i)
      THEN inbox[CHOOSE i \in DOMAIN inbox :
                     Decides(i) /\ \A j \in 1..(i - 1) : ~Decides(j)]
      ELSE "none"

FollowWords ==
    /\ pc = "after"
    /\ inbox # << >>
    /\ inbox' = << >>
    /\ \/ Decision = "Connect" /\ pc' = "begin" /\ UNCHANGED wire
       \/ Decision = "Close" /\ pc' = "gone" /\ Hangup
       \/ Decision = "none" /\ UNCHANGED <<pc, wire>>
       \/ /\ Decision = "none" /\ Has(inbox, "SendText")
          /\ \/ pc' = "begin" /\ UNCHANGED wire
             \/ pc' = "gone" /\ Hangup
    /\ UNCHANGED <<attempt, ssh, auth, reported, replay, closing, up, down,
                   breaks, app, person, commandsTyped>>

\* The console's handler says so when the tab is closed; the process ends
\* shortly after (Die), the main thread running on meanwhile.
TabClosing ==
    /\ PersonActs
    /\ pc # "gone"
    /\ ~closing
    /\ closing' = TRUE
    /\ Say(Word("Closing"))
    /\ UNCHANGED <<pc, attempt, ssh, auth, reported, inbox, wire, down, breaks,
                   app, restores, asked, commandsTyped>>

\* Closed, killed, or crashed; ssh goes with the console.
Die ==
    /\ pc # "gone"
    /\ SignalSettled
    /\ pc' = "gone"
    /\ ssh' = "none"
    /\ Hangup
    /\ UNCHANGED <<attempt, auth, reported, inbox, replay, closing, up, down,
                   breaks, app, person, commandsTyped>>

-----------------------------------------------------------------------------
(* ssh and the login helper it runs.                                       *)

\* The helper sets the event, then tells NativeTerm if it is there in time.
LogIn ==
    /\ ssh = "login"
    /\ signal = "none"
    /\ ssh' = "in"
    /\ auth' = TRUE
    /\ \/ UNCHANGED signal
       \/ running /\ signal' = "sent"
    /\ UNCHANGED <<pc, attempt, reported, inbox, replay, closing, pipe, running,
                   session, queued, queuePc, typing, crashes, person,
                   commandsTyped>>

SshExits ==
    /\ SshRuns
    /\ SignalSettled
    /\ ssh' \in Code
    /\ UNCHANGED <<pc, attempt, auth, reported, inbox, replay, closing, pipe,
                   app, person, commandsTyped>>

-----------------------------------------------------------------------------
(* The link's background thread, and the pipe.                             *)

\* Hello and the remembered words go out with the connection locked, so a
\* word said meanwhile comes after them.
Reconnect ==
    /\ pc # "gone"
    /\ running
    /\ wire = "down"
    /\ queuePc # "sent"
    /\ wire' = "up"
    /\ up' = <<Word("Hello")>> \o ReplayWords(replay)
    /\ down' = << >>
    /\ UNCHANGED <<shim, breaks, app, person, commandsTyped>>

Deliver ==
    /\ wire = "up"
    /\ down # << >>
    /\ pc # "gone"
    /\ inbox' = Append(inbox, Head(down))
    /\ down' = Tail(down)
    /\ UNCHANGED <<pc, attempt, ssh, auth, reported, replay, closing, wire, up,
                   breaks, app, person, commandsTyped>>

\* Words to the shim go down with it; NativeTerm reads its own to the end.
Break ==
    /\ wire = "up"
    /\ breaks < MaxBreaks
    /\ breaks' = breaks + 1
    /\ wire' = "closing"
    /\ down' = << >>
    /\ UNCHANGED <<shim, up, app, person, commandsTyped>>

-----------------------------------------------------------------------------
(* NativeTerm: handle_connection's loop, one thread per connection.        *)

\* Hello: this connection is the session's now. A tab just opened keeps its
\* state (its first word says what it does).
HearHello ==
    /\ running
    /\ up # << >>
    /\ Head(up) = Word("Hello")
    /\ up' = Tail(up)
    /\ session' = [session EXCEPT
           !.link = TRUE,
           !.state = IF ~IsOpen(@) \/ @ = "Detached" THEN "Connecting" ELSE @]
    /\ UNCHANGED <<shim, wire, down, breaks, running, signal, queued, queuePc,
                   typing, crashes, person, commandsTyped>>

\* The record after a word: told_to_connect ends with Connecting; a login
\* seen for the first time has its command typed.
Heard(s, m) ==
    LET t == Apply(IF m.type = "Connecting" THEN [s EXCEPT !.told = FALSE]
                                            ELSE s, m)
    IN [t EXCEPT !.typed = (t.state = "Connected")]

\* The login command isn't in state.db: a NativeTerm started again has none.
HasLoginCommand == LoginCommand /\ crashes = 0

NewLogin(s, m) ==
    HasLoginCommand /\ Heard(s, m).state = "Connected" /\ ~s.typed

\* Wrong variants: the word isn't told again; and what the code once did, which
\* takes every tab that waits on a connection that came back for one that was
\* told (docs/ARCHITECTURE.md, "A `Connect` can be lost").
LostConnectNever(s, m) == FALSE

LostConnectByState(s, m) == s.state = "Connecting" /\ m.type = "Waiting"

\* It says it is waiting although it was told to connect: told again.
LostConnect(s, m) == s.told /\ m.type = "Waiting"

\* After Closing the thread looks whether the tab's window goes too.
Hear ==
    /\ running
    /\ up # << >>
    /\ LET m == Head(up)
       IN /\ m # Word("Hello")
          /\ \/ session' = Heard(session, m)
             \/ /\ m = Word("Closing")
                /\ session' = [Heard(session, m) EXCEPT !.restorable = TRUE]
          /\ typing' = (typing \/ NewLogin(session, m))
          /\ queued' = (queued \/ LostConnect(session, m))
    /\ up' = Tail(up)
    /\ UNCHANGED <<shim, wire, down, breaks, running, signal, queuePc, crashes,
                   person, commandsTyped>>

LinkEnds ==
    /\ running
    /\ wire = "closing"
    /\ up = << >>
    /\ wire' = "down"
    /\ down' = << >>
    /\ session' = [session EXCEPT
           !.link = FALSE,
           !.state = IF @ # "Closed" THEN "Gone" ELSE @]
    /\ UNCHANGED <<shim, up, breaks, running, signal, queued, queuePc, typing,
                   crashes, person, commandsTyped>>

\* The helper's own connection: the session is looked up at its hello, and
\* changed when its word comes.
SignalHello ==
    /\ running
    /\ signal = "sent"
    /\ signal' = IF IsOpen(session.state) THEN "found" ELSE "none"
    /\ UNCHANGED <<shim, pipe, running, session, queued, queuePc, typing,
                   crashes, person, commandsTyped>>

SignalHeard ==
    /\ running
    /\ signal = "found"
    /\ signal' = "none"
    /\ session' = [session EXCEPT !.authenticated = TRUE, !.state = "Connected"]
    /\ UNCHANGED <<shim, pipe, running, queued, queuePc, typing, crashes, person,
                   commandsTyped>>

\* The login command goes the way of sent text: to a connected session with
\* a link; otherwise it is tried a few times and left.
TypeLoginCommand ==
    /\ running
    /\ typing
    /\ typing' = FALSE
    /\ IF session.link /\ session.state = "Connected" /\ wire = "up"
         THEN /\ down' = Append(down, "SendText")
              /\ commandsTyped' = IF commandsTyped < 2 THEN commandsTyped + 1
                                                       ELSE commandsTyped
         ELSE UNCHANGED <<down, commandsTyped>>
    /\ UNCHANGED <<shim, wire, up, breaks, running, session, signal, queued,
                   queuePc, crashes, person>>

-----------------------------------------------------------------------------
(* The connection queue's thread, for this session (its slots and its order *)
(* are another module's subject).                                          *)

\* A session with a link and no ssh is chosen; one that is closed, gone, or on
\* its way is dropped. SHIM_WAIT ends the wait for the others.
QueueChoose ==
    /\ running
    /\ queuePc = "idle"
    /\ queued
    /\ queued' = FALSE
    /\ queuePc' = IF session.link /\ CanConnect(session.state) THEN "chosen"
                                                               ELSE "idle"
    /\ \/ session.link /\ CanConnect(session.state)
       \/ ~IsOpen(session.state)
       \/ session.state \in {"Connecting", "Connected"}
    /\ UNCHANGED <<shim, pipe, running, session, signal, typing, crashes, person,
                   commandsTyped>>

QueueGivesUp ==
    /\ running
    /\ queuePc = "idle"
    /\ queued
    /\ session.state \in {"Opening", "Detached"}
    /\ queued' = FALSE
    /\ UNCHANGED <<shim, pipe, running, session, signal, queuePc, typing,
                   crashes, person, commandsTyped>>

\* The link is looked up again; without one the session keeps its place, but
\* where it has waited SHIM_WAIT.
QueueTell ==
    /\ running
    /\ queuePc = "chosen"
    /\ IF session.link /\ wire = "up"
         THEN /\ down' = Append(down, "Connect")
              /\ queuePc' = "sent"
              /\ UNCHANGED queued
         ELSE /\ queuePc' = "idle"
              /\ queued' \in BOOLEAN
              /\ UNCHANGED down
    /\ UNCHANGED <<shim, wire, up, breaks, running, session, signal, typing,
                   crashes, person, commandsTyped>>

QueueMark ==
    /\ running
    /\ queuePc = "sent"
    /\ queuePc' = "idle"
    /\ session' = [session EXCEPT
           !.told = TRUE,
           !.state = IF CanConnect(@) THEN "Connecting" ELSE @]
    /\ UNCHANGED <<shim, pipe, running, signal, queued, typing, crashes, person,
                   commandsTyped>>

-----------------------------------------------------------------------------
(* The person, at NativeTerm's window, where each command shows only when  *)
(* it applies.                                                             *)

Ask ==
    /\ running
    /\ PersonActs
    /\ UNCHANGED <<shim, wire, up, breaks, running, signal, queued, queuePc,
                   typing, crashes, restores, commandsTyped>>

\* Written to the pipe; where the connection has ended, lost.
Tell(m) == down' = IF wire = "up" THEN Append(down, m) ELSE down

AskConnect ==
    /\ Ask
    /\ session.link /\ CanConnect(session.state)
    /\ session' = [session EXCEPT !.told = TRUE]
    /\ asked' = TRUE
    /\ Tell("Connect")

AskDisconnect ==
    /\ Ask
    /\ session.link /\ session.state \in {"Connecting", "Connected"}
    /\ Tell("Disconnect")
    /\ UNCHANGED <<session, asked>>

\* Without a link that takes the word, the terminal is asked to close the tab
\* by its label: done, or not (the tab changed).
AskClose ==
    /\ Ask
    /\ IsOpen(session.state)
    /\ \/ session' = [session EXCEPT !.state = "Closed"]
       \/ ~(session.link /\ wire = "up") /\ UNCHANGED session
    /\ IF session.link THEN Tell("Close") ELSE UNCHANGED down
    /\ UNCHANGED asked

\* Wrong variant: any linked session is typed into.
AskSendTextUnguarded ==
    /\ Ask
    /\ session.link
    /\ Tell("SendText")
    /\ UNCHANGED <<session, asked>>

AskSendText ==
    /\ Ask
    /\ session.link /\ session.state = "Connected"
    /\ Tell("SendText")
    /\ UNCHANGED <<session, asked>>

-----------------------------------------------------------------------------
(* NativeTerm killed, and started again: state.db gives the open sessions  *)
(* back, and nothing else of the record survives.                          *)
Crash ==
    /\ running
    /\ crashes < MaxCrashes
    /\ crashes' = crashes + 1
    /\ running' = FALSE
    /\ wire' = "down"
    /\ up' = << >>
    /\ down' = << >>
    /\ session' = NewSession(IF IsOpen(session.state) THEN "Detached" ELSE "Gone")
    /\ signal' = "none"
    /\ queued' = FALSE
    /\ queuePc' = "idle"
    /\ typing' = FALSE
    /\ UNCHANGED <<shim, breaks, person, commandsTyped>>

\* A session whose shim has gone meanwhile isn't taken back.
Restart ==
    /\ ~running
    /\ running' = TRUE
    /\ session' = [session EXCEPT !.state = IF pc = "gone" THEN "Gone" ELSE @]
    /\ UNCHANGED <<shim, pipe, signal, queued, queuePc, typing, crashes, person,
                   commandsTyped>>

\* The grace period is over and the shim hasn't said hello.
GraceEnds ==
    /\ running
    /\ session.state = "Detached"
    /\ session' = [session EXCEPT !.state = "Gone"]
    /\ UNCHANGED <<shim, pipe, running, signal, queued, queuePc, typing, crashes,
                   person, commandsTyped>>

\* The terminal brings back a tab that was closed with its window, in the
\* same run: a new tab with --wait takes its place, of the same session. The
\* queue has dropped it long before.
RestoreTab ==
    /\ running
    /\ restores < MaxRestores
    /\ restores' = restores + 1
    /\ pc = "gone" /\ wire = "down" /\ ~queued /\ queuePc = "idle"
    /\ session.restorable /\ ~IsOpen(session.state)
    /\ session' = [session EXCEPT !.restorable = FALSE, !.state = "Opening"]
    /\ pc' = "startWait"
    /\ attempt' = 0
    /\ auth' = FALSE
    /\ reported' = FALSE
    /\ inbox' = << >>
    /\ replay' = NoReplay
    /\ closing' = FALSE
    /\ asked' = FALSE
    /\ UNCHANGED <<ssh, pipe, running, signal, queued, queuePc, typing, crashes,
                   acts, commandsTyped>>

-----------------------------------------------------------------------------
ShimStep == \/ Start \/ PreconnectStops \/ Connect \/ Sleep \/ Wake
            \/ Relogin \/ SshEnded \/ Report \/ FollowWords

HearStep == HearHello \/ Hear \/ LinkEnds

SignalStep == SignalHello \/ SignalHeard

QueueStep == QueueChoose \/ QueueTell \/ QueueMark

AskStep == AskConnect \/ AskDisconnect \/ AskClose \/ AskSendText

Environment == \/ PressR \/ PressC \/ TabClosing \/ Die \/ LogIn \/ SshExits
               \/ Break \/ QueueGivesUp \/ AskStep \/ Crash \/ GraceEnds
               \/ RestoreTab

Next == \/ ShimStep \/ Reconnect \/ Deliver \/ HearStep \/ SignalStep
        \/ TypeLoginCommand \/ QueueStep \/ Restart \/ Environment

Spec == Init /\ [][Next]_vars

(* The threads of both programs run, and the system ends a shim whose tab  *)
(* was closed; nothing is asked of the person, of ssh, or of what breaks.  *)
Fairness ==
    /\ WF_vars(ShimStep)
    /\ WF_vars(closing /\ Die)
    /\ WF_vars(Reconnect)
    /\ WF_vars(Deliver)
    /\ WF_vars(HearStep)
    /\ WF_vars(SignalStep)
    /\ WF_vars(QueueStep)
    /\ WF_vars(Restart)

FairSpec == Spec /\ Fairness

-----------------------------------------------------------------------------
(* Properties.                                                             *)

(* What the shim would say to a NativeTerm that connects now is where it   *)
(* is: the attempt under way and no outcome of an earlier one, its login   *)
(* once said and never one of an earlier attempt, the outcome once it is   *)
(* over.  A restarted NativeTerm knows nothing else (link.rs, remember).   *)
ReplayTellsTheTruth ==
    /\ pc \in {"top", "asleep", "report"} =>
           replay.connecting = attempt /\ replay.outcome = "none"
    /\ pc \in {"top", "asleep", "report", "after"} =>
           (replay.authenticated => auth)
    /\ pc = "after" => replay.outcome # "none"
    /\ pc \in {"top", "asleep"} => ~replay.unreachable
    /\ replay.authenticated => replay.connecting # 0

(* A record brought up to date from nothing but the replayed words.        *)
Retold(r) == LET words == ReplayWords(r)
                 tell[n \in 0..Len(words)] ==
                     IF n = 0 THEN NewSession("Connecting")
                              ELSE Apply(tell[n - 1], words[n])
             IN tell[Len(words)]

Quiescent == running /\ session.link /\ wire = "up" /\ up = << >>
                     /\ signal = "none" /\ pc # "gone"

(* With the connection up and nothing on its way, NativeTerm's record says *)
(* what the shim's memory says - whatever breaks, restarts and races of    *)
(* the login signal came before - or knows of the login already.  The      *)
(* exceptions are the states NativeTerm sets itself: Closed, and the       *)
(* Connecting of a session it has told to connect.                         *)
ViewMatchesReplay ==
    Quiescent /\ session.state # "Closed"
              /\ (replay.connecting # 0 \/ replay.outcome = "Waiting") =>
        \E r \in {replay} \cup
                 (IF auth THEN {Remember(replay, Word("Authenticated"))} ELSE {}) :
            /\ session.state = Retold(r).state
                 \/ (session.told /\ session.state = "Connecting")
            /\ replay.connecting # 0 =>
                   /\ session.attempt = Retold(r).attempt
                   /\ session.authenticated = Retold(r).authenticated

(* A session is never shown logged in, nor as dropped after a login (what  *)
(* is connected again automatically), for an attempt that didn't log in:   *)
(* once NativeTerm has heard of the shim's attempt, both need the login.   *)
NoFalseLogin ==
    /\ session.attempt = attempt /\ replay.connecting = attempt
    /\ wire = "up" /\ ~Has(up, Connecting(attempt))
    /\ session.state \in {"Connected", "Disconnected"}
    => auth

(* Nothing typed by NativeTerm waits for the first ssh of a tab while it   *)
(* shows its prompts.                                                      *)
NoTextAtFirstPrompt ==
    attempt = 1 /\ ssh = "login" => ~Has(inbox, "SendText")

(* A tab waits for its person: it connects only if somebody asked for it,  *)
(* here or in the tab, or by the folder it was opened with, and its first  *)
(* prompts are answered by nobody else.                                    *)
NothingUnasked == (attempt > 0 => asked) /\ NoTextAtFirstPrompt

(* The login command is typed once for a login.                            *)
LoginCommandOnce == commandsTyped <= 1

AtBound == pc = "begin" /\ attempt = MaxAttempt

(* A tab that was told to connect doesn't stay waiting: the word is told   *)
(* again however often the link breaks with it.                            *)
LostConnectIsToldAgain ==
    session.told /\ attempt = 0 ~>
        attempt > 0 \/ pc = "gone" \/ ~session.told

(* A session the queue has chosen is told to connect, if its link comes    *)
(* back.                                                                   *)
QueueKeepsItsPlace ==
    queuePc = "chosen" /\ attempt = 0 ~>
        session.told \/ attempt > 0 \/ pc = "gone" \/ session.state = "Closed"
            \/ crashes > 0

(* A Close that arrives ends the shim, unless a Connect came before it, and *)
(* a shim that has gone is known to be: no tab stays shown as open.        *)
CloseIsObeyed ==
    /\ (Has(inbox, "Close") /\ ~Has(inbox, "Connect")) ~> (pc = "gone" \/ AtBound)
    /\ pc = "gone" /\ session.link ~> ~IsOpen(session.state) \/ pc # "gone"
=============================================================================
