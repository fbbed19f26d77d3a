---------------------------- MODULE AutoReconnect ----------------------------
(***************************************************************************)
(* Automatic reconnects of one session (native-term-app,                   *)
(* schedule_reconnect): a drop after a login starts a timer; when it fires *)
(* and the session is as it was, the connection queue is asked to connect  *)
(* it; a reconnect that never reached the server starts the next timer; a  *)
(* refused login starts none; after Tries the session is given up.         *)
(*                                                                         *)
(* The count, the attempt the retries go on for and the age of the last    *)
(* login are NativeTerm's; what they follow are the shim's words, which    *)
(* are told again after each break of the link.  Several timers of one     *)
(* attempt may run, one per time its end was heard.                        *)
(*                                                                         *)
(* Timing the model takes from the code: a timer waits 3 s or longer and a *)
(* login is stable after 60 s, so by then a word on the way has arrived,   *)
(* and a Connect was taken by a shim free to take it (the guard Settled);  *)
(* the queue's wait for a slot, SLOT_WAIT, is shorter than those 60 s.     *)
(*                                                                         *)
(* Coarser than SessionLink: the shim's supervising is one step per thing  *)
(* that happens to ssh, and the person connects with the R key only.       *)
(***************************************************************************)
EXTENDS Protocol

CONSTANTS
    Tries,              \* AUTO_RECONNECT_TRIES (10 in the code)
    MaxBreaks,          \* bound: breaks of the link
    MaxActs,            \* bound: keys pressed and switches of the setting
    PreconnectMayStop   \* the host has a command to run before connecting,
                        \* and it may say not to

ASSUME AutoReconnectAssumption ==
    /\ Tries \in Nat \ {0}
    /\ MaxBreaks \in Nat
    /\ MaxActs \in Nat
    /\ PreconnectMayStop \in BOOLEAN

VARIABLES
    \* the shim and its link
    pc,              \* "after", "begin", "login", "in", "gone"
    attempt,         \* the number of its attempt
    replay,          \* what the link says again
    lastEnd,         \* how the last attempt really ended (history)
    wire, up, down,  \* as in SessionLink
    breaks,
    \* NativeTerm
    session,
    auto,            \* the setting
    autoRetries,     \* auto_retries
    retryAttempt,    \* retry_attempt, 0 for none
    age,             \* of connected_at: "none", "young", "stable" (>= 60 s)
    timers,          \* per attempt, how many timers wait
    queued, queuePc,
    \* the person, and what the properties remember
    acts,
    tried,           \* automatic Connects since the last stable connection,
                     \* key, break of the link or giving up (history)
    byTimer,         \* a Connect began the attempt, not a key (history)
    stopped,         \* a command run before connecting said not to (history)
    gaveUp           \* no more tries for the last end (history)

shim == <<pc, attempt, replay, lastEnd>>
pipe == <<wire, up, down, breaks>>
retries == <<auto, autoRetries, retryAttempt, age, timers>>
queue == <<queued, queuePc>>
history == <<acts, tried, byTimer, stopped, gaveUp>>
vars == <<shim, pipe, session, retries, queue, history>>

\* No more timers than ends heard: one, and one more for each break and each key.
MaxTimers == MaxBreaks + MaxActs + 1

TypeOK ==
    /\ pc \in {"after", "begin", "login", "in", "gone"}
    /\ attempt \in 0..MaxAttempt
    /\ replay \in Replay
    /\ lastEnd \in {"none", "status", "refused", "unreachable", "dropped",
                    "stopped"}
    /\ wire \in {"down", "up", "closing"}
    /\ up \in Seq(ShimMessage)
    /\ down \in Nat
    /\ breaks \in 0..MaxBreaks
    /\ session \in Session
    /\ auto \in BOOLEAN
    /\ autoRetries \in 0..Tries
    /\ retryAttempt \in 0..(MaxAttempt + 1)
    /\ age \in {"none", "young", "stable"}
    /\ timers \in [0..MaxAttempt -> 0..MaxTimers]
    /\ queued \in BOOLEAN
    /\ queuePc \in {"idle", "chosen"}
    /\ acts \in 0..MaxActs
    /\ tried \in Nat
    /\ byTimer \in BOOLEAN /\ stopped \in BOOLEAN /\ gaveUp \in BOOLEAN

\* A tab with a first connection under way.
Init ==
    /\ pc = "begin"
    /\ attempt = 0
    /\ replay = NoReplay
    /\ lastEnd = "none"
    /\ wire = "up"
    /\ up = <<Word("Hello")>>
    /\ down = 0
    /\ breaks = 0
    /\ session = NewSession("Opening")
    /\ auto \in BOOLEAN
    /\ autoRetries = 0
    /\ retryAttempt = 0
    /\ age = "none"
    /\ timers = [a \in 0..MaxAttempt |-> 0]
    /\ queued = FALSE
    /\ queuePc = "idle"
    /\ acts = 0
    /\ tried = 0
    /\ byTimer = FALSE
    /\ stopped = FALSE
    /\ gaveUp = FALSE

-----------------------------------------------------------------------------
(* The shim.                                                               *)

Say(m) ==
    /\ replay' = Remember(replay, m)
    /\ up' = IF wire = "up" THEN Append(up, m) ELSE up

\* Unreachable, and then Exited.
SayUnreached ==
    /\ replay' = [replay EXCEPT !.unreachable = TRUE, !.outcome = "connection"]
    /\ up' = IF wire = "up"
               THEN up \o <<Word("Unreachable"), Exited("connection")>>
               ELSE up

PreconnectStops ==
    /\ PreconnectMayStop
    /\ pc = "begin"
    /\ attempt < MaxAttempt
    /\ attempt' = attempt + 1
    /\ Say(Exited("connection"))
    /\ lastEnd' = "stopped"
    /\ stopped' = TRUE
    /\ pc' = "after"
    /\ UNCHANGED <<wire, down, breaks, session, retries, queue, acts, tried,
                   byTimer, gaveUp>>

Connect ==
    /\ pc = "begin"
    /\ attempt < MaxAttempt
    /\ attempt' = attempt + 1
    /\ Say(Connecting(attempt'))
    /\ pc' = "login"
    /\ UNCHANGED <<lastEnd, wire, down, breaks, session, retries, queue, history>>

LogIn ==
    /\ pc = "login"
    /\ Say(Word("Authenticated"))
    /\ pc' = "in"
    /\ UNCHANGED <<attempt, lastEnd, wire, down, breaks, session, retries, queue,
                   history>>

\* ssh exits: before the login it was refused, or the server was never
\* reached; after it the connection dropped, or the remote session ended.
SshEnds ==
    /\ pc \in {"login", "in"}
    /\ pc' = "after"
    /\ \/ Say(Exited("status")) /\ lastEnd' = "status"
       \/ pc = "login" /\ Say(Exited("connection")) /\ lastEnd' = "refused"
       \/ pc = "login" /\ SayUnreached /\ lastEnd' = "unreachable"
       \/ pc = "in" /\ Say(Exited("connection")) /\ lastEnd' = "dropped"
    /\ UNCHANGED <<attempt, wire, down, breaks, session, retries, queue, history>>

\* The only word of interest is Connect (down counts them); where ssh runs it
\* does nothing.
TakeConnect ==
    /\ wire = "up"
    /\ down > 0
    /\ pc \in {"after", "login", "in"}
    /\ down' = down - 1
    /\ IF pc = "after"
         THEN pc' = "begin" /\ byTimer' = TRUE
         ELSE UNCHANGED <<pc, byTimer>>
    /\ UNCHANGED <<attempt, replay, lastEnd, wire, up, breaks, session, retries,
                   queue, acts, tried, stopped, gaveUp>>

PressR ==
    /\ acts < MaxActs
    /\ acts' = acts + 1
    /\ pc = "after"
    /\ pc' = "begin"
    /\ tried' = 0
    /\ byTimer' = FALSE
    /\ UNCHANGED <<attempt, replay, lastEnd, pipe, session, retries, queue,
                   stopped, gaveUp>>

\* The tab is closed.
Die ==
    /\ pc # "gone"
    /\ pc' = "gone"
    /\ wire' = IF wire = "up" THEN "closing" ELSE wire
    /\ UNCHANGED <<attempt, replay, lastEnd, up, down, breaks, session, retries,
                   queue, history>>

-----------------------------------------------------------------------------
(* The pipe.                                                               *)

Break ==
    /\ wire = "up"
    /\ breaks < MaxBreaks
    /\ breaks' = breaks + 1
    /\ wire' = "closing"
    /\ down' = 0
    /\ tried' = 0
    /\ UNCHANGED <<shim, up, session, retries, queue, acts, byTimer, stopped,
                   gaveUp>>

Reconnect ==
    /\ pc # "gone"
    /\ wire = "down"
    /\ wire' = "up"
    /\ up' = <<Word("Hello")>> \o ReplayWords(replay)
    /\ UNCHANGED <<shim, down, breaks, session, retries, queue, history>>

-----------------------------------------------------------------------------
(* NativeTerm: the words, and what they schedule.                          *)

\* This attempt was an automatic reconnect that never reached the server.
Retrying(s) == s.state = "Unreachable" /\ retryAttempt = s.attempt

\* Wrong variant: what the code once did - the first reconnect that doesn't
\* reach the server ends the retries (docs/ARCHITECTURE.md, "Auto-reconnect").
WhyDropOnly(s, m) ==
    IF m.type = "Exited" /\ s.state = "Disconnected" THEN "AfterDrop" ELSE "no"

\* Why the record s, after the word m, is to be connected again.
Why(s, m) ==
    CASE m.type = "Exited" /\ s.state = "Disconnected" -> "AfterDrop"
      [] m.type = "Exited" /\ Retrying(s) -> "AfterFailedRetry"
      [] OTHER -> "no"

\* Wrong variant: the age of the last login counts for every try.
NextRetryAged(why) == IF age = "stable" THEN 1 ELSE autoRetries + 1

NextRetry(why) ==
    IF why = "AfterDrop" /\ age = "stable" THEN 1 ELSE autoRetries + 1

\* Wrong variant: one try too many.
TooManyLate(n) == n > Tries + 1

TooMany(n) == n > Tries

\* One step: the record and the count are changed under two locks, but by one
\* thread, and a timer in between changes neither.
Schedule(a, why) ==
    IF auto /\ why # "no"
      THEN IF TooMany(NextRetry(why))
             THEN /\ autoRetries' = 0
                  /\ retryAttempt' = 0
                  /\ tried' = 0
                  /\ gaveUp' = TRUE
                  /\ UNCHANGED timers
             ELSE /\ autoRetries' = NextRetry(why)
                  /\ timers' = [timers EXCEPT ![a] = @ + 1]
                  /\ gaveUp' = FALSE
                  /\ UNCHANGED <<retryAttempt, tried>>
      ELSE UNCHANGED <<autoRetries, retryAttempt, timers, tried, gaveUp>>

Hear ==
    /\ up # << >>
    /\ up' = Tail(up)
    /\ LET m == Head(up)
           s == Apply([session EXCEPT !.told = @ /\ m.type # "Connecting"], m)
       IN IF m = Word("Hello")
            THEN /\ session' = [session EXCEPT
                        !.link = TRUE,
                        !.state = IF IsOpen(@) THEN @ ELSE "Connecting"]
                 /\ UNCHANGED <<age, autoRetries, retryAttempt, timers, tried,
                                gaveUp>>
            ELSE /\ session' = s
                 /\ age' = IF m.type = "Authenticated" THEN "young" ELSE age
                 /\ Schedule(s.attempt, Why(s, m))
    /\ UNCHANGED <<shim, wire, down, breaks, auto, queue, acts, byTimer,
                   stopped>>

LinkEnds ==
    /\ wire = "closing"
    /\ up = << >>
    /\ wire' = "down"
    /\ session' = [session EXCEPT !.link = FALSE, !.state = "Gone"]
    /\ UNCHANGED <<shim, up, down, breaks, retries, queue, history>>

Settled == up = << >> /\ (down = 0 \/ pc = "begin" \/ wire # "up")

\* Sixty seconds since the login was heard; where it still stands, the
\* connection is stable.
Age ==
    /\ Settled /\ queuePc = "idle"
    /\ age = "young"
    /\ age' = "stable"
    /\ tried' = IF pc = "in" THEN 0 ELSE tried
    /\ UNCHANGED <<shim, pipe, session, auto, autoRetries, retryAttempt, timers,
                   queue, acts, byTimer, stopped, gaveUp>>

Still(a) ==
    /\ session.state = "Disconnected" \/ Retrying(session)
    /\ session.attempt = a
    /\ session.link

TimerFires ==
    \E a \in 0..MaxAttempt :
        /\ timers[a] > 0
        /\ Settled
        /\ timers' = [timers EXCEPT ![a] = @ - 1]
        /\ retryAttempt' = IF Still(a) THEN a + 1 ELSE retryAttempt
        /\ queued' = (queued \/ (Still(a) /\ auto))
        /\ UNCHANGED <<shim, pipe, session, auto, autoRetries, age, queuePc,
                       history>>

\* The queue: as in SessionLink, the mark taken together with the word. Between
\* the choice and the word it waits for a slot, up to SLOT_WAIT.
QueueChoose ==
    /\ queuePc = "idle"
    /\ queued
    /\ queued' = FALSE
    /\ IF session.link /\ CanConnect(session.state)
         THEN queuePc' = "chosen"
         ELSE /\ ~IsOpen(session.state)
                     \/ session.state \in {"Connecting", "Connected"}
              /\ UNCHANGED queuePc
    /\ UNCHANGED <<shim, pipe, session, retries, history>>

QueueTell ==
    /\ queuePc = "chosen"
    /\ queuePc' = "idle"
    /\ IF session.link /\ wire = "up"
         THEN /\ down' = down + 1
              /\ session' = [session EXCEPT
                     !.told = TRUE,
                     !.state = IF CanConnect(@) THEN "Connecting" ELSE @]
              /\ tried' = tried + 1
              /\ UNCHANGED queued
         ELSE /\ queued' \in BOOLEAN
              /\ UNCHANGED <<down, session, tried>>
    /\ UNCHANGED <<shim, wire, up, breaks, retries, acts, byTimer, stopped,
                   gaveUp>>

Switch ==
    /\ acts < MaxActs
    /\ acts' = acts + 1
    /\ auto' = ~auto
    /\ UNCHANGED <<shim, pipe, session, autoRetries, retryAttempt, age, timers,
                   queue, tried, byTimer, stopped, gaveUp>>

-----------------------------------------------------------------------------
ShimStep == Connect \/ PreconnectStops \/ TakeConnect

QueueStep == QueueChoose \/ QueueTell

Next == \/ ShimStep \/ LogIn \/ SshEnds \/ PressR \/ Die
        \/ Break \/ Reconnect
        \/ Hear \/ LinkEnds \/ Age \/ TimerFires
        \/ QueueStep \/ Switch

Spec == Init /\ [][Next]_vars

(* The threads of both programs run, and a timer fires in the end.         *)
Fairness ==
    /\ WF_vars(ShimStep)
    /\ WF_vars(Reconnect)
    /\ WF_vars(Hear)
    /\ WF_vars(LinkEnds)
    /\ WF_vars(TimerFires)
    /\ WF_vars(QueueStep)

FairSpec == Spec /\ Fairness

-----------------------------------------------------------------------------
(* Properties.                                                             *)

(* At most Tries automatic reconnects follow one another (docs/            *)
(* ARCHITECTURE.md, "Auto-reconnect": "at most 10 times"), however they    *)
(* end, as long as no command stops one before it connects.  One more can  *)
(* be left over for each key pressed while one waits in the queue, and for *)
(* each break, which has an end heard twice and so leaves a timer running  *)
(* when the session is given up.                                           *)
RetriesBoundedUnlessStopped == stopped \/ tried <= Tries + acts + breaks

(* The timer of a session asks for a connection.                           *)
Fires == /\ \E a \in 0..MaxAttempt : timers'[a] < timers[a]
         /\ queued' /\ ~queued

(* With nothing on its way, a timer asks for a connection only where the   *)
(* last attempt really dropped after its login, or never reached the       *)
(* server (or was stopped before it): never where the login was refused    *)
(* or the remote session ended, whatever was heard twice or late.          *)
OnlyDropsAreFollowed ==
    [][Fires /\ pc = "after" /\ wire = "up" /\ up = << >> =>
           lastEnd \in {"dropped", "unreachable", "stopped"}]_vars

(* A session known to have been refused isn't told to connect: here every  *)
(* word of the queue is an automatic one.                                  *)
RefusedIsNotRetried == [][down' > down => session.state # "LoginFailed"]_vars

LeftAlone == [](auto /\ acts = 0 /\ ~stopped)

(* Left alone, with the setting on, a dropped session is connected again   *)
(* or given up, though timers fire while the link is down and Connects are *)
(* lost with it. The same for an automatic reconnect that didn't reach the *)
(* server, while the link holds. (Where it breaks between the timer and    *)
(* the queue's word, retry_attempt is one ahead of the attempt told again, *)
(* and the retries end there.)                                             *)
EndsAreFollowedUp ==
    LeftAlone =>
        /\ pc = "after" /\ lastEnd = "dropped" ~> pc # "after" \/ gaveUp
        /\ pc = "after" /\ lastEnd = "unreachable" /\ byTimer /\ breaks = 0
              ~> pc # "after" \/ gaveUp \/ breaks > 0
=============================================================================
