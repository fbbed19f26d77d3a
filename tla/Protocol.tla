------------------------------ MODULE Protocol ------------------------------
(***************************************************************************)
(* The words a tab's helper (the shim) and NativeTerm exchange, and the    *)
(* pure functions both ends apply to them: what a session's record becomes *)
(* when a word arrives (native-term-app), what the shim keeps of a word it *)
(* sends (native-term-shim), and the words it says again on every new      *)
(* connection.  The modules of the live link and of the reconnects are     *)
(* built from these.                                                       *)
(***************************************************************************)
EXTENDS Naturals, Sequences

CONSTANT MaxAttempt          \* bound: connection attempts of one shim

ASSUME MaxAttemptAssumption == MaxAttempt \in Nat \ {0}

Attempt == 1..MaxAttempt

(* ssh exits 255 or -1 when the connection fails ("connection"), and with  *)
(* the remote session's own status otherwise ("status").                   *)
Code == {"connection", "status"}

State == {"Opening", "Detached", "Waiting", "Connecting", "Connected",
          "LoginFailed", "Unreachable", "Disconnected", "Ended",
          "Failed", "Gone", "Closed"}

IsOpen(state) == state \notin {"Failed", "Gone", "Closed"}

\* ssh isn't running: connecting is possible.
CanConnect(state) ==
    state \in {"Waiting", "LoginFailed", "Unreachable", "Disconnected", "Ended"}

ClassifyExit(code, authenticated) ==
    IF code = "status" THEN "Closed"
    ELSE IF authenticated THEN "Disconnected" ELSE "LoginFailed"

-----------------------------------------------------------------------------
(* Shim to NativeTerm.  Left out: the words that carry text only (Screen,  *)
(* Specials, Logging, LogonNote, PasswordRefused, Quiet, Heard), which     *)
(* change neither a session's state nor what tells its ends apart.         *)

Word(type) == [type |-> type]
Connecting(n) == [type |-> "Connecting", attempt |-> n]
Exited(code) == [type |-> "Exited", code |-> code]

ShimMessage ==
    [type : {"Hello", "Waiting", "Authenticated", "Unreachable", "Closing"}]
        \cup [type : {"Connecting"}, attempt : Attempt]
        \cup [type : {"Exited"}, code : Code]

(* NativeTerm to the shim.                                                 *)
AppMessage == {"Connect", "Disconnect", "Close", "SendText"}

-----------------------------------------------------------------------------
(* NativeTerm's record of a session.                                       *)
Session ==
    [state : State,
     authenticated : BOOLEAN,
     unreachable : BOOLEAN,
     attempt : 0..MaxAttempt,
     told : BOOLEAN,           \* told_to_connect
     typed : BOOLEAN,          \* login_typed
     restorable : BOOLEAN,     \* closed together with its window
     link : BOOLEAN]           \* there is a connection to send to

NewSession(state) ==
    [state |-> state, authenticated |-> FALSE, unreachable |-> FALSE,
     attempt |-> 0, told |-> FALSE, typed |-> FALSE, restorable |-> FALSE,
     link |-> FALSE]

\* The state an Exited leaves, from what was heard of the attempt before it.
Outcome(code, authenticated, unreachable) ==
    CASE ClassifyExit(code, authenticated) = "LoginFailed" ->
             (IF unreachable THEN "Unreachable" ELSE "LoginFailed")
      [] ClassifyExit(code, authenticated) = "Disconnected" -> "Disconnected"
      [] OTHER -> "Ended"

\* Wrong variant: the last attempt's login still counts in the next one.
ApplyKeepsLogin(s, m) ==
    CASE m.type = "Connecting" ->
             [s EXCEPT !.unreachable = FALSE, !.attempt = m.attempt,
                       !.state = "Connecting"]
      [] m.type = "Waiting" -> [s EXCEPT !.state = "Waiting"]
      [] m.type = "Authenticated" ->
             [s EXCEPT !.authenticated = TRUE, !.state = "Connected"]
      [] m.type = "Unreachable" -> [s EXCEPT !.unreachable = TRUE]
      [] m.type = "Exited" ->
             [s EXCEPT !.state = Outcome(m.code, s.authenticated, s.unreachable)]
      [] m.type = "Closing" -> [s EXCEPT !.state = "Closed"]
      [] OTHER -> s

Apply(s, m) ==
    CASE m.type = "Waiting" -> [s EXCEPT !.state = "Waiting"]
      [] m.type = "Connecting" ->
             [s EXCEPT !.authenticated = FALSE, !.unreachable = FALSE,
                       !.attempt = m.attempt, !.state = "Connecting"]
      [] m.type = "Authenticated" ->
             [s EXCEPT !.authenticated = TRUE, !.state = "Connected"]
      [] m.type = "Unreachable" -> [s EXCEPT !.unreachable = TRUE]
      [] m.type = "Exited" ->
             [s EXCEPT !.state = Outcome(m.code, s.authenticated, s.unreachable)]
      [] m.type = "Closing" -> [s EXCEPT !.state = "Closed"]
      [] OTHER -> s

-----------------------------------------------------------------------------
(* What the shim keeps, to say it again on a new connection.               *)
Replay ==
    [connecting : 0..MaxAttempt,      \* 0: no attempt to tell of
     authenticated : BOOLEAN,
     unreachable : BOOLEAN,
     outcome : {"none", "Waiting"} \cup Code]

NoReplay == [connecting |-> 0, authenticated |-> FALSE,
             unreachable |-> FALSE, outcome |-> "none"]

\* Wrong variant: a new attempt doesn't wipe what was kept of the last one.
RememberAdds(r, m) ==
    CASE m.type = "Connecting" -> [r EXCEPT !.connecting = m.attempt]
      [] m.type = "Waiting" -> [NoReplay EXCEPT !.outcome = "Waiting"]
      [] m.type = "Exited" -> [r EXCEPT !.outcome = m.code]
      [] m.type = "Authenticated" -> [r EXCEPT !.authenticated = TRUE]
      [] m.type = "Unreachable" -> [r EXCEPT !.unreachable = TRUE]
      [] OTHER -> r

Remember(r, m) ==
    CASE m.type = "Connecting" -> [NoReplay EXCEPT !.connecting = m.attempt]
      [] m.type = "Waiting" -> [NoReplay EXCEPT !.outcome = "Waiting"]
      [] m.type = "Exited" -> [r EXCEPT !.outcome = m.code]
      [] m.type = "Authenticated" -> [r EXCEPT !.authenticated = TRUE]
      [] m.type = "Unreachable" -> [r EXCEPT !.unreachable = TRUE]
      [] OTHER -> r

If(condition, m) == IF condition THEN <<m>> ELSE << >>

\* Wrong variant: the outcome before the login (docs/ARCHITECTURE.md, "NativeTerm
\* restarts", says the first version did this).
ReplayWordsOutcomeFirst(r) ==
    If(r.connecting # 0, Connecting(r.connecting))
        \o If(r.outcome = "Waiting", Word("Waiting"))
        \o If(r.outcome \in Code, Exited(r.outcome))
        \o If(r.authenticated, Word("Authenticated"))
        \o If(r.unreachable, Word("Unreachable"))

\* Wrong variant: an attempt is told of although none has begun.
ReplayWordsAlwaysConnecting(r) ==
    <<Connecting(r.connecting)>>
        \o If(r.authenticated, Word("Authenticated"))
        \o If(r.outcome = "Waiting", Word("Waiting"))
        \o If(r.outcome \in Code, Exited(r.outcome))

\* In this order: the attempt, its login, that the server was never reached,
\* its outcome.
ReplayWords(r) ==
    If(r.connecting # 0, Connecting(r.connecting))
        \o If(r.authenticated, Word("Authenticated"))
        \o If(r.unreachable, Word("Unreachable"))
        \o If(r.outcome = "Waiting", Word("Waiting"))
        \o If(r.outcome \in Code, Exited(r.outcome))
=============================================================================
