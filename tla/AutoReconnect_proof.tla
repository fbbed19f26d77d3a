------------------------- MODULE AutoReconnect_proof -------------------------
(***************************************************************************)
(* Proofs about the automatic reconnects of one session (AutoReconnect), for *)
(* any number of breaks, keys, attempts and tries: the types, that only    *)
(* drops are followed, and that the reconnects are bounded.                *)
(***************************************************************************)
EXTENDS AutoReconnect, Protocol_proof, FiniteSetTheorems, WellFoundedInduction,
        TLAPS

\* The types, but for the number of timers.
RetryTypes ==
    /\ pc \in {"after", "begin", "login", "in", "gone"}
    /\ attempt \in 0..MaxAttempt
    /\ replay \in Replay
    /\ lastEnd \in {"none", "status", "refused", "unreachable", "dropped",
                    "stopped"}
    /\ wire \in {"down", "up", "closing"}
    /\ up \in Seq(ShimMessage)
    /\ down \in Nat
    /\ breaks \in 0..MaxBreaks
    /\ session \in Session
    /\ auto \in BOOLEAN
    /\ autoRetries \in 0..Tries
    /\ retryAttempt \in 0..(MaxAttempt + 1)
    /\ age \in {"none", "young", "stable"}
    /\ timers \in [0..MaxAttempt -> Nat]
    /\ queued \in BOOLEAN
    /\ queuePc \in {"idle", "chosen"}
    /\ acts \in 0..MaxActs
    /\ tried \in Nat
    /\ byTimer \in BOOLEAN /\ stopped \in BOOLEAN /\ gaveUp \in BOOLEAN

\* What a word that is said leaves, in the link and in the shim's memory.
LEMMA RetrySay ==
    ASSUME RetryTypes, NEW m \in ShimMessage, Say(m)
    PROVE  /\ replay' = Remember(replay, m)
           /\ up' = IF wire = "up" THEN Append(up, m) ELSE up
           /\ replay' \in Replay /\ up' \in Seq(ShimMessage)
<1>1. replay' = Remember(replay, m) /\ up' = IF wire = "up" THEN Append(up, m) ELSE up
  BY DEF Say
<1>2. replay \in Replay /\ up \in Seq(ShimMessage)
  BY DEF RetryTypes
<1> QED BY <1>1, <1>2, RememberType

\* What a word does to each field of the record.
LEMMA ApplyFields ==
    ASSUME NEW s \in Session, NEW m \in ShimMessage
    PROVE  /\ Apply(s, m).authenticated =
                IF m.type = "Connecting" THEN FALSE
                ELSE IF m.type = "Authenticated" THEN TRUE ELSE s.authenticated
           /\ Apply(s, m).unreachable =
                IF m.type = "Connecting" THEN FALSE
                ELSE IF m.type = "Unreachable" THEN TRUE ELSE s.unreachable
           /\ Apply(s, m).attempt = IF m.type = "Connecting" THEN m.attempt ELSE s.attempt
           /\ m.type = "Exited" =>
                Apply(s, m).state = Outcome(m.code, s.authenticated, s.unreachable)
<1>1. CASE m.type = "Waiting"
  BY <1>1 DEF Apply, Session
<1>2. CASE m.type = "Connecting"
  BY <1>2 DEF Apply, Session
<1>3. CASE m.type = "Authenticated"
  BY <1>3 DEF Apply, Session
<1>4. CASE m.type = "Unreachable"
  BY <1>4 DEF Apply, Session
<1>5. CASE m.type = "Exited"
  BY <1>5 DEF Apply, Session
<1>6. CASE m.type = "Closing"
  BY <1>6 DEF Apply, Session
<1>7. CASE m.type \notin {"Waiting", "Connecting", "Authenticated", "Unreachable", "Exited",
                          "Closing"}
  BY <1>7 DEF Apply
<1> QED BY <1>1, <1>2, <1>3, <1>4, <1>5, <1>6, <1>7

\* The record t after s has heard the word m, and the reconnects' own handling of it.
HeardBy(s, m, t) ==
    /\ t \in Session
    /\ t.authenticated = IF m.type = "Connecting" THEN FALSE
                         ELSE IF m.type = "Authenticated" THEN TRUE ELSE s.authenticated
    /\ t.unreachable = IF m.type = "Connecting" THEN FALSE
                       ELSE IF m.type = "Unreachable" THEN TRUE ELSE s.unreachable
    /\ m.type = "Exited" => t.state = Outcome(m.code, s.authenticated, s.unreachable)

\* A word is applied, and its Connecting takes the mark that the tab was told.
LEMMA RetryApply ==
    ASSUME NEW s \in Session, NEW m \in ShimMessage
    PROVE  HeardBy(s, m, Apply([s EXCEPT !.told = @ /\ m.type # "Connecting"], m))
<1> DEFINE q == [s EXCEPT !.told = @ /\ m.type # "Connecting"]
<1>1. q \in Session
  BY DEF Session
<1>2. q.authenticated = s.authenticated /\ q.unreachable = s.unreachable
  BY DEF Session
<1> HIDE DEF q
<1>4. Apply(q, m) \in Session
  BY <1>1, ApplyType
<1>5. HeardBy(s, m, Apply(q, m))
  BY <1>1, <1>2, <1>4, ApplyFields DEF HeardBy
<1> QED BY <1>5 DEF q

\* A reconnect that is scheduled after a word: one timer more, one retry more -
\* or the first again, after a drop of a connection that was stable.
Scheduled(m) ==
    /\ m.type = "Exited"
    /\ \E a \in 0..MaxAttempt : timers' = [timers EXCEPT ![a] = @ + 1]
    /\ \/ autoRetries' = autoRetries + 1
       \/ autoRetries' = 1 /\ age = "stable" /\ session.authenticated
    /\ autoRetries' \in 0..Tries
    /\ UNCHANGED <<retryAttempt, tried>>

\* The session is given up.
GivenUp(m) ==
    /\ m.type = "Exited"
    /\ autoRetries' = 0 /\ retryAttempt' = 0 /\ tried' = 0
    /\ UNCHANGED timers

\* What hearing a word comes to.
LEMMA RetryHear ==
    ASSUME RetryTypes, Hear
    PROVE  /\ up # << >> /\ up' = Tail(up)
           /\ Head(up) \in ShimMessage /\ up' \in Seq(ShimMessage)
           /\ UNCHANGED <<pc, attempt, replay, lastEnd, wire, down, breaks, auto,
                          queued, queuePc, acts, byTimer, stopped>>
           /\ HeardBy(session, Head(up), session')
           /\ age' = IF Head(up).type = "Authenticated" THEN "young" ELSE age
           /\ \/ UNCHANGED <<autoRetries, retryAttempt, timers, tried>>
              \/ Scheduled(Head(up))
              \/ GivenUp(Head(up))
           /\ gaveUp' \in BOOLEAN
<1> DEFINE m == Head(up)
           s == Apply([session EXCEPT !.told = @ /\ m.type # "Connecting"], m)
<1>t. /\ up \in Seq(ShimMessage) /\ session \in Session /\ autoRetries \in 0..Tries
      /\ gaveUp \in BOOLEAN
  BY DEF RetryTypes
<1>1. up # << >> /\ up' = Tail(up)
  BY DEF Hear
<1>2. m \in ShimMessage /\ up' \in Seq(ShimMessage)
  BY <1>t, <1>1
<1>3. UNCHANGED <<pc, attempt, replay, lastEnd, wire, down, breaks, auto,
                  queued, queuePc, acts, byTimer, stopped>>
  BY DEF Hear, shim, queue
<1>4. HeardBy(session, m, s)
  BY <1>t, <1>2, RetryApply
<1>5. CASE m = Word("Hello")
  <2>1. /\ session' = [session EXCEPT !.link = TRUE,
                                      !.state = IF IsOpen(@) THEN @ ELSE "Connecting"]
        /\ UNCHANGED <<age, autoRetries, retryAttempt, timers, tried, gaveUp>>
    BY <1>5 DEF Hear
  <2>2. m.type = "Hello"
    BY <1>5 DEF Word
  <2>3. /\ session' \in Session /\ session'.authenticated = session.authenticated
        /\ session'.unreachable = session.unreachable
    BY <1>t, <2>1 DEF Session, State
  <2>4. HeardBy(session, m, session')
    BY <2>2, <2>3 DEF HeardBy
  <2> QED BY <1>t, <1>1, <1>2, <1>3, <2>1, <2>2, <2>4
<1>6. CASE m # Word("Hello")
  <2>1. /\ session' = s
        /\ age' = IF m.type = "Authenticated" THEN "young" ELSE age
        /\ Schedule(s.attempt, Why(s, m))
    BY <1>6 DEF Hear
  <2> HIDE DEF m, s
  <2>a. s.attempt \in 0..MaxAttempt
    BY <1>4 DEF HeardBy, Session
  <2>2. CASE ~(auto /\ Why(s, m) # "no")
    <3>1. UNCHANGED <<autoRetries, retryAttempt, timers, tried, gaveUp>>
      BY <2>1, <2>2 DEF Schedule
    <3> QED BY <1>t, <1>1, <1>2, <1>3, <1>4, <2>1, <3>1 DEF m
  <2>3. CASE auto /\ Why(s, m) # "no"
    <3>1. m.type = "Exited"
      BY <2>3 DEF Why
    <3>2. Why(s, m) = "AfterDrop" => s.state = "Disconnected"
      BY DEF Why
    <3>3. s.state = "Disconnected" => session.authenticated
      BY <1>4, <3>1 DEF HeardBy, Outcome, ClassifyExit
    <3> DEFINE n == NextRetry(Why(s, m))
    <3>4. \/ n = autoRetries + 1
          \/ n = 1 /\ age = "stable" /\ session.authenticated
      BY <3>2, <3>3 DEF NextRetry
    <3>5. /\ TooMany(n) => /\ autoRetries' = 0 /\ retryAttempt' = 0 /\ tried' = 0
                           /\ gaveUp' = TRUE /\ UNCHANGED timers
          /\ ~TooMany(n) => /\ autoRetries' = n
                            /\ timers' = [timers EXCEPT ![s.attempt] = @ + 1]
                            /\ gaveUp' = FALSE /\ UNCHANGED <<retryAttempt, tried>>
      BY <2>1, <2>3 DEF Schedule
    <3> HIDE DEF n
    <3>6. CASE TooMany(n)
      <4>1. GivenUp(m) /\ gaveUp' \in BOOLEAN
        BY <3>1, <3>5, <3>6 DEF GivenUp
      <4> QED BY <1>1, <1>2, <1>3, <1>4, <2>1, <4>1 DEF m
    <3>7. CASE ~TooMany(n)
      <4>1. n \in Nat /\ n <= Tries
        BY <1>t, <3>4, <3>7, AutoReconnectAssumption DEF TooMany
      <4>a. \E a \in 0..MaxAttempt : timers' = [timers EXCEPT ![a] = @ + 1]
        BY <2>a, <3>5, <3>7
      <4>b. autoRetries' = n /\ autoRetries' \in 0..Tries
        BY <3>5, <3>7, <4>1
      <4>2. Scheduled(m) /\ gaveUp' \in BOOLEAN
        BY <3>1, <3>4, <3>5, <3>7, <4>a, <4>b DEF Scheduled
      <4> QED BY <1>1, <1>2, <1>3, <1>4, <2>1, <4>2 DEF m
    <3> QED BY <3>6, <3>7
  <2> QED BY <2>2, <2>3
<1> QED BY <1>5, <1>6

\* The types hold from the first state on.
LEMMA RetryTypesInvariant ==
    Spec => []RetryTypes
<1> USE AutoReconnectAssumption, MaxAttemptAssumption
<1>1. Init => RetryTypes
  <2> SUFFICES ASSUME Init PROVE RetryTypes
    OBVIOUS
  <2>a. session = NewSession("Opening") /\ replay = NoReplay
    BY DEF Init
  <2>b. NewSession("Opening") \in Session
    BY DEF NewSession, Session, State
  <2>1. session \in Session /\ replay \in Replay
    BY <2>a, <2>b, NoReplayType
  <2>2. up \in Seq(ShimMessage)
    BY WordsType DEF Init
  <2>3. /\ auto \in BOOLEAN /\ queued \in BOOLEAN /\ byTimer \in BOOLEAN
        /\ stopped \in BOOLEAN /\ gaveUp \in BOOLEAN
    BY Zenon DEF Init
  <2>4. timers \in [0..MaxAttempt -> Nat]
    BY DEF Init
  <2>5. /\ pc \in {"after", "begin", "login", "in", "gone"}
        /\ lastEnd \in {"none", "status", "refused", "unreachable", "dropped", "stopped"}
        /\ wire \in {"down", "up", "closing"}
        /\ age \in {"none", "young", "stable"} /\ queuePc \in {"idle", "chosen"}
    BY DEF Init
  <2>6. /\ attempt \in 0..MaxAttempt /\ down \in Nat /\ breaks \in 0..MaxBreaks
        /\ autoRetries \in 0..Tries /\ retryAttempt \in 0..(MaxAttempt + 1)
        /\ acts \in 0..MaxActs /\ tried \in Nat
    BY DEF Init
  <2> QED BY <2>1, <2>2, <2>3, <2>4, <2>5, <2>6 DEF RetryTypes
<1>2. RetryTypes /\ [Next]_vars => RetryTypes'
  <2> SUFFICES ASSUME RetryTypes, [Next]_vars
               PROVE  RetryTypes'
    OBVIOUS
  <2> USE DEF shim, pipe, retries, queue, history
  <2>c. /\ \A c \in Code : Exited(c) \in ShimMessage
        /\ "connection" \in Code /\ "status" \in Code
    BY WordsType DEF Code
  <2>1. CASE PreconnectStops
    <3>1. Say(Exited("connection"))
      BY <2>1 DEF PreconnectStops
    <3>2. replay' \in Replay /\ up' \in Seq(ShimMessage)
      BY <2>c, <3>1, RetrySay
    <3> QED BY <2>1, <3>2 DEF PreconnectStops, RetryTypes
  <2>2. CASE Connect
    <3>1. attempt' \in Attempt
      BY <2>2 DEF Connect, RetryTypes, Attempt
    <3>2. Say(Connecting(attempt'))
      BY <2>2 DEF Connect
    <3>3. replay' \in Replay /\ up' \in Seq(ShimMessage)
      BY <3>1, <3>2, WordsType, RetrySay
    <3>4. attempt' \in 0..MaxAttempt
      BY <3>1 DEF Attempt
    <3> QED BY <2>2, <3>3, <3>4 DEF Connect, RetryTypes
  <2>3. CASE LogIn
    <3>1. Say(Word("Authenticated"))
      BY <2>3 DEF LogIn
    <3>2. replay' \in Replay /\ up' \in Seq(ShimMessage)
      BY <3>1, WordsType, RetrySay
    <3> QED BY <2>3, <3>2 DEF LogIn, RetryTypes
  <2>4. CASE SshEnds
    <3>1. ASSUME SayUnreached PROVE replay' \in Replay /\ up' \in Seq(ShimMessage)
      <4>1. /\ replay' = [replay EXCEPT !.unreachable = TRUE, !.outcome = "connection"]
            /\ up' = IF wire = "up"
                       THEN up \o <<Word("Unreachable"), Exited("connection")>> ELSE up
        BY <3>1 DEF SayUnreached
      <4>2. replay' \in Replay
        BY <4>1, <2>c DEF RetryTypes, Replay
      <4>3. <<Word("Unreachable"), Exited("connection")>> \in Seq(ShimMessage)
        BY <2>c, WordsType
      <4>4. up' \in Seq(ShimMessage)
        BY <4>1, <4>3 DEF RetryTypes
      <4> QED BY <4>2, <4>4
    <3>2. ASSUME Say(Exited("status")) \/ Say(Exited("connection"))
          PROVE  replay' \in Replay /\ up' \in Seq(ShimMessage)
      BY <2>c, <3>2, RetrySay
    <3>3. replay' \in Replay /\ up' \in Seq(ShimMessage)
      BY <2>4, <3>1, <3>2 DEF SshEnds
    <3> QED BY <2>4, <3>3 DEF SshEnds, RetryTypes
  <2>5. CASE TakeConnect
    <3>1. down' \in Nat /\ pc' \in {"after", "begin", "login", "in", "gone"}
      BY <2>5 DEF TakeConnect, RetryTypes
    <3>2. byTimer' \in BOOLEAN
      BY <2>5 DEF TakeConnect, RetryTypes
    <3> QED BY <2>5, <3>1, <3>2 DEF TakeConnect, RetryTypes
  <2>6. CASE PressR
    <3>1. acts' \in 0..MaxActs
      BY <2>6 DEF PressR, RetryTypes
    <3>2. byTimer' \in BOOLEAN
      BY <2>6, Zenon DEF PressR
    <3> QED BY <2>6, <3>1, <3>2 DEF PressR, RetryTypes
  <2>7. CASE Die
    BY <2>7 DEF Die, RetryTypes
  <2>8. CASE Break
    BY <2>8 DEF Break, RetryTypes
  <2>9. CASE Reconnect
    <3>1. up' = <<Word("Hello")>> \o ReplayWords(replay)
      BY <2>9 DEF Reconnect
    <3>2. ReplayWords(replay) \in Seq(ShimMessage) /\ Word("Hello") \in ShimMessage
      BY ReplayWordsType, WordsType DEF RetryTypes
    <3>3. up' \in Seq(ShimMessage)
      BY <3>1, <3>2
    <3> QED BY <2>9, <3>3 DEF Reconnect, RetryTypes
  <2>10. CASE Hear
    <3>1. /\ up' \in Seq(ShimMessage) /\ session' \in Session /\ gaveUp' \in BOOLEAN
          /\ UNCHANGED <<pc, attempt, replay, lastEnd, wire, down, breaks, auto,
                         queued, queuePc, acts, byTimer, stopped>>
          /\ age' = IF Head(up).type = "Authenticated" THEN "young" ELSE age
          /\ \/ UNCHANGED <<autoRetries, retryAttempt, timers, tried>>
             \/ Scheduled(Head(up))
             \/ GivenUp(Head(up))
      BY <2>10, RetryHear DEF HeardBy
    <3>2. /\ autoRetries' \in 0..Tries /\ retryAttempt' \in 0..(MaxAttempt + 1)
          /\ timers' \in [0..MaxAttempt -> Nat] /\ tried' \in Nat
      <4>1. CASE UNCHANGED <<autoRetries, retryAttempt, timers, tried>>
        BY <4>1 DEF RetryTypes
      <4>2. CASE Scheduled(Head(up))
        <5>1. PICK a \in 0..MaxAttempt : timers' = [timers EXCEPT ![a] = @ + 1]
          BY <4>2 DEF Scheduled
        <5>2. timers' \in [0..MaxAttempt -> Nat]
          BY <5>1 DEF RetryTypes
        <5> QED BY <4>2, <5>2 DEF Scheduled, RetryTypes
      <4>3. CASE GivenUp(Head(up))
        BY <4>3 DEF GivenUp, RetryTypes
      <4> QED BY <3>1, <4>1, <4>2, <4>3
    <3> QED BY <3>1, <3>2 DEF RetryTypes
  <2>11. CASE LinkEnds
    <3>1. session' \in Session
      BY <2>11 DEF LinkEnds, RetryTypes, Session, State
    <3> QED BY <2>11, <3>1 DEF LinkEnds, RetryTypes
  <2>12. CASE Age
    BY <2>12 DEF Age, RetryTypes
  <2>13. CASE TimerFires
    <3>1. PICK a \in 0..MaxAttempt :
            /\ timers[a] > 0
            /\ timers' = [timers EXCEPT ![a] = @ - 1]
            /\ retryAttempt' = IF Still(a) THEN a + 1 ELSE retryAttempt
            /\ queued' = (queued \/ (Still(a) /\ auto))
            /\ UNCHANGED <<pc, attempt, replay, lastEnd, wire, up, down, breaks, session,
                           auto, autoRetries, age, queuePc, acts, tried, byTimer, stopped,
                           gaveUp>>
      BY <2>13 DEF TimerFires
    <3>2. timers' \in [0..MaxAttempt -> Nat]
      BY <3>1 DEF RetryTypes
    <3>3. retryAttempt' \in 0..(MaxAttempt + 1)
      BY <3>1 DEF RetryTypes
    <3> QED BY <3>1, <3>2, <3>3 DEF RetryTypes
  <2>14. CASE QueueChoose
    <3>1. queued' \in BOOLEAN
      BY <2>14, Zenon DEF QueueChoose
    <3>2. queuePc' \in {"idle", "chosen"}
      BY <2>14 DEF QueueChoose, RetryTypes
    <3> QED BY <2>14, <3>1, <3>2 DEF QueueChoose, RetryTypes
  <2>15. CASE QueueTell
    <3>1. session' \in Session
      BY <2>15 DEF QueueTell, RetryTypes, Session, State
    <3>2. queued' \in BOOLEAN /\ queuePc' \in {"idle", "chosen"}
      BY <2>15 DEF QueueTell, RetryTypes
    <3>3. down' \in Nat /\ tried' \in Nat
      <4>1. down \in Nat /\ tried \in Nat
        BY DEF RetryTypes
      <4>2. \/ down' = down + 1 /\ tried' = tried + 1
            \/ down' = down /\ tried' = tried
        BY <2>15 DEF QueueTell
      <4> QED BY <4>1, <4>2
    <3> QED BY <2>15, <3>1, <3>2, <3>3 DEF QueueTell, RetryTypes
  <2>16. CASE Switch
    BY <2>16 DEF Switch, RetryTypes
  <2>17. CASE UNCHANGED vars
    BY <2>17 DEF vars, RetryTypes
  <2> QED BY <2>1, <2>2, <2>3, <2>4, <2>5, <2>6, <2>7, <2>8, <2>9, <2>10, <2>11, <2>12,
             <2>13, <2>14, <2>15, <2>16, <2>17
          DEF Next, ShimStep, QueueStep
<1> QED BY <1>1, <1>2, PTL DEF Spec
-----------------------------------------------------------------------------
(* Counting the timers that wait and the ends on their way.                *)

Bit(x) == IF x THEN 1 ELSE 0

\* The timers that wait, each a pair of its attempt and a number.
Waits(t) == {x \in (0..MaxAttempt) \X Nat : 1 <= x[2] /\ x[2] <= t[x[1]]}

\* No timers, nothing waits.
LEMMA NoneWait == Waits([a \in 0..MaxAttempt |-> 0]) = {}
  BY DEF Waits

\* One timer more is one more.
LEMMA OneMoreWaits ==
    ASSUME NEW t \in [0..MaxAttempt -> Nat], NEW a \in 0..MaxAttempt, IsFiniteSet(Waits(t)),
           NEW v, v = [t EXCEPT ![a] = @ + 1]
    PROVE  IsFiniteSet(Waits(v)) /\ Cardinality(Waits(v)) = Cardinality(Waits(t)) + 1
<1> DEFINE x == <<a, t[a] + 1>>
<1>1. t[a] \in Nat /\ x \in (0..MaxAttempt) \X Nat
  OBVIOUS
<1>2. x \notin Waits(t)
  BY <1>1 DEF Waits
<1>3. Waits(v) = Waits(t) \cup {x}
  <2>1. ASSUME NEW y \in (0..MaxAttempt) \X Nat
        PROVE  y \in Waits(v) <=> y \in Waits(t) \/ y = x
    <3>1. CASE y[1] = a
      <4>1. v[y[1]] = t[a] + 1 /\ t[y[1]] = t[a]
        BY <3>1
      <4>2. y = <<a, y[2]>> /\ y[2] \in Nat
        BY <2>1, <3>1
      <4>3. y = x <=> y[2] = t[a] + 1
        BY <4>2
      <4> QED BY <1>1, <4>1, <4>2, <4>3 DEF Waits
    <3>2. CASE y[1] # a
      <4>1. v[y[1]] = t[y[1]] /\ y # x
        BY <2>1, <3>2
      <4> QED BY <4>1 DEF Waits
    <3> QED BY <3>1, <3>2
  <2> QED BY <1>1, <2>1 DEF Waits
<1> HIDE DEF x
<1>4. /\ IsFiniteSet(Waits(t) \cup {x})
      /\ Cardinality(Waits(t) \cup {x}) = Cardinality(Waits(t)) + 1
  BY <1>2, FS_AddElement
<1> QED BY <1>3, <1>4

\* One timer fewer is one fewer.
LEMMA OneFewerWaits ==
    ASSUME NEW t \in [0..MaxAttempt -> Nat], NEW a \in 0..MaxAttempt, t[a] > 0,
           IsFiniteSet(Waits(t)), NEW v, v = [t EXCEPT ![a] = @ - 1]
    PROVE  IsFiniteSet(Waits(v)) /\ Cardinality(Waits(v)) = Cardinality(Waits(t)) - 1
<1> DEFINE x == <<a, t[a]>>
<1>1. t[a] \in Nat /\ x \in (0..MaxAttempt) \X Nat
  OBVIOUS
<1>2. x \in Waits(t)
  BY <1>1 DEF Waits
<1>3. Waits(v) = Waits(t) \ {x}
  <2>1. ASSUME NEW y \in (0..MaxAttempt) \X Nat
        PROVE  y \in Waits(v) <=> y \in Waits(t) /\ y # x
    <3>1. CASE y[1] = a
      <4>1. v[y[1]] = t[a] - 1 /\ t[y[1]] = t[a]
        BY <3>1
      <4>2. y = <<a, y[2]>> /\ y[2] \in Nat
        BY <2>1, <3>1
      <4>3. y = x <=> y[2] = t[a]
        BY <4>2
      <4> QED BY <1>1, <4>1, <4>2, <4>3 DEF Waits
    <3>2. CASE y[1] # a
      <4>1. v[y[1]] = t[y[1]] /\ y # x
        BY <2>1, <3>2
      <4> QED BY <4>1 DEF Waits
    <3> QED BY <3>1, <3>2
  <2> QED BY <1>1, <2>1 DEF Waits
<1> HIDE DEF x
<1> QED BY <1>2, <1>3, FS_RemoveElement

\* The timers of one attempt are among them.
LEMMA EachWaits ==
    ASSUME NEW t \in [0..MaxAttempt -> Nat], NEW a \in 0..MaxAttempt, IsFiniteSet(Waits(t))
    PROVE  t[a] <= Cardinality(Waits(t))
<1> DEFINE f == [n \in 1..t[a] |-> <<a, n>>]
<1>1. t[a] \in Nat
  OBVIOUS
<1>2. \A n \in 1..t[a] : <<a, n>> \in Waits(t)
  BY <1>1 DEF Waits
<1>3. f \in Injection(1..t[a], Waits(t))
  BY <1>2 DEF Injection, IsInjective
<1>4. Cardinality(1..t[a]) <= Cardinality(Waits(t))
  <2> HIDE DEF f
  <2> QED BY <1>3, FS_Injection
<1>5. Cardinality(1..t[a]) = t[a]
  BY <1>1, FS_Interval
<1> QED BY <1>4, <1>5

\* The ends of attempts among some words.
EndsIn(w) == {i \in DOMAIN w : w[i].type = "Exited"}

\* There are finitely many.
LEMMA EndsFinite ==
    ASSUME NEW w \in Seq(ShimMessage)
    PROVE  IsFiniteSet(EndsIn(w)) /\ Cardinality(EndsIn(w)) \in Nat
<1>1. IsFiniteSet(1..Len(w)) /\ EndsIn(w) \in SUBSET (1..Len(w))
  BY FS_Interval DEF EndsIn
<1>2. IsFiniteSet(EndsIn(w))
  BY <1>1, FS_Subset
<1> QED BY <1>2, FS_CardinalityType

\* One more word is one more end, or none.
LEMMA EndsAppend ==
    ASSUME NEW w \in Seq(ShimMessage), NEW m \in ShimMessage
    PROVE  Cardinality(EndsIn(Append(w, m))) = Cardinality(EndsIn(w)) + Bit(m.type = "Exited")
<1> DEFINE v == Append(w, m)
           n == Len(w) + 1
<1>1. /\ DOMAIN v = DOMAIN w \cup {n} /\ n \notin DOMAIN w
      /\ v[n] = m /\ \A i \in DOMAIN w : v[i] = w[i]
  OBVIOUS
<1> HIDE DEF v, n
<1>2. CASE m.type = "Exited"
  <2>1. EndsIn(v) = EndsIn(w) \cup {n} /\ n \notin EndsIn(w)
    BY <1>1, <1>2 DEF EndsIn
  <2> QED BY <1>2, <2>1, EndsFinite, FS_AddElement DEF Bit, v
<1>3. CASE m.type # "Exited"
  <2>1. EndsIn(v) = EndsIn(w)
    BY <1>1, <1>3 DEF EndsIn
  <2> QED BY <1>3, <2>1, EndsFinite DEF Bit, v
<1> QED BY <1>2, <1>3

\* The first word gone is one end less, or none.
LEMMA EndsTail ==
    ASSUME NEW w \in Seq(ShimMessage), w # << >>
    PROVE  Cardinality(EndsIn(w)) = Cardinality(EndsIn(Tail(w))) + Bit(Head(w).type = "Exited")
<1> DEFINE v == Tail(w)
           rest == EndsIn(w) \ {1}
           f == [i \in EndsIn(v) |-> i + 1]
<1>1. /\ v \in Seq(ShimMessage) /\ Head(w) = w[1] /\ 1 \in DOMAIN w
      /\ \A i \in DOMAIN v : i \in Nat /\ i + 1 \in DOMAIN w /\ v[i] = w[i + 1] /\ i + 1 # 1
      /\ \A j \in DOMAIN w : j # 1 => j - 1 \in DOMAIN v /\ w[j] = v[j - 1] /\ j = (j - 1) + 1
  OBVIOUS
<1> HIDE DEF v
<1>2. f \in [EndsIn(v) -> rest]
  BY <1>1 DEF EndsIn
<1>3. \A i, j \in EndsIn(v) : f[i] = f[j] => i = j
  BY <1>1 DEF EndsIn
<1>4. \A j \in rest : \E i \in EndsIn(v) : f[i] = j
  BY <1>1 DEF EndsIn
<1>5. f \in Bijection(EndsIn(v), rest)
  BY <1>2, <1>3, <1>4 DEF Bijection, Injection, Surjection, IsInjective
<1>6. IsFiniteSet(EndsIn(v)) /\ IsFiniteSet(EndsIn(w))
  BY <1>1, EndsFinite
<1>7. Cardinality(rest) = Cardinality(EndsIn(v))
  <2>1. ExistsBijection(EndsIn(v), rest)
    BY <1>5, Zenon DEF ExistsBijection
  <2> QED BY <1>6, <2>1, FS_Bijection
<1>8. Cardinality(rest) = IF 1 \in EndsIn(w) THEN Cardinality(EndsIn(w)) - 1
                                             ELSE Cardinality(EndsIn(w))
  BY <1>6, FS_RemoveElement
<1>9. 1 \in EndsIn(w) <=> Head(w).type = "Exited"
  BY <1>1 DEF EndsIn
<1>10. Cardinality(EndsIn(w)) \in Nat
  BY EndsFinite
<1> QED BY <1>7, <1>8, <1>9, <1>10 DEF Bit, v

\* Where only the last word can be an end, there is one at the most.
LEMMA EndsLast ==
    ASSUME NEW w \in Seq(ShimMessage), \A i \in EndsIn(w) : i = Len(w)
    PROVE  Cardinality(EndsIn(w)) <= 1
<1>1. EndsIn(w) \in SUBSET {Len(w)}
  OBVIOUS
<1>2. IsFiniteSet({Len(w)}) /\ Cardinality({Len(w)}) = 1
  BY FS_Singleton
<1> QED BY <1>1, <1>2, FS_Subset

-----------------------------------------------------------------------------
(* What the shim of the reconnects remembers, and what is believed of it.  *)

(* The shim's memory goes with where it is: a login is remembered while    *)
(* logged in and not before, an end once there is one, and all of it is of *)
(* an attempt, but for the end of one stopped before it connected.         *)
RetryMemory ==
    /\ replay.outcome # "Waiting"
    /\ pc = "in" => replay.authenticated
    /\ pc = "login" => ~replay.authenticated /\ ~replay.unreachable
    /\ pc \in {"login", "in"} => replay.connecting # 0 /\ replay.outcome = "none"
    /\ pc = "after" => replay.outcome \in Code
    /\ replay.authenticated \/ replay.unreachable => replay.connecting # 0
    /\ replay.outcome \in Code => replay.connecting # 0 \/ stopped

\* Every step keeps it so.
LEMMA RetryMemoryStep ==
    ASSUME RetryTypes, RetryMemory, [Next]_vars
    PROVE  RetryMemory'
<1> USE DEF shim, pipe, retries, queue, history
<1>c. Exited("connection") \in ShimMessage /\ Exited("status") \in ShimMessage
  BY WordsType DEF Code
<1>t. /\ replay \in Replay /\ NoReplay \in Replay /\ Code = {"connection", "status"}
      /\ stopped \in BOOLEAN
  BY NoReplayType DEF RetryTypes, Code
<1>1. CASE PreconnectStops
  <2>1. Say(Exited("connection"))
    BY <1>1 DEF PreconnectStops
  <2>2. replay' = [replay EXCEPT !.outcome = "connection"]
    BY <1>c, <2>1, RetrySay, RememberExited
  <2>3. pc' = "after" /\ stopped'
    BY <1>1 DEF PreconnectStops
  <2> QED BY <1>t, <2>2, <2>3 DEF RetryMemory, Replay
<1>2. CASE Connect
  <2>1. attempt' \in Attempt
    BY <1>2, MaxAttemptAssumption DEF Connect, RetryTypes, Attempt
  <2>2. Say(Connecting(attempt'))
    BY <1>2 DEF Connect
  <2>3. replay' = [NoReplay EXCEPT !.connecting = attempt']
    BY <2>1, <2>2, WordsType, RetrySay, RememberConnecting
  <2>4. pc' = "login" /\ stopped' = stopped /\ attempt' # 0
    BY <1>2, <2>1 DEF Connect, Attempt
  <2> QED BY <1>t, <2>3, <2>4 DEF RetryMemory, NoReplay
<1>3. CASE LogIn
  <2>1. Say(Word("Authenticated"))
    BY <1>3 DEF LogIn
  <2>2. replay' = [replay EXCEPT !.authenticated = TRUE]
    BY <2>1, WordsType, RetrySay, RememberWords
  <2>3. pc = "login" /\ pc' = "in" /\ stopped' = stopped
    BY <1>3 DEF LogIn
  <2> QED BY <1>t, <2>2, <2>3 DEF RetryMemory, Replay
<1>4. CASE SshEnds
  <2>1. \/ replay' = [replay EXCEPT !.outcome = "status"]
        \/ replay' = [replay EXCEPT !.outcome = "connection"]
        \/ replay' = [replay EXCEPT !.unreachable = TRUE, !.outcome = "connection"]
    <3>1. Say(Exited("status")) => replay' = [replay EXCEPT !.outcome = "status"]
      BY <1>c, RetrySay, RememberExited
    <3>2. Say(Exited("connection")) => replay' = [replay EXCEPT !.outcome = "connection"]
      BY <1>c, RetrySay, RememberExited
    <3> QED BY <1>4, <3>1, <3>2 DEF SshEnds, SayUnreached
  <2>2. pc \in {"login", "in"} /\ pc' = "after" /\ stopped' = stopped
    BY <1>4 DEF SshEnds
  <2> QED BY <1>t, <2>1, <2>2 DEF RetryMemory, Replay
<1>5. CASE UNCHANGED <<replay, stopped>> /\ (pc' = pc \/ pc' \in {"begin", "gone"})
  BY <1>5 DEF RetryMemory
<1>6. CASE TakeConnect \/ PressR \/ Die
  <2>1. UNCHANGED <<replay, stopped>> /\ (pc' = pc \/ pc' \in {"begin", "gone"})
    BY <1>6 DEF TakeConnect, PressR, Die
  <2> QED BY <1>5, <2>1
<1>7. CASE \/ Break \/ Reconnect \/ Hear \/ LinkEnds \/ Age
           \/ TimerFires \/ QueueChoose \/ QueueTell \/ Switch
           \/ UNCHANGED vars
  <2>1. UNCHANGED <<replay, stopped, pc>>
    BY <1>7 DEF Break, Reconnect, Hear, LinkEnds, Age,
                TimerFires, QueueChoose, QueueTell, Switch, vars
  <2> QED BY <1>5, <2>1
<1> QED BY <1>1, <1>2, <1>3, <1>4, <1>6, <1>7
        DEF Next, ShimStep, QueueStep

\* The shim's memory goes with where it is, always.
LEMMA RetryMemoryInvariant ==
    Spec => []RetryMemory
<1>1. Init => RetryMemory
  BY DEF Init, RetryMemory, NoReplay, Code
<1>2. RetryTypes /\ RetryMemory /\ [Next]_vars => RetryMemory'
  BY RetryMemoryStep
<1> QED BY <1>1, <1>2, RetryTypesInvariant, PTL DEF Spec

(* A new connection's words: Hello, the attempt and what is remembered of  *)
(* it, and its end last.                                                   *)
ToldAgain(v, r) ==
    /\ v \in Seq(ShimMessage) /\ v # << >>
    /\ \A i \in DOMAIN v :
          \/ i = 1 /\ v[i].type = "Hello"
          \/ i = 2 /\ v[i].type = "Connecting"
          \/ i > 2 /\ v[i].type = "Authenticated" /\ r.authenticated
          \/ i > 2 /\ v[i].type = "Unreachable" /\ r.unreachable
          \/ i = Len(v) /\ v[i] = Exited(r.outcome) /\ r.outcome \in Code
    /\ r.connecting # 0 => 2 \in DOMAIN v /\ v[2].type = "Connecting"
    /\ r.authenticated => \E i \in DOMAIN v : i > 2 /\ v[i].type = "Authenticated"
    /\ r.unreachable => \E i \in DOMAIN v : i > 2 /\ v[i].type = "Unreachable"
    /\ r.outcome \in Code => v[Len(v)] = Exited(r.outcome)

\* v is the word h, and then the words w.
Before(h, w, v) ==
    /\ v \in Seq(ShimMessage) /\ v # << >> /\ Len(v) = Len(w) + 1 /\ v[1] = h
    /\ \A i \in DOMAIN w : i \in Nat /\ i + 1 \in DOMAIN v /\ v[i + 1] = w[i]
    /\ \A j \in DOMAIN v :
          j \in Nat /\ (j # 1 => j > 1 /\ j - 1 \in DOMAIN w /\ v[j] = w[j - 1])

\* One word put before others.
LEMMA PutBefore ==
    ASSUME NEW h \in ShimMessage, NEW w \in Seq(ShimMessage)
    PROVE  Before(h, w, <<h>> \o w)
<1> DEFINE v == <<h>> \o w
<1>1. v \in Seq(ShimMessage) /\ Len(v) = Len(w) + 1 /\ v[1] = h
  OBVIOUS
<1>2. \A i \in DOMAIN w : i \in Nat /\ i + 1 \in DOMAIN v /\ v[i + 1] = w[i]
  OBVIOUS
<1>3. ASSUME NEW j \in DOMAIN v, j # 1
      PROVE  j > 1 /\ j - 1 \in DOMAIN w /\ v[j] = w[j - 1]
  BY <1>3
<1>4. v # << >> /\ \A j \in DOMAIN v : j \in Nat
  BY <1>1
<1> QED BY <1>1, <1>2, <1>3, <1>4 DEF Before

\* The words of a new connection are those.
LEMMA ToldAgainIs ==
    ASSUME NEW r \in Replay, r.outcome # "Waiting",
           r.authenticated \/ r.unreachable => r.connecting # 0,
           NEW v, v = <<Word("Hello")>> \o ReplayWords(r)
    PROVE  ToldAgain(v, r)
<1> DEFINE h == Word("Hello")
           w == ReplayWords(r)
<1>h. h \in ShimMessage /\ h.type = "Hello"
  BY WordsType DEF Word
<1>w. w \in Seq(ShimMessage)
  BY ReplayWordsType
<1>1. v = <<h>> \o w
  OBVIOUS
<1>2. CASE r.connecting # 0
  <2> DEFINE c == Connecting(r.connecting)
             a == Word("Authenticated")
             u == Word("Unreachable")
             e == Exited(r.outcome)
  <2>1. /\ 1 \in DOMAIN w /\ w[1] = c
        /\ \A i \in DOMAIN w :
              \/ i = 1
              \/ i > 1 /\ r.authenticated /\ w[i] = a
              \/ i > 1 /\ r.unreachable /\ w[i] = u
              \/ i > 1 /\ r.outcome \in Code /\ w[i] = e /\ i = Len(w)
        /\ r.authenticated => \E i \in DOMAIN w : i > 1 /\ w[i] = a
        /\ r.unreachable => \E i \in DOMAIN w : i > 1 /\ w[i] = u
        /\ r.outcome \in Code => \E k \in DOMAIN w : k = Len(w) /\ k > 1 /\ w[k] = e
    BY <1>2, AgainIs
  <2>2. c.type = "Connecting" /\ a.type = "Authenticated" /\ u.type = "Unreachable"
    BY DEF Word, Connecting
  <2> HIDE DEF h, w, c, a, u, e
  <2>3. /\ v \in Seq(ShimMessage) /\ v # << >> /\ Len(v) = Len(w) + 1 /\ v[1] = h
        /\ \A i \in DOMAIN w : i \in Nat /\ i + 1 \in DOMAIN v /\ v[i + 1] = w[i]
        /\ \A j \in DOMAIN v : j \in Nat /\ (j = 1 \/ (j > 1 /\ j - 1 \in DOMAIN w /\ v[j] = w[j - 1]))
    <3>1. Before(h, w, v)
      BY <1>h, <1>w, <1>1, PutBefore
    <3> QED BY <3>1 DEF Before
  <2>4. 2 \in DOMAIN v /\ v[2] = c
    BY <2>1, <2>3
  <2>5. ASSUME NEW j \in DOMAIN v
        PROVE  \/ j = 1 /\ v[j].type = "Hello"
               \/ j = 2 /\ v[j].type = "Connecting"
               \/ j > 2 /\ v[j].type = "Authenticated" /\ r.authenticated
               \/ j > 2 /\ v[j].type = "Unreachable" /\ r.unreachable
               \/ j = Len(v) /\ v[j] = e /\ r.outcome \in Code
    <3>1. CASE j = 1
      BY <1>h, <2>3, <3>1
    <3>2. CASE j = 2
      BY <2>2, <2>4, <3>2
    <3>3. CASE j # 1 /\ j # 2
      <4> DEFINE i == j - 1
      <4>1. i \in DOMAIN w /\ v[j] = w[i] /\ i > 1 /\ j = i + 1 /\ i \in Nat /\ j > 2
        BY <2>3, <3>3
      <4> HIDE DEF i
      <4>2. \/ r.authenticated /\ w[i] = a
            \/ r.unreachable /\ w[i] = u
            \/ r.outcome \in Code /\ w[i] = e /\ i = Len(w)
        BY <2>1, <4>1
      <4>3. i = Len(w) => j = Len(v)
        BY <2>3, <4>1
      <4> QED BY <2>2, <4>1, <4>2, <4>3
    <3> QED BY <3>1, <3>2, <3>3
  <2>6. ASSUME NEW x, NEW i \in DOMAIN w, i > 1, w[i] = x
        PROVE  \E j \in DOMAIN v : j > 2 /\ v[j] = x
    <3>1. i + 1 \in DOMAIN v /\ v[i + 1] = x /\ i + 1 > 2
      BY <2>3, <2>6
    <3> QED BY <3>1
  <2>7. r.authenticated => \E j \in DOMAIN v : j > 2 /\ v[j].type = "Authenticated"
    BY <2>1, <2>2, <2>6
  <2>8. r.unreachable => \E j \in DOMAIN v : j > 2 /\ v[j].type = "Unreachable"
    BY <2>1, <2>2, <2>6
  <2>9. r.outcome \in Code => v[Len(v)] = e
    BY <1>w, <2>1, <2>3
  <2> QED BY <2>2, <2>3, <2>4, <2>5, <2>7, <2>8, <2>9 DEF ToldAgain, e
<1>3. CASE r.connecting = 0
  <2>1. ~r.authenticated /\ ~r.unreachable
    BY <1>3
  <2> DEFINE e == Exited(r.outcome)
  <2>2. w = If(r.outcome \in Code, e)
    BY <1>3, <2>1 DEF ReplayWords, If
  <2>3. r.outcome \in Code => e \in ShimMessage
    BY WordsType
  <2> HIDE DEF h, w, e
  <2>4. CASE r.outcome \in Code
    <3>0. v = <<h>> \o <<e>>
      BY <1>1, <2>2, <2>4 DEF If
    <3>1. <<e>> \in Seq(ShimMessage) /\ Len(<<e>>) = 1 /\ <<e>>[1] = e /\ DOMAIN <<e>> = {1}
      BY <2>3, <2>4
    <3>2. Before(h, <<e>>, v)
      BY <1>h, <3>0, <3>1, PutBefore
    <3>3. /\ v \in Seq(ShimMessage) /\ v # << >> /\ Len(v) = 2 /\ v[1] = h
          /\ \A j \in DOMAIN v : j = 1 \/ (j = 2 /\ v[j] = e)
          /\ v[2] = e
      BY <3>1, <3>2 DEF Before
    <3> QED BY <1>3, <1>h, <2>1, <2>4, <3>3 DEF ToldAgain, e
  <2>5. CASE r.outcome \notin Code
    <3>0. v = <<h>> \o << >>
      BY <1>1, <2>2, <2>5 DEF If
    <3>1. << >> \in Seq(ShimMessage) /\ DOMAIN << >> = {}
      OBVIOUS
    <3>2. Before(h, << >>, v)
      BY <1>h, <3>0, <3>1, PutBefore
    <3>3. v \in Seq(ShimMessage) /\ v # << >> /\ v[1] = h /\ \A j \in DOMAIN v : j = 1
      BY <3>1, <3>2 DEF Before
    <3> QED BY <1>3, <1>h, <2>1, <2>5, <3>3 DEF ToldAgain
  <2> QED BY <2>4, <2>5
<1> QED BY <1>2, <1>3

\* What the new connection of the reconnects says.
LEMMA RetryReconnect ==
    ASSUME RetryTypes, RetryMemory, Reconnect
    PROVE  ToldAgain(up', replay)
<1>1. up' = <<Word("Hello")>> \o ReplayWords(replay)
  BY DEF Reconnect
<1>2. /\ replay \in Replay /\ replay.outcome # "Waiting"
      /\ replay.authenticated \/ replay.unreachable => replay.connecting # 0
  BY DEF RetryTypes, RetryMemory
<1> QED BY <1>1, <1>2, ToldAgainIs

-----------------------------------------------------------------------------
(* What can still lead to an automatic reconnect is bounded.               *)

\* The automatic reconnects already begun: timers, the queue's mark and its choice.
TimersAhead == Cardinality(Waits(timers))
QueuedAhead == Bit(queued)
ChosenAhead == Bit(queuePc = "chosen")
Ahead == TimersAhead + QueuedAhead + ChosenAhead

\* An attempt that has begun and not ended.
InAttempt == pc \in {"begin", "login", "in"}
UnderWay == Bit(InAttempt)

\* The ends on their way.
Ends == Cardinality(EndsIn(up))

\* The link is down and the shim will tell again how its attempt ended.
Unlinked == wire # "up" /\ pc # "gone"
WillTell == Bit(Unlinked)

(* Each end of an attempt is on its way to being followed by at most one   *)
(* attempt, and is followed by one end: as a word, as a timer, as the mark *)
(* in the queue, as the word to connect, as the attempt under way.  There  *)
(* is one of these to begin with; a key pressed begins one more, and a     *)
(* break lets the same end be told again.                                  *)
RetryTokens ==
    /\ IsFiniteSet(Waits(timers))
    /\ Ahead + down + UnderWay + Ends + WillTell <= 1 + breaks + acts

\* All these counts are numbers.
LEMMA Counts ==
    ASSUME RetryTypes, IsFiniteSet(Waits(timers))
    PROVE  /\ TimersAhead \in Nat /\ QueuedAhead \in {0, 1} /\ ChosenAhead \in {0, 1}
           /\ Ahead \in Nat /\ Ends \in Nat
           /\ UnderWay \in {0, 1} /\ WillTell \in {0, 1}
           /\ down \in Nat /\ breaks \in Nat /\ acts \in Nat /\ tried \in Nat
           /\ autoRetries \in Nat
<1>1. TimersAhead \in Nat
  BY FS_CardinalityType DEF TimersAhead
<1>2. /\ QueuedAhead \in {0, 1} /\ ChosenAhead \in {0, 1}
      /\ UnderWay \in {0, 1} /\ WillTell \in {0, 1}
  BY DEF Bit, QueuedAhead, ChosenAhead, UnderWay, WillTell
<1>3. Ahead \in Nat
  BY <1>1, <1>2 DEF Ahead
<1>4. Ends \in Nat
  BY EndsFinite DEF RetryTypes, Ends
<1>5. /\ down \in Nat /\ breaks \in Nat /\ acts \in Nat /\ tried \in Nat
      /\ autoRetries \in Nat
  BY DEF RetryTypes
<1> QED BY <1>1, <1>2, <1>3, <1>4, <1>5

\* What a word that is said adds to the ends on their way.
LEMMA RetrySayEnds ==
    ASSUME RetryTypes, NEW m \in ShimMessage, Say(m)
    PROVE  Ends' <= Ends + Bit(m.type = "Exited")
<1> USE DEF Ends
<1>1. up \in Seq(ShimMessage) /\ up' = IF wire = "up" THEN Append(up, m) ELSE up
  BY RetrySay DEF RetryTypes
<1>2. Cardinality(EndsIn(Append(up, m))) = Cardinality(EndsIn(up)) + Bit(m.type = "Exited")
  BY <1>1, EndsAppend
<1>3. Cardinality(EndsIn(up)) \in Nat /\ Bit(m.type = "Exited") \in {0, 1}
  BY <1>1, EndsFinite DEF Bit
<1>4. CASE wire = "up"
  BY <1>1, <1>2, <1>3, <1>4
<1>5. CASE wire # "up"
  BY <1>1, <1>3, <1>5
<1> QED BY <1>4, <1>5

\* The same for the end of an attempt that didn't reach the server.
LEMMA RetryUnreachedEnds ==
    ASSUME RetryTypes, SayUnreached
    PROVE  Ends' <= Ends + 1
<1> USE DEF Ends
<1> DEFINE u == Word("Unreachable")
           e == Exited("connection")
           w == Append(up, u)
<1>1. /\ u \in ShimMessage /\ e \in ShimMessage
      /\ u.type = "Unreachable" /\ e.type = "Exited"
  BY WordsType DEF Code, Word, Exited
<1>2. up \in Seq(ShimMessage) /\ up' = IF wire = "up" THEN up \o <<u, e>> ELSE up
  BY DEF SayUnreached, RetryTypes
<1> HIDE DEF u, e
<1>3. up \o <<u, e>> = Append(w, e) /\ w \in Seq(ShimMessage)
  BY <1>1, <1>2
<1>4. Cardinality(EndsIn(w)) = Cardinality(EndsIn(up)) + Bit(u.type = "Exited")
  BY <1>1, <1>2, EndsAppend
<1> HIDE DEF w
<1>5. Cardinality(EndsIn(Append(w, e))) = Cardinality(EndsIn(w)) + Bit(e.type = "Exited")
  BY <1>1, <1>3, EndsAppend
<1>6. Cardinality(EndsIn(up)) \in Nat /\ Bit(u.type = "Exited") = 0 /\ Bit(e.type = "Exited") = 1
  BY <1>1, <1>2, EndsFinite DEF Bit
<1>7. CASE wire = "up"
  <2>1. up' = Append(w, e)
    BY <1>2, <1>3, <1>7
  <2>2. Cardinality(EndsIn(up')) = Cardinality(EndsIn(up)) + 1
    BY <1>4, <1>5, <1>6, <2>1
  <2> QED BY <1>6, <2>2
<1>8. CASE wire # "up"
  BY <1>2, <1>6, <1>8
<1> QED BY <1>7, <1>8

\* From a tokens, d words to connect and t tries to a1, d1 and t1: none is made.
PassOn(a1, d1, t1, a, d, t) == a1 \in Nat /\ a1 + d1 <= a + d /\ t1 + a1 <= t + a

\* A timer that fires, the queue's choice and its word pass a token on: they make
\* none, and a word to connect takes the place of one ahead.
LEMMA Passed ==
    ASSUME RetryTypes, IsFiniteSet(Waits(timers)),
           TimerFires \/ QueueChoose \/ QueueTell
    PROVE  /\ IsFiniteSet(Waits(timers))'
           /\ PassOn(Ahead', down', tried', Ahead, down, tried)
<1>y. PICK a1, d1, t1 : a1 = Ahead' /\ d1 = down' /\ t1 = tried'
  OBVIOUS
<1> USE DEF shim, pipe, retries, queue, history
<1>x. PICK w1, q1, c1 : w1 = TimersAhead' /\ q1 = QueuedAhead' /\ c1 = ChosenAhead'
  OBVIOUS
<1>n. /\ TimersAhead \in Nat /\ QueuedAhead \in {0, 1} /\ ChosenAhead \in {0, 1}
      /\ down \in Nat /\ tried \in Nat
      /\ Ahead = TimersAhead + QueuedAhead + ChosenAhead
  BY Counts DEF Ahead
<1>p. q1 \in {0, 1} /\ c1 \in {0, 1}
  BY <1>x DEF Bit, QueuedAhead, ChosenAhead
<1>a. a1 = w1 + q1 + c1
  BY <1>x, <1>y DEF Ahead
<1>q. /\ queued => QueuedAhead = 1
      /\ ~queued => QueuedAhead = 0
      /\ queued' => q1 = 1
      /\ ~queued' => q1 = 0
      /\ queuePc = "chosen" => ChosenAhead = 1
      /\ queuePc # "chosen" => ChosenAhead = 0
      /\ queuePc' = "chosen" => c1 = 1
      /\ queuePc' # "chosen" => c1 = 0
  BY <1>x DEF Bit, QueuedAhead, ChosenAhead
<1>w. timers' = timers => w1 = TimersAhead /\ IsFiniteSet(Waits(timers))'
  BY <1>x DEF Waits, TimersAhead
<1>d. ASSUME w1 \in Nat, w1 + q1 + c1 + d1 <= TimersAhead + QueuedAhead + ChosenAhead + down,
             t1 + w1 + q1 + c1 <= tried + TimersAhead + QueuedAhead + ChosenAhead,
             t1 \in Nat, d1 \in Nat
      PROVE  PassOn(Ahead', down', tried', Ahead, down, tried)
  <2>1. PassOn(a1, d1, t1, Ahead, down, tried)
    BY <1>a, <1>d, <1>n, <1>p DEF PassOn
  <2> QED BY <1>y, <2>1
<1>1. CASE TimerFires
  <2>1. PICK a \in 0..MaxAttempt :
          /\ timers[a] > 0 /\ timers' = [timers EXCEPT ![a] = @ - 1]
          /\ UNCHANGED <<down, tried, queuePc>>
    BY <1>1 DEF TimerFires
  <2>2. /\ IsFiniteSet(Waits(timers'))
        /\ Cardinality(Waits(timers')) = Cardinality(Waits(timers)) - 1
    BY <2>1, OneFewerWaits DEF RetryTypes
  <2>3. IsFiniteSet(Waits(timers))' /\ w1 = TimersAhead - 1 /\ w1 \in Nat
    BY <1>x, <2>2, FS_CardinalityType DEF TimersAhead, Waits
  <2>4. c1 = ChosenAhead /\ d1 = down /\ t1 = tried
    BY <1>q, <1>y, <2>1
  <2>5. /\ w1 + q1 + c1 + d1 <= TimersAhead + QueuedAhead + ChosenAhead + down
        /\ t1 + w1 + q1 + c1 <= tried + TimersAhead + QueuedAhead + ChosenAhead
    BY <1>n, <1>p, <2>3, <2>4
  <2> QED BY <1>d, <1>n, <2>3, <2>4, <2>5
<1>2. CASE QueueChoose
  <2>1. /\ queued /\ ~queued' /\ queuePc # "chosen"
        /\ UNCHANGED <<timers, down, tried>>
    BY <1>2 DEF QueueChoose
  <2>2. /\ q1 = 0 /\ QueuedAhead = 1 /\ ChosenAhead = 0 /\ d1 = down /\ t1 = tried
        /\ w1 = TimersAhead
    BY <1>q, <1>w, <1>y, <2>1
  <2>3. /\ w1 + q1 + c1 + d1 <= TimersAhead + QueuedAhead + ChosenAhead + down
        /\ t1 + w1 + q1 + c1 <= tried + TimersAhead + QueuedAhead + ChosenAhead
    BY <1>n, <1>p, <2>2
  <2> QED BY <1>d, <1>n, <1>w, <2>1, <2>2, <2>3
<1>3. CASE QueueTell
  <2>1. /\ queuePc = "chosen" /\ queuePc' # "chosen" /\ UNCHANGED timers
        /\ \/ down' = down + 1 /\ tried' = tried + 1 /\ queued' = queued
           \/ down' = down /\ tried' = tried
    BY <1>3 DEF QueueTell
  <2>2. /\ ChosenAhead = 1 /\ c1 = 0 /\ w1 = TimersAhead
        /\ \/ d1 = down + 1 /\ t1 = tried + 1 /\ q1 = QueuedAhead
           \/ d1 = down /\ t1 = tried
    BY <1>q, <1>w, <1>x, <1>y, <2>1 DEF QueuedAhead
  <2>3. /\ w1 + q1 + c1 + d1 <= TimersAhead + QueuedAhead + ChosenAhead + down
        /\ t1 + w1 + q1 + c1 <= tried + TimersAhead + QueuedAhead + ChosenAhead
        /\ d1 \in Nat /\ t1 \in Nat
    BY <1>n, <1>p, <2>2, SMTT(30)
  <2> QED BY <1>d, <1>n, <1>w, <2>1, <2>2, <2>3
<1> QED BY <1>1, <1>2, <1>3

\* Every step keeps the bound.
LEMMA RetryTokensStep ==
    ASSUME RetryTypes, RetryMemory, RetryTokens,
           [Next]_vars, RetryTypes'
    PROVE  RetryTokens'
<1> USE DEF shim, pipe, retries, queue, history
<1>x. PICK a1, d1, u1, e1, t1, b1, k1 :
        /\ a1 = Ahead' /\ d1 = down' /\ u1 = UnderWay' /\ e1 = Ends' /\ t1 = WillTell'
        /\ b1 = breaks' /\ k1 = acts'
  OBVIOUS
<1>n. /\ Ahead \in Nat /\ Ends \in Nat /\ UnderWay \in {0, 1} /\ WillTell \in {0, 1}
      /\ down \in Nat /\ breaks \in Nat /\ acts \in Nat
      /\ Ahead + down + UnderWay + Ends + WillTell <= 1 + breaks + acts
  BY Counts DEF RetryTokens
<1>f. IsFiniteSet(Waits(timers))
  BY DEF RetryTokens
<1>p. /\ u1 \in {0, 1} /\ t1 \in {0, 1} /\ e1 \in Nat
      /\ d1 \in Nat /\ b1 \in Nat /\ k1 \in Nat
  <2>1. u1 \in {0, 1} /\ t1 \in {0, 1}
    BY <1>x DEF Bit, UnderWay, WillTell
  <2>2. up' \in Seq(ShimMessage) /\ e1 = Cardinality(EndsIn(up'))
    BY <1>x DEF RetryTypes, Ends, EndsIn
  <2>3. e1 \in Nat
    BY <2>2, EndsFinite
  <2>4. d1 \in Nat /\ b1 \in Nat /\ k1 \in Nat
    BY <1>x DEF RetryTypes
  <2> QED BY <2>1, <2>3, <2>4
<1>u. /\ InAttempt => UnderWay = 1
      /\ ~InAttempt => UnderWay = 0
      /\ InAttempt' => u1 = 1
      /\ ~InAttempt' => u1 = 0
      /\ Unlinked => WillTell = 1
      /\ ~Unlinked => WillTell = 0
      /\ Unlinked' => t1 = 1
      /\ ~Unlinked' => t1 = 0
  BY <1>x DEF Bit, UnderWay, WillTell
<1>e. up' = up => e1 = Ends
  BY <1>x DEF Ends
<1>a. UNCHANGED <<timers, queued, queuePc>> => a1 = Ahead /\ IsFiniteSet(Waits(timers))'
  BY <1>f, <1>x DEF Ahead, Waits, TimersAhead, QueuedAhead, ChosenAhead
<1>d. ASSUME IsFiniteSet(Waits(timers))', a1 + d1 + u1 + e1 + t1 <= 1 + b1 + k1
      PROVE  RetryTokens'
  BY <1>d, <1>x DEF RetryTokens
<1>s. ASSUME UNCHANGED <<timers, queued, queuePc>>,
             d1 + u1 + e1 + t1 + breaks + acts <= down + UnderWay + Ends + WillTell + b1 + k1
      PROVE  RetryTokens'
  <2>1. a1 = Ahead /\ IsFiniteSet(Waits(timers))'
    BY <1>a, <1>s
  <2>2. a1 + d1 + u1 + e1 + t1 <= 1 + b1 + k1
    BY <1>n, <1>p, <1>s, <2>1
  <2> QED BY <1>d, <2>1, <2>2
<1>t. Exited("connection") \in ShimMessage /\ Exited("status") \in ShimMessage
      /\ Exited("connection").type = "Exited" /\ Exited("status").type = "Exited"
      /\ Bit(Exited("connection").type = "Exited") = 1 /\ Bit(Exited("status").type = "Exited") = 1
  BY WordsType DEF Code, Exited, Bit
<1>1. CASE PreconnectStops
  <2>1. Ends' <= Ends + 1
    BY <1>1, <1>t, RetrySayEnds DEF PreconnectStops
  <2>2. /\ UNCHANGED <<timers, queued, queuePc, down, breaks, acts>>
        /\ InAttempt /\ ~InAttempt' /\ (Unlinked' <=> Unlinked)
    BY <1>1 DEF PreconnectStops, InAttempt, Unlinked
  <2>3. /\ d1 = down /\ b1 = breaks /\ k1 = acts /\ e1 <= Ends + 1
        /\ UnderWay = 1 /\ u1 = 0 /\ t1 = WillTell
    BY <1>u, <1>x, <2>1, <2>2
  <2>4. d1 + u1 + e1 + t1 + breaks + acts <= down + UnderWay + Ends + WillTell + b1 + k1
    BY <1>n, <1>p, <2>3
  <2> QED BY <1>s, <2>2, <2>4
<1>2. CASE Connect
  <2>1. Say(Connecting(attempt')) /\ attempt' \in Attempt
    BY <1>2, MaxAttemptAssumption DEF Connect, RetryTypes, Attempt
  <2>2. Connecting(attempt') \in ShimMessage /\ Bit(Connecting(attempt').type = "Exited") = 0
    BY <2>1, WordsType DEF Connecting, Bit
  <2>3. Ends' <= Ends + 0
    BY <2>1, <2>2, RetrySayEnds
  <2>4. /\ UNCHANGED <<timers, queued, queuePc, down, breaks, acts>>
        /\ InAttempt /\ InAttempt' /\ (Unlinked' <=> Unlinked)
    BY <1>2 DEF Connect, InAttempt, Unlinked
  <2>5. /\ d1 = down /\ b1 = breaks /\ k1 = acts /\ e1 <= Ends + 0
        /\ UnderWay = 1 /\ u1 = 1 /\ t1 = WillTell
    BY <1>u, <1>x, <2>3, <2>4
  <2>6. d1 + u1 + e1 + t1 + breaks + acts <= down + UnderWay + Ends + WillTell + b1 + k1
    BY <1>n, <1>p, <2>5
  <2> QED BY <1>s, <2>4, <2>6
<1>3. CASE LogIn
  <2>1. Say(Word("Authenticated"))
    BY <1>3 DEF LogIn
  <2>2. Word("Authenticated") \in ShimMessage /\ Bit(Word("Authenticated").type = "Exited") = 0
    BY WordsType DEF Word, Bit
  <2>3. Ends' <= Ends + 0
    BY <2>1, <2>2, RetrySayEnds
  <2>4. /\ UNCHANGED <<timers, queued, queuePc, down, breaks, acts>>
        /\ InAttempt /\ InAttempt' /\ (Unlinked' <=> Unlinked)
    BY <1>3 DEF LogIn, InAttempt, Unlinked
  <2>5. /\ d1 = down /\ b1 = breaks /\ k1 = acts /\ e1 <= Ends + 0
        /\ UnderWay = 1 /\ u1 = 1 /\ t1 = WillTell
    BY <1>u, <1>x, <2>3, <2>4
  <2>6. d1 + u1 + e1 + t1 + breaks + acts <= down + UnderWay + Ends + WillTell + b1 + k1
    BY <1>n, <1>p, <2>5
  <2> QED BY <1>s, <2>4, <2>6
<1>4. CASE SshEnds
  <2>1. Say(Exited("status")) \/ Say(Exited("connection")) \/ SayUnreached
    BY <1>4 DEF SshEnds
  <2>2. Ends' <= Ends + 1
    BY <1>t, <2>1, RetrySayEnds, RetryUnreachedEnds
  <2>3. /\ UNCHANGED <<timers, queued, queuePc, down, breaks, acts>>
        /\ InAttempt /\ ~InAttempt' /\ (Unlinked' <=> Unlinked)
    BY <1>4 DEF SshEnds, InAttempt, Unlinked
  <2>4. /\ d1 = down /\ b1 = breaks /\ k1 = acts /\ e1 <= Ends + 1
        /\ UnderWay = 1 /\ u1 = 0 /\ t1 = WillTell
    BY <1>u, <1>x, <2>2, <2>3
  <2>5. d1 + u1 + e1 + t1 + breaks + acts <= down + UnderWay + Ends + WillTell + b1 + k1
    BY <1>n, <1>p, <2>4
  <2> QED BY <1>s, <2>3, <2>5
<1>5. CASE TakeConnect
  <2>1. /\ UNCHANGED <<timers, queued, queuePc, breaks, acts, up>>
        /\ down > 0 /\ down' = down - 1 /\ ~Unlinked /\ ~Unlinked'
        /\ ~InAttempt \/ (InAttempt' <=> InAttempt)
    BY <1>5 DEF TakeConnect, InAttempt, Unlinked
  <2>2. /\ d1 = down - 1 /\ b1 = breaks /\ k1 = acts /\ e1 = Ends
        /\ UnderWay = 0 \/ u1 = UnderWay
        /\ t1 = WillTell
    BY <1>e, <1>u, <1>x, <2>1
  <2>3. d1 + u1 + e1 + t1 + breaks + acts <= down + UnderWay + Ends + WillTell + b1 + k1
    BY <1>n, <1>p, <2>2
  <2> QED BY <1>s, <2>1, <2>3
<1>6. CASE PressR
  <2>1. /\ UNCHANGED <<timers, queued, queuePc, breaks, down, up>>
        /\ acts' = acts + 1 /\ (Unlinked' <=> Unlinked) /\ ~InAttempt
    BY <1>6 DEF PressR, Unlinked, InAttempt
  <2>2. /\ d1 = down /\ b1 = breaks /\ k1 = acts + 1 /\ e1 = Ends
        /\ UnderWay = 0 /\ t1 = WillTell
    BY <1>e, <1>u, <1>x, <2>1
  <2>3. d1 + u1 + e1 + t1 + breaks + acts <= down + UnderWay + Ends + WillTell + b1 + k1
    BY <1>n, <1>p, <2>2
  <2> QED BY <1>s, <2>1, <2>3
<1>7. CASE Die
  <2>1. /\ UNCHANGED <<timers, queued, queuePc, breaks, acts, down, up>>
        /\ ~InAttempt' /\ ~Unlinked'
    BY <1>7 DEF Die, InAttempt, Unlinked
  <2>2. d1 = down /\ b1 = breaks /\ k1 = acts /\ e1 = Ends /\ u1 = 0 /\ t1 = 0
    BY <1>e, <1>u, <1>x, <2>1
  <2>3. d1 + u1 + e1 + t1 + breaks + acts <= down + UnderWay + Ends + WillTell + b1 + k1
    BY <1>n, <1>p, <2>2
  <2> QED BY <1>s, <2>1, <2>3
<1>8. CASE Break
  <2>1. /\ UNCHANGED <<timers, queued, queuePc, acts, up>>
        /\ breaks' = breaks + 1 /\ down' = 0 /\ ~Unlinked
        /\ (InAttempt' <=> InAttempt)
    BY <1>8 DEF Break, InAttempt, Unlinked
  <2>2. /\ d1 = 0 /\ b1 = breaks + 1 /\ k1 = acts /\ e1 = Ends /\ u1 = UnderWay
        /\ WillTell = 0
    BY <1>e, <1>u, <1>x, <2>1
  <2>3. d1 + u1 + e1 + t1 + breaks + acts <= down + UnderWay + Ends + WillTell + b1 + k1
    BY <1>n, <1>p, <2>2
  <2> QED BY <1>s, <2>1, <2>3
<1>9. CASE Reconnect
  <2>1. ToldAgain(up', replay)
    BY <1>9, RetryReconnect
  <2>2. \A i \in EndsIn(up') : i = Len(up')
    BY <2>1 DEF ToldAgain, EndsIn
  <2>3. Ends' <= 1
    BY <2>1, <2>2, EndsLast DEF ToldAgain, Ends
  <2>4. /\ UNCHANGED <<timers, queued, queuePc, breaks, acts, down>>
        /\ Unlinked /\ ~Unlinked' /\ (InAttempt' <=> InAttempt)
    BY <1>9 DEF Reconnect, InAttempt, Unlinked
  <2>5. /\ d1 = down /\ b1 = breaks /\ k1 = acts /\ e1 <= 1 /\ u1 = UnderWay
        /\ WillTell = 1 /\ t1 = 0
    BY <1>u, <1>x, <2>3, <2>4
  <2>6. d1 + u1 + e1 + t1 + breaks + acts <= down + UnderWay + Ends + WillTell + b1 + k1
    BY <1>n, <1>p, <2>5
  <2> QED BY <1>s, <2>4, <2>6
<1>10. CASE Hear
  <2>1. /\ up # << >> /\ up' = Tail(up)
        /\ UNCHANGED <<pc, wire, down, breaks, queued, queuePc, acts>>
        /\ \/ UNCHANGED timers
           \/ /\ Head(up).type = "Exited"
              /\ \E a \in 0..MaxAttempt : timers' = [timers EXCEPT ![a] = @ + 1]
    BY <1>10, RetryHear DEF Scheduled, GivenUp
  <2>2. Ends = Ends' + Bit(Head(up).type = "Exited")
    BY <2>1, EndsTail DEF RetryTypes, Ends
  <2>3. (InAttempt' <=> InAttempt) /\ (Unlinked' <=> Unlinked)
    BY <2>1 DEF InAttempt, Unlinked
  <2>4. /\ d1 = down /\ b1 = breaks /\ k1 = acts /\ u1 = UnderWay /\ t1 = WillTell
        /\ Ends = e1 + Bit(Head(up).type = "Exited")
    BY <1>u, <1>x, <2>1, <2>2, <2>3
  <2>5. /\ e1 <= Ends
        /\ Head(up).type = "Exited" => Ends = e1 + 1
    BY <1>n, <1>p, <2>4 DEF Bit
  <2>6. CASE UNCHANGED timers
    <3>1. d1 + u1 + e1 + t1 + breaks + acts <= down + UnderWay + Ends + WillTell + b1 + k1
      BY <1>n, <1>p, <2>4, <2>5
    <3> QED BY <1>s, <2>1, <2>6, <3>1
  <2>7. CASE /\ Head(up).type = "Exited"
             /\ \E a \in 0..MaxAttempt : timers' = [timers EXCEPT ![a] = @ + 1]
    <3>1. PICK a \in 0..MaxAttempt : timers' = [timers EXCEPT ![a] = @ + 1]
      BY <2>7
    <3>2. /\ IsFiniteSet(Waits(timers'))
          /\ Cardinality(Waits(timers')) = Cardinality(Waits(timers)) + 1
      BY <1>f, <3>1, OneMoreWaits DEF RetryTypes
    <3>3. IsFiniteSet(Waits(timers))' /\ TimersAhead' = TimersAhead + 1
      BY <3>2 DEF Waits, TimersAhead
    <3>4. a1 = (TimersAhead + 1) + QueuedAhead + ChosenAhead
      BY <1>x, <2>1, <3>3 DEF Ahead, QueuedAhead, ChosenAhead
    <3>5. a1 = Ahead + 1
      <4>1. TimersAhead \in Nat /\ QueuedAhead \in {0, 1} /\ ChosenAhead \in {0, 1}
        BY <1>f, Counts
      <4> QED BY <3>4, <4>1 DEF Ahead
    <3>6. a1 + d1 + u1 + e1 + t1 <= 1 + b1 + k1
      BY <1>n, <1>p, <2>4, <2>5, <2>7, <3>5
    <3> QED BY <1>d, <3>3, <3>6
  <2> QED BY <2>1, <2>6, <2>7
<1>11. CASE LinkEnds \/ Age \/ Switch \/ UNCHANGED vars
  <2>1. /\ UNCHANGED <<timers, queued, queuePc, breaks, down, up>>
        /\ acts' = acts \/ acts' = acts + 1
        /\ (InAttempt' <=> InAttempt) /\ (Unlinked' <=> Unlinked)
    BY <1>11 DEF LinkEnds, Age, Switch, vars, InAttempt, Unlinked
  <2>2. /\ d1 = down /\ b1 = breaks /\ (k1 = acts \/ k1 = acts + 1) /\ e1 = Ends
        /\ u1 = UnderWay /\ t1 = WillTell
    BY <1>e, <1>u, <1>x, <2>1
  <2>3. d1 + u1 + e1 + t1 + breaks + acts <= down + UnderWay + Ends + WillTell + b1 + k1
    BY <1>n, <1>p, <2>2
  <2> QED BY <1>s, <2>1, <2>3
<1>12. CASE TimerFires \/ QueueChoose \/ QueueTell
  <2>1. /\ UNCHANGED <<breaks, acts, up>>
        /\ (InAttempt' <=> InAttempt) /\ (Unlinked' <=> Unlinked)
    BY <1>12 DEF TimerFires, QueueChoose, QueueTell, InAttempt, Unlinked
  <2>2. b1 = breaks /\ k1 = acts /\ e1 = Ends /\ u1 = UnderWay /\ t1 = WillTell
    BY <1>e, <1>u, <1>x, <2>1
  <2>3. IsFiniteSet(Waits(timers))' /\ PassOn(Ahead', down', tried', Ahead, down, tried)
    BY <1>12, <1>f, Passed
  <2>4. a1 \in Nat /\ a1 + d1 <= Ahead + down
    <3>1. PICK r1 : PassOn(a1, d1, r1, Ahead, down, tried)
      BY <1>x, <2>3
    <3> QED BY <3>1 DEF PassOn
  <2>5. a1 + d1 + u1 + e1 + t1 <= 1 + b1 + k1
    BY <1>n, <1>p, <2>2, <2>4
  <2> QED BY <1>d, <2>3, <2>5
<1> QED BY <1>1, <1>2, <1>3, <1>4, <1>5, <1>6, <1>7, <1>8, <1>9, <1>10, <1>11, <1>12
        DEF Next, ShimStep, QueueStep

\* The bound on what can still lead to a reconnect holds in every state.
LEMMA RetryTokensInvariant ==
    Spec => []RetryTokens
<1>1. RetryTypes /\ Init => RetryTokens
  <2> SUFFICES ASSUME RetryTypes, Init PROVE RetryTokens
    OBVIOUS
  <2>1. /\ timers = [a \in 0..MaxAttempt |-> 0] /\ down = 0 /\ breaks = 0 /\ acts = 0
        /\ queued = FALSE /\ queuePc = "idle" /\ pc = "begin" /\ wire = "up"
        /\ up = <<Word("Hello")>>
    BY DEF Init
  <2>2. IsFiniteSet(Waits(timers)) /\ TimersAhead = 0
    BY <2>1, NoneWait, FS_EmptySet DEF TimersAhead
  <2>3. QueuedAhead = 0 /\ ChosenAhead = 0 /\ UnderWay = 1 /\ WillTell = 0
    BY <2>1 DEF QueuedAhead, ChosenAhead, UnderWay, InAttempt, WillTell, Unlinked, Bit
  <2>4. EndsIn(up) = {}
    BY <2>1 DEF EndsIn, Word
  <2>5. Ends = 0
    BY <2>4, FS_EmptySet DEF Ends
  <2> QED BY <2>1, <2>2, <2>3, <2>5 DEF RetryTokens, Ahead
<1>2. RetryTypes /\ RetryMemory /\ RetryTokens /\ [Next]_vars /\ RetryTypes'
        => RetryTokens'
  BY RetryTokensStep
<1> QED BY <1>1, <1>2, RetryTypesInvariant, RetryMemoryInvariant, PTL DEF Spec

(* The state of the reconnects keeps its types; above all, no attempt has  *)
(* more timers than there were ends to hear: one, and one more for each    *)
(* break of the link and each key (schedule_reconnect starts a timer per   *)
(* end it hears).                                                          *)
THEOREM RetryTypeCorrect ==
    Spec => []TypeOK
<1>1. RetryTypes /\ RetryTokens => TypeOK
  <2> SUFFICES ASSUME RetryTypes, RetryTokens PROVE TypeOK
    OBVIOUS
  <2>1. /\ IsFiniteSet(Waits(timers))
        /\ Ahead + down + UnderWay + Ends + WillTell <= 1 + breaks + acts
    BY DEF RetryTokens
  <2>2. /\ TimersAhead \in Nat /\ QueuedAhead \in {0, 1} /\ ChosenAhead \in {0, 1}
        /\ Ahead \in Nat /\ Ends \in Nat /\ UnderWay \in {0, 1} /\ WillTell \in {0, 1}
        /\ down \in Nat
    BY <2>1, Counts
  <2>3. breaks \in 0..MaxBreaks /\ acts \in 0..MaxActs
    BY DEF RetryTypes
  <2>4. TimersAhead <= MaxBreaks + MaxActs + 1
    BY <2>1, <2>2, <2>3, AutoReconnectAssumption DEF Ahead
  <2>5. timers \in [0..MaxAttempt -> Nat]
    BY DEF RetryTypes
  <2>6. ASSUME NEW a \in 0..MaxAttempt PROVE timers[a] \in 0..MaxTimers
    <3>1. timers[a] <= TimersAhead /\ timers[a] \in Nat
      BY <2>1, <2>5, EachWaits DEF TimersAhead
    <3> QED BY <2>2, <2>4, <3>1, AutoReconnectAssumption DEF MaxTimers
  <2>7. timers \in [0..MaxAttempt -> 0..MaxTimers]
    BY <2>5, <2>6
  <2> QED BY <2>7 DEF RetryTypes, TypeOK
<1> QED BY <1>1, RetryTypesInvariant, RetryTokensInvariant, PTL

-----------------------------------------------------------------------------
(* What the reconnects believe of an attempt, and what really happened.    *)

\* What a word leaves in each field of the shim's memory.
LEMMA RememberFields ==
    ASSUME NEW r \in Replay, NEW m \in ShimMessage, m.type # "Waiting"
    PROVE  /\ Remember(r, m).authenticated =
                 IF m.type = "Connecting" THEN FALSE
                 ELSE IF m.type = "Authenticated" THEN TRUE ELSE r.authenticated
           /\ Remember(r, m).unreachable =
                 IF m.type = "Connecting" THEN FALSE
                 ELSE IF m.type = "Unreachable" THEN TRUE ELSE r.unreachable
           /\ Remember(r, m).connecting =
                 IF m.type = "Connecting" THEN m.attempt ELSE r.connecting
           /\ m.type = "Exited" => Remember(r, m).outcome = m.code
<1>1. CASE m.type = "Connecting"
  BY <1>1 DEF Remember, NoReplay
<1>2. CASE m.type = "Exited"
  BY <1>2 DEF Remember, Replay
<1>3. CASE m.type = "Authenticated"
  BY <1>3 DEF Remember, Replay
<1>4. CASE m.type = "Unreachable"
  BY <1>4 DEF Remember, Replay
<1>5. CASE m.type \notin {"Waiting", "Connecting", "Exited", "Authenticated", "Unreachable"}
  BY <1>5 DEF Remember
<1> QED BY <1>1, <1>2, <1>3, <1>4, <1>5

\* Nothing is said or heard, and what is believed stays.
QuietStep ==
    /\ UNCHANGED <<up, replay>>
    /\ session'.authenticated = session.authenticated
    /\ session'.unreachable = session.unreachable
    /\ wire' = wire \/ wire' # "up"
    /\ pc' = pc \/ pc' \notin {"after", "login", "in"}
    /\ stopped' = stopped

\* The shim says the word m: the beginning of an attempt; while it waits for the
\* login, that; while ssh runs, the end - or without, where it was stopped before.
Says(m) ==
    /\ replay' = Remember(replay, m)
    /\ up' = IF wire = "up" THEN Append(up, m) ELSE up
    /\ m.type \in {"Connecting", "Authenticated", "Exited"}
    /\ m.type = "Connecting" => pc' = "login" /\ stopped' = stopped
    /\ m.type = "Authenticated" => pc = "login" /\ pc' = "in" /\ stopped' = stopped
    /\ m.type = "Exited" =>
          pc' = "after" /\ (stopped' \/ (pc \in {"login", "in"} /\ stopped' = stopped))
    /\ UNCHANGED <<session, wire, age>>

\* It says that the server wasn't reached, and then the end.
SaysUnreached ==
    /\ pc = "login" /\ pc' = "after" /\ stopped' = stopped
    /\ replay' = [replay EXCEPT !.unreachable = TRUE, !.outcome = "connection"]
    /\ up' = IF wire = "up"
                THEN Append(Append(up, Word("Unreachable")), Exited("connection")) ELSE up
    /\ UNCHANGED <<session, wire, age>>

\* The kinds of steps there are for the words.
LEMMA RetryKinds ==
    ASSUME RetryTypes, [Next]_vars
    PROVE  \/ QuietStep
           \/ \E m \in ShimMessage : Says(m)
           \/ SaysUnreached
           \/ Hear
           \/ Reconnect
<1> USE DEF shim, pipe, retries, queue, history
<1>c. /\ Exited("connection") \in ShimMessage /\ Exited("status") \in ShimMessage
      /\ Exited("connection").type = "Exited" /\ Exited("status").type = "Exited"
      /\ Word("Authenticated") \in ShimMessage /\ Word("Authenticated").type = "Authenticated"
      /\ Word("Unreachable") \in ShimMessage
  BY WordsType DEF Code, Exited, Word
<1>1. CASE PreconnectStops
  <2>1. /\ Say(Exited("connection")) /\ UNCHANGED <<session, wire, age>>
        /\ pc' = "after" /\ stopped'
    BY <1>1 DEF PreconnectStops
  <2>2. Says(Exited("connection"))
    BY <1>c, <2>1 DEF Says, Say
  <2> QED BY <1>c, <2>2
<1>2. CASE Connect
  <2>1. /\ Say(Connecting(attempt')) /\ UNCHANGED <<session, wire, age, stopped>>
        /\ pc' = "login"
    BY <1>2 DEF Connect
  <2>2. attempt' \in Attempt
    BY <1>2, MaxAttemptAssumption DEF Connect, RetryTypes, Attempt
  <2>3. Connecting(attempt') \in ShimMessage /\ Connecting(attempt').type = "Connecting"
    BY <2>2, WordsType DEF Connecting
  <2>4. Says(Connecting(attempt'))
    BY <2>1, <2>3 DEF Says, Say
  <2> QED BY <2>3, <2>4
<1>3. CASE LogIn
  <2>1. /\ Say(Word("Authenticated")) /\ UNCHANGED <<session, wire, age, stopped>>
        /\ pc = "login" /\ pc' = "in"
    BY <1>3 DEF LogIn
  <2>2. Says(Word("Authenticated"))
    BY <1>c, <2>1 DEF Says, Say
  <2> QED BY <1>c, <2>2
<1>4. CASE SshEnds
  <2>0. UNCHANGED <<session, wire, age, stopped>> /\ pc \in {"login", "in"} /\ pc' = "after"
    BY <1>4 DEF SshEnds
  <2>1. CASE Say(Exited("status"))
    <3>1. Says(Exited("status"))
      BY <1>c, <2>0, <2>1 DEF Says, Say
    <3> QED BY <1>c, <3>1
  <2>2. CASE Say(Exited("connection"))
    <3>1. Says(Exited("connection"))
      BY <1>c, <2>0, <2>2 DEF Says, Say
    <3> QED BY <1>c, <3>1
  <2>3. CASE pc = "login" /\ SayUnreached
    <3> DEFINE u == Word("Unreachable")
               e == Exited("connection")
    <3>1. /\ replay' = [replay EXCEPT !.unreachable = TRUE, !.outcome = "connection"]
          /\ up' = IF wire = "up" THEN up \o <<u, e>> ELSE up
      BY <2>3 DEF SayUnreached
    <3>2. up \in Seq(ShimMessage) /\ u \in ShimMessage /\ e \in ShimMessage
      BY <1>c DEF RetryTypes
    <3> HIDE DEF u, e
    <3>3. up \o <<u, e>> = Append(Append(up, u), e)
      BY <3>2
    <3> QED BY <2>0, <2>3, <3>1, <3>3 DEF SaysUnreached, u, e
  <2> QED BY <1>4, <2>1, <2>2, <2>3 DEF SshEnds
<1>5. CASE TakeConnect \/ PressR \/ Die \/ Break
  BY <1>5 DEF TakeConnect, PressR, Die, Break, QuietStep
<1>6. CASE LinkEnds \/ QueueTell
  <2>1. /\ session'.authenticated = session.authenticated
        /\ session'.unreachable = session.unreachable
    BY <1>6 DEF LinkEnds, QueueTell, RetryTypes, Session
  <2>2. UNCHANGED <<up, replay, pc, stopped>> /\ (wire' = wire \/ wire' # "up")
    BY <1>6 DEF LinkEnds, QueueTell
  <2> QED BY <2>1, <2>2 DEF QuietStep
<1>7. CASE Age \/ TimerFires \/ QueueChoose \/ Switch
           \/ UNCHANGED vars
  <2>1. UNCHANGED <<up, replay, session, wire, pc, stopped>>
    BY <1>7 DEF Age, TimerFires, QueueChoose, Switch, vars
  <2> QED BY <2>1 DEF QuietStep
<1> QED BY <1>1, <1>2, <1>3, <1>4, <1>5, <1>6, <1>7
        DEF Next, ShimStep, QueueStep

(* Before the first attempt nothing is believed of one, nor on its way.    *)
RetryFresh ==
    replay.connecting = 0 =>
        /\ ~session.authenticated /\ ~session.unreachable
        /\ \A i \in DOMAIN up : up[i].type \notin {"Authenticated", "Unreachable"}

\* Every step keeps it so.
LEMMA RetryFreshStep ==
    ASSUME RetryTypes, RetryMemory, RetryFresh,
           [Next]_vars
    PROVE  RetryFresh'
<1>t. up \in Seq(ShimMessage) /\ replay \in Replay /\ session \in Session
  BY DEF RetryTypes
<1>1. CASE QuietStep
  BY <1>1 DEF QuietStep, RetryFresh
<1>2. CASE \E m \in ShimMessage : Says(m)
  <2>1. PICK m \in ShimMessage : Says(m)
    BY <1>2
  <2>2. /\ replay' = Remember(replay, m) /\ UNCHANGED session
        /\ up' = IF wire = "up" THEN Append(up, m) ELSE up
        /\ m.type \in {"Connecting", "Authenticated", "Exited"}
        /\ m.type = "Authenticated" => replay.connecting # 0
    BY <2>1 DEF Says, RetryMemory
  <2>3. replay'.connecting = IF m.type = "Connecting" THEN m.attempt ELSE replay.connecting
    BY <1>t, <2>2, RememberFields
  <2>4. m.type = "Connecting" => m.attempt # 0
    BY DEF ShimMessage, Attempt
  <2>5. ASSUME replay'.connecting = 0 PROVE replay.connecting = 0 /\ m.type = "Exited"
    BY <2>2, <2>3, <2>4, <2>5
  <2>6. ASSUME replay'.connecting = 0, NEW i \in DOMAIN up'
        PROVE  up'[i].type \notin {"Authenticated", "Unreachable"}
    <3>1. (i \in DOMAIN up /\ up'[i] = up[i]) \/ up'[i] = m
      BY <1>t, <2>2, <2>6
    <3> QED BY <2>5, <2>6, <3>1 DEF RetryFresh
  <2> QED BY <2>2, <2>5, <2>6 DEF RetryFresh
<1>3. CASE SaysUnreached
  <2>1. replay.connecting # 0 /\ replay'.connecting = replay.connecting
    BY <1>3, <1>t DEF SaysUnreached, RetryMemory, Replay
  <2> QED BY <2>1 DEF RetryFresh
<1>4. CASE Hear
  <2>1. /\ up # << >> /\ up' = Tail(up) /\ replay' = replay
        /\ HeardBy(session, Head(up), session')
    BY <1>4, RetryHear
  <2>2. Head(up) = up[1] /\ 1 \in DOMAIN up
        /\ \A i \in DOMAIN up' : i + 1 \in DOMAIN up /\ up'[i] = up[i + 1]
    BY <1>t, <2>1
  <2> QED BY <2>1, <2>2 DEF RetryFresh, HeardBy
<1>5. CASE Reconnect
  <2>1. ToldAgain(up', replay) /\ UNCHANGED <<replay, session>>
    BY <1>5, RetryReconnect DEF Reconnect, shim
  <2>2. replay.connecting = 0 => ~replay.authenticated /\ ~replay.unreachable
    BY DEF RetryMemory
  <2>3. ASSUME replay.connecting = 0, NEW i \in DOMAIN up'
        PROVE  up'[i].type \notin {"Authenticated", "Unreachable"}
    <3>1. Exited(replay.outcome).type = "Exited"
      BY DEF Exited
    <3> QED BY <2>1, <2>2, <2>3, <3>1 DEF ToldAgain
  <2> QED BY <2>1, <2>3 DEF RetryFresh
<1> QED BY <1>1, <1>2, <1>3, <1>4, <1>5, RetryKinds

\* A word that tells whether t happened in an attempt: t, and its beginning.
IsMark(m, t) == m.type \in {"Connecting", t}

(* What is believed, s, comes to what is the case, r, with the words w     *)
(* that are on their way: the last of them about t says so, and where none *)
(* is about it, it is believed already.                                    *)
Follows(w, t, s, r) ==
    /\ \A i \in DOMAIN w :
          IsMark(w[i], t) /\ (\A j \in DOMAIN w : j > i => ~IsMark(w[j], t))
          => (w[i].type = t <=> r)
    /\ (\A i \in DOMAIN w : ~IsMark(w[i], t)) => (s <=> r)

\* What a word makes of what was the case or believed.
Told(m, t, x) == IF m.type = "Connecting" THEN FALSE ELSE IF m.type = t THEN TRUE ELSE x

\* One more word said.
LEMMA FollowsAppend ==
    ASSUME NEW w \in Seq(ShimMessage), NEW m \in ShimMessage,
           NEW t \in {"Authenticated", "Unreachable"}, NEW s \in BOOLEAN, NEW r \in BOOLEAN,
           Follows(w, t, s, r)
    PROVE  Follows(Append(w, m), t, s, Told(m, t, r))
<1> DEFINE v == Append(w, m)
           n == Len(w) + 1
<1>1. /\ \A i \in DOMAIN v : i \in DOMAIN w \/ i = n
      /\ n \in DOMAIN v /\ v[n] = m
      /\ \A i \in DOMAIN w : i \in DOMAIN v /\ v[i] = w[i] /\ n > i /\ ~(i > n)
  OBVIOUS
<1>2. ~(n > n)
  OBVIOUS
<1> HIDE DEF v, n
<1>3. CASE IsMark(m, t)
  BY <1>1, <1>2, <1>3 DEF Follows, Told, IsMark, v
<1>4. CASE ~IsMark(m, t)
  BY <1>1, <1>2, <1>4 DEF Follows, Told, IsMark, v
<1> QED BY <1>3, <1>4

\* The first word heard.
LEMMA FollowsTail ==
    ASSUME NEW w \in Seq(ShimMessage), w # << >>,
           NEW t \in {"Authenticated", "Unreachable"}, NEW s \in BOOLEAN, NEW r \in BOOLEAN,
           Follows(w, t, s, r)
    PROVE  Follows(Tail(w), t, Told(Head(w), t, s), r)
<1> DEFINE v == Tail(w)
<1>1. /\ Head(w) = w[1] /\ 1 \in DOMAIN w
      /\ \A i \in DOMAIN v : i + 1 \in DOMAIN w /\ v[i] = w[i + 1] /\ i + 1 > 1 /\ i \in Nat
      /\ \A j \in DOMAIN w : j \in Nat /\ (j = 1 \/ (j - 1 \in DOMAIN v /\ v[j - 1] = w[j] /\ j > 1))
  OBVIOUS
<1> HIDE DEF v
<1>2. ASSUME NEW i \in DOMAIN v, IsMark(v[i], t), \A j \in DOMAIN v : j > i => ~IsMark(v[j], t)
      PROVE  v[i].type = t <=> r
  <2>1. i + 1 \in DOMAIN w /\ v[i] = w[i + 1]
    BY <1>1
  <2>2. ASSUME NEW j \in DOMAIN w, j > i + 1 PROVE ~IsMark(w[j], t)
    <3>1. j - 1 \in DOMAIN v /\ v[j - 1] = w[j] /\ j - 1 > i
      BY <1>1, <2>2
    <3> QED BY <1>2, <3>1
  <2> QED BY <1>2, <2>1, <2>2 DEF Follows
<1>3. ASSUME \A i \in DOMAIN v : ~IsMark(v[i], t)
      PROVE  Told(Head(w), t, s) <=> r
  <2>1. \A j \in DOMAIN w : j # 1 => ~IsMark(w[j], t)
    BY <1>1, <1>3
  <2>2. CASE IsMark(w[1], t)
    <3>1. w[1].type = t <=> r
      BY <1>1, <2>1, <2>2 DEF Follows
    <3> QED BY <1>1, <2>2, <3>1 DEF Told, IsMark
  <2>3. CASE ~IsMark(w[1], t)
    <3>1. s <=> r
      BY <2>1, <2>3 DEF Follows
    <3> QED BY <1>1, <2>3, <3>1 DEF Told, IsMark
  <2> QED BY <2>2, <2>3
<1> QED BY <1>2, <1>3 DEF Follows, v

\* What a new connection says.
LEMMA FollowsAgain ==
    ASSUME NEW v, NEW q \in Replay, ToldAgain(v, q),
           NEW t \in {"Authenticated", "Unreachable"}, NEW s \in BOOLEAN, NEW r \in BOOLEAN,
           r = IF t = "Authenticated" THEN q.authenticated ELSE q.unreachable,
           q.connecting = 0 => ~s /\ ~r
    PROVE  Follows(v, t, s, r)
<1>e. \A c : Exited(c).type = "Exited"
  BY DEF Exited
<1>1. ASSUME NEW i \in DOMAIN v, IsMark(v[i], t)
      PROVE  (i = 2 /\ v[i].type = "Connecting") \/ (i > 2 /\ v[i].type = t /\ r)
  BY <1>e, <1>1 DEF ToldAgain, IsMark
<1>2. r => \E i \in DOMAIN v : i > 2 /\ v[i].type = t
  BY DEF ToldAgain
<1>3. ASSUME NEW i \in DOMAIN v, IsMark(v[i], t), \A j \in DOMAIN v : j > i => ~IsMark(v[j], t)
      PROVE  v[i].type = t <=> r
  <2>1. CASE i = 2 /\ v[i].type = "Connecting"
    <3>1. ASSUME r PROVE FALSE
      <4>1. PICK j \in DOMAIN v : j > 2 /\ v[j].type = t
        BY <1>2, <3>1
      <4> QED BY <1>3, <2>1, <4>1 DEF IsMark
    <3> QED BY <2>1, <3>1
  <2>2. CASE i > 2 /\ v[i].type = t /\ r
    BY <2>2
  <2> QED BY <1>1, <1>3, <2>1, <2>2
<1>4. ASSUME \A i \in DOMAIN v : ~IsMark(v[i], t)
      PROVE  s <=> r
  <2>1. q.connecting = 0
    BY <1>4 DEF ToldAgain, IsMark
  <2> QED BY <2>1
<1> QED BY <1>3, <1>4 DEF Follows

(* While the link is up, what NativeTerm believes of the attempt - that it *)
(* logged in, that it didn't reach the server - comes to what the shim     *)
(* remembers of it with the words on their way.                            *)
RetryFollows ==
    wire = "up" =>
        /\ Follows(up, "Authenticated", session.authenticated, replay.authenticated)
        /\ Follows(up, "Unreachable", session.unreachable, replay.unreachable)

\* Every step keeps it so.
LEMMA RetryFollowsStep ==
    ASSUME RetryTypes, RetryMemory, RetryFresh, RetryFollows,
           [Next]_vars
    PROVE  RetryFollows'
<1>t. /\ up \in Seq(ShimMessage) /\ replay \in Replay
      /\ session.authenticated \in BOOLEAN /\ session.unreachable \in BOOLEAN
      /\ replay.authenticated \in BOOLEAN /\ replay.unreachable \in BOOLEAN
  BY DEF RetryTypes, Session, Replay
<1>1. CASE QuietStep
  BY <1>1 DEF QuietStep, RetryFollows
<1>2. CASE \E m \in ShimMessage : Says(m)
  <2>1. PICK m \in ShimMessage : Says(m)
    BY <1>2
  <2>2. /\ replay' = Remember(replay, m) /\ UNCHANGED <<session, wire>>
        /\ up' = IF wire = "up" THEN Append(up, m) ELSE up
        /\ m.type # "Waiting"
    BY <2>1 DEF Says
  <2>3. /\ replay'.authenticated = Told(m, "Authenticated", replay.authenticated)
        /\ replay'.unreachable = Told(m, "Unreachable", replay.unreachable)
    BY <1>t, <2>2, RememberFields DEF Told
  <2>4. CASE wire = "up"
    <3>1. /\ Follows(Append(up, m), "Authenticated", session.authenticated,
                     Told(m, "Authenticated", replay.authenticated))
          /\ Follows(Append(up, m), "Unreachable", session.unreachable,
                     Told(m, "Unreachable", replay.unreachable))
      BY <1>t, <2>4, FollowsAppend DEF RetryFollows
    <3> QED BY <2>2, <2>3, <2>4, <3>1 DEF RetryFollows
  <2>5. CASE wire # "up"
    BY <2>2, <2>5 DEF RetryFollows
  <2> QED BY <2>4, <2>5
<1>3. CASE SaysUnreached
  <2> DEFINE u == Word("Unreachable")
             e == Exited("connection")
             w == Append(up, u)
  <2>1. /\ u \in ShimMessage /\ e \in ShimMessage /\ u.type = "Unreachable" /\ e.type = "Exited"
    BY WordsType DEF Code, Word, Exited
  <2>2. /\ replay' = [replay EXCEPT !.unreachable = TRUE, !.outcome = "connection"]
        /\ up' = IF wire = "up" THEN Append(w, e) ELSE up
        /\ UNCHANGED <<session, wire>>
    BY <1>3 DEF SaysUnreached
  <2>3. replay'.authenticated = replay.authenticated /\ replay'.unreachable
    BY <1>t, <2>2 DEF Replay
  <2>4. CASE wire = "up"
    <3> HIDE DEF u, e
    <3>1. /\ w \in Seq(ShimMessage)
          /\ Follows(w, "Authenticated", session.authenticated,
                     Told(u, "Authenticated", replay.authenticated))
          /\ Follows(w, "Unreachable", session.unreachable,
                     Told(u, "Unreachable", replay.unreachable))
      BY <1>t, <2>1, <2>4, FollowsAppend DEF RetryFollows
    <3> HIDE DEF w
    <3>2. /\ Told(u, "Authenticated", replay.authenticated) = replay.authenticated
          /\ Told(u, "Unreachable", replay.unreachable) = TRUE
          /\ Told(e, "Authenticated", replay.authenticated) = replay.authenticated
          /\ Told(e, "Unreachable", TRUE) = TRUE
      BY <2>1 DEF Told
    <3>3. /\ Follows(Append(w, e), "Authenticated", session.authenticated,
                     Told(e, "Authenticated", replay.authenticated))
          /\ Follows(Append(w, e), "Unreachable", session.unreachable,
                     Told(e, "Unreachable", TRUE))
      BY <1>t, <2>1, <3>1, <3>2, FollowsAppend
    <3>4. replay'.unreachable = TRUE
      BY <2>2, <1>t DEF Replay
    <3> QED BY <2>2, <2>3, <2>4, <3>2, <3>3, <3>4 DEF RetryFollows
  <2>5. CASE wire # "up"
    BY <2>2, <2>5 DEF RetryFollows
  <2> QED BY <2>4, <2>5
<1>4. CASE Hear
  <2>1. /\ up # << >> /\ up' = Tail(up) /\ replay' = replay /\ wire' = wire
        /\ HeardBy(session, Head(up), session')
    BY <1>4, RetryHear
  <2>2. /\ session'.authenticated = Told(Head(up), "Authenticated", session.authenticated)
        /\ session'.unreachable = Told(Head(up), "Unreachable", session.unreachable)
    BY <2>1 DEF HeardBy, Told
  <2>3. CASE wire = "up"
    <3>1. /\ Follows(Tail(up), "Authenticated",
                     Told(Head(up), "Authenticated", session.authenticated), replay.authenticated)
          /\ Follows(Tail(up), "Unreachable",
                     Told(Head(up), "Unreachable", session.unreachable), replay.unreachable)
      BY <1>t, <2>1, <2>3, FollowsTail DEF RetryFollows
    <3> QED BY <2>1, <2>2, <3>1 DEF RetryFollows
  <2>4. CASE wire # "up"
    BY <2>1, <2>4 DEF RetryFollows
  <2> QED BY <2>3, <2>4
<1>5. CASE Reconnect
  <2>1. ToldAgain(up', replay) /\ UNCHANGED <<replay, session>>
    BY <1>5, RetryReconnect DEF Reconnect, shim
  <2>2. replay.connecting = 0 => /\ ~replay.authenticated /\ ~replay.unreachable
                                /\ ~session.authenticated /\ ~session.unreachable
    BY DEF RetryMemory, RetryFresh
  <2>3. Follows(up', "Authenticated", session.authenticated, replay.authenticated)
    BY <1>t, <2>1, <2>2, FollowsAgain
  <2>4. Follows(up', "Unreachable", session.unreachable, replay.unreachable)
    BY <1>t, <2>1, <2>2, FollowsAgain
  <2> QED BY <2>1, <2>3, <2>4 DEF RetryFollows
<1> QED BY <1>1, <1>2, <1>3, <1>4, <1>5, RetryKinds

\* Both hold in every state.
LEMMA RetryFollowsInvariant ==
    Spec => []RetryFresh /\ []RetryFollows
<1>1. Init => RetryFresh /\ RetryFollows
  <2> SUFFICES ASSUME Init PROVE RetryFresh /\ RetryFollows
    OBVIOUS
  <2>1. /\ up = <<Word("Hello")>> /\ replay = NoReplay /\ session = NewSession("Opening")
    BY DEF Init
  <2>2. /\ replay.authenticated = FALSE /\ replay.unreachable = FALSE
        /\ session.authenticated = FALSE /\ session.unreachable = FALSE
    BY <2>1 DEF NoReplay, NewSession
  <2>3. \A i \in DOMAIN up : up[i].type = "Hello"
    BY <2>1 DEF Word
  <2> QED BY <2>2, <2>3 DEF RetryFresh, RetryFollows, Follows, IsMark
<1>2. RetryTypes /\ RetryMemory /\ RetryFresh /\ [Next]_vars => RetryFresh'
  BY RetryFreshStep
<1>3. RetryTypes /\ RetryMemory /\ RetryFresh /\ RetryFollows /\ [Next]_vars
        => RetryFollows'
  BY RetryFollowsStep
<1> QED BY <1>1, <1>2, <1>3, RetryTypesInvariant, RetryMemoryInvariant, PTL DEF Spec

-----------------------------------------------------------------------------
(* Only drops are followed.                                                *)

\* What the outcome the shim remembers comes to.
Of(r) == Outcome(r.outcome, r.authenticated, r.unreachable)

(* After an attempt, while the link is up: the end is on its way, the last *)
(* of the words, or it was heard, and the session is in the state it comes *)
(* to or told to connect.                                                  *)
RetryEndKnown ==
    pc = "after" /\ wire = "up" =>
        IF up = << >> THEN session.state \in {"Connecting", Of(replay)}
                      ELSE up[Len(up)] = Exited(replay.outcome)

(* What the shim remembers of the end is what happened.                    *)
RetryEndTrue ==
    pc = "after" =>
        /\ Of(replay) = "Disconnected" => lastEnd \in {"dropped", "stopped"}
        /\ Of(replay) = "Unreachable" => lastEnd \in {"unreachable", "stopped"}

\* Every step keeps what happened.
LEMMA RetryEndTrueStep ==
    ASSUME RetryTypes, RetryMemory, RetryEndTrue, [Next]_vars
    PROVE  RetryEndTrue'
<1> USE DEF shim, pipe, retries, queue, history
<1>t. replay \in Replay
  BY DEF RetryTypes
<1>1. CASE PreconnectStops
  BY <1>1 DEF PreconnectStops, RetryEndTrue
<1>2. CASE SshEnds
  <2>0. /\ Exited("status") \in ShimMessage /\ Exited("connection") \in ShimMessage
        /\ \A r : /\ Remember(r, Exited("status")) = [r EXCEPT !.outcome = "status"]
                  /\ Remember(r, Exited("connection")) = [r EXCEPT !.outcome = "connection"]
    BY WordsType, RememberExited DEF Code
  <2>1. \/ replay' = [replay EXCEPT !.outcome = "status"]
        \/ /\ pc = "login" /\ replay' = [replay EXCEPT !.outcome = "connection"]
        \/ /\ pc = "login" /\ lastEnd' = "unreachable"
           /\ replay' = [replay EXCEPT !.unreachable = TRUE, !.outcome = "connection"]
        \/ /\ pc = "in" /\ lastEnd' = "dropped"
           /\ replay' = [replay EXCEPT !.outcome = "connection"]
    BY <1>2, <2>0 DEF SshEnds, Say, SayUnreached
  <2>2. CASE replay' = [replay EXCEPT !.outcome = "status"]
    <3>1. Of(replay') = "Ended"
      BY <1>t, <2>2 DEF Of, Outcome, ClassifyExit, Replay
    <3> QED BY <3>1 DEF RetryEndTrue, Of
  <2>3. CASE pc = "login" /\ replay' = [replay EXCEPT !.outcome = "connection"]
    <3>1. Of(replay') = "LoginFailed"
      BY <1>t, <2>3 DEF Of, Outcome, ClassifyExit, Replay, RetryMemory
    <3> QED BY <3>1 DEF RetryEndTrue, Of
  <2>4. CASE /\ pc = "login" /\ lastEnd' = "unreachable"
             /\ replay' = [replay EXCEPT !.unreachable = TRUE, !.outcome = "connection"]
    <3>1. Of(replay') = "Unreachable"
      BY <1>t, <2>4 DEF Of, Outcome, ClassifyExit, Replay, RetryMemory
    <3> QED BY <2>4, <3>1 DEF RetryEndTrue, Of
  <2>5. CASE /\ pc = "in" /\ lastEnd' = "dropped"
             /\ replay' = [replay EXCEPT !.outcome = "connection"]
    <3>1. Of(replay') = "Disconnected"
      BY <1>t, <2>5 DEF Of, Outcome, ClassifyExit, Replay, RetryMemory
    <3> QED BY <2>5, <3>1 DEF RetryEndTrue, Of
  <2> QED BY <2>1, <2>2, <2>3, <2>4, <2>5
<1>3. CASE Connect \/ LogIn \/ PressR \/ Die
  BY <1>3 DEF Connect, LogIn, PressR, Die, RetryEndTrue
<1>4. CASE TakeConnect
  <2>1. UNCHANGED <<replay, lastEnd>> /\ pc' # "after"
    BY <1>4 DEF TakeConnect
  <2> QED BY <2>1 DEF RetryEndTrue
<1>5. CASE \/ Break \/ Reconnect \/ Hear \/ LinkEnds \/ Age
           \/ TimerFires \/ QueueChoose \/ QueueTell \/ Switch
           \/ UNCHANGED vars
  <2>1. UNCHANGED <<pc, replay, lastEnd>>
    BY <1>5 DEF Break, Reconnect, Hear, LinkEnds, Age,
                TimerFires, QueueChoose, QueueTell, Switch, vars
  <2> QED BY <2>1 DEF RetryEndTrue
<1> QED BY <1>1, <1>2, <1>3, <1>4, <1>5
        DEF Next, ShimStep, QueueStep

\* Where the end is the only word left, hearing it leaves the state it comes to.
LEMMA EndHeard ==
    ASSUME RetryTypes, RetryFollows, wire = "up", Hear,
           up' = << >>, Head(up) = Exited(replay.outcome)
    PROVE  session'.state = Of(replay)
<1>t. up \in Seq(ShimMessage) /\ up # << >> /\ up' = Tail(up)
      /\ HeardBy(session, Head(up), session')
  BY RetryHear DEF RetryTypes
<1>1. Head(up).type = "Exited" /\ Head(up).code = replay.outcome
  BY DEF Exited
<1>2. \A i \in DOMAIN up : up[i].type = "Exited"
  BY <1>1, <1>t
<1>3. /\ session.authenticated <=> replay.authenticated
      /\ session.unreachable <=> replay.unreachable
  BY <1>2 DEF RetryFollows, Follows, IsMark
<1>4. /\ session.authenticated = replay.authenticated
      /\ session.unreachable = replay.unreachable
  BY <1>3 DEF RetryTypes, Session, Replay
<1> QED BY <1>t, <1>1, <1>4 DEF HeardBy, Of

\* Every step keeps what is known.
LEMMA RetryEndKnownStep ==
    ASSUME RetryTypes, RetryMemory, RetryFollows, RetryEndKnown,
           [Next]_vars
    PROVE  RetryEndKnown'
<1> USE DEF shim, pipe, retries, queue, history
<1>t. up \in Seq(ShimMessage) /\ replay \in Replay /\ session \in Session
  BY DEF RetryTypes
<1>e. /\ Exited("connection") \in ShimMessage /\ Exited("status") \in ShimMessage
      /\ \A r \in Replay : /\ Remember(r, Exited("status")).outcome = "status"
                           /\ Remember(r, Exited("connection")).outcome = "connection"
  BY WordsType, RememberExited DEF Code, Replay
<1>a. \A m \in ShimMessage : LET v == Append(up, m) IN v # << >> /\ v[Len(v)] = m
  BY <1>t
<1>1. CASE PreconnectStops
  <2>1. replay' = Remember(replay, Exited("connection"))
        /\ up' = (IF wire = "up" THEN Append(up, Exited("connection")) ELSE up)
        /\ wire' = wire
    BY <1>1 DEF PreconnectStops, Say
  <2> QED BY <1>a, <1>e, <1>t, <2>1 DEF RetryEndKnown
<1>2. CASE SshEnds
  <2>1. wire' = wire
    BY <1>2 DEF SshEnds
  <2>2. CASE \E c \in {"status", "connection"} : Say(Exited(c))
    <3>1. PICK c \in {"status", "connection"} : Say(Exited(c))
      BY <2>2
    <3>2. /\ replay' = Remember(replay, Exited(c))
          /\ up' = IF wire = "up" THEN Append(up, Exited(c)) ELSE up
          /\ Exited(c) \in ShimMessage /\ replay'.outcome = c
      BY <1>e, <1>t, <3>1 DEF Say
    <3> QED BY <1>a, <2>1, <3>2 DEF RetryEndKnown
  <2>3. CASE SayUnreached
    <3> DEFINE u == Word("Unreachable")
               e == Exited("connection")
    <3>1. /\ replay' = [replay EXCEPT !.unreachable = TRUE, !.outcome = "connection"]
          /\ up' = IF wire = "up" THEN up \o <<u, e>> ELSE up
      BY <2>3 DEF SayUnreached
    <3>2. u \in ShimMessage /\ e \in ShimMessage
      BY <1>e, WordsType
    <3>3. replay'.outcome = "connection"
      BY <1>t, <3>1 DEF Replay
    <3>4. e = Exited(replay'.outcome)
      BY <3>3
    <3> HIDE DEF u, e
    <3>5. LET v == up \o <<u, e>> IN v # << >> /\ v[Len(v)] = e
      BY <1>t, <3>2
    <3> QED BY <2>1, <3>1, <3>4, <3>5 DEF RetryEndKnown
  <2> QED BY <1>2, <2>2, <2>3 DEF SshEnds
<1>3. CASE \/ Connect \/ LogIn \/ TakeConnect \/ PressR \/ Die
           \/ Break \/ LinkEnds
  <2>1. \/ pc' # "after"
        \/ wire' # "up"
        \/ UNCHANGED <<pc, wire, up, replay, session>>
    BY <1>3 DEF Connect, LogIn, TakeConnect, PressR, Die,
                Break, LinkEnds
  <2> QED BY <2>1 DEF RetryEndKnown
<1>4. CASE Reconnect
  <2>1. ToldAgain(up', replay) /\ UNCHANGED <<pc, replay>>
    BY <1>4, RetryReconnect DEF Reconnect
  <2> QED BY <2>1 DEF RetryEndKnown, RetryMemory, ToldAgain
<1>5. CASE Hear
  <2>1. up # << >> /\ up' = Tail(up) /\ UNCHANGED <<pc, wire, replay>>
    BY <1>5, RetryHear
  <2>2. ASSUME pc = "after", wire = "up"
        PROVE  IF up' = << >> THEN session'.state \in {"Connecting", Of(replay)}
                              ELSE up'[Len(up')] = Exited(replay.outcome)
    <3>1. up[Len(up)] = Exited(replay.outcome)
      BY <2>1, <2>2 DEF RetryEndKnown
    <3>2. CASE up' = << >>
      <4>1. Head(up) = Exited(replay.outcome)
        <5>1. Tail(up) = << >> /\ Len(Tail(up)) = Len(up) - 1 /\ Len(up) \in Nat
          BY <1>t, <2>1, <3>2
        <5>2. Len(<< >>) = 0
          OBVIOUS
        <5>3. Len(up) - 1 = 0
          BY <5>1, <5>2, Zenon
        <5>4. Len(up) = 1
          BY <5>1, <5>3
        <5>5. Head(up) = up[1]
          BY <1>t, <2>1
        <5> QED BY <3>1, <5>4, <5>5
      <4> QED BY <1>5, <2>2, <3>2, <4>1, EndHeard
    <3>3. CASE up' # << >>
      <4>1. up'[Len(up')] = up[Len(up)]
        BY <1>t, <2>1, <3>3
      <4> QED BY <3>1, <3>3, <4>1
    <3> QED BY <3>2, <3>3
  <2> QED BY <2>1, <2>2 DEF RetryEndKnown
<1>6. CASE QueueTell
  <2>1. UNCHANGED <<pc, wire, up, replay>>
    BY <1>6 DEF QueueTell
  <2>2. session'.state \in {"Connecting", session.state}
    BY <1>6, <1>t DEF QueueTell, Session
  <2> QED BY <2>1, <2>2 DEF RetryEndKnown
<1>7. CASE Age \/ TimerFires \/ QueueChoose \/ Switch
           \/ UNCHANGED vars
  <2>1. UNCHANGED <<pc, wire, up, replay, session>>
    BY <1>7 DEF Age, TimerFires, QueueChoose, Switch, vars
  <2> QED BY <2>1 DEF RetryEndKnown
<1> QED BY <1>1, <1>2, <1>3, <1>4, <1>5, <1>6, <1>7
        DEF Next, ShimStep, QueueStep

(* With nothing on its way, a timer asks for a connection only where the   *)
(* last attempt really dropped after its login, or never reached the       *)
(* server, or was stopped before it: what was heard of it twice, late or   *)
(* after a break leads no timer astray (schedule_reconnect).               *)
THEOREM OnlyDropsEver ==
    Spec => OnlyDropsAreFollowed
<1> DEFINE Known == RetryEndKnown /\ RetryEndTrue
<1>1. Init => Known
  BY DEF Init, RetryEndKnown, RetryEndTrue
<1>2. RetryTypes /\ RetryMemory /\ RetryFollows /\ Known /\ [Next]_vars => Known'
  BY RetryEndKnownStep, RetryEndTrueStep
<1>3. RetryTypes /\ Known /\ [Next]_vars
        => [Fires /\ pc = "after" /\ wire = "up" /\ up = << >> =>
               lastEnd \in {"dropped", "unreachable", "stopped"}]_(vars)
  <2> SUFFICES ASSUME RetryTypes, Known, Next, Fires, pc = "after", wire = "up",
                      up = << >>
               PROVE  lastEnd \in {"dropped", "unreachable", "stopped"}
    OBVIOUS
  <2> USE DEF shim, pipe, retries, queue, history
  <2>1. PICK a \in 0..MaxAttempt : timers'[a] < timers[a]
    BY DEF Fires
  <2>2. queued' /\ ~queued
    BY DEF Fires
  <2>3. timers[a] \in Nat
    BY DEF RetryTypes
  <2>4. timers' # timers
    BY <2>1, <2>3
  <2>5. TimerFires
    <3>1. ~Hear
      BY DEF Hear
    <3> QED BY <2>4, <3>1
            DEF Next, ShimStep, QueueStep, PreconnectStops, Connect,
                TakeConnect, LogIn, SshEnds, PressR, Die,
                Break, Reconnect, LinkEnds, Age, QueueChoose,
                QueueTell, Switch
  <2>6. session.state \in {"Disconnected", "Unreachable"}
    BY <2>2, <2>5 DEF TimerFires, Still, Retrying
  <2>7. Of(replay) \in {"Disconnected", "Unreachable"}
    BY <2>6 DEF RetryEndKnown
  <2> QED BY <2>7 DEF RetryEndTrue
<1> QED BY <1>1, <1>2, <1>3, RetryTypesInvariant, RetryMemoryInvariant, RetryFollowsInvariant,
           PTL DEF Spec, OnlyDropsAreFollowed

-----------------------------------------------------------------------------
(* Between two ends there is a beginning.                                  *)

\* Between two ends among the words w there is the beginning of an attempt.
Apart(w) ==
    \A i, k \in DOMAIN w :
        i < k /\ w[i].type = "Exited" /\ w[k].type = "Exited" =>
            \E j \in DOMAIN w : i < j /\ j < k /\ w[j].type = "Connecting"

\* After each end there is one.
Begun(w) ==
    \A i \in DOMAIN w :
        w[i].type = "Exited" => \E j \in DOMAIN w : i < j /\ w[j].type = "Connecting"

\* There is no word about the login.
Unmarked(w) == \A j \in DOMAIN w : ~IsMark(w[j], "Authenticated")

\* An end with no word about the login before it: what is believed decides it.
Loose(w) ==
    \E i \in DOMAIN w :
        /\ w[i].type = "Exited"
        /\ \A j \in DOMAIN w : j <= i => ~IsMark(w[j], "Authenticated")

\* One more word said.
LEMMA OneMoreWord ==
    ASSUME NEW w \in Seq(ShimMessage), NEW m \in ShimMessage
    PROVE  /\ Apart(w) /\ (m.type = "Exited" => Begun(w)) => Apart(Append(w, m))
           /\ m.type = "Connecting" => Begun(Append(w, m))
           /\ m.type # "Exited" /\ Begun(w) => Begun(Append(w, m))
           /\ Loose(Append(w, m)) => Loose(w) \/ (m.type = "Exited" /\ Unmarked(w))
           /\ Unmarked(Append(w, m)) => Unmarked(w) /\ ~IsMark(m, "Authenticated")
<1> DEFINE v == Append(w, m)
           n == Len(w) + 1
<1>1. /\ \A i \in DOMAIN v : i \in DOMAIN w \/ i = n
      /\ n \in DOMAIN v /\ v[n] = m
      /\ \A i \in DOMAIN w : i \in DOMAIN v /\ v[i] = w[i] /\ i < n /\ i <= n /\ ~(n < i) /\ ~(n <= i)
      /\ ~(n < n) /\ n <= n
  OBVIOUS
<1> HIDE DEF v, n
<1>2. ASSUME Apart(w), m.type = "Exited" => Begun(w) PROVE Apart(v)
  <2>1. ASSUME NEW i \in DOMAIN v, NEW k \in DOMAIN v, i < k, v[i].type = "Exited",
               v[k].type = "Exited"
        PROVE  \E j \in DOMAIN v : i < j /\ j < k /\ v[j].type = "Connecting"
    <3>0. i \in DOMAIN w /\ v[i] = w[i]
      BY <1>1, <2>1
    <3>1. CASE k = n
      <4>1. PICK j \in DOMAIN w : i < j /\ w[j].type = "Connecting"
        BY <1>1, <1>2, <2>1, <3>0, <3>1 DEF Begun
      <4> QED BY <1>1, <3>1, <4>1
    <3>2. CASE k # n
      <4>1. k \in DOMAIN w /\ v[k] = w[k]
        BY <1>1, <3>2
      <4>2. PICK j \in DOMAIN w : i < j /\ j < k /\ w[j].type = "Connecting"
        BY <1>2, <2>1, <3>0, <4>1 DEF Apart
      <4> QED BY <1>1, <4>2
    <3> QED BY <3>1, <3>2
  <2> QED BY <2>1 DEF Apart
<1>3. m.type = "Connecting" => Begun(v)
  BY <1>1 DEF Begun
<1>4. m.type # "Exited" /\ Begun(w) => Begun(v)
  BY <1>1 DEF Begun
<1>5. Loose(v) => Loose(w) \/ (m.type = "Exited" /\ Unmarked(w))
  BY <1>1 DEF Loose, Unmarked
<1>6. Unmarked(v) => Unmarked(w) /\ ~IsMark(m, "Authenticated")
  BY <1>1 DEF Unmarked
<1> QED BY <1>2, <1>3, <1>4, <1>5, <1>6 DEF v

\* The first word heard.
LEMMA OneWordLess ==
    ASSUME NEW w \in Seq(ShimMessage), w # << >>
    PROVE  /\ Apart(w) => Apart(Tail(w))
           /\ Begun(w) => Begun(Tail(w))
           /\ ~IsMark(Head(w), "Authenticated") =>
                 /\ Loose(Tail(w)) => Loose(w)
                 /\ Unmarked(Tail(w)) => Unmarked(w)
           /\ Head(w).type = "Exited" =>
                 /\ Loose(w)
                 /\ Apart(w) => ~Loose(Tail(w))
                 /\ Begun(w) => ~Unmarked(Tail(w))
<1> DEFINE v == Tail(w)
<1>1. /\ Head(w) = w[1] /\ 1 \in DOMAIN w
      /\ \A i \in DOMAIN v : i + 1 \in DOMAIN w /\ v[i] = w[i + 1] /\ i \in Nat /\ 1 < i + 1
      /\ \A j \in DOMAIN w :
            j \in Nat /\ (j = 1 \/ (j - 1 \in DOMAIN v /\ v[j - 1] = w[j] /\ 1 < j))
  OBVIOUS
<1> HIDE DEF v
<1>2. ASSUME Apart(w) PROVE Apart(v)
  <2>1. ASSUME NEW i \in DOMAIN v, NEW k \in DOMAIN v, i < k, v[i].type = "Exited",
               v[k].type = "Exited"
        PROVE  \E j \in DOMAIN v : i < j /\ j < k /\ v[j].type = "Connecting"
    <3>1. /\ i + 1 \in DOMAIN w /\ k + 1 \in DOMAIN w /\ i + 1 < k + 1
          /\ w[i + 1].type = "Exited" /\ w[k + 1].type = "Exited"
      BY <1>1, <2>1
    <3>2. PICK j \in DOMAIN w : i + 1 < j /\ j < k + 1 /\ w[j].type = "Connecting"
      BY <1>2, <3>1 DEF Apart
    <3>3. j - 1 \in DOMAIN v /\ i < j - 1 /\ j - 1 < k /\ v[j - 1] = w[j]
      BY <1>1, <3>2
    <3> QED BY <3>2, <3>3
  <2> QED BY <2>1 DEF Apart
<1>3. ASSUME Begun(w) PROVE Begun(v)
  <2>1. ASSUME NEW i \in DOMAIN v, v[i].type = "Exited"
        PROVE  \E j \in DOMAIN v : i < j /\ v[j].type = "Connecting"
    <3>1. i + 1 \in DOMAIN w /\ w[i + 1].type = "Exited"
      BY <1>1, <2>1
    <3>2. PICK j \in DOMAIN w : i + 1 < j /\ w[j].type = "Connecting"
      BY <1>3, <3>1 DEF Begun
    <3>3. j - 1 \in DOMAIN v /\ i < j - 1 /\ v[j - 1] = w[j]
      BY <1>1, <3>2
    <3> QED BY <3>2, <3>3
  <2> QED BY <2>1 DEF Begun
<1>4. ASSUME ~IsMark(Head(w), "Authenticated"), Loose(v) PROVE Loose(w)
  <2>1. PICK i \in DOMAIN v :
          /\ v[i].type = "Exited"
          /\ \A j \in DOMAIN v : j <= i => ~IsMark(v[j], "Authenticated")
    BY <1>4 DEF Loose
  <2>2. ASSUME NEW j \in DOMAIN w, j <= i + 1 PROVE ~IsMark(w[j], "Authenticated")
    <3>1. CASE j = 1
      BY <1>1, <1>4, <3>1
    <3>2. CASE j # 1
      <4>1. j - 1 \in DOMAIN v /\ v[j - 1] = w[j] /\ j - 1 <= i
        BY <1>1, <2>2, <3>2
      <4> QED BY <2>1, <4>1
    <3> QED BY <3>1, <3>2
  <2>3. i + 1 \in DOMAIN w /\ w[i + 1].type = "Exited"
    BY <1>1, <2>1
  <2> QED BY <2>2, <2>3 DEF Loose
<1>5. ASSUME ~IsMark(Head(w), "Authenticated"), Unmarked(v) PROVE Unmarked(w)
  BY <1>1, <1>5 DEF Unmarked
<1>6. ASSUME Head(w).type = "Exited" PROVE Loose(w)
  <2>1. \A j \in DOMAIN w : j <= 1 => j = 1
    BY <1>1
  <2>2. ~IsMark(w[1], "Authenticated")
    BY <1>1, <1>6 DEF IsMark
  <2> QED BY <1>1, <1>6, <2>1, <2>2 DEF Loose
<1>7. ASSUME Head(w).type = "Exited", Apart(w), Loose(v) PROVE FALSE
  <2>1. PICK i \in DOMAIN v :
          /\ v[i].type = "Exited"
          /\ \A j \in DOMAIN v : j <= i => ~IsMark(v[j], "Authenticated")
    BY <1>7 DEF Loose
  <2>2. i + 1 \in DOMAIN w /\ 1 < i + 1 /\ w[i + 1].type = "Exited"
    BY <1>1, <2>1
  <2>3. PICK j \in DOMAIN w : 1 < j /\ j < i + 1 /\ w[j].type = "Connecting"
    BY <1>1, <1>7, <2>2 DEF Apart
  <2>4. j - 1 \in DOMAIN v /\ v[j - 1] = w[j] /\ j - 1 <= i
    BY <1>1, <2>3
  <2> QED BY <2>1, <2>3, <2>4 DEF IsMark
<1>8. ASSUME Head(w).type = "Exited", Begun(w), Unmarked(v) PROVE FALSE
  <2>1. PICK j \in DOMAIN w : 1 < j /\ w[j].type = "Connecting"
    BY <1>1, <1>8 DEF Begun
  <2>2. j - 1 \in DOMAIN v /\ v[j - 1] = w[j]
    BY <1>1, <2>1
  <2> QED BY <1>8, <2>1, <2>2 DEF IsMark, Unmarked
<1> QED BY <1>2, <1>3, <1>4, <1>5, <1>6, <1>7, <1>8 DEF v

\* The words of a new connection: their one end is the last, and where an attempt
\* is told of, its beginning comes before it.
LEMMA AgainApart ==
    ASSUME NEW v, NEW r \in Replay, ToldAgain(v, r)
    PROVE  /\ Apart(v)
           /\ r.outcome \notin Code => Begun(v) /\ ~Loose(v)
           /\ r.connecting # 0 => ~Unmarked(v) /\ ~Loose(v)
<1>e. \A c : Exited(c).type = "Exited"
  BY DEF Exited
<1>1. \A i \in DOMAIN v : v[i].type = "Exited" => i = Len(v) /\ r.outcome \in Code
  BY <1>e DEF ToldAgain
<1>2. v \in Seq(ShimMessage) /\ \A i \in DOMAIN v : i \in Nat /\ i <= Len(v)
  BY DEF ToldAgain
<1>3. Apart(v)
  BY <1>1, <1>2 DEF Apart
<1>4. r.outcome \notin Code => Begun(v) /\ ~Loose(v)
  BY <1>1 DEF Begun, Loose
<1>5. ASSUME r.connecting # 0 PROVE ~Unmarked(v) /\ ~Loose(v)
  <2>1. 2 \in DOMAIN v /\ IsMark(v[2], "Authenticated") /\ v[2].type # "Exited"
    BY <1>5 DEF ToldAgain, IsMark
  <2>2. ASSUME NEW i \in DOMAIN v, v[i].type = "Exited" PROVE 2 <= i
    BY <1>1, <1>2, <2>1, <2>2
  <2> QED BY <2>1, <2>2 DEF Unmarked, Loose
<1> QED BY <1>3, <1>4, <1>5

(* As long as no command stops an attempt before it begins: among the      *)
(* words on their way each end but the last is followed by a beginning,    *)
(* and the last too where an attempt is under way.                         *)
RetryApart ==
    ~stopped =>
        /\ Apart(up)
        /\ pc \in {"login", "in"} /\ wire = "up" => Begun(up)

\* Every step keeps it so.
LEMMA RetryApartStep ==
    ASSUME RetryTypes, RetryMemory, RetryApart,
           [Next]_vars
    PROVE  RetryApart'
<1>t. up \in Seq(ShimMessage) /\ replay \in Replay
  BY DEF RetryTypes
<1>1. CASE QuietStep
  <2>1. stopped' = stopped /\ up' = up
    BY <1>1 DEF QuietStep
  <2>2. pc' \in {"login", "in"} /\ wire' = "up" => pc \in {"login", "in"} /\ wire = "up"
    BY <1>1 DEF QuietStep
  <2> QED BY <2>1, <2>2 DEF RetryApart
<1>2. CASE \E m \in ShimMessage : Says(m)
  <2>1. PICK m \in ShimMessage : Says(m)
    BY <1>2
  <2>2. /\ up' = (IF wire = "up" THEN Append(up, m) ELSE up) /\ wire' = wire
        /\ m.type \in {"Connecting", "Authenticated", "Exited"}
        /\ m.type = "Connecting" => pc' = "login" /\ stopped' = stopped
        /\ m.type = "Authenticated" => pc = "login" /\ pc' = "in" /\ stopped' = stopped
        /\ m.type = "Exited" =>
              pc' = "after" /\ (stopped' \/ (pc \in {"login", "in"} /\ stopped' = stopped))
    BY <2>1 DEF Says
  <2> SUFFICES ASSUME ~stopped'
               PROVE  /\ Apart(up')
                      /\ pc' \in {"login", "in"} /\ wire' = "up" => Begun(up')
    BY DEF RetryApart
  <2>3. ~stopped
    BY <2>2
  <2>4. CASE wire = "up"
    <3>1. Apart(Append(up, m))
      BY <1>t, <2>2, <2>3, <2>4, OneMoreWord DEF RetryApart
    <3>2. m.type # "Exited" => Begun(Append(up, m))
      BY <1>t, <2>2, <2>3, <2>4, OneMoreWord DEF RetryApart
    <3> QED BY <2>2, <2>4, <3>1, <3>2
  <2>5. CASE wire # "up"
    BY <2>2, <2>3, <2>5 DEF RetryApart
  <2> QED BY <2>4, <2>5
<1>3. CASE SaysUnreached
  <2> DEFINE u == Word("Unreachable")
             e == Exited("connection")
             w == Append(up, u)
  <2>1. u \in ShimMessage /\ e \in ShimMessage /\ u.type = "Unreachable"
    BY WordsType DEF Code, Word
  <2>2. /\ up' = (IF wire = "up" THEN Append(w, e) ELSE up)
        /\ pc = "login" /\ pc' = "after" /\ stopped' = stopped
    BY <1>3 DEF SaysUnreached
  <2> HIDE DEF u, e
  <2>3. ASSUME ~stopped PROVE Apart(up')
    <3>1. CASE wire = "up"
      <4>1. w \in Seq(ShimMessage) /\ Apart(w) /\ Begun(w)
        BY <1>t, <2>1, <2>2, <2>3, <3>1, OneMoreWord DEF RetryApart
      <4> HIDE DEF w
      <4>2. Apart(Append(w, e))
        BY <2>1, <4>1, OneMoreWord
      <4> QED BY <2>2, <3>1, <4>2
    <3>2. CASE wire # "up"
      BY <2>2, <2>3, <3>2 DEF RetryApart
    <3> QED BY <3>1, <3>2
  <2> QED BY <2>2, <2>3 DEF RetryApart
<1>4. CASE Hear
  <2>1. /\ up # << >> /\ up' = Tail(up) /\ UNCHANGED <<pc, wire, stopped>>
    BY <1>4, RetryHear
  <2>2. (Apart(up) => Apart(Tail(up))) /\ (Begun(up) => Begun(Tail(up)))
    BY <1>t, <2>1, OneWordLess
  <2> QED BY <2>1, <2>2 DEF RetryApart
<1>5. CASE Reconnect
  <2>1. ToldAgain(up', replay) /\ UNCHANGED <<pc, stopped>>
    BY <1>5, RetryReconnect DEF Reconnect, shim, history
  <2>2. Apart(up') /\ (replay.outcome \notin Code => Begun(up'))
    BY <1>t, <2>1, AgainApart
  <2>3. pc \in {"login", "in"} => replay.outcome \notin Code
    BY DEF RetryMemory, Code
  <2> QED BY <2>1, <2>2, <2>3 DEF RetryApart
<1> QED BY <1>1, <1>2, <1>3, <1>4, <1>5, RetryKinds

-----------------------------------------------------------------------------
(* The reconnects are bounded.                                             *)

(* An end may still be heard as the drop of a stable connection: the end   *)
(* is on its way, or its attempt is under way, and no word about a login   *)
(* comes before it.                                                        *)
DropMay ==
    /\ age = "stable" /\ session.authenticated
    /\ Loose(up) \/ (pc = "in" /\ wire = "up" /\ Unmarked(up))

\* Of t tries and a tokens to b breaks and k keys: no more than they allow.
Fits(t, a, b, k) == t + a <= b + k

\* No more than before, but for what a break or a key allows.
NoMore(t1, a1, b1, k1, t, a, b, k) == t1 + a1 + b + k <= t + a + b1 + k1

\* Where the tokens allow it, everything fits once the tries start from 0.
LEMMA FitsAgain ==
    ASSUME RetryTypes, RetryTokens
    PROVE  /\ Fits(0, Ahead, breaks, acts + 1)
           /\ Fits(0, Ahead, breaks + 1, acts)
           /\ InAttempt => Fits(0, Ahead, breaks, acts)
           /\ Ends # 0 => Fits(0, Ahead, breaks, acts)
<1>1. /\ Ahead \in Nat /\ down \in Nat /\ UnderWay \in {0, 1} /\ Ends \in Nat
      /\ WillTell \in {0, 1} /\ breaks \in Nat /\ acts \in Nat
  BY Counts DEF RetryTokens
<1>2. Ahead + down + UnderWay + Ends + WillTell <= 1 + breaks + acts
  BY DEF RetryTokens
<1>3. InAttempt => UnderWay = 1
  BY DEF UnderWay, Bit
<1> QED BY <1>1, <1>2, <1>3 DEF Fits

\* What is ahead stays where no timer and nothing in the queue changes.
LEMMA SameAhead ==
    ASSUME UNCHANGED <<timers, queued, queuePc>>
    PROVE  Ahead' = Ahead
  BY DEF Ahead, TimersAhead, QueuedAhead, ChosenAhead, Waits

\* A reconnect scheduled is one more ahead.
LEMMA OneMoreAhead ==
    ASSUME RetryTypes, RetryTokens, NEW m, Scheduled(m), UNCHANGED <<queued, queuePc>>
    PROVE  Ahead' = Ahead + 1
<1>f. IsFiniteSet(Waits(timers))
  BY DEF RetryTokens
<1>1. PICK a \in 0..MaxAttempt : timers' = [timers EXCEPT ![a] = @ + 1]
  BY DEF Scheduled
<1>2. Cardinality(Waits(timers')) = Cardinality(Waits(timers)) + 1
  BY <1>f, <1>1, OneMoreWaits DEF RetryTypes
<1>3. TimersAhead' = TimersAhead + 1
  BY <1>2 DEF Waits, TimersAhead
<1>4. Ahead' = (TimersAhead + 1) + QueuedAhead + ChosenAhead
  BY <1>3 DEF Ahead, QueuedAhead, ChosenAhead
<1>5. TimersAhead \in Nat /\ QueuedAhead \in {0, 1} /\ ChosenAhead \in {0, 1}
  BY <1>f, Counts
<1> QED BY <1>4, <1>5 DEF Ahead

\* Every step but a word heard allows as much as before, or starts the tries anew
\* where all that is ahead fits.
LEMMA RetryRoom ==
    ASSUME RetryTypes, RetryTokens, [Next]_vars, ~Hear
    PROVE  /\ autoRetries' = autoRetries
           /\ \/ NoMore(tried', Ahead', breaks', acts', tried, Ahead, breaks, acts)
              \/ Fits(tried', Ahead', breaks', acts')
           /\ Age /\ pc = "in" => Fits(tried', Ahead', breaks', acts')
<1> USE DEF shim, pipe, retries, queue, history
<1>n. Ahead \in Nat /\ tried \in Nat /\ breaks \in Nat /\ acts \in Nat /\ down \in Nat
  BY Counts DEF RetryTokens
<1>m. NoMore(tried, Ahead, breaks, acts, tried, Ahead, breaks, acts)
  BY <1>n DEF NoMore
<1>1. CASE \/ PreconnectStops \/ Connect \/ LogIn \/ SshEnds
           \/ TakeConnect \/ Die \/ Reconnect \/ LinkEnds
           \/ UNCHANGED vars
  <2>1. UNCHANGED <<autoRetries, tried, breaks, acts, timers, queued, queuePc>> /\ ~Age
    BY <1>1 DEF PreconnectStops, Connect, LogIn, SshEnds,
                TakeConnect, Die, Reconnect, LinkEnds, vars,
                Age
  <2> QED BY <1>m, <2>1, SameAhead
<1>2. CASE PressR
  <2>1. UNCHANGED <<autoRetries, breaks, timers, queued, queuePc, age>> /\ tried' = 0
        /\ acts' = acts + 1 /\ pc = "after"
    BY <1>2 DEF PressR
  <2> QED BY <2>1, SameAhead, FitsAgain
<1>3. CASE Break
  <2>1. UNCHANGED <<autoRetries, acts, timers, queued, queuePc>> /\ tried' = 0
        /\ breaks' = breaks + 1 /\ ~Age
    BY <1>3 DEF Break, Age
  <2> QED BY <2>1, SameAhead, FitsAgain
<1>4. CASE Age
  <2>1. UNCHANGED <<autoRetries, acts, breaks, timers, queued, queuePc, pc>>
        /\ tried' = IF pc = "in" THEN 0 ELSE tried
    BY <1>4 DEF Age
  <2>2. CASE pc = "in"
    BY <2>1, <2>2, SameAhead, FitsAgain DEF InAttempt
  <2>3. CASE pc # "in"
    BY <1>m, <2>1, <2>3, SameAhead
  <2> QED BY <2>2, <2>3
<1>5. CASE Switch
  <2>1. UNCHANGED <<autoRetries, tried, breaks, timers, queued, queuePc>> /\ acts' = acts + 1
        /\ ~Age
    BY <1>5 DEF Switch, Age
  <2>2. NoMore(tried, Ahead, breaks, acts + 1, tried, Ahead, breaks, acts)
    BY <1>n DEF NoMore
  <2> QED BY <2>1, <2>2, SameAhead
<1>6. CASE TimerFires \/ QueueChoose \/ QueueTell
  <2>1. UNCHANGED <<autoRetries, breaks, acts, age>>
    BY <1>6 DEF TimerFires, QueueChoose, QueueTell
  <2>2. ~Age
    BY <2>1 DEF Age
  <2>3. PICK a1, d1, t1 : a1 = Ahead' /\ d1 = down' /\ t1 = tried'
    OBVIOUS
  <2>4. PassOn(a1, d1, t1, Ahead, down, tried)
    BY <1>6, <2>3, Passed DEF RetryTokens
  <2>5. t1 \in Nat
    <3>1. tried' \in Nat
      BY <1>6, <1>n DEF TimerFires, QueueChoose, QueueTell
    <3> QED BY <2>3, <3>1
  <2>6. NoMore(t1, a1, breaks, acts, tried, Ahead, breaks, acts)
    BY <1>n, <2>4, <2>5 DEF NoMore, PassOn
  <2> QED BY <2>1, <2>2, <2>3, <2>6
<1> QED BY <1>1, <1>2, <1>3, <1>4, <1>5, <1>6
        DEF Next, ShimStep, QueueStep

\* A word heard: nothing changes, or its end schedules one more reconnect, or the
\* session is given up, where all that is ahead fits.
LEMMA RetryHearRoom ==
    ASSUME RetryTypes, RetryTokens, Hear
    PROVE  /\ UNCHANGED <<breaks, acts>>
           /\ \/ UNCHANGED <<tried, autoRetries>> /\ Ahead' = Ahead
              \/ /\ Head(up).type = "Exited" /\ tried' = tried /\ Ahead' = Ahead + 1
                 /\ \/ autoRetries' = autoRetries + 1
                    \/ autoRetries' = 1 /\ age = "stable" /\ session.authenticated
              \/ /\ Head(up).type = "Exited" /\ autoRetries' = 0
                 /\ Fits(tried', Ahead', breaks, acts)
<1>1. /\ UNCHANGED <<breaks, acts, queued, queuePc>>
      /\ up # << >>
      /\ \/ UNCHANGED <<autoRetries, retryAttempt, timers, tried>>
         \/ Scheduled(Head(up))
         \/ GivenUp(Head(up))
  BY RetryHear
<1>2. CASE UNCHANGED <<autoRetries, retryAttempt, timers, tried>>
  BY <1>1, <1>2, SameAhead
<1>3. CASE Scheduled(Head(up))
  <2>1. Ahead' = Ahead + 1
    BY <1>1, <1>3, OneMoreAhead
  <2> QED BY <1>1, <1>3, <2>1 DEF Scheduled
<1>4. CASE GivenUp(Head(up))
  <2>1. Ends # 0
    <3>1. up \in Seq(ShimMessage)
      BY DEF RetryTypes
    <3>2. Head(up).type = "Exited"
      BY <1>4 DEF GivenUp
    <3>3. 1 \in EndsIn(up)
      BY <1>1, <3>1, <3>2 DEF EndsIn
    <3>4. IsFiniteSet(EndsIn(up))
      BY <3>1, EndsFinite
    <3> QED BY <3>3, <3>4, FS_EmptySet DEF Ends
  <2>2. Fits(0, Ahead, breaks, acts)
    BY <2>1, FitsAgain
  <2> QED BY <1>1, <1>4, <2>2, SameAhead DEF GivenUp
<1> QED BY <1>1, <1>2, <1>3, <1>4

\* When an end may be heard as the drop of a stable connection: after no step that
\* couldn't be so before, but when the login gets old; and no longer once one is heard.
LEMMA RetryDrops ==
    ASSUME RetryTypes, RetryMemory, RetryFollows, RetryApart,
           [Next]_vars, ~stopped', DropMay'
    PROVE  /\ DropMay \/ (Age /\ pc = "in")
           /\ Hear => Head(up).type # "Exited"
<1> USE DEF shim, pipe, retries, queue, history
<1>t. up \in Seq(ShimMessage) /\ replay \in Replay
  BY DEF RetryTypes
<1>d. /\ age' = "stable" /\ session'.authenticated
      /\ Loose(up') \/ (pc' = "in" /\ wire' = "up" /\ Unmarked(up'))
  BY DEF DropMay, Loose, Unmarked
<1>h. ~Hear \/ Hear
  OBVIOUS
<1>1. CASE QuietStep /\ ~Hear
  <2>1. /\ up' = up /\ session'.authenticated = session.authenticated
        /\ pc' = "in" /\ wire' = "up" => pc = "in" /\ wire = "up"
    BY <1>1 DEF QuietStep
  <2>2. CASE age = "stable"
    BY <1>1, <1>d, <2>1, <2>2 DEF DropMay
  <2>3. CASE age # "stable"
    <3>1. age' # age
      BY <1>d, <2>3
    <3>2. Age
      BY <1>1, <3>1
         DEF Next, ShimStep, QueueStep, PreconnectStops, Connect,
             TakeConnect, LogIn, SshEnds, PressR, Die,
             Break, Reconnect, LinkEnds, TimerFires, QueueChoose,
             QueueTell, Switch, vars
    <3>3. up' = << >> /\ pc' = pc
      BY <3>2 DEF Age, Settled
    <3>4. ~Loose(up')
      BY <3>3 DEF Loose
    <3> QED BY <1>1, <1>d, <3>2, <3>3, <3>4
  <2> QED BY <2>2, <2>3
<1>2. CASE (\E m \in ShimMessage : Says(m)) /\ ~Hear
  <2>1. PICK m \in ShimMessage : Says(m)
    BY <1>2
  <2>2. /\ up' = (IF wire = "up" THEN Append(up, m) ELSE up)
        /\ UNCHANGED <<session, wire, age>>
        /\ m.type \in {"Connecting", "Authenticated", "Exited"}
        /\ m.type = "Connecting" => pc' = "login"
        /\ m.type = "Exited" => pc' = "after" /\ pc \in {"login", "in"}
    BY <2>1 DEF Says
  <2>3. CASE wire = "up"
    <3>1. /\ Loose(up') => Loose(up) \/ (m.type = "Exited" /\ Unmarked(up))
          /\ Unmarked(up') => ~IsMark(m, "Authenticated")
      BY <1>t, <2>2, <2>3, OneMoreWord
    <3>2. ~(pc' = "in" /\ Unmarked(up'))
      BY <2>2, <3>1 DEF IsMark
    <3>3. CASE Loose(up)
      BY <1>2, <1>d, <2>2, <3>3 DEF DropMay
    <3>4. CASE m.type = "Exited" /\ Unmarked(up)
      <4>1. session.authenticated <=> replay.authenticated
        BY <2>3, <3>4 DEF RetryFollows, Follows, Unmarked
      <4>2. pc = "in"
        BY <1>d, <2>2, <3>4, <4>1 DEF RetryMemory
      <4> QED BY <1>2, <1>d, <2>2, <2>3, <3>4, <4>2 DEF DropMay
    <3> QED BY <1>d, <3>1, <3>2, <3>3, <3>4
  <2>4. CASE wire # "up"
    BY <1>2, <1>d, <2>2, <2>4 DEF DropMay
  <2> QED BY <2>3, <2>4
<1>3. CASE SaysUnreached /\ ~Hear
  <2> DEFINE u == Word("Unreachable")
             e == Exited("connection")
             w == Append(up, u)
  <2>1. u \in ShimMessage /\ e \in ShimMessage /\ u.type = "Unreachable"
    BY WordsType DEF Code, Word
  <2>2. /\ up' = (IF wire = "up" THEN Append(w, e) ELSE up)
        /\ pc = "login" /\ pc' = "after" /\ UNCHANGED <<session, wire, age>>
    BY <1>3 DEF SaysUnreached
  <2> HIDE DEF u, e
  <2>3. CASE wire = "up"
    <3>1. /\ w \in Seq(ShimMessage)
          /\ Loose(w) => Loose(up)
          /\ Unmarked(w) => Unmarked(up)
      BY <1>t, <2>1, OneMoreWord
    <3> HIDE DEF w
    <3>2. Loose(up') => Loose(w) \/ Unmarked(w)
      BY <2>1, <2>2, <2>3, <3>1, OneMoreWord
    <3>3. Loose(up) \/ Unmarked(up)
      BY <1>d, <2>2, <3>1, <3>2
    <3>4. ~Unmarked(up)
      <4>1. Unmarked(up) => (session.authenticated <=> replay.authenticated)
        BY <2>3 DEF RetryFollows, Follows, Unmarked
      <4> QED BY <1>d, <2>2, <4>1 DEF RetryMemory
    <3> QED BY <1>3, <1>d, <2>2, <3>3, <3>4 DEF DropMay
  <2>4. CASE wire # "up"
    BY <1>3, <1>d, <2>2, <2>4 DEF DropMay
  <2> QED BY <2>3, <2>4
<1>4. CASE Hear
  <2>1. /\ up # << >> /\ up' = Tail(up) /\ UNCHANGED <<pc, wire, stopped>>
        /\ HeardBy(session, Head(up), session')
        /\ age' = IF Head(up).type = "Authenticated" THEN "young" ELSE age
    BY <1>4, RetryHear
  <2>2. ~IsMark(Head(up), "Authenticated") /\ age = "stable" /\ session.authenticated
    BY <1>d, <2>1 DEF HeardBy, IsMark
  <2>3. (Loose(up') => Loose(up)) /\ (Unmarked(up') => Unmarked(up))
    BY <1>t, <2>1, <2>2, OneWordLess
  <2>4. DropMay
    BY <1>d, <2>1, <2>2, <2>3 DEF DropMay
  <2>5. Head(up).type # "Exited"
    <3> SUFFICES ASSUME Head(up).type = "Exited" PROVE FALSE
      OBVIOUS
    <3>1. /\ Apart(up) => ~Loose(up')
          /\ Begun(up) => ~Unmarked(up')
      BY <1>t, <2>1, OneWordLess
    <3>2. Apart(up) /\ (pc = "in" /\ wire = "up" => Begun(up))
      BY <2>1 DEF RetryApart
    <3> QED BY <1>d, <2>1, <3>1, <3>2
  <2> QED BY <2>4, <2>5
<1>5. CASE Reconnect
  <2>1. ToldAgain(up', replay) /\ UNCHANGED <<pc, stopped>>
    BY <1>5, RetryReconnect DEF Reconnect
  <2>2. /\ replay.outcome \notin Code => ~Loose(up')
        /\ replay.connecting # 0 => ~Unmarked(up') /\ ~Loose(up')
    BY <1>t, <2>1, AgainApart
  <2>3. (replay.outcome \in Code \/ pc = "in") => replay.connecting # 0
    BY <2>1 DEF RetryMemory
  <2> QED BY <1>d, <2>1, <2>2, <2>3
<1> QED BY <1>h, <1>1, <1>2, <1>3, <1>4, <1>5, RetryKinds

(* The bound, as long as no command stops an attempt before it begins: the *)
(* tries made and those ahead are within the count, the breaks and the     *)
(* keys, and where the count may start anew, without the count.            *)
RetryRooms ==
    ~stopped =>
        /\ DropMay => Fits(tried, Ahead, breaks, acts)
        /\ Fits(tried, Ahead, autoRetries + breaks, acts)

\* Every step keeps the bound.
LEMMA RetryRoomsStep ==
    ASSUME RetryTypes, RetryMemory, RetryFollows, RetryApart,
           RetryTokens, RetryRooms, [Next]_vars, RetryTypes', RetryTokens'
    PROVE  RetryRooms'
<1> SUFFICES ASSUME ~stopped'
             PROVE  /\ DropMay' => Fits(tried', Ahead', breaks', acts')
                    /\ Fits(tried', Ahead', autoRetries' + breaks', acts')
  BY DEF RetryRooms
<1>s. ~stopped
  <2>1. stopped' = stopped \/ stopped'
    BY DEF Next, ShimStep, QueueStep, PreconnectStops, Connect,
           TakeConnect, LogIn, SshEnds, PressR, Die,
           Break, Reconnect, Hear, LinkEnds, Age,
           TimerFires, QueueChoose, QueueTell, Switch, vars,
           history
  <2> QED BY <2>1
<1>i. /\ DropMay => Fits(tried, Ahead, breaks, acts)
      /\ Fits(tried, Ahead, autoRetries + breaks, acts)
  BY <1>s DEF RetryRooms
<1>n. /\ tried \in Nat /\ Ahead \in Nat /\ breaks \in Nat /\ acts \in Nat
      /\ autoRetries \in Nat
  BY Counts DEF RetryTokens
<1>x. PICK t1, a1, b1, k1 : t1 = tried' /\ a1 = Ahead' /\ b1 = breaks' /\ k1 = acts'
  OBVIOUS
<1>p. t1 \in Nat /\ a1 \in Nat /\ b1 \in Nat /\ k1 \in Nat
  <2>1. PICK w1, q1, c1 : w1 = TimersAhead' /\ q1 = QueuedAhead' /\ c1 = ChosenAhead'
    OBVIOUS
  <2>2. Cardinality(Waits(timers')) \in Nat
    BY FS_CardinalityType DEF RetryTokens, Waits
  <2>3. w1 \in Nat
    BY <2>1, <2>2 DEF TimersAhead, Waits
  <2>4. q1 \in {0, 1} /\ c1 \in {0, 1}
    BY <2>1 DEF QueuedAhead, ChosenAhead, Bit
  <2>5. a1 = w1 + q1 + c1
    BY <1>x, <2>1 DEF Ahead
  <2>6. a1 \in Nat
    BY <2>3, <2>4, <2>5
  <2>7. t1 \in Nat /\ b1 \in Nat /\ k1 \in Nat
    BY <1>x DEF RetryTypes
  <2> QED BY <2>6, <2>7
<1>d. DropMay' => /\ DropMay \/ (Age /\ pc = "in")
                  /\ Hear => Head(up).type # "Exited"
  BY RetryDrops
<1>1. CASE ~Hear
  <2>1. /\ autoRetries' = autoRetries
        /\ \/ NoMore(tried', Ahead', breaks', acts', tried, Ahead, breaks, acts)
           \/ Fits(tried', Ahead', breaks', acts')
        /\ Age /\ pc = "in" => Fits(tried', Ahead', breaks', acts')
    BY <1>1, RetryRoom
  <2>2. CASE NoMore(tried', Ahead', breaks', acts', tried, Ahead, breaks, acts)
    <3>1. NoMore(t1, a1, b1, k1, tried, Ahead, breaks, acts)
      BY <1>x, <2>2
    <3>2. Fits(t1, a1, autoRetries + b1, k1)
      BY <1>i, <1>n, <1>p, <3>1 DEF NoMore, Fits
    <3>3. ASSUME DropMay PROVE Fits(t1, a1, b1, k1)
      <4>1. Fits(tried, Ahead, breaks, acts)
        BY <1>i, <3>3
      <4> QED BY <1>n, <1>p, <3>1, <4>1 DEF NoMore, Fits
    <3> QED BY <1>d, <1>x, <2>1, <3>2, <3>3
  <2>3. CASE Fits(tried', Ahead', breaks', acts')
    <3>1. Fits(t1, a1, b1, k1)
      BY <1>x, <2>3
    <3>2. Fits(t1, a1, autoRetries + b1, k1)
      BY <1>n, <1>p, <3>1 DEF Fits
    <3> QED BY <1>x, <2>1, <2>3, <3>2
  <2> QED BY <2>1, <2>2, <2>3
<1>2. CASE Hear
  <2>0. up # << >> /\ up \in Seq(ShimMessage)
    BY <1>2, RetryHear DEF RetryTypes
  <2>1. /\ UNCHANGED <<breaks, acts>>
        /\ \/ UNCHANGED <<tried, autoRetries>> /\ Ahead' = Ahead
           \/ /\ Head(up).type = "Exited" /\ tried' = tried /\ Ahead' = Ahead + 1
              /\ \/ autoRetries' = autoRetries + 1
                 \/ autoRetries' = 1 /\ age = "stable" /\ session.authenticated
           \/ /\ Head(up).type = "Exited" /\ autoRetries' = 0
              /\ Fits(tried', Ahead', breaks, acts)
    BY <1>2, RetryHearRoom
  <2>2. CASE UNCHANGED <<tried, autoRetries>> /\ Ahead' = Ahead
    <3>1. DropMay' => DropMay
      <4>1. ~Age
        BY <1>2, <2>0 DEF Age, Settled
      <4> QED BY <1>d, <4>1
    <3> QED BY <1>i, <2>1, <2>2, <3>1
  <2>3. CASE /\ Head(up).type = "Exited" /\ tried' = tried /\ Ahead' = Ahead + 1
             /\ \/ autoRetries' = autoRetries + 1
                \/ autoRetries' = 1 /\ age = "stable" /\ session.authenticated
    <3>1. ~DropMay'
      BY <1>2, <1>d, <2>3
    <3>2. CASE autoRetries' = autoRetries + 1
      <4>1. Fits(tried, Ahead + 1, (autoRetries + 1) + breaks, acts)
        BY <1>i, <1>n DEF Fits
      <4> QED BY <2>1, <2>3, <3>1, <3>2, <4>1
    <3>3. CASE autoRetries' = 1 /\ age = "stable" /\ session.authenticated
      <4>1. Loose(up)
        BY <2>0, <2>3, OneWordLess
      <4>2. Fits(tried, Ahead, breaks, acts)
        BY <1>i, <3>3, <4>1 DEF DropMay
      <4>3. Fits(tried, Ahead + 1, 1 + breaks, acts)
        BY <1>n, <4>2 DEF Fits
      <4> QED BY <2>1, <2>3, <3>1, <3>3, <4>3
    <3> QED BY <2>3, <3>2, <3>3
  <2>4. CASE /\ Head(up).type = "Exited" /\ autoRetries' = 0
             /\ Fits(tried', Ahead', breaks, acts)
    <3>1. 0 + breaks = breaks
      BY <1>n
    <3> QED BY <2>1, <2>4, <3>1
  <2> QED BY <2>1, <2>2, <2>3, <2>4
<1> QED BY <1>1, <1>2

(* At most Tries automatic reconnects follow one another since the last    *)
(* stable connection, key, break of the link or giving up, but for one     *)
(* more for each break and each key - however the attempts end, the words  *)
(* are told again and the timers run into one another                      *)
(* (schedule_reconnect, AUTO_RECONNECT_TRIES); only where a command stops  *)
(* attempts before they begin is nothing said.                             *)
THEOREM RetriesBoundedEver ==
    Spec => []RetriesBoundedUnlessStopped
<1>1. RetryTypes /\ RetryTokens /\ Init => RetryApart /\ RetryRooms
  <2> SUFFICES ASSUME RetryTypes, RetryTokens, Init PROVE RetryApart /\ RetryRooms
    OBVIOUS
  <2>1. /\ up = <<Word("Hello")>> /\ pc = "begin" /\ age = "none" /\ tried = 0
        /\ autoRetries = 0 /\ breaks = 0 /\ acts = 0
    BY DEF Init
  <2>2. \A i \in DOMAIN up : up[i].type # "Exited"
    BY <2>1 DEF Word
  <2>3. RetryApart
    BY <2>1, <2>2 DEF RetryApart, Apart
  <2>4. Fits(0, Ahead, breaks, acts)
    BY <2>1, FitsAgain DEF InAttempt
  <2>5. Fits(0, Ahead, 0 + breaks, acts)
    BY <2>1, <2>4
  <2> QED BY <2>1, <2>3, <2>4, <2>5 DEF RetryRooms, DropMay
<1>2. RetryTypes /\ RetryMemory /\ RetryApart /\ [Next]_vars => RetryApart'
  BY RetryApartStep
<1>3. /\ RetryTypes /\ RetryMemory /\ RetryFollows /\ RetryApart /\ RetryTokens /\ RetryRooms
      /\ [Next]_vars /\ RetryTypes' /\ RetryTokens'
      => RetryRooms'
  BY RetryRoomsStep
<1>4. RetryTypes /\ RetryTokens /\ RetryRooms => RetriesBoundedUnlessStopped
  <2> SUFFICES ASSUME RetryTypes, RetryTokens, RetryRooms, ~stopped
               PROVE  tried <= Tries + acts + breaks
    BY DEF RetriesBoundedUnlessStopped
  <2>1. tried + Ahead <= (autoRetries + breaks) + acts
    BY DEF RetryRooms, Fits
  <2>2. /\ tried \in Nat /\ Ahead \in Nat /\ breaks \in Nat /\ acts \in Nat
        /\ autoRetries \in 0..Tries
    BY Counts DEF RetryTokens, RetryTypes
  <2> QED BY <2>1, <2>2, AutoReconnectAssumption
<1> QED BY <1>1, <1>2, <1>3, <1>4, RetryTypesInvariant, RetryMemoryInvariant,
           RetryFollowsInvariant, RetryTokensInvariant, PTL DEF Spec
=============================================================================
