------------------------- MODULE SessionLink_proof -------------------------
(***************************************************************************)
(* Proofs about one session (SessionLink), for any number of breaks,       *)
(* crashes, acts and attempts: the types, that what the shim would say to  *)
(* a NativeTerm that connects now is the truth, that no session is shown   *)
(* logged in that isn't, that with nothing on its way NativeTerm's record  *)
(* is what the shim remembers, and that nothing connects or is typed into  *)
(* a tab unasked.                                                          *)
(***************************************************************************)
EXTENDS SessionLink, Protocol_proof, WellFoundedInduction, TLAPS

-----------------------------------------------------------------------------
(* Type correctness.                                                       *)

\* An end is reported only with what ssh exited with.
EndKnown == pc = "report" => ssh \in Code

LEMMA EndKnownInvariant == Spec => []EndKnown
<1>1. Init => EndKnown
  BY DEF Init, EndKnown
<1>2. EndKnown /\ [Next]_vars => EndKnown'
  <2> SUFFICES ASSUME EndKnown, [Next]_vars
               PROVE  EndKnown'
    OBVIOUS
  <2> USE DEF EndKnown, shim, Code
  <2>1. CASE ShimStep
    BY <2>1 DEF ShimStep, Start, PreconnectStops, Connect, Sleep, Wake, Relogin,
                SshEnded, Report, FollowWords
  <2>2. CASE Environment
    BY <2>2 DEF Environment, PressR, PressC, TabClosing, Die, LogIn, SshExits,
                SshRuns, Break, QueueGivesUp, AskStep, AskConnect, AskDisconnect,
                AskClose, AskSendText, Ask, Crash, GraceEnds, RestoreTab
  <2>3. CASE Reconnect \/ Deliver \/ HearStep \/ SignalStep
             \/ TypeLoginCommand \/ QueueStep \/ Restart \/ UNCHANGED vars
    BY <2>3 DEF Reconnect, Deliver, HearStep, HearHello, Hear, LinkEnds,
                SignalStep, SignalHello, SignalHeard, TypeLoginCommand,
                QueueStep, QueueChoose, QueueTell, QueueMark, Restart, vars
  <2> QED BY <2>1, <2>2, <2>3 DEF Next
<1> QED BY <1>1, <1>2, PTL DEF Spec

LEMMA AppendType ==
    ASSUME NEW words \in Seq(AppMessage), NEW m \in AppMessage
    PROVE  Append(words, m) \in Seq(AppMessage)
  OBVIOUS

THEOREM TypeCorrect == Spec => []TypeOK
<1> USE SessionLinkAssumption, MaxAttemptAssumption
<1>1. Init => TypeOK
  <2> SUFFICES ASSUME Init PROVE TypeOK
    OBVIOUS
  <2>1. session \in Session
    BY DEF Init, NewSession, Session, State
  <2>2. queued \in BOOLEAN /\ asked \in BOOLEAN
    BY DEF Init
  <2>a. auth \in BOOLEAN /\ reported \in BOOLEAN /\ closing \in BOOLEAN
        /\ running \in BOOLEAN /\ typing \in BOOLEAN
    BY Zenon DEF Init
  <2>b. replay \in Replay /\ ssh \in {"none", "login", "in"} \cup Code
    BY NoReplayType, Zenon DEF Init
  <2>c. attempt \in 0..MaxAttempt /\ inbox \in Seq(AppMessage) /\ pc \in ShimPc
    BY DEF Init, ShimPc
  <2>d. /\ signal \in {"none", "sent", "found"} /\ crashes \in 0..MaxCrashes
        /\ queuePc \in {"idle", "chosen", "sent"}
    BY DEF Init
  <2>3. ShimTypeOK
    BY <2>a, <2>b, <2>c, Zenon DEF ShimTypeOK
  <2>4. PipeTypeOK
    BY DEF Init, PipeTypeOK
  <2>5. AppTypeOK
    BY <2>1, <2>2, <2>a, <2>d, Zenon DEF AppTypeOK
  <2>6. PersonTypeOK
    BY <2>2 DEF Init, PersonTypeOK
  <2> QED BY <2>3, <2>4, <2>5, <2>6 DEF TypeOK
<1>2. TypeOK /\ EndKnown /\ [Next]_vars => TypeOK'
  <2> SUFFICES ASSUME TypeOK, EndKnown, [Next]_vars
               PROVE  TypeOK'
    OBVIOUS
  <2> USE DEF TypeOK, ShimTypeOK, PipeTypeOK, AppTypeOK, PersonTypeOK,
              shim, pipe, app, person
  <2>s. ASSUME NEW m \in ShimMessage, Say(m)
        PROVE  replay' \in Replay /\ up' \in Seq(ShimMessage)
    BY <2>s, RememberType DEF Say
  <2>h. ASSUME Hangup PROVE wire' \in {"down", "up", "closing"}
    BY <2>h DEF Hangup
  <2>1. CASE Start
    BY <2>1, <2>s, WordsType DEF Start, Quiet, ShimPc
  <2>2. CASE PreconnectStops
    BY <2>2, <2>s, WordsType DEF PreconnectStops, ShimPc, Code
  <2>3. CASE Connect
    <3>1. attempt' \in Attempt
      BY <2>3 DEF Connect, Attempt
    <3>2. attempt' \in 0..MaxAttempt
      BY <3>1 DEF Attempt
    <3>3. Connecting(attempt') \in ShimMessage
      BY <3>1, WordsType
    <3>4. replay' \in Replay /\ up' \in Seq(ShimMessage)
      BY <2>3, <3>3, <2>s DEF Connect
    <3>5. ssh' \in {"none", "login", "in"} \cup Code /\ pc' \in ShimPc
      BY <2>3 DEF Connect, ShimPc, Code
    <3>6. ShimTypeOK'
      BY <2>3, <3>2, <3>4, <3>5 DEF Connect
    <3>7. PipeTypeOK' /\ AppTypeOK' /\ PersonTypeOK'
      BY <2>3, <3>4 DEF Connect
    <3> QED BY <3>6, <3>7
  <2>4. CASE Sleep
    BY <2>4 DEF Sleep, ShimPc
  <2>5. CASE Wake
    <3>1. replay' \in Replay /\ up' \in Seq(ShimMessage)
      BY <2>5, <2>s, WordsType DEF Wake, Quiet
    <3> QED BY <2>5, <3>1, <2>h DEF Wake, ShimPc
  <2>6. CASE Relogin
    BY <2>6 DEF Relogin, ShimPc
  <2>7. CASE SshEnded
    BY <2>7, <2>s, WordsType DEF SshEnded, Quiet, ShimPc
  <2>8. CASE Report
    <3>1. replay' \in Replay /\ up' \in Seq(ShimMessage)
      BY <2>8, <2>s, WordsType DEF Report, EndKnown
    <3> QED BY <2>8, <3>1 DEF Report, ShimPc
  <2>10. CASE PressR
    BY <2>10 DEF PressR, PersonActs, ShimPc
  <2>11. CASE PressC
    BY <2>11, <2>h DEF PressC, PersonActs, ShimPc
  <2>12. CASE FollowWords
    BY <2>12, <2>h DEF FollowWords, ShimPc
  <2>13. CASE TabClosing
    BY <2>13, <2>s, WordsType DEF TabClosing, PersonActs
  <2>14. CASE Die
    BY <2>14, <2>h DEF Die, ShimPc
  <2>15. CASE LogIn
    BY <2>15 DEF LogIn
  <2>16. CASE SshExits
    BY <2>16 DEF SshExits
  <2>17. CASE Reconnect
    <3>1. up' \in Seq(ShimMessage)
      BY <2>17, ReplayWordsType, WordsType DEF Reconnect
    <3> QED BY <2>17, <3>1 DEF Reconnect
  <2>18. CASE Deliver
    BY <2>18 DEF Deliver
  <2>19. CASE Break
    BY <2>19 DEF Break
  <2>20. CASE HearHello
    <3>1. session' \in Session
      BY <2>20 DEF HearHello, Session, State
    <3> QED BY <2>20, <3>1 DEF HearHello
  <2>21. CASE Hear
    <3>1. Head(up) \in ShimMessage /\ Tail(up) \in Seq(ShimMessage)
      BY <2>21 DEF Hear
    <3>2. ASSUME NEW m \in ShimMessage PROVE Heard(session, m) \in Session
      <4> DEFINE s == IF m.type = "Connecting" THEN [session EXCEPT !.told = FALSE]
                                               ELSE session
      <4>1. s \in Session
        BY DEF Session
      <4> HIDE DEF s
      <4>2. Apply(s, m) \in Session
        BY <4>1, ApplyType
      <4> QED BY <4>2 DEF Heard, s, Session
    <3>3. session' \in Session
      BY <2>21, <3>1, <3>2 DEF Hear, Session
    <3> QED BY <2>21, <3>1, <3>3 DEF Hear, LostConnect, NewLogin, HasLoginCommand, Session
  <2>22. CASE LinkEnds
    <3>1. session' \in Session
      BY <2>22 DEF LinkEnds, Session, State
    <3> QED BY <2>22, <3>1 DEF LinkEnds
  <2>23. CASE SignalHello
    BY <2>23 DEF SignalHello
  <2>24. CASE SignalHeard
    <3>1. session' \in Session
      BY <2>24 DEF SignalHeard, Session, State
    <3> QED BY <2>24, <3>1 DEF SignalHeard
  <2>25. CASE TypeLoginCommand
    <3>1. down' \in {down, Append(down, "SendText")}
      BY <2>25 DEF TypeLoginCommand
    <3>2. down' \in Seq(AppMessage)
      BY <3>1, AppendType DEF AppMessage
    <3>3. commandsTyped' \in 0..2
      BY <2>25 DEF TypeLoginCommand
    <3>4. PipeTypeOK' /\ PersonTypeOK'
      BY <2>25, <3>2, <3>3 DEF TypeLoginCommand
    <3>5. ShimTypeOK' /\ AppTypeOK'
      BY <2>25 DEF TypeLoginCommand
    <3> QED BY <3>4, <3>5
  <2>26. CASE QueueChoose
    BY <2>26 DEF QueueChoose
  <2>27. CASE QueueGivesUp
    BY <2>27 DEF QueueGivesUp
  <2>28. CASE QueueTell
    <3>1. down' \in {down, Append(down, "Connect")}
      BY <2>28 DEF QueueTell
    <3>3. down' \in Seq(AppMessage)
      BY <3>1, AppendType DEF AppMessage
    <3>2. queuePc' \in {"idle", "chosen", "sent"} /\ queued' \in BOOLEAN
      BY <2>28 DEF QueueTell
    <3> QED BY <2>28, <3>3, <3>2 DEF QueueTell
  <2>29. CASE QueueMark
    <3>1. session' \in Session
      BY <2>29 DEF QueueMark, Session, State
    <3> QED BY <2>29, <3>1 DEF QueueMark
  <2>30. CASE AskConnect
    <3>1. session' \in Session
      BY <2>30 DEF AskConnect, Session
    <3> QED BY <2>30, <3>1 DEF AskConnect, Ask, PersonActs, Tell, AppMessage
  <2>31. CASE AskDisconnect
    BY <2>31 DEF AskDisconnect, Ask, PersonActs, Tell, AppMessage
  <2>32. CASE AskClose
    <3>1. session' \in Session
      BY <2>32 DEF AskClose, Session, State
    <3>2. down' \in {down, Append(down, "Close")}
      BY <2>32 DEF AskClose, Tell
    <3>3. down' \in Seq(AppMessage)
      BY <3>2, AppendType DEF AppMessage
    <3> QED BY <2>32, <3>1, <3>3 DEF AskClose, Ask, PersonActs
  <2>33. CASE AskSendText
    BY <2>33 DEF AskSendText, Ask, PersonActs, Tell, AppMessage
  <2>34. CASE Crash
    <3>1. session' \in Session
      BY <2>34 DEF Crash, NewSession, Session, State
    <3>2. ShimTypeOK' /\ PersonTypeOK'
      BY <2>34 DEF Crash
    <3>3. PipeTypeOK'
      BY <2>34 DEF Crash
    <3>a. running' \in BOOLEAN /\ queued' \in BOOLEAN /\ typing' \in BOOLEAN
      BY <2>34, Zenon DEF Crash
    <3>b. /\ signal' \in {"none", "sent", "found"} /\ crashes' \in 0..MaxCrashes
          /\ queuePc' \in {"idle", "chosen", "sent"}
      BY <2>34 DEF Crash
    <3>4. AppTypeOK'
      BY <3>1, <3>a, <3>b, Zenon
    <3> QED BY <3>2, <3>3, <3>4
  <2>35. CASE Restart
    <3>1. session' \in Session
      BY <2>35 DEF Restart, Session, State
    <3> QED BY <2>35, <3>1 DEF Restart
  <2>36. CASE GraceEnds
    <3>1. session' \in Session
      BY <2>36 DEF GraceEnds, Session, State
    <3> QED BY <2>36, <3>1 DEF GraceEnds
  <2>37. CASE RestoreTab
    <3>1. session' \in Session
      BY <2>37 DEF RestoreTab, Session, State
    <3>a. /\ pc' = "startWait" /\ attempt' = 0 /\ ssh' = ssh /\ auth' = FALSE
          /\ reported' = FALSE /\ inbox' = << >> /\ replay' = NoReplay
          /\ closing' = FALSE
      BY <2>37 DEF RestoreTab
    <3>b. auth' \in BOOLEAN /\ reported' \in BOOLEAN /\ closing' \in BOOLEAN
      BY <3>a, Zenon
    <3>c. attempt' \in 0..MaxAttempt
      BY <3>a
    <3>d. inbox' \in Seq(AppMessage)
      BY <3>a
    <3>e. replay' \in Replay
      BY <3>a, NoReplayType, Zenon
    <3>f. pc' \in ShimPc
      BY <3>a DEF ShimPc
    <3>2. ShimTypeOK'
      BY <3>a, <3>b, <3>c, <3>d, <3>e, <3>f, Zenon
    <3>3. PipeTypeOK'
      BY <2>37 DEF RestoreTab
    <3>g. restores' \in 0..MaxRestores
      BY <2>37 DEF RestoreTab
    <3>4. AppTypeOK' /\ PersonTypeOK'
      BY <2>37, <3>1, <3>g, Zenon DEF RestoreTab
    <3> QED BY <3>2, <3>3, <3>4
  <2>38. CASE UNCHANGED vars
    BY <2>38 DEF vars
  <2> QED
    BY <2>1, <2>2, <2>3, <2>4, <2>5, <2>6, <2>7, <2>8, <2>10, <2>11, <2>12,
       <2>13, <2>14, <2>15, <2>16, <2>17, <2>18, <2>19, <2>20, <2>21, <2>22,
       <2>23, <2>24, <2>25, <2>26, <2>27, <2>28, <2>29, <2>30, <2>31, <2>32,
       <2>33, <2>34, <2>35, <2>36, <2>37, <2>38
       DEF Next, ShimStep, HearStep, SignalStep, QueueStep, AskStep, Environment
<1> QED BY <1>1, <1>2, EndKnownInvariant, PTL DEF Spec

-----------------------------------------------------------------------------
(* What the link would say again is the truth.                             *)

(* The inductive invariant: in every state, not only where the shim has    *)
(* something to tell of, a remembered login is one the event still stands  *)
(* for; and a supervised ssh is of a numbered attempt.                     *)
ReplayInv ==
    /\ ReplayTellsTheTruth
    /\ replay.authenticated => auth
    /\ pc \in {"top", "asleep"} => attempt # 0

\* It holds in every state.
LEMMA ReplayInvariant == Spec => []ReplayInv
<1> USE SessionLinkAssumption, MaxAttemptAssumption
<1>1. Init => ReplayInv
  BY DEF Init, ReplayInv, ReplayTellsTheTruth, NoReplay
<1>2. TypeOK /\ EndKnown /\ ReplayInv /\ [Next]_vars => ReplayInv'
  <2> SUFFICES ASSUME TypeOK, EndKnown, ReplayInv, [Next]_vars
               PROVE  ReplayInv'
    OBVIOUS
  <2> USE DEF ReplayInv, ReplayTellsTheTruth
  <2>t. /\ replay \in Replay /\ attempt \in 0..MaxAttempt /\ auth \in BOOLEAN
        /\ NoReplay \in Replay /\ Code = {"connection", "status"}
    BY NoReplayType DEF TypeOK, ShimTypeOK, Code
  <2>s. ASSUME NEW m, Say(m) PROVE replay' = Remember(replay, m)
    BY <2>s DEF Say
  <2>u. ASSUME UNCHANGED <<pc, attempt, auth, replay>> PROVE ReplayInv'
    BY <2>u
  <2>1. CASE Start
    <3>1. CASE Say(Word("Waiting")) /\ pc' = "after"
      <4>1. replay' = Remember(replay, Word("Waiting"))
        BY <2>s, <3>1
      <4>2. replay' = [NoReplay EXCEPT !.outcome = "Waiting"]
        BY <4>1, RememberWords, Zenon
      <4> QED BY <3>1, <4>2 DEF NoReplay
    <3>2. CASE Quiet /\ pc' = "begin"
      BY <2>1, <3>2 DEF Start, Quiet
    <3> QED BY <2>1, <3>1, <3>2 DEF Start
  <2>2. CASE PreconnectStops
    <3>a. replay' = Remember(replay, Exited("connection"))
      BY <2>2, <2>s DEF PreconnectStops
    <3>1. replay' = [replay EXCEPT !.outcome = "connection"]
      BY <3>a, RememberExited
    <3> QED BY <2>2, <2>t, <3>1 DEF PreconnectStops, Replay
  <2>3. CASE Connect
    <3>a. replay' = Remember(replay, Connecting(attempt'))
      BY <2>3, <2>s DEF Connect
    <3>1. replay' = [NoReplay EXCEPT !.connecting = attempt']
      BY <3>a, RememberConnecting
    <3> QED BY <2>3, <2>t, <3>1 DEF Connect, NoReplay, Replay
  <2>4. CASE Sleep
    BY <2>4 DEF Sleep
  <2>5. CASE Wake
    <3>1. replay' = [replay EXCEPT !.authenticated = TRUE] \/ replay' = replay
      BY <2>5, <2>s, RememberWords DEF Wake, Quiet
    <3>2. replay' # replay => auth
      BY <2>5 DEF Wake, Quiet
    <3>3. pc = "asleep" /\ pc' \in {"gone", "top"} /\ UNCHANGED <<attempt, auth>>
      BY <2>5 DEF Wake
    <3> QED BY <2>t, <3>1, <3>2, <3>3 DEF Replay
  <2>6. CASE Relogin
    BY <2>6 DEF Relogin
  <2>7. CASE SshEnded
    <3>1. replay' = [replay EXCEPT !.unreachable = TRUE] \/ replay' = replay
      BY <2>7, <2>s, RememberWords DEF SshEnded, Quiet
    <3> QED BY <2>7, <2>t, <3>1 DEF SshEnded, Replay
  <2>8. CASE Report
    <3>a. replay' = Remember(replay, Exited(ssh))
      BY <2>8, <2>s DEF Report
    <3>1. replay' = [replay EXCEPT !.outcome = ssh]
      BY <3>a, RememberExited
    <3>2. ssh # "none"
      BY <2>8, <2>t DEF Report, EndKnown
    <3> QED BY <2>8, <2>t, <3>1, <3>2 DEF Report, Replay
  <2>9. CASE TabClosing
    <3>1. replay' = replay
      BY <2>9, <2>s, RememberWords DEF TabClosing
    <3> QED BY <2>9, <3>1 DEF TabClosing
  <2>10. CASE RestoreTab
    BY <2>10 DEF RestoreTab, NoReplay
  <2>11. CASE PressR \/ PressC \/ FollowWords \/ Die
    BY <2>11 DEF PressR, PressC, FollowWords, Die
  <2>12. CASE LogIn
    BY <2>12 DEF LogIn
  <2>13. CASE SshExits \/ Reconnect \/ Deliver \/ Break \/ Crash \/ Restart
    BY <2>13, <2>u DEF SshExits, Reconnect, Deliver, Break, Crash, Restart, shim
  <2>14. CASE HearStep \/ SignalStep \/ TypeLoginCommand \/ QueueStep
    BY <2>14, <2>u DEF HearStep, HearHello, Hear, LinkEnds, SignalStep,
                       SignalHello, SignalHeard, TypeLoginCommand, QueueStep,
                       QueueChoose, QueueTell, QueueMark, shim
  <2>15. CASE AskStep \/ QueueGivesUp \/ GraceEnds \/ UNCHANGED vars
    BY <2>15, <2>u DEF AskStep, AskConnect, AskDisconnect, AskClose,
                       AskSendText, Ask, QueueGivesUp, GraceEnds, vars, shim
  <2> QED
    BY <2>1, <2>2, <2>3, <2>4, <2>5, <2>6, <2>7, <2>8, <2>9, <2>10, <2>11,
       <2>12, <2>13, <2>14, <2>15
       DEF Next, ShimStep, Environment
<1> QED BY <1>1, <1>2, TypeCorrect, EndKnownInvariant, PTL DEF Spec

\* What the shim would say to a NativeTerm that connects now is where it is.
THEOREM ReplayCorrect == Spec => []ReplayTellsTheTruth
<1>1. ReplayInv => ReplayTellsTheTruth
  BY DEF ReplayInv
<1> QED BY <1>1, ReplayInvariant, PTL

-----------------------------------------------------------------------------
(* Nobody is shown logged in who isn't.                                    *)

\* The record of somebody who is, or was, logged in.
Shown(s) == s.authenticated \/ s.state \in {"Connected", "Disconnected"}

\* The login signal is of an ssh that is logged in, and so is the event set.
Signals ==
    /\ SshRuns => pc \in {"top", "asleep"}
    /\ ssh = "in" => auth
    /\ signal # "none" => ssh = "in"

\* Before its first attempt a shim says nothing of one.
Fresh ==
    /\ replay.connecting <= attempt
    /\ wire = "down" => up = << >>
    /\ attempt = 0 =>
        /\ ~auth /\ ~replay.unreachable /\ replay.outcome \in {"none", "Waiting"}
        /\ pc \in {"start", "startWait", "begin", "after", "gone"}
        /\ session.state \notin {"Connected", "Disconnected"}
        /\ \A i \in DOMAIN up : up[i].type \in {"Hello", "Waiting", "Closing"}

(* A login on its way, or in the record, is of this attempt - or the word  *)
(* that this attempt began is still on its way, and will wipe it.          *)
Current ==
    wire = "up" /\ attempt # 0 /\ replay.connecting = attempt =>
        /\ \A i \in DOMAIN up : up[i].type = "Authenticated" =>
               auth \/ \E j \in DOMAIN up : j > i /\ up[j] = Connecting(attempt)
        /\ Shown(session) => auth \/ Has(up, Connecting(attempt))

LoginInv == Signals /\ Fresh /\ Current

\* What a word leaves of a login in the record.
LEMMA HeardIs ==
    ASSUME NEW s \in Session, NEW m \in ShimMessage
    PROVE  /\ Shown(Heard(s, m)) =>
                m.type = "Authenticated" \/ (m.type # "Connecting" /\ Shown(s))
           /\ m.type \in {"Hello", "Waiting", "Closing"} =>
                Heard(s, m).state \in {"Waiting", "Closed", s.state}
           /\ Heard(s, m) \in Session
<1> DEFINE t == IF m.type = "Connecting" THEN [s EXCEPT !.told = FALSE] ELSE s
<1>1. t \in Session /\ t.state = s.state /\ t.authenticated = s.authenticated
  BY DEF Session
<1>2. Heard(s, m) = [Apply(t, m) EXCEPT !.typed = (Apply(t, m).state = "Connected")]
  BY DEF Heard
<1>t. Apply(t, m) \in Session
  BY <1>1, ApplyType
<1>3. /\ Heard(s, m).state = Apply(t, m).state
      /\ Heard(s, m).authenticated = Apply(t, m).authenticated
      /\ Heard(s, m) \in Session
  BY <1>2, <1>t DEF Session
<1> HIDE DEF t
<1>4. CASE m.type = "Exited"
  <2>1. Apply(t, m) = [t EXCEPT !.state = Outcome(m.code, t.authenticated, t.unreachable)]
    BY <1>4 DEF Apply
  <2>2. \A c, a, u : Outcome(c, a, u) # "Connected" /\ (Outcome(c, a, u) = "Disconnected" => a)
    BY DEF Outcome, ClassifyExit
  <2>3. Apply(t, m).authenticated = t.authenticated
        /\ Apply(t, m).state = Outcome(m.code, t.authenticated, t.unreachable)
    BY <1>1, <2>1 DEF Session
  <2> QED BY <1>1, <1>3, <1>4, <2>2, <2>3 DEF Shown
<1>5. CASE m.type = "Connecting"
  <2>1. Apply(t, m).state = "Connecting" /\ ~Apply(t, m).authenticated
    BY <1>1, <1>5 DEF Apply, Session
  <2> QED BY <1>3, <1>5, <2>1 DEF Shown
<1>6. CASE m.type = "Authenticated"
  BY <1>3, <1>6
<1>7. CASE m.type = "Waiting" \/ m.type = "Closing"
  <2>1. Apply(t, m).state \in {"Waiting", "Closed"}
        /\ Apply(t, m).authenticated = t.authenticated
    BY <1>1, <1>7 DEF Apply, Session
  <2> QED BY <1>1, <1>3, <1>7, <2>1 DEF Shown
<1>8. CASE m.type \notin {"Exited", "Connecting", "Authenticated", "Waiting", "Closing"}
  <2>1. Apply(t, m).state = t.state /\ Apply(t, m).authenticated = t.authenticated
    BY <1>1, <1>8 DEF Apply, Session
  <2> QED BY <1>1, <1>3, <1>8, <2>1 DEF Shown
<1> QED BY <1>4, <1>5, <1>6, <1>7, <1>8

\* The words said again: the attempt first, a login only if there was one.
LEMMA ReplayWordsSay ==
    ASSUME NEW r \in Replay
    PROVE  /\ r.connecting # 0 =>
                1 \in DOMAIN ReplayWords(r) /\ ReplayWords(r)[1] = Connecting(r.connecting)
           /\ \A i \in DOMAIN ReplayWords(r) :
                ReplayWords(r)[i].type = "Authenticated" => r.authenticated
           /\ r.connecting = 0 /\ ~r.authenticated /\ ~r.unreachable
              /\ r.outcome \in {"none", "Waiting"} =>
                \A i \in DOMAIN ReplayWords(r) : ReplayWords(r)[i].type = "Waiting"
<1> DEFINE a == If(r.connecting # 0, Connecting(r.connecting))
           b == If(r.authenticated, Word("Authenticated"))
           c == If(r.unreachable, Word("Unreachable"))
           d == If(r.outcome = "Waiting", Word("Waiting"))
           e == If(r.outcome \in Code, Exited(r.outcome))
           Only(q, type, holds) ==
               q \in Seq(ShimMessage)
               /\ \A i \in DOMAIN q : i = 1 /\ q[i].type = type /\ holds
<1>1. Only(a, "Connecting", r.connecting # 0)
  <2>1. r.connecting # 0 => Connecting(r.connecting) \in ShimMessage
    BY WordsType, MaxAttemptAssumption DEF Replay, Attempt
  <2> QED BY <2>1 DEF If, Connecting
<1>2. Only(b, "Authenticated", r.authenticated)
  BY WordsType DEF If, Word
<1>3. Only(c, "Unreachable", r.unreachable)
  BY WordsType DEF If, Word
<1>4. Only(d, "Waiting", r.outcome = "Waiting")
  BY WordsType DEF If, Word
<1>5. Only(e, "Exited", r.outcome \in Code)
  BY WordsType DEF If, Exited
<1>6. ReplayWords(r) = a \o b \o c \o d \o e
  BY DEF ReplayWords
<1>7. r.connecting # 0 => a = <<Connecting(r.connecting)>>
  BY DEF If
<1>8. ASSUME NEW p \in Seq(ShimMessage), NEW q \in Seq(ShimMessage)
      PROVE  /\ p \o q \in Seq(ShimMessage)
             /\ \A i \in DOMAIN (p \o q) :
                    \/ i \in DOMAIN p /\ (p \o q)[i] = p[i]
                    \/ \E j \in DOMAIN q : (p \o q)[i] = q[j]
             /\ \A i \in DOMAIN p : i \in DOMAIN (p \o q) /\ (p \o q)[i] = p[i]
  <2>1. p \o q \in Seq(ShimMessage) /\ Len(p \o q) = Len(p) + Len(q)
    OBVIOUS
  <2>2. ASSUME NEW i \in DOMAIN (p \o q), i \notin DOMAIN p
        PROVE  \E j \in DOMAIN q : (p \o q)[i] = q[j]
    <3>1. i - Len(p) \in DOMAIN q /\ (p \o q)[i] = q[i - Len(p)]
      BY <2>2
    <3> QED BY <3>1
  <2>3. \A i \in DOMAIN p : i \in DOMAIN (p \o q) /\ (p \o q)[i] = p[i]
    OBVIOUS
  <2> QED BY <2>1, <2>2, <2>3
<1> HIDE DEF a, b, c, d, e
<1>9. /\ a \o b \in Seq(ShimMessage) /\ a \o b \o c \in Seq(ShimMessage)
      /\ a \o b \o c \o d \in Seq(ShimMessage)
  BY <1>1, <1>2, <1>3, <1>4, <1>8
<1>10. \A i \in DOMAIN ReplayWords(r) :
         \/ ReplayWords(r)[i].type = "Connecting" /\ r.connecting # 0
         \/ ReplayWords(r)[i].type = "Authenticated" /\ r.authenticated
         \/ ReplayWords(r)[i].type = "Unreachable" /\ r.unreachable
         \/ ReplayWords(r)[i].type = "Waiting"
         \/ ReplayWords(r)[i].type = "Exited" /\ r.outcome \in Code
  <2>1. \A i \in DOMAIN (a \o b) :
          \/ (a \o b)[i].type = "Connecting" /\ r.connecting # 0
          \/ (a \o b)[i].type = "Authenticated" /\ r.authenticated
    BY <1>1, <1>2, <1>8
  <2>2. \A i \in DOMAIN (a \o b \o c) :
          \/ (a \o b \o c)[i].type = "Connecting" /\ r.connecting # 0
          \/ (a \o b \o c)[i].type = "Authenticated" /\ r.authenticated
          \/ (a \o b \o c)[i].type = "Unreachable" /\ r.unreachable
    BY <1>3, <1>8, <1>9, <2>1
  <2>3. \A i \in DOMAIN (a \o b \o c \o d) :
          \/ (a \o b \o c \o d)[i].type = "Connecting" /\ r.connecting # 0
          \/ (a \o b \o c \o d)[i].type = "Authenticated" /\ r.authenticated
          \/ (a \o b \o c \o d)[i].type = "Unreachable" /\ r.unreachable
          \/ (a \o b \o c \o d)[i].type = "Waiting"
    BY <1>4, <1>8, <1>9, <2>2
  <2>4. ASSUME NEW q \in Seq(ShimMessage), NEW i \in DOMAIN (q \o e)
        PROVE  \/ i \in DOMAIN q /\ (q \o e)[i] = q[i]
               \/ (q \o e)[i].type = "Exited" /\ r.outcome \in Code
    <3>1. e \in Seq(ShimMessage)
      BY <1>5
    <3>2. \/ i \in DOMAIN q /\ (q \o e)[i] = q[i]
          \/ \E j \in DOMAIN e : (q \o e)[i] = e[j]
      BY <1>8, <2>4, <3>1
    <3> QED BY <1>5, <3>2
  <2>5. a \o b \o c \o d \in Seq(ShimMessage)
    BY <1>9
  <2> DEFINE q == a \o b \o c \o d
  <2>6. ReplayWords(r) = q \o e
    BY <1>6
  <2>7. q \in Seq(ShimMessage)
    BY <2>5
  <2>8. \A i \in DOMAIN q :
          \/ q[i].type = "Connecting" /\ r.connecting # 0
          \/ q[i].type = "Authenticated" /\ r.authenticated
          \/ q[i].type = "Unreachable" /\ r.unreachable
          \/ q[i].type = "Waiting"
    BY <2>3
  <2> HIDE DEF q
  <2>9. \A i \in DOMAIN (q \o e) :
          \/ i \in DOMAIN q /\ (q \o e)[i] = q[i]
          \/ (q \o e)[i].type = "Exited" /\ r.outcome \in Code
    BY <2>4, <2>7
  <2> QED BY <2>6, <2>8, <2>9
<1>11. ASSUME r.connecting # 0
       PROVE  1 \in DOMAIN ReplayWords(r) /\ ReplayWords(r)[1] = Connecting(r.connecting)
  <2>1. 1 \in DOMAIN a /\ a[1] = Connecting(r.connecting)
    BY <1>7, <1>11
  <2>2. 1 \in DOMAIN (a \o b) /\ (a \o b)[1] = a[1]
    BY <1>1, <1>2, <1>8, <2>1
  <2>3. 1 \in DOMAIN (a \o b \o c) /\ (a \o b \o c)[1] = a[1]
    BY <1>3, <1>8, <1>9, <2>2
  <2>4. 1 \in DOMAIN (a \o b \o c \o d) /\ (a \o b \o c \o d)[1] = a[1]
    BY <1>4, <1>8, <1>9, <2>3
  <2>5. /\ 1 \in DOMAIN (a \o b \o c \o d \o e)
        /\ (a \o b \o c \o d \o e)[1] = (a \o b \o c \o d)[1]
    BY <1>5, <1>8, <1>9, <2>4
  <2> QED BY <1>6, <2>1, <2>2, <2>3, <2>4, <2>5
<1>12. "none" \notin Code /\ "Waiting" \notin Code
  BY DEF Code
<1> QED BY <1>10, <1>11, <1>12

-----------------------------------------------------------------------------
(* Each step keeps it.                                                     *)

\* The signal is heard before what it is of ends.
LEMMA SignalsStep ==
    ASSUME ~LateSignals, Signals, [Next]_vars
    PROVE  Signals'
<1> USE DEF Signals, SignalSettled, SshRuns, Code, shim
<1>1. CASE Start \/ PreconnectStops \/ Connect \/ Sleep \/ Relogin \/ SshEnded \/ Report
  BY <1>1 DEF Start, PreconnectStops, Connect, Sleep, Relogin, SshEnded, Report, app
<1>2. CASE Wake
  <2>1. /\ pc = "asleep" /\ auth' = auth /\ signal' = signal
        /\ (pc' = "gone" /\ ssh' = "none") \/ (pc' = "top" /\ ssh' \in {ssh, KillCode})
        /\ ssh' # ssh => signal = "none"
    BY <1>2 DEF Wake, app
  <2>2. KillCode \notin {"login", "in"}
    BY SessionLinkAssumption DEF Code
  <2>3. ssh' # "in" /\ ssh = "in" => signal = "none"
    BY <2>1
  <2> QED BY <2>1, <2>2, <2>3
<1>3. CASE FollowWords \/ PressR \/ PressC \/ TabClosing \/ Die \/ LogIn \/ SshExits
  BY <1>3 DEF FollowWords, PressR, PressC, TabClosing, Die, LogIn, SshExits, app
<1>4. CASE Reconnect \/ Deliver \/ Break \/ HearStep \/ SignalStep \/ TypeLoginCommand
  BY <1>4 DEF Reconnect, Deliver, Break, HearStep, HearHello, Hear, LinkEnds, SignalStep,
              SignalHello, SignalHeard, TypeLoginCommand, app
<1>5. CASE QueueStep \/ QueueGivesUp \/ AskStep \/ GraceEnds \/ Restart \/ Crash
  BY <1>5 DEF QueueStep, QueueChoose, QueueTell, QueueMark, QueueGivesUp, AskStep,
              AskConnect, AskDisconnect, AskClose, AskSendText, Ask, GraceEnds, Restart,
              Crash
<1>6. CASE RestoreTab
  BY <1>6 DEF RestoreTab
<1>7. CASE UNCHANGED vars
  BY <1>7 DEF vars, app
<1> QED BY <1>1, <1>2, <1>3, <1>4, <1>5, <1>6, <1>7
           DEF Next, ShimStep, Environment

\* Steps that say nothing and take nothing from the pipe.
LEMMA Calm ==
    ASSUME Fresh, Current,
           attempt' = attempt, replay' = replay, up' = up, auth' = auth,
           wire' = wire \/ (wire = "up" /\ wire' = "closing"),
           attempt = 0 => pc' = pc \/ pc' \in {"begin", "gone"},
           session'.state \in {"Connected", "Disconnected"}
                => session.state \in {"Connected", "Disconnected"},
           Shown(session') => Shown(session)
    PROVE  Fresh' /\ Current'
<1>1. Fresh'
  BY DEF Fresh
<1>2. wire' = "up" => wire = "up"
  OBVIOUS
<1>3. Current'
  BY <1>2, Zenon DEF Current, Has
<1> QED BY <1>1, <1>3

\* A word that is said comes last, and only where there is a connection.
LEMMA SayIs ==
    ASSUME NEW m \in ShimMessage, Say(m), up \in Seq(ShimMessage)
    PROVE  /\ \A i \in DOMAIN up : i \in DOMAIN up' /\ up'[i] = up[i]
           /\ \A i \in DOMAIN up' : (i \in DOMAIN up /\ up'[i] = up[i]) \/ up'[i] = m
           /\ wire # "up" => up' = up
           /\ wire = "up" => \E k \in DOMAIN up' : up'[k] = m /\ \A i \in DOMAIN up : k > i
<1>1. CASE wire = "up"
  <2>1. up' = Append(up, m)
    BY <1>1 DEF Say
  <2>2. /\ Len(up) + 1 \in DOMAIN up' /\ up'[Len(up) + 1] = m
        /\ \A i \in DOMAIN up : Len(up) + 1 > i
        /\ \A i \in DOMAIN up : i \in DOMAIN up' /\ up'[i] = up[i]
        /\ \A i \in DOMAIN up' : i \in DOMAIN up \/ i = Len(up) + 1
    BY <2>1
  <2> QED BY <1>1, <2>2
<1>2. CASE wire # "up"
  BY <1>2 DEF Say
<1> QED BY <1>1, <1>2

\* A word other than Connecting, and a login only if there is one.
LEMMA SayKeeps ==
    ASSUME Current, NEW m \in ShimMessage, Say(m), up \in Seq(ShimMessage),
           m.type # "Connecting", m.type = "Authenticated" => auth,
           attempt' = attempt, auth' = auth, session' = session,
           replay'.connecting = replay.connecting, wire' = "up" => wire = "up"
    PROVE  Current'
<1> SUFFICES ASSUME wire = "up", attempt # 0, replay.connecting = attempt, ~auth
             PROVE  /\ \A i \in DOMAIN up' : up'[i].type = "Authenticated" =>
                        \E j \in DOMAIN up' : j > i /\ up'[j] = Connecting(attempt)
                    /\ Shown(session) => Has(up', Connecting(attempt))
  BY DEF Current
<1>1. ASSUME NEW i \in DOMAIN up', up'[i].type = "Authenticated"
      PROVE  \E j \in DOMAIN up' : j > i /\ up'[j] = Connecting(attempt)
  <2>1. i \in DOMAIN up /\ up'[i] = up[i]
    BY <1>1, SayIs
  <2>2. PICK j \in DOMAIN up : j > i /\ up[j] = Connecting(attempt)
    BY <1>1, <2>1 DEF Current
  <2> QED BY <2>2, SayIs
<1>2. ASSUME Shown(session) PROVE Has(up', Connecting(attempt))
  <2>1. PICK j \in DOMAIN up : up[j] = Connecting(attempt)
    BY <1>2 DEF Current, Has
  <2> QED BY <2>1, SayIs DEF Has
<1> QED BY <1>1, <1>2

\* Before the first attempt only words that tell of none are said.
LEMMA SayFresh ==
    ASSUME Fresh, NEW m \in ShimMessage, Say(m), up \in Seq(ShimMessage),
           attempt' = 0 => attempt = 0 /\ m.type \in {"Waiting", "Closing"}
                    /\ ~auth' /\ ~replay'.unreachable /\ replay'.outcome \in {"none", "Waiting"}
                    /\ pc' \in {"start", "startWait", "begin", "after", "gone"},
           session' = session, replay'.connecting <= attempt', wire' = "down" => wire = "down"
    PROVE  Fresh'
<1>1. wire' = "down" => up' = << >>
  BY SayIs DEF Fresh
<1>2. ASSUME attempt' = 0
      PROVE  \A i \in DOMAIN up' : up'[i].type \in {"Hello", "Waiting", "Closing"}
  BY <1>2, SayIs DEF Fresh
<1> QED BY <1>1, <1>2 DEF Fresh

\* The word that is heard was the first.
LEMMA TailIs ==
    ASSUME up \in Seq(ShimMessage), up # << >>, up' = Tail(up)
    PROVE  /\ Head(up) = up[1] /\ 1 \in DOMAIN up /\ Head(up) \in ShimMessage
           /\ up' \in Seq(ShimMessage)
           /\ \A i \in DOMAIN up' : i \in Nat /\ i + 1 \in DOMAIN up /\ up'[i] = up[i + 1]
           /\ \A j \in DOMAIN up : j = 1 \/ (j - 1 \in DOMAIN up' /\ up'[j - 1] = up[j])
           /\ \A i \in DOMAIN up', j \in DOMAIN up : j > i + 1 => j # 1 /\ j - 1 > i
           /\ \A j \in DOMAIN up : j > 1 => j # 1
  OBVIOUS

\* Hearing a word keeps it, if the record shows a login only where it did or
\* where the word is one.
LEMMA HearKeeps ==
    ASSUME Fresh, Current, up \in Seq(ShimMessage), up # << >>, up' = Tail(up),
           UNCHANGED <<attempt, auth, replay, wire, pc>>,
           Shown(session') => Head(up).type = "Authenticated"
                \/ (Head(up).type # "Connecting" /\ Shown(session)),
           Head(up).type \in {"Hello", "Waiting", "Closing"} =>
                session'.state \in {"Waiting", "Closed", "Connecting", session.state}
    PROVE  Fresh' /\ Current'
<1>1. Fresh'
  <2>1. wire # "down"
    BY DEF Fresh
  <2>2. ASSUME attempt = 0
        PROVE  /\ session'.state \notin {"Connected", "Disconnected"}
               /\ \A i \in DOMAIN up' : up'[i].type \in {"Hello", "Waiting", "Closing"}
    <3>1. Head(up).type \in {"Hello", "Waiting", "Closing"}
      BY <2>2, TailIs DEF Fresh
    <3> QED BY <2>2, <3>1, TailIs DEF Fresh
  <2> QED BY <2>1, <2>2 DEF Fresh
<1>2. Current'
  <2> SUFFICES ASSUME wire = "up", attempt # 0, replay.connecting = attempt, ~auth
               PROVE  /\ \A i \in DOMAIN up' : up'[i].type = "Authenticated" =>
                          \E j \in DOMAIN up' : j > i /\ up'[j] = Connecting(attempt)
                      /\ Shown(session') => Has(up', Connecting(attempt))
    BY DEF Current
  <2>1. ASSUME NEW i \in DOMAIN up', up'[i].type = "Authenticated"
        PROVE  \E j \in DOMAIN up' : j > i /\ up'[j] = Connecting(attempt)
    <3>1. PICK j \in DOMAIN up : j > i + 1 /\ up[j] = Connecting(attempt)
      BY <2>1, TailIs DEF Current
    <3>2. j - 1 \in DOMAIN up' /\ up'[j - 1] = up[j] /\ j - 1 > i
      BY <3>1, TailIs
    <3> QED BY <3>1, <3>2
  <2>2. ASSUME Shown(session') PROVE Has(up', Connecting(attempt))
    <3>1. \E j \in DOMAIN up : j # 1 /\ up[j] = Connecting(attempt)
      <4>1. CASE Head(up).type = "Authenticated"
        <5>1. PICK j \in DOMAIN up : j > 1 /\ up[j] = Connecting(attempt)
          BY <4>1, TailIs DEF Current
        <5> QED BY <5>1, TailIs
      <4>2. CASE Head(up).type # "Connecting" /\ Shown(session)
        <5>1. PICK j \in DOMAIN up : up[j] = Connecting(attempt)
          BY <4>2 DEF Current, Has
        <5>2. up[1] # Connecting(attempt)
          BY <4>2, TailIs DEF Connecting
        <5> QED BY <5>1, <5>2
      <4> QED BY <2>2, <4>1, <4>2
    <3> QED BY <3>1, TailIs DEF Has
  <2> QED BY <2>1, <2>2
<1> QED BY <1>1, <1>2

\* The shim's steps.
LEMMA ShimKeeps ==
    ASSUME TypeOK, EndKnown, ReplayInv, Signals, Fresh, Current,
           \/ Start \/ PreconnectStops \/ Connect \/ Sleep \/ Wake \/ Relogin \/ SshEnded
           \/ Report \/ FollowWords \/ PressR \/ PressC \/ TabClosing \/ Die
    PROVE  Fresh' /\ Current'
<1> USE MaxAttemptAssumption
<1>t. /\ replay \in Replay /\ up \in Seq(ShimMessage) /\ attempt \in Nat /\ auth \in BOOLEAN
      /\ NoReplay \in Replay /\ replay.connecting \in Nat /\ replay.connecting <= attempt
  BY NoReplayType DEF TypeOK, ShimTypeOK, PipeTypeOK, Replay, Fresh
<1>w. /\ \A t \in {"Waiting", "Closing", "Authenticated", "Unreachable"} :
            Word(t) \in ShimMessage /\ Word(t).type = t
      /\ \A c \in Code : Exited(c) \in ShimMessage /\ Exited(c).type = "Exited"
  BY WordsType DEF Word, Exited
<1>s. ASSUME NEW m, Say(m) PROVE replay' = Remember(replay, m)
  BY <1>s DEF Say
<1>h. ASSUME Hangup PROVE wire' = wire \/ (wire = "up" /\ wire' = "closing")
  BY <1>h DEF Hangup
<1>0. attempt = 0 => pc \in {"start", "startWait", "begin", "after", "gone"}
  BY DEF Fresh
<1>1. CASE Start
  <2>1. CASE Say(Word("Waiting")) /\ pc' = "after"
    <3>1. replay' = [NoReplay EXCEPT !.outcome = "Waiting"]
      BY <1>s, <2>1, RememberWords
    <3>2. replay'.connecting = 0 /\ ~replay'.unreachable /\ replay'.outcome = "Waiting"
      BY <3>1 DEF NoReplay
    <3>3. UNCHANGED <<attempt, auth, wire, session>>
      BY <1>1 DEF Start, app
    <3>4. Current'
      BY <3>2, <3>3 DEF Current
    <3>5. attempt = 0 => ~auth
      BY DEF Fresh
    <3>6. Fresh'
      BY <1>t, <1>w, <2>1, <3>2, <3>3, <3>5, SayFresh
    <3> QED BY <3>4, <3>6
  <2>2. CASE Quiet /\ pc' = "begin"
    BY <1>1, <2>2, Calm DEF Start, Quiet, app
  <2> QED BY <1>1, <2>1, <2>2 DEF Start
<1>2. CASE PreconnectStops
  <2>1. Say(Exited("connection")) /\ attempt' = attempt + 1 /\ UNCHANGED <<wire, session>>
    BY <1>2 DEF PreconnectStops, app
  <2>2. replay'.connecting = replay.connecting
    <3>1. replay' = [replay EXCEPT !.outcome = "connection"]
      BY <1>s, <2>1, RememberExited
    <3> QED BY <1>t, <3>1 DEF Replay
  <2>3. attempt' # 0 /\ replay'.connecting <= attempt' /\ replay'.connecting # attempt'
    BY <1>t, <2>1, <2>2
  <2>4. Exited("connection") \in ShimMessage
    BY WordsType DEF Code
  <2>5. Fresh'
    BY <1>t, <2>1, <2>3, <2>4, SayFresh
  <2>6. Current'
    BY <2>3 DEF Current
  <2> QED BY <2>5, <2>6
<1>3. CASE Connect
  <2>1. /\ Say(Connecting(attempt')) /\ attempt' = attempt + 1 /\ attempt < MaxAttempt
        /\ UNCHANGED <<wire, session>>
    BY <1>3 DEF Connect, app
  <2>2. attempt' # 0 /\ attempt' \in Attempt /\ Connecting(attempt') \in ShimMessage
        /\ Connecting(attempt').type = "Connecting"
    BY <1>t, <2>1, WordsType DEF Attempt, Connecting
  <2>3. replay'.connecting = attempt'
    <3>1. replay' = [NoReplay EXCEPT !.connecting = attempt']
      BY <1>s, <2>1, RememberConnecting
    <3> QED BY <3>1 DEF NoReplay
  <2>4. attempt' <= attempt'
    BY <1>t, <2>1
  <2>5. Fresh'
    BY <1>t, <2>1, <2>2, <2>3, <2>4, SayFresh
  <2>6. ASSUME wire = "up"
        PROVE  /\ \A i \in DOMAIN up' : up'[i].type = "Authenticated" =>
                    \E j \in DOMAIN up' : j > i /\ up'[j] = Connecting(attempt')
               /\ Has(up', Connecting(attempt'))
    <3>1. PICK k \in DOMAIN up' : up'[k] = Connecting(attempt') /\ \A i \in DOMAIN up : k > i
      BY <1>t, <2>1, <2>2, <2>6, SayIs
    <3>2. \A i \in DOMAIN up' : i \in DOMAIN up \/ up'[i] = Connecting(attempt')
      BY <1>t, <2>1, <2>2, SayIs
    <3> QED BY <2>2, <3>1, <3>2 DEF Has
  <2>7. Current'
    BY <2>1, <2>6 DEF Current
  <2> QED BY <2>5, <2>7
<1>4. CASE Sleep \/ Relogin
  <2>1. attempt # 0 /\ UNCHANGED <<attempt, replay, up, auth, wire, session>>
    BY <1>0, <1>4 DEF Sleep, Relogin, pipe, app
  <2> QED BY <2>1, Calm
<1>5. CASE Wake
  <2>1. /\ attempt # 0 /\ UNCHANGED <<attempt, auth, session>>
        /\ wire' = wire \/ (wire = "up" /\ wire' = "closing")
        /\ (auth /\ Say(Word("Authenticated"))) \/ Quiet
    BY <1>0, <1>5, <1>h DEF Wake, app
  <2>2. CASE Quiet
    BY <2>1, <2>2, Calm DEF Quiet
  <2>3. CASE auth /\ Say(Word("Authenticated"))
    <3>1. replay'.connecting = replay.connecting
      <4>1. replay' = [replay EXCEPT !.authenticated = TRUE]
        BY <1>s, <2>3, RememberWords
      <4> QED BY <1>t, <4>1 DEF Replay
    <3>2. Word("Authenticated") \in ShimMessage /\ Word("Authenticated").type = "Authenticated"
      BY <1>w
    <3>3. Fresh'
      BY <1>t, <2>1, <2>3, <3>1, <3>2, SayFresh
    <3>4. Current'
      BY <1>t, <2>1, <2>3, <3>1, <3>2, SayKeeps
    <3> QED BY <3>3, <3>4
  <2> QED BY <2>1, <2>2, <2>3
<1>6. CASE SshEnded
  <2>1. /\ attempt # 0 /\ UNCHANGED <<attempt, auth, session, wire>>
        /\ Say(Word("Unreachable")) \/ Quiet
    BY <1>0, <1>6 DEF SshEnded, app
  <2>2. CASE Quiet
    BY <2>1, <2>2, Calm DEF Quiet
  <2>3. CASE Say(Word("Unreachable"))
    <3>1. replay'.connecting = replay.connecting
      <4>1. replay' = [replay EXCEPT !.unreachable = TRUE]
        BY <1>s, <2>3, RememberWords
      <4> QED BY <1>t, <4>1 DEF Replay
    <3>2. Word("Unreachable") \in ShimMessage /\ Word("Unreachable").type = "Unreachable"
      BY <1>w
    <3>3. Fresh'
      BY <1>t, <2>1, <2>3, <3>1, <3>2, SayFresh
    <3>4. Current'
      BY <1>t, <2>1, <2>3, <3>1, <3>2, SayKeeps
    <3> QED BY <3>3, <3>4
  <2> QED BY <2>1, <2>2, <2>3
<1>7. CASE Report
  <2>1. /\ attempt # 0 /\ UNCHANGED <<attempt, auth, session, wire>> /\ Say(Exited(ssh))
        /\ ssh \in Code
    BY <1>0, <1>7 DEF Report, app, EndKnown
  <2>2. replay'.connecting = replay.connecting
    <3>1. replay' = [replay EXCEPT !.outcome = ssh]
      BY <1>s, <2>1, RememberExited
    <3> QED BY <1>t, <3>1 DEF Replay
  <2>3. Exited(ssh) \in ShimMessage /\ Exited(ssh).type = "Exited"
    BY <1>w, <2>1
  <2>4. Fresh'
    BY <1>t, <2>1, <2>2, <2>3, SayFresh
  <2>5. Current'
    BY <1>t, <2>1, <2>2, <2>3, SayKeeps
  <2> QED BY <2>4, <2>5
<1>8. CASE TabClosing
  <2>1. UNCHANGED <<attempt, auth, session, wire, pc>> /\ Say(Word("Closing"))
    BY <1>8 DEF TabClosing, app
  <2>2. replay' = replay
    BY <1>s, <2>1, RememberWords
  <2>3. Word("Closing") \in ShimMessage /\ Word("Closing").type = "Closing"
    BY <1>w
  <2>4. attempt = 0 => ~auth /\ ~replay.unreachable /\ replay.outcome \in {"none", "Waiting"}
    BY DEF Fresh
  <2>5. Fresh'
    BY <1>0, <1>t, <2>1, <2>2, <2>3, <2>4, SayFresh
  <2>6. Current'
    BY <1>t, <2>1, <2>2, <2>3, SayKeeps
  <2> QED BY <2>5, <2>6
<1>9. CASE FollowWords \/ PressR \/ PressC \/ Die
  <2>1. /\ UNCHANGED <<attempt, replay, up, auth, session>>
        /\ wire' = wire \/ (wire = "up" /\ wire' = "closing")
        /\ pc' = pc \/ pc' \in {"begin", "gone"}
    BY <1>9, <1>h DEF FollowWords, PressR, PressC, Die, pipe, app
  <2> QED BY <2>1, Calm
<1> QED BY <1>1, <1>2, <1>3, <1>4, <1>5, <1>6, <1>7, <1>8, <1>9

\* The steps of the pipe, of NativeTerm and of the person.
LEMMA OthersKeep ==
    ASSUME TypeOK, ReplayInv, Signals, Fresh, Current,
           \/ LogIn \/ SshExits \/ Reconnect \/ Deliver \/ Break \/ HearStep \/ SignalStep
           \/ TypeLoginCommand \/ QueueStep \/ QueueGivesUp \/ AskStep \/ Crash \/ Restart
           \/ GraceEnds \/ RestoreTab \/ UNCHANGED vars
    PROVE  Fresh' /\ Current'
<1> USE MaxAttemptAssumption
<1>t. /\ session \in Session /\ replay \in Replay /\ up \in Seq(ShimMessage)
      /\ attempt \in Nat /\ auth \in BOOLEAN
  BY DEF TypeOK, ShimTypeOK, PipeTypeOK, AppTypeOK
<1>c. ASSUME UNCHANGED <<pc, attempt, replay, up, auth>>,
             wire' = wire \/ (wire = "up" /\ wire' = "closing"),
             session' = session \/
                /\ session'.authenticated = session.authenticated
                /\ session'.state = session.state
                    \/ session'.state \in {"Connecting", "Closed", "Gone"}
      PROVE  Fresh' /\ Current'
  BY <1>c, Calm DEF Shown
<1>1. CASE LogIn
  <2>1. auth' /\ UNCHANGED <<pc, attempt, replay, up, wire, session>> /\ attempt # 0
    BY <1>1 DEF LogIn, pipe, Signals, SshRuns, ReplayInv
  <2> QED BY <2>1 DEF Fresh, Current
<1>2. CASE SshExits \/ Deliver \/ Break
  BY <1>2, <1>c DEF SshExits, Deliver, Break, pipe, app, shim
<1>3. CASE Reconnect
  <2> DEFINE said == ReplayWords(replay)  hello == Word("Hello")
  <2>1. /\ wire' = "up" /\ up' = <<hello>> \o said
        /\ UNCHANGED <<pc, attempt, replay, auth, session>>
    BY <1>3 DEF Reconnect, shim, app
  <2>2. said \in Seq(ShimMessage) /\ hello \in ShimMessage /\ hello.type = "Hello"
    BY <1>t, ReplayWordsType, WordsType DEF Word
  <2>3. /\ replay.connecting # 0 => 1 \in DOMAIN said /\ said[1] = Connecting(replay.connecting)
        /\ \A i \in DOMAIN said : said[i].type = "Authenticated" => replay.authenticated
        /\ replay.connecting = 0 /\ ~replay.authenticated /\ ~replay.unreachable
           /\ replay.outcome \in {"none", "Waiting"} =>
                \A i \in DOMAIN said : said[i].type = "Waiting"
    BY <1>t, ReplayWordsSay
  <2> HIDE DEF said, hello
  <2>4. /\ \A i \in DOMAIN up' : up'[i] = hello \/ \E j \in DOMAIN said : up'[i] = said[j]
        /\ \A j \in DOMAIN said : j + 1 \in DOMAIN up' /\ up'[j + 1] = said[j]
    <3>1. Len(up') = Len(said) + 1
      BY <2>1, <2>2
    <3>2. \A j \in DOMAIN said : j + 1 \in DOMAIN up' /\ up'[j + 1] = said[j]
      BY <2>1, <2>2
    <3>3. ASSUME NEW i \in DOMAIN up', i # 1
          PROVE  i - 1 \in DOMAIN said /\ up'[i] = said[i - 1]
      BY <2>1, <2>2, <3>1, <3>3
    <3>4. up'[1] = hello
      BY <2>1, <2>2
    <3> QED BY <3>2, <3>3, <3>4
  <2>5. Fresh'
    <3>1. ASSUME attempt = 0
          PROVE  \A i \in DOMAIN up' : up'[i].type \in {"Hello", "Waiting", "Closing"}
      <4>1. replay.connecting = 0 /\ ~replay.authenticated /\ ~replay.unreachable
            /\ replay.outcome \in {"none", "Waiting"}
        BY <1>t, <3>1 DEF Fresh, ReplayInv, Replay
      <4>2. \A i \in DOMAIN said : said[i].type = "Waiting"
        BY <2>3, <4>1
      <4> QED BY <2>2, <2>4, <4>2
    <3> QED BY <2>1, <3>1 DEF Fresh
  <2>6. Current'
    <3>1. ASSUME attempt # 0, replay.connecting = attempt PROVE Has(up', Connecting(attempt))
      <4>1. 1 \in DOMAIN said /\ said[1] = Connecting(attempt)
        BY <2>3, <3>1
      <4>2. 1 + 1 \in DOMAIN up' /\ up'[1 + 1] = Connecting(attempt)
        BY <2>4, <4>1
      <4> QED BY <4>2 DEF Has
    <3>2. \A i \in DOMAIN up' : up'[i].type = "Authenticated" => auth
      BY <2>2, <2>3, <2>4 DEF ReplayInv
    <3> QED BY <2>1, <3>1, <3>2 DEF Current
  <2> QED BY <2>5, <2>6
<1>4. CASE HearHello
  <2>1. /\ up # << >> /\ Head(up) = Word("Hello") /\ up' = Tail(up)
        /\ UNCHANGED <<attempt, auth, replay, wire, pc>>
        /\ session'.state \in {"Connecting", session.state}
        /\ session'.authenticated = session.authenticated
    BY <1>4, <1>t DEF HearHello, shim, Session
  <2>2. Head(up).type = "Hello"
    BY <2>1 DEF Word
  <2> QED BY <1>t, <2>1, <2>2, HearKeeps DEF Shown
<1>5. CASE Hear
  <2> DEFINE m == Head(up)  h == Heard(session, m)
  <2>1. up # << >> /\ up' = Tail(up) /\ UNCHANGED <<attempt, auth, replay, wire, pc>>
    BY <1>5 DEF Hear, shim
  <2>2. m \in ShimMessage
    BY <1>t, <2>1, TailIs
  <2>3. h \in Session /\ (Shown(h) => m.type = "Authenticated" \/ (m.type # "Connecting" /\ Shown(session)))
        /\ (m.type \in {"Hello", "Waiting", "Closing"} => h.state \in {"Waiting", "Closed", session.state})
    BY <1>t, <2>2, HeardIs
  <2>4. session' = h \/ session' = [h EXCEPT !.restorable = TRUE]
    BY <1>5 DEF Hear
  <2> HIDE DEF h, m
  <2>5. session'.state = h.state /\ session'.authenticated = h.authenticated
    BY <2>3, <2>4 DEF Session
  <2>6. Shown(session') <=> Shown(h)
    BY <2>5 DEF Shown
  <2> QED BY <1>t, <2>1, <2>3, <2>5, <2>6, HearKeeps DEF m
<1>6. CASE LinkEnds
  <2>1. /\ wire' = "down" /\ up' = << >> /\ UNCHANGED <<pc, attempt, replay, auth>>
        /\ session'.state \in {"Closed", "Gone"}
    BY <1>6, <1>t DEF LinkEnds, shim, Session
  <2> QED BY <2>1 DEF Fresh, Current
<1>7. CASE SignalHello
  BY <1>7, <1>c DEF SignalHello, shim, pipe
<1>8. CASE SignalHeard
  <2>1. auth /\ UNCHANGED <<pc, attempt, replay, auth, up, wire>>
    BY <1>8 DEF SignalHeard, Signals, shim, pipe
  <2>2. attempt # 0
    BY <2>1 DEF Fresh
  <2> QED BY <2>1, <2>2 DEF Fresh, Current
<1>9. CASE TypeLoginCommand
  BY <1>9, <1>c DEF TypeLoginCommand, shim
<1>10. CASE QueueStep
  <2>1. CASE QueueChoose \/ QueueTell
    BY <1>c, <2>1 DEF QueueChoose, QueueTell, shim, pipe
  <2>2. CASE QueueMark
    <3>1. /\ session'.authenticated = session.authenticated
          /\ session'.state \in {session.state, "Connecting"}
      BY <1>t, <2>2 DEF QueueMark, Session
    <3> QED BY <1>c, <2>2, <3>1 DEF QueueMark, shim, pipe
  <2> QED BY <1>10, <2>1, <2>2 DEF QueueStep
<1>11. CASE QueueGivesUp
  BY <1>11, <1>c DEF QueueGivesUp, shim, pipe
<1>12. CASE AskStep
  <2>1. UNCHANGED <<pc, attempt, replay, up, auth, wire>>
    BY <1>12 DEF AskStep, AskConnect, AskDisconnect, AskClose, AskSendText, Ask, shim
  <2>2. \/ session' = session \/ session' = [session EXCEPT !.told = TRUE]
        \/ session' = [session EXCEPT !.state = "Closed"]
    BY <1>12 DEF AskStep, AskConnect, AskDisconnect, AskClose, AskSendText
  <2>3. /\ session'.authenticated = session.authenticated
        /\ session'.state \in {session.state, "Closed"}
    BY <1>t, <2>2 DEF Session
  <2> QED BY <1>c, <2>1, <2>3
<1>13. CASE Crash
  <2>1. /\ wire' = "down" /\ up' = << >> /\ UNCHANGED <<pc, attempt, replay, auth>>
        /\ session'.state \in {"Detached", "Gone"}
    BY <1>13 DEF Crash, shim, NewSession
  <2> QED BY <2>1 DEF Fresh, Current
<1>14. CASE Restart \/ GraceEnds
  <2>1. /\ session'.authenticated = session.authenticated
        /\ session'.state \in {session.state, "Gone"}
    BY <1>14, <1>t DEF Restart, GraceEnds, Session
  <2> QED BY <1>14, <1>c, <2>1 DEF Restart, GraceEnds, shim, pipe
<1>15. CASE RestoreTab
  <2>1. /\ wire = "down" /\ UNCHANGED <<wire, up>> /\ attempt' = 0 /\ replay' = NoReplay
        /\ ~auth' /\ pc' = "startWait" /\ session'.state = "Opening"
    BY <1>15, <1>t DEF RestoreTab, pipe, Session
  <2>2. up = << >>
    BY <2>1 DEF Fresh
  <2> QED BY <2>1, <2>2 DEF Fresh, Current, NoReplay
<1>16. CASE UNCHANGED vars
  BY <1>16, <1>c DEF vars, shim, pipe, app
<1> QED BY <1>1, <1>2, <1>3, <1>4, <1>5, <1>6, <1>7, <1>8, <1>9, <1>10, <1>11, <1>12, <1>13,
           <1>14, <1>15, <1>16 DEF HearStep, SignalStep

\* Where every login signal is seen at once, the record is never ahead of the shim.
LEMMA LoginInvariant ==
    ASSUME ~LateSignals
    PROVE  Spec => []LoginInv
<1>1. Init => LoginInv
  BY DEF Init, LoginInv, Signals, SshRuns, Fresh, Current, NoReplay, NewSession, Code
<1>2. TypeOK /\ EndKnown /\ ReplayInv /\ LoginInv /\ [Next]_vars => LoginInv'
  <2> SUFFICES ASSUME TypeOK, EndKnown, ReplayInv, LoginInv, [Next]_vars PROVE LoginInv'
    OBVIOUS
  <2>1. Signals /\ Fresh /\ Current
    BY DEF LoginInv
  <2>2. Signals'
    BY <2>1, SignalsStep
  <2>3. Fresh' /\ Current'
    BY <2>1, ShimKeeps, OthersKeep DEF Next, ShimStep, Environment
  <2> QED BY <2>2, <2>3 DEF LoginInv
<1> QED BY <1>1, <1>2, TypeCorrect, EndKnownInvariant, ReplayInvariant, PTL DEF Spec

\* A session is never shown logged in, nor as dropped after a login, for an attempt
\* that didn't log in - where the login signal is heard before what it is of ends.
THEOREM NoFalseLoginEver ==
    ASSUME ~LateSignals
    PROVE  Spec => []NoFalseLogin
<1>1. TypeOK /\ LoginInv => NoFalseLogin
  BY DEF TypeOK, ShimTypeOK, LoginInv, Fresh, Current, Shown, NoFalseLogin
<1> QED BY <1>1, TypeCorrect, LoginInvariant, PTL

-----------------------------------------------------------------------------
(* Induction.                                                              *)

\* Induction over the natural numbers, for a set.
LEMMA SetInduction ==
    ASSUME NEW S, 0 \in S, \A n \in Nat : n \in S => n + 1 \in S
    PROVE  \A n \in Nat : n \in S
<1> DEFINE Out == Nat \ S
           Less == {p \in Nat \X Nat : p[1] < p[2]}
<1>1. IsWellFoundedOn(Less, Nat)
  BY NatLessThanWellFounded DEF OpToRel
<1>2. ASSUME Out # {} PROVE FALSE
  <2> HIDE DEF Less
  <2>1. PICK x \in Out : \A y \in Out : ~(<<y, x>> \in Less)
    BY <1>1, <1>2, WFMin
  <2>2. x # 0 /\ x \in Nat
    OBVIOUS
  <2>3. x - 1 \in Nat /\ x - 1 < x /\ (x - 1) + 1 = x
    BY <2>2
  <2>4. <<x - 1, x>> \in Less
    BY <2>2, <2>3 DEF Less
  <2>5. x - 1 \in S
    BY <2>1, <2>3, <2>4
  <2> QED BY <2>3, <2>5
<1> QED BY <1>2

-----------------------------------------------------------------------------
(* A record that hears words from nothing: what Retold is made of.         *)

(* The records it is, word after word.                                     *)
Hearing(words) ==
    CHOOSE tell : tell = [n \in 0..Len(words) |->
        IF n = 0 THEN NewSession("Connecting") ELSE Apply(tell[n - 1], words[n])]

(* The record it is after all of them.                                     *)
HeardAll(words) == Hearing(words)[Len(words)]

\* Retold is the record that has heard the words said again.
LEMMA RetoldIsHeardAll == \A r : Retold(r) = HeardAll(ReplayWords(r))
  BY DEF Retold, HeardAll, Hearing

\* Words can be heard one after the other, however many they are.
LEMMA HearingIs ==
    ASSUME NEW words, Len(words) \in Nat
    PROVE  Hearing(words) = [n \in 0..Len(words) |->
               IF n = 0 THEN NewSession("Connecting")
                        ELSE Apply(Hearing(words)[n - 1], words[n])]
<1> DEFINE Tells(f, k) == f = [n \in 0..k |-> IF n = 0 THEN NewSession("Connecting")
                                             ELSE Apply(f[n - 1], words[n])]
           S == {k \in Nat : \E f : Tells(f, k)}
<1>1. 0 \in S
  <2>1. Tells([n \in 0..0 |-> NewSession("Connecting")], 0)
    OBVIOUS
  <2> QED BY <2>1
<1>2. ASSUME NEW k \in Nat, k \in S PROVE k + 1 \in S
  <2>1. PICK f : Tells(f, k)
    BY <1>2
  <2> DEFINE g == [n \in 0..(k + 1) |-> IF n = k + 1 THEN Apply(f[k], words[n]) ELSE f[n]]
  <2>2. ASSUME NEW n \in 0..(k + 1)
        PROVE  g[n] = IF n = 0 THEN NewSession("Connecting") ELSE Apply(g[n - 1], words[n])
    <3>1. CASE n = 0
      BY <2>1, <3>1
    <3>2. CASE n = k + 1
      <4>1. n # 0 /\ n - 1 = k /\ k \in 0..(k + 1) /\ k # k + 1
        BY <3>2
      <4>2. g[n] = Apply(f[k], words[n]) /\ g[k] = f[k]
        BY <3>2, <4>1
      <4> HIDE DEF g
      <4> QED BY <4>1, <4>2
    <3>3. CASE n # 0 /\ n # k + 1
      <4>1. n \in 0..k /\ n - 1 \in 0..(k + 1) /\ n - 1 # k + 1
        BY <3>3
      <4>2. g[n] = f[n] /\ g[n - 1] = f[n - 1]
        BY <3>3, <4>1
      <4>3. f[n] = Apply(f[n - 1], words[n])
        BY <2>1, <3>3, <4>1
      <4> HIDE DEF g, Tells
      <4> QED BY <3>3, <4>2, <4>3
    <3> QED BY <3>1, <3>2, <3>3
  <2>3. Tells(g, k + 1)
    <3> DEFINE h == [n \in 0..(k + 1) |-> IF n = 0 THEN NewSession("Connecting")
                                           ELSE Apply(g[n - 1], words[n])]
    <3>1. DOMAIN g = 0..(k + 1) /\ g = [n \in DOMAIN g |-> g[n]]
      OBVIOUS
    <3> HIDE DEF g
    <3>2. g = h
      BY <2>2, <3>1
    <3> QED BY <3>2
  <2> HIDE DEF Tells
  <2> QED BY <2>3
<1>3. \A k \in Nat : k \in S
  <2> HIDE DEF S
  <2> QED BY <1>1, <1>2, SetInduction
<1>4. PICK f : Tells(f, Len(words))
  <2>1. Len(words) \in S
    BY <1>3
  <2> HIDE DEF Tells
  <2> QED BY <2>1
<1> QED BY <1>4 DEF Hearing

\* One word more.
LEMMA HeardAllAppend ==
    ASSUME NEW S, NEW words \in Seq(S), NEW m \in S
    PROVE  HeardAll(words \o <<m>>) = Apply(HeardAll(words), m)
<1> DEFINE more == words \o <<m>>
           len == Len(words)
           f == Hearing(words)
           g == Hearing(more)
<1>1. /\ len \in Nat /\ Len(more) = len + 1 /\ more[len + 1] = m
      /\ \A n \in 1..len : more[n] = words[n]
  OBVIOUS
<1> HIDE DEF more, len, f, g
<1>2. /\ f[0] = NewSession("Connecting")
      /\ \A n \in 1..len : f[n] = Apply(f[n - 1], words[n])
  <2>1. f = [n \in 0..len |-> IF n = 0 THEN NewSession("Connecting")
                                       ELSE Apply(f[n - 1], words[n])]
    BY <1>1, HearingIs DEF f, len
  <2>2. \A n \in 1..len : n \in 0..len /\ n # 0
    BY <1>1
  <2>3. 0 \in 0..len
    BY <1>1
  <2> QED BY <2>1, <2>2, <2>3
<1>3. /\ g[0] = NewSession("Connecting")
      /\ \A n \in 1..(len + 1) : g[n] = Apply(g[n - 1], more[n])
  <2>1. g = [n \in 0..(len + 1) |-> IF n = 0 THEN NewSession("Connecting")
                                             ELSE Apply(g[n - 1], more[n])]
    BY <1>1, HearingIs DEF g
  <2>2. \A n \in 1..(len + 1) : n \in 0..(len + 1) /\ n # 0
    BY <1>1
  <2>3. 0 \in 0..(len + 1)
    BY <1>1
  <2> QED BY <2>1, <2>2, <2>3
<1> DEFINE Same == {n \in Nat : n <= len => g[n] = f[n]}
<1>4. \A n \in Nat : n \in Same
  <2>1. 0 \in Same
    BY <1>2, <1>3
  <2>2. ASSUME NEW n \in Nat, n \in Same PROVE n + 1 \in Same
    <3>1. ASSUME n + 1 <= len PROVE g[n + 1] = f[n + 1]
      <4>1. n + 1 \in 1..len /\ n + 1 \in 1..(len + 1) /\ (n + 1) - 1 = n /\ n <= len
        BY <1>1, <3>1
      <4>2. g[n] = f[n]
        BY <2>2, <4>1
      <4>3. g[n + 1] = Apply(g[n], more[n + 1])
        BY <1>3, <4>1
      <4>4. f[n + 1] = Apply(f[n], words[n + 1])
        BY <1>2, <4>1
      <4>5. more[n + 1] = words[n + 1]
        BY <1>1, <4>1
      <4> QED BY <4>2, <4>3, <4>4, <4>5
    <3> QED BY <3>1
  <2> HIDE DEF Same
  <2> QED BY <2>1, <2>2, SetInduction
<1>5. g[len] = f[len]
  BY <1>1, <1>4
<1>6. g[len + 1] = Apply(g[len], m)
  <2>1. len + 1 \in 1..(len + 1) /\ (len + 1) - 1 = len
    BY <1>1
  <2> QED BY <1>1, <1>3, <2>1
<1>7. HeardAll(more) = g[len + 1] /\ HeardAll(words) = f[len]
  BY <1>1 DEF HeardAll, f, g, len
<1> QED BY <1>5, <1>6, <1>7 DEF more

\* Nothing heard.
LEMMA HeardAllNothing == HeardAll(<< >>) = NewSession("Connecting")
<1>1. Len(<< >>) = 0 /\ 0 \in 0..0
  OBVIOUS
<1>2. Hearing(<< >>)[0] = NewSession("Connecting")
  BY <1>1, HearingIs
<1> QED BY <1>1, <1>2 DEF HeardAll

\* A word that is said only in some cases.
LEMMA HeardAllIf ==
    ASSUME NEW words \in Seq(ShimMessage), NEW c \in BOOLEAN, NEW m,
           c => m \in ShimMessage
    PROVE  /\ words \o If(c, m) \in Seq(ShimMessage)
           /\ HeardAll(words \o If(c, m)) = IF c THEN Apply(HeardAll(words), m) ELSE HeardAll(words)
<1>1. CASE c
  <2>1. If(c, m) = <<m>> /\ m \in ShimMessage
    BY <1>1 DEF If
  <2>2. HeardAll(words \o <<m>>) = Apply(HeardAll(words), m)
    BY <2>1, HeardAllAppend
  <2>3. words \o <<m>> \in Seq(ShimMessage)
    BY <2>1
  <2> QED BY <1>1, <2>1, <2>2, <2>3
<1>2. CASE ~c
  <2>1. If(c, m) = << >> /\ words \o << >> = words
    BY <1>2 DEF If
  <2> QED BY <1>2, <2>1
<1> QED BY <1>1, <1>2

\* The record a NativeTerm started now would have of what the shim says again.
LEMMA RetoldIs ==
    ASSUME NEW r \in Replay
    PROVE  /\ r.connecting # 0 /\ r.outcome # "Waiting" =>
                /\ Retold(r).attempt = r.connecting
                /\ Retold(r).authenticated = r.authenticated
                /\ r.outcome \in Code =>
                      Retold(r).state = Outcome(r.outcome, r.authenticated, r.unreachable)
                /\ r.outcome = "none" =>
                      Retold(r).state = IF r.authenticated THEN "Connected" ELSE "Connecting"
           /\ r.connecting = 0 /\ r.outcome = "Waiting" /\ ~r.authenticated
                => Retold(r).state = "Waiting"
<1> DEFINE c1 == r.connecting # 0
           c3 == r.unreachable
           c4 == r.outcome = "Waiting"
           c5 == r.outcome \in Code
           w1 == If(c1, Connecting(r.connecting))
           w2 == w1 \o If(r.authenticated, Word("Authenticated"))
           w3 == w2 \o If(c3, Word("Unreachable"))
           w4 == w3 \o If(c4, Word("Waiting"))
           w5 == w4 \o If(c5, Exited(r.outcome))
<1>t. /\ r.connecting \in 0..MaxAttempt /\ r.authenticated \in BOOLEAN /\ r.unreachable \in BOOLEAN
      /\ r.outcome \in {"none", "Waiting"} \cup Code
  BY DEF Replay
<1> HIDE DEF c1, c3, c4, c5
<1>w. /\ c1 => Connecting(r.connecting) \in ShimMessage
      /\ Word("Authenticated") \in ShimMessage /\ Word("Unreachable") \in ShimMessage
      /\ Word("Waiting") \in ShimMessage
      /\ c5 => Exited(r.outcome) \in ShimMessage
  BY <1>t, WordsType, MaxAttemptAssumption DEF Attempt, c1, c5
<1>r. Retold(r) = HeardAll(w5)
  BY RetoldIsHeardAll DEF ReplayWords, c1, c3, c4, c5
<1>0. c1 \in BOOLEAN /\ c3 \in BOOLEAN /\ c4 \in BOOLEAN /\ c5 \in BOOLEAN
  BY <1>t DEF c1, c3, c4, c5
<1> DEFINE t0 == NewSession("Connecting")
<1>1. w1 \in Seq(ShimMessage) /\ HeardAll(w1) = IF c1 THEN Apply(t0, Connecting(r.connecting)) ELSE t0
  <2>1. << >> \in Seq(ShimMessage) /\ w1 = << >> \o If(c1, Connecting(r.connecting))
    BY <1>w DEF If
  <2> HIDE DEF w1
  <2>2. /\ << >> \o If(c1, Connecting(r.connecting)) \in Seq(ShimMessage)
        /\ HeardAll(<< >> \o If(c1, Connecting(r.connecting)))
             = IF c1 THEN Apply(HeardAll(<< >>), Connecting(r.connecting)) ELSE HeardAll(<< >>)
    BY <1>0, <1>w, <2>1, HeardAllIf
  <2> QED BY <2>1, <2>2, HeardAllNothing
<1>2. /\ w2 \in Seq(ShimMessage)
      /\ HeardAll(w2) = IF r.authenticated THEN Apply(HeardAll(w1), Word("Authenticated")) ELSE HeardAll(w1)
  <2> HIDE DEF w1
  <2> QED BY <1>t, <1>w, <1>1, HeardAllIf
<1>3. /\ w3 \in Seq(ShimMessage)
      /\ HeardAll(w3) = IF c3 THEN Apply(HeardAll(w2), Word("Unreachable")) ELSE HeardAll(w2)
  <2> HIDE DEF w2
  <2> QED BY <1>0, <1>w, <1>2, HeardAllIf
<1>4. /\ w4 \in Seq(ShimMessage)
      /\ HeardAll(w4) = IF c4 THEN Apply(HeardAll(w3), Word("Waiting")) ELSE HeardAll(w3)
  <2>1. w4 = w3 \o If(c4, Word("Waiting"))
    OBVIOUS
  <2> HIDE DEF w3, w4
  <2>2. c4 \in BOOLEAN /\ (c4 => Word("Waiting") \in ShimMessage)
    BY <1>0, <1>w
  <2>3. /\ w3 \o If(c4, Word("Waiting")) \in Seq(ShimMessage)
        /\ HeardAll(w3 \o If(c4, Word("Waiting"))) = IF c4 THEN Apply(HeardAll(w3), Word("Waiting")) ELSE HeardAll(w3)
    BY <1>3, <2>2, HeardAllIf
  <2> QED BY <2>1, <2>3
<1>5. HeardAll(w5) = IF c5 THEN Apply(HeardAll(w4), Exited(r.outcome)) ELSE HeardAll(w4)
  <2>1. w5 = w4 \o If(c5, Exited(r.outcome))
    OBVIOUS
  <2> HIDE DEF w4, w5
  <2>2. c5 \in BOOLEAN /\ (c5 => Exited(r.outcome) \in ShimMessage)
    BY <1>0, <1>w
  <2>3. /\ w4 \o If(c5, Exited(r.outcome)) \in Seq(ShimMessage)
        /\ HeardAll(w4 \o If(c5, Exited(r.outcome))) = IF c5 THEN Apply(HeardAll(w4), Exited(r.outcome)) ELSE HeardAll(w4)
    BY <1>4, <2>2, HeardAllIf
  <2> QED BY <2>1, <2>3
<1> HIDE DEF w1, w2, w3, w4, w5, t0
<1> USE DEF c1, c3, c4, c5
<1>6. CASE r.connecting # 0 /\ r.outcome # "Waiting"
  <2> DEFINE t1 == HeardAll(w1)
             t2 == HeardAll(w2)
             t3 == HeardAll(w3)
  <2>1. /\ t1 = [t0 EXCEPT !.authenticated = FALSE, !.unreachable = FALSE,
                           !.attempt = r.connecting, !.state = "Connecting"]
    BY <1>1, <1>6 DEF Apply, Connecting
  <2>2. /\ t1 \in Session /\ t1.attempt = r.connecting /\ ~t1.authenticated /\ ~t1.unreachable
        /\ t1.state = "Connecting"
    BY <1>t, <2>1 DEF t0, NewSession, Session, State
  <2> HIDE DEF t1
  <2>3. t2 = IF r.authenticated THEN [t1 EXCEPT !.authenticated = TRUE, !.state = "Connected"] ELSE t1
    BY <1>2 DEF Apply, Word, t1
  <2>4. /\ t2 \in Session /\ t2.attempt = r.connecting /\ t2.authenticated = r.authenticated
        /\ ~t2.unreachable /\ t2.state = IF r.authenticated THEN "Connected" ELSE "Connecting"
    BY <1>t, <2>2, <2>3 DEF Session, State
  <2> HIDE DEF t2
  <2>5. t3 = IF r.unreachable THEN [t2 EXCEPT !.unreachable = TRUE] ELSE t2
    BY <1>3 DEF Apply, Word, t2
  <2>6. /\ t3 \in Session /\ t3.attempt = r.connecting /\ t3.authenticated = r.authenticated
        /\ t3.unreachable = r.unreachable
        /\ t3.state = IF r.authenticated THEN "Connected" ELSE "Connecting"
    BY <1>t, <2>4, <2>5 DEF Session
  <2> HIDE DEF t3
  <2>7. HeardAll(w4) = t3
    BY <1>4, <1>6 DEF t3
  <2>8. CASE r.outcome \in Code
    <3>1. HeardAll(w5) = [t3 EXCEPT !.state = Outcome(r.outcome, t3.authenticated, t3.unreachable)]
      BY <1>5, <2>7, <2>8 DEF Apply, Exited
    <3>2. /\ HeardAll(w5).attempt = t3.attempt /\ HeardAll(w5).authenticated = t3.authenticated
          /\ HeardAll(w5).state = Outcome(r.outcome, t3.authenticated, t3.unreachable)
      BY <2>6, <3>1 DEF Session
    <3>3. r.outcome # "none"
      BY <2>8 DEF Code
    <3> QED BY <1>6, <1>r, <2>6, <2>8, <3>2, <3>3
  <2>9. CASE r.outcome \notin Code
    <3>1. HeardAll(w5) = t3
      BY <1>5, <2>7, <2>9
    <3> QED BY <1>6, <1>r, <2>6, <2>9, <3>1
  <2> QED BY <2>8, <2>9
<1>7. CASE r.connecting = 0 /\ r.outcome = "Waiting" /\ ~r.authenticated
  <2>1. HeardAll(w2) = t0
    BY <1>1, <1>2, <1>7
  <2>2. HeardAll(w3) \in Session
    <3>1. t0 \in Session
      BY MaxAttemptAssumption DEF t0, NewSession, Session, State
    <3> QED BY <1>w, <1>3, <2>1, <3>1, ApplyType
  <2>3. HeardAll(w4) = [HeardAll(w3) EXCEPT !.state = "Waiting"]
    BY <1>4, <1>7 DEF Apply, Word
  <2>4. "Waiting" \notin Code
    BY DEF Code
  <2>5. HeardAll(w5) = HeardAll(w4)
    BY <1>5, <1>7, <2>4
  <2> QED BY <1>7, <1>r, <2>2, <2>3, <2>5 DEF Session
<1> QED BY <1>6, <1>7

-----------------------------------------------------------------------------
(* NativeTerm's record is what the shim's memory says.                     *)

(* The words that set the state of a record.                               *)
Untold == \A i \in DOMAIN up :
              up[i].type \notin {"Waiting", "Connecting", "Authenticated", "Exited", "Closing"}

(* What word i (or, as word 0, the record) says is wiped by the word of    *)
(* the attempt that is remembered, which is behind it.                     *)
Wiped(i) == \E j \in DOMAIN up : j > i /\ up[j] = Connecting(replay.connecting)

(* The end of an attempt is told behind word i.                            *)
ExitBehind(i) == \E k \in DOMAIN up : k > i /\ up[k].type = "Exited"

(* What the shim remembers fits together, and with where it stands.        *)
MemoryInv ==
    /\ replay.connecting # 0 => replay.outcome # "Waiting"
    /\ replay.outcome = "Waiting" => ~replay.authenticated /\ ~replay.unreachable
    /\ ~running => wire = "down"
    /\ pc \in {"start", "startWait"} => attempt = 0

(* What comes behind the word of the attempt that is remembered is of that *)
(* attempt, as it is remembered; what ends it comes last.                  *)
WordOK(i) ==
    /\ up[i].type \notin {"Hello", "Waiting"}
    /\ up[i].type = "Connecting" => up[i].attempt = replay.connecting
    /\ up[i].type = "Authenticated" => auth
    /\ up[i].type = "Unreachable" => replay.unreachable
    /\ up[i].type = "Exited" =>
           replay.outcome \in Code /\ (up[i].code = replay.outcome \/ ExitBehind(i))
    /\ up[i].type \in {"Connecting", "Authenticated", "Unreachable"} =>
           (replay.outcome \in Code => ExitBehind(i))

(* The shim is connected and has an attempt to tell of.                    *)
Telling == wire = "up" /\ replay.connecting # 0

(* Every word is wiped by a later one, or true of what is remembered.      *)
WordsInv == Telling => \A i \in DOMAIN up : Wiped(i) \/ WordOK(i)

(* What is remembered was heard, or is on its way.                         *)
Kept ==
    Telling =>
        /\ replay.authenticated =>
              \/ \E i \in DOMAIN up : ~Wiped(i) /\ up[i].type = "Authenticated"
              \/ ~Wiped(0) /\ session.authenticated
        /\ replay.unreachable =>
              \/ \E i \in DOMAIN up : ~Wiped(i) /\ up[i].type = "Unreachable"
              \/ ~Wiped(0) /\ session.unreachable

(* The state of a record that has heard everything there is to say.        *)
StateOK(s) ==
    \/ s.state = "Closed"
    \/ s.told /\ s.state = "Connecting"
    \/ replay.outcome \in Code /\ s.state = Outcome(replay.outcome, s.authenticated, s.unreachable)
    \/ replay.outcome = "none" /\ s.authenticated /\ s.state = "Connected"
    \/ replay.outcome = "none" /\ ~s.authenticated /\ s.state = "Connecting"

(* A record that isn't to be wiped is of the attempt that is remembered.   *)
RecordInv ==
    Telling /\ ~Wiped(0) =>
        /\ session.attempt = replay.connecting
        /\ session.authenticated => auth
        /\ session.unreachable => replay.unreachable
        /\ Untold => StateOK(session)

(* The same of a tab that waits and hasn't connected yet.                  *)
WaitingInv ==
    wire = "up" /\ replay.connecting = 0 /\ replay.outcome = "Waiting" =>
        /\ \A i \in DOMAIN up :
             /\ up[i].type \in {"Hello", "Waiting", "Closing"}
             /\ up[i].type = "Hello" => \E k \in DOMAIN up : k > i /\ up[k].type = "Waiting"
        /\ (Untold /\ \A i \in DOMAIN up : up[i].type # "Hello") =>
             \/ session.state \in {"Waiting", "Closed"}
             \/ session.told /\ session.state = "Connecting"

(* What the steps keep; the part of it that is about the words and the     *)
(* record is PipeInv.                                                      *)
ViewInv == MemoryInv /\ WordsInv /\ Kept /\ RecordInv /\ WaitingInv

PipeInv == WordsInv /\ Kept /\ RecordInv /\ WaitingInv

\* The words of the pipe and the record, read from the invariant.
LEMMA ViewImplies ==
    ASSUME TypeOK, ReplayInv, ViewInv
    PROVE  ViewMatchesReplay
<1> SUFFICES ASSUME Quiescent, session.state # "Closed",
                    replay.connecting # 0 \/ replay.outcome = "Waiting"
             PROVE  \E r \in {replay} \cup
                        (IF auth THEN {Remember(replay, Word("Authenticated"))} ELSE {}) :
                      /\ session.state = Retold(r).state
                           \/ (session.told /\ session.state = "Connecting")
                      /\ replay.connecting # 0 =>
                           /\ session.attempt = Retold(r).attempt
                           /\ session.authenticated = Retold(r).authenticated
  BY DEF ViewMatchesReplay
<1>1. /\ wire = "up" /\ up = << >> /\ DOMAIN up = {} /\ Untold /\ ~Wiped(0)
      /\ replay \in Replay /\ session \in Session /\ auth \in BOOLEAN
  BY DEF Quiescent, Untold, Wiped, TypeOK, ShimTypeOK, AppTypeOK
<1>t. /\ replay.connecting \in 0..MaxAttempt /\ replay.authenticated \in BOOLEAN
      /\ replay.unreachable \in BOOLEAN /\ session.authenticated \in BOOLEAN
      /\ session.unreachable \in BOOLEAN /\ "none" \notin Code /\ "Waiting" \notin Code
      /\ replay.outcome \in {"none", "Waiting"} \cup Code
  BY <1>1 DEF Replay, Session, Code
<1>2. CASE replay.connecting # 0
  <2>1. /\ session.attempt = replay.connecting
        /\ session.authenticated => auth
        /\ session.unreachable = replay.unreachable
        /\ replay.authenticated => session.authenticated
        /\ StateOK(session) /\ replay.outcome # "Waiting"
    BY <1>1, <1>2, <1>t DEF ViewInv, MemoryInv, Kept, RecordInv, Telling
  <2> DEFINE r == [replay EXCEPT !.authenticated = session.authenticated]
  <2>2. /\ r \in Replay /\ r.connecting = replay.connecting /\ r.outcome = replay.outcome
        /\ r.unreachable = replay.unreachable /\ r.authenticated = session.authenticated
    BY <1>1, <1>t DEF Replay
  <2>3. r \in {replay} \cup (IF auth THEN {Remember(replay, Word("Authenticated"))} ELSE {})
    <3>1. CASE session.authenticated = replay.authenticated
      <4>1. r = replay
        BY <1>1, <3>1 DEF Replay
      <4> QED BY <4>1
    <3>2. CASE session.authenticated # replay.authenticated
      <4>1. auth /\ session.authenticated = TRUE
        BY <1>t, <2>1, <3>2
      <4>2. r = Remember(replay, Word("Authenticated"))
        BY <4>1, RememberWords
      <4> QED BY <4>1, <4>2
    <3> QED BY <3>1, <3>2
  <2> HIDE DEF r
  <2>4. /\ Retold(r).attempt = replay.connecting
        /\ Retold(r).authenticated = session.authenticated
        /\ replay.outcome \in Code => Retold(r).state
             = Outcome(replay.outcome, session.authenticated, session.unreachable)
        /\ replay.outcome = "none" =>
             Retold(r).state = IF session.authenticated THEN "Connected" ELSE "Connecting"
    BY <1>2, <2>1, <2>2, RetoldIs
  <2>5. session.state = Retold(r).state \/ (session.told /\ session.state = "Connecting")
    BY <2>1, <2>4 DEF StateOK
  <2> QED BY <2>1, <2>3, <2>4, <2>5
<1>3. CASE replay.connecting = 0
  <2>1. Retold(replay).state = "Waiting"
    BY <1>1, <1>3, RetoldIs DEF ViewInv, MemoryInv
  <2>2. session.state = "Waiting" \/ (session.told /\ session.state = "Connecting")
    BY <1>1, <1>3 DEF ViewInv, WaitingInv
  <2> QED BY <1>3, <2>1, <2>2
<1> QED BY <1>2, <1>3

-----------------------------------------------------------------------------
(* Each step keeps it.                                                     *)

\* Steps that leave the words alone, and of the record change what NativeTerm
\* sets itself.
LEMMA Untouched ==
    ASSUME PipeInv, up' = up, replay' = replay, wire' = "up" => wire = "up", auth => auth',
           /\ session'.attempt = session.attempt
           /\ session'.authenticated = session.authenticated
           /\ session'.unreachable = session.unreachable
           /\ session.told => session'.told
           /\ \/ session'.state \in {session.state, "Closed"}
              \/ session'.told /\ session'.state = "Connecting"
    PROVE  PipeInv'
<1>1. /\ \A i : Wiped(i)' = Wiped(i)
      /\ \A i : ExitBehind(i)' = ExitBehind(i)
      /\ Untold' = Untold
  BY DEF Wiped, ExitBehind, Untold
<1>2. WordsInv'
  <2>1. \A i : WordOK(i) => WordOK(i)'
    BY <1>1 DEF WordOK
  <2> QED BY <1>1, <2>1 DEF PipeInv, WordsInv, Telling
<1>3. Kept'
  BY <1>1 DEF PipeInv, Kept, Telling
<1>4. RecordInv'
  BY <1>1 DEF PipeInv, RecordInv, StateOK, Telling
<1>5. WaitingInv'
  BY <1>1 DEF PipeInv, WaitingInv
<1> QED BY <1>2, <1>3, <1>4, <1>5 DEF PipeInv

\* Without a connection there is nothing to say.
LEMMA Unconnected ==
    ASSUME wire' # "up"
    PROVE  PipeInv'
  BY DEF PipeInv, WordsInv, Kept, RecordInv, WaitingInv, Telling

\* A word that is said comes last.
LEMMA SayLast ==
    ASSUME NEW m \in ShimMessage, Say(m), up \in Seq(ShimMessage), wire = "up"
    PROVE  \E k \in DOMAIN up' :
             /\ up'[k] = m
             /\ \A i \in DOMAIN up : i \in DOMAIN up' /\ up'[i] = up[i] /\ k > i
             /\ \A i \in DOMAIN up' : i \in DOMAIN up \/ i = k
             /\ k > 0 /\ ~(k > k)
<1>1. up' = Append(up, m)
  BY DEF Say
<1>2. /\ Len(up) + 1 \in DOMAIN up' /\ up'[Len(up) + 1] = m
      /\ \A i \in DOMAIN up : i \in DOMAIN up' /\ up'[i] = up[i] /\ Len(up) + 1 > i
      /\ \A i \in DOMAIN up' : i \in DOMAIN up \/ i = Len(up) + 1
      /\ Len(up) + 1 > 0 /\ ~(Len(up) + 1 > Len(up) + 1)
  BY <1>1
<1> QED BY <1>2

\* A word of the attempt that is remembered.
LEMMA SayView ==
    ASSUME PipeInv, NEW m \in ShimMessage, Say(m), up \in Seq(ShimMessage),
           session' = session, auth' = auth, wire' = "up" => wire = "up",
           replay'.connecting = replay.connecting,
           m.type \in {"Authenticated", "Unreachable", "Exited", "Closing"},
           m.type \in {"Authenticated", "Unreachable"} =>
                replay.connecting # 0 /\ replay.outcome \notin Code,
           m.type = "Authenticated" => auth,
           m.type = "Unreachable" => replay'.unreachable,
           m.type = "Exited" => replay'.outcome = m.code /\ m.code \in Code,
           m.type # "Exited" => replay'.outcome = replay.outcome,
           replay'.authenticated => replay.authenticated \/ m.type = "Authenticated",
           replay'.unreachable => replay.unreachable \/ m.type = "Unreachable",
           replay.unreachable => replay'.unreachable
    PROVE  PipeInv'
<1>1. CASE wire' # "up"
  BY <1>1, Unconnected
<1>2. CASE wire' = "up"
  <2>0. wire = "up"
    BY <1>2
  <2>1. PICK k \in DOMAIN up' :
          /\ up'[k] = m
          /\ \A i \in DOMAIN up : i \in DOMAIN up' /\ up'[i] = up[i] /\ k > i
          /\ \A i \in DOMAIN up' : i \in DOMAIN up \/ i = k
          /\ k > 0 /\ ~(k > k)
    BY <2>0, SayLast
  <2>n. \A i \in DOMAIN up : i \in Nat
    OBVIOUS
  <2>k. k \in Nat
    <3>1. up' \in Seq(ShimMessage)
      BY <2>0 DEF Say
    <3> QED BY <3>1
  <2>2. m # Connecting(replay.connecting) /\ "Waiting" \notin Code
    BY DEF Connecting, Code
  <2>3. /\ \A i \in DOMAIN up : Wiped(i) <=> Wiped(i)'
        /\ Wiped(0) <=> Wiped(0)'
    BY <2>1, <2>2 DEF Wiped
  <2>4. ~Wiped(k)'
    BY <2>1, <2>n, <2>k DEF Wiped
  <2>5. \A i \in DOMAIN up : ExitBehind(i) \/ m.type = "Exited" => ExitBehind(i)'
    BY <2>1 DEF ExitBehind
  <2>6. WordsInv'
    <3> SUFFICES ASSUME Telling', NEW i \in DOMAIN up', ~Wiped(i)' PROVE WordOK(i)'
      BY DEF WordsInv
    <3>0. Telling
      BY <2>0 DEF Telling
    <3>1. CASE i \in DOMAIN up
      <4>1. WordOK(i)
        BY <3>0, <3>1, <2>3 DEF PipeInv, WordsInv
      <4>2. up'[i] = up[i]
        BY <2>1, <3>1
      <4> QED BY <2>5, <3>1, <4>1, <4>2 DEF WordOK
    <3>2. CASE i = k
      <4>1. up'[i] = m
        BY <2>1, <3>2
      <4> QED BY <4>1, <2>2 DEF WordOK
    <3> QED BY <2>1, <3>1, <3>2
  <2>7. Kept'
    <3> SUFFICES ASSUME Telling'
                 PROVE  /\ replay'.authenticated =>
                              \/ \E i \in DOMAIN up' : ~Wiped(i)' /\ up'[i].type = "Authenticated"
                              \/ ~Wiped(0)' /\ session'.authenticated
                        /\ replay'.unreachable =>
                              \/ \E i \in DOMAIN up' : ~Wiped(i)' /\ up'[i].type = "Unreachable"
                              \/ ~Wiped(0)' /\ session'.unreachable
      BY DEF Kept
    <3>1. Telling
      BY <2>0 DEF Telling
    <3>2. \A i \in DOMAIN up : ~Wiped(i) => i \in DOMAIN up' /\ ~Wiped(i)' /\ up'[i] = up[i]
      BY <2>1, <2>3
    <3>3. CASE m.type = "Authenticated"
      BY <2>1, <2>3, <2>4, <3>1, <3>2, <3>3 DEF PipeInv, Kept
    <3>4. CASE m.type = "Unreachable"
      BY <2>1, <2>3, <2>4, <3>1, <3>2, <3>4 DEF PipeInv, Kept
    <3>5. CASE m.type \notin {"Authenticated", "Unreachable"}
      BY <2>3, <3>1, <3>2, <3>5 DEF PipeInv, Kept
    <3> QED BY <3>3, <3>4, <3>5
  <2>8. RecordInv'
    <3> SUFFICES ASSUME Telling', ~Wiped(0)' PROVE
                 /\ session.attempt = replay'.connecting
                 /\ session.authenticated => auth'
                 /\ session.unreachable => replay'.unreachable
                 /\ Untold' => StateOK(session)'
      BY DEF RecordInv, StateOK
    <3>1. Telling /\ ~Wiped(0)
      BY <2>0, <2>3 DEF Telling
    <3>2. ASSUME Untold' PROVE StateOK(session)'
      <4>1. m.type = "Unreachable"
        BY <2>1, <3>2 DEF Untold
      <4>2. Untold
        BY <2>1, <3>2 DEF Untold
      <4> QED BY <3>1, <4>1, <4>2 DEF PipeInv, RecordInv, StateOK
    <3> QED BY <3>1, <3>2 DEF PipeInv, RecordInv
  <2>9. WaitingInv'
    <3> SUFFICES ASSUME replay'.connecting = 0, replay'.outcome = "Waiting"
                 PROVE  /\ \A i \in DOMAIN up' :
                             /\ up'[i].type \in {"Hello", "Waiting", "Closing"}
                             /\ up'[i].type = "Hello" =>
                                  \E j \in DOMAIN up' : j > i /\ up'[j].type = "Waiting"
                        /\ ~Untold'
      BY DEF WaitingInv
    <3>1. m.type = "Closing" /\ replay.outcome = "Waiting" /\ replay.connecting = 0
      BY <2>2
    <3>2. ~Untold'
      BY <2>1, <3>1 DEF Untold
    <3>3. \A i \in DOMAIN up :
             /\ up[i].type \in {"Hello", "Waiting", "Closing"}
             /\ up[i].type = "Hello" => \E j \in DOMAIN up : j > i /\ up[j].type = "Waiting"
      BY <2>0, <3>1 DEF PipeInv, WaitingInv
    <3>4. ASSUME NEW i \in DOMAIN up'
          PROVE  /\ up'[i].type \in {"Hello", "Waiting", "Closing"}
                 /\ up'[i].type = "Hello" =>
                      \E j \in DOMAIN up' : j > i /\ up'[j].type = "Waiting"
      <4>1. CASE i \in DOMAIN up
        BY <2>1, <3>3, <4>1
      <4>2. CASE i = k
        BY <2>1, <3>1, <4>2
      <4> QED BY <2>1, <4>1, <4>2
    <3> QED BY <3>2, <3>4
  <2> QED BY <2>6, <2>7, <2>8, <2>9 DEF PipeInv
<1> QED BY <1>1, <1>2

\* A new attempt wipes what was said before.
LEMMA ConnectView ==
    ASSUME NEW n \in Attempt, Say(Connecting(n)), up \in Seq(ShimMessage),
           replay' = [NoReplay EXCEPT !.connecting = n], wire' = "up" => wire = "up"
    PROVE  PipeInv'
<1>1. CASE wire' # "up"
  BY <1>1, Unconnected
<1>2. CASE wire' = "up"
  <2>0. wire = "up" /\ Connecting(n) \in ShimMessage
    BY <1>2, WordsType
  <2>1. PICK k \in DOMAIN up' :
          /\ up'[k] = Connecting(n)
          /\ \A i \in DOMAIN up : i \in DOMAIN up' /\ up'[i] = up[i] /\ k > i
          /\ \A i \in DOMAIN up' : i \in DOMAIN up \/ i = k
          /\ k > 0 /\ ~(k > k)
    BY <2>0, SayLast
  <2>2. /\ replay'.connecting = n /\ ~replay'.authenticated /\ ~replay'.unreachable
        /\ replay'.outcome = "none" /\ n # 0 /\ "none" \notin Code
    BY DEF NoReplay, Attempt, Code
  <2>3. Wiped(0)' /\ \A i \in DOMAIN up : Wiped(i)'
    BY <2>1, <2>2 DEF Wiped
  <2>4. WordOK(k)'
    <3>1. up'[k].type = "Connecting" /\ up'[k].attempt = n
      BY <2>1 DEF Connecting
    <3> QED BY <2>2, <3>1 DEF WordOK
  <2>5. WordsInv'
    BY <2>1, <2>3, <2>4 DEF WordsInv
  <2> QED BY <2>2, <2>3, <2>5 DEF PipeInv, Kept, RecordInv, WaitingInv
<1> QED BY <1>1, <1>2

\* Nothing was said of an attempt before it waits.
LEMMA WaitingView ==
    ASSUME Say(Word("Waiting")), up \in Seq(ShimMessage),
           replay' = [NoReplay EXCEPT !.outcome = "Waiting"], wire' = "up" => wire = "up",
           \A i \in DOMAIN up : up[i].type \in {"Hello", "Waiting", "Closing"}
    PROVE  PipeInv'
<1>1. CASE wire' # "up"
  BY <1>1, Unconnected
<1>2. CASE wire' = "up"
  <2>0. wire = "up" /\ Word("Waiting") \in ShimMessage /\ Word("Waiting").type = "Waiting"
    BY <1>2, WordsType DEF Word
  <2>1. PICK k \in DOMAIN up' :
          /\ up'[k] = Word("Waiting")
          /\ \A i \in DOMAIN up : i \in DOMAIN up' /\ up'[i] = up[i] /\ k > i
          /\ \A i \in DOMAIN up' : i \in DOMAIN up \/ i = k
          /\ k > 0 /\ ~(k > k)
    BY <2>0, SayLast
  <2>2. replay'.connecting = 0
    BY DEF NoReplay
  <2>3. ~Untold'
    BY <2>0, <2>1 DEF Untold
  <2>4. \A i \in DOMAIN up' :
             /\ up'[i].type \in {"Hello", "Waiting", "Closing"}
             /\ up'[i].type = "Hello" => \E j \in DOMAIN up' : j > i /\ up'[j].type = "Waiting"
    BY <2>0, <2>1
  <2> QED BY <2>2, <2>3, <2>4 DEF PipeInv, WordsInv, Kept, RecordInv, WaitingInv, Telling
<1> QED BY <1>1, <1>2

-----------------------------------------------------------------------------
\* The word that is heard was the first; the places behind it move up.
LEMMA HearShifts ==
    ASSUME up \in Seq(ShimMessage), up # << >>, up' = Tail(up), replay' = replay
    PROVE  /\ \A i \in DOMAIN up' : /\ i + 1 \in DOMAIN up /\ up'[i] = up[i + 1]
                                    /\ Wiped(i)' <=> Wiped(i + 1)
                                    /\ ExitBehind(i)' <=> ExitBehind(i + 1)
           /\ \A j \in DOMAIN up : j = 1 \/ \E i \in DOMAIN up' : j = i + 1
           /\ Wiped(0)' <=> Wiped(1)
           /\ ExitBehind(1) => \E i \in DOMAIN up' : up'[i].type = "Exited"
           /\ Wiped(1) => Wiped(0)
           /\ Wiped(0) => Wiped(1) \/ up[1] = Connecting(replay.connecting)
           /\ 1 \in DOMAIN up /\ Head(up) = up[1] /\ up[1] \in ShimMessage
<1>1. /\ \A i \in DOMAIN up' : i \in Nat /\ i + 1 \in DOMAIN up /\ up'[i] = up[i + 1] /\ i > 0
      /\ \A j \in DOMAIN up : j \in Nat /\ (j = 1 \/ (j - 1 \in DOMAIN up' /\ up'[j - 1] = up[j]))
      /\ \A j \in DOMAIN up : j > 0
      /\ 1 \in DOMAIN up /\ Head(up) = up[1] /\ up[1] \in ShimMessage
  OBVIOUS
<1>2. \A j \in DOMAIN up : j = 1 \/ \E i \in DOMAIN up' : j = i + 1
  <2> TAKE j \in DOMAIN up
  <2>1. CASE j # 1
    <3>1. j - 1 \in DOMAIN up' /\ j = (j - 1) + 1
      BY <1>1, <2>1
    <3> QED BY <3>1
  <2> QED BY <2>1
<1>3. \A i \in DOMAIN up' : Wiped(i)' <=> Wiped(i + 1)
  <2> TAKE i \in DOMAIN up'
  <2>1. ASSUME Wiped(i)' PROVE Wiped(i + 1)
    <3>1. PICK j \in DOMAIN up' : j > i /\ up'[j] = Connecting(replay.connecting)
      BY <2>1 DEF Wiped
    <3>2. j + 1 \in DOMAIN up /\ j + 1 > i + 1 /\ up[j + 1] = up'[j]
      BY <1>1, <3>1
    <3> QED BY <3>1, <3>2 DEF Wiped
  <2>2. ASSUME Wiped(i + 1) PROVE Wiped(i)'
    <3>1. PICK j \in DOMAIN up : j > i + 1 /\ up[j] = Connecting(replay.connecting)
      BY <2>2 DEF Wiped
    <3>2. j - 1 \in DOMAIN up' /\ j - 1 > i /\ up'[j - 1] = up[j]
      BY <1>1, <3>1
    <3> QED BY <3>1, <3>2 DEF Wiped
  <2> QED BY <2>1, <2>2
<1>4. \A i \in DOMAIN up' : ExitBehind(i)' <=> ExitBehind(i + 1)
  <2> TAKE i \in DOMAIN up'
  <2>1. ASSUME ExitBehind(i)' PROVE ExitBehind(i + 1)
    <3>1. PICK j \in DOMAIN up' : j > i /\ up'[j].type = "Exited"
      BY <2>1 DEF ExitBehind
    <3>2. j + 1 \in DOMAIN up /\ j + 1 > i + 1 /\ up[j + 1] = up'[j]
      BY <1>1, <3>1
    <3> QED BY <3>1, <3>2 DEF ExitBehind
  <2>2. ASSUME ExitBehind(i + 1) PROVE ExitBehind(i)'
    <3>1. PICK j \in DOMAIN up : j > i + 1 /\ up[j].type = "Exited"
      BY <2>2 DEF ExitBehind
    <3>2. j - 1 \in DOMAIN up' /\ j - 1 > i /\ up'[j - 1] = up[j]
      BY <1>1, <3>1
    <3> QED BY <3>1, <3>2 DEF ExitBehind
  <2> QED BY <2>1, <2>2
<1>5. Wiped(0)' <=> Wiped(1)
  <2>1. ASSUME Wiped(0)' PROVE Wiped(1)
    <3>1. PICK j \in DOMAIN up' : j > 0 /\ up'[j] = Connecting(replay.connecting)
      BY <2>1 DEF Wiped
    <3>2. j + 1 \in DOMAIN up /\ j + 1 > 1 /\ up[j + 1] = up'[j]
      BY <1>1, <3>1
    <3> QED BY <3>1, <3>2 DEF Wiped
  <2>2. ASSUME Wiped(1) PROVE Wiped(0)'
    <3>1. PICK j \in DOMAIN up : j > 1 /\ up[j] = Connecting(replay.connecting)
      BY <2>2 DEF Wiped
    <3>2. j - 1 \in DOMAIN up' /\ j - 1 > 0 /\ up'[j - 1] = up[j]
      BY <1>1, <3>1
    <3> QED BY <3>1, <3>2 DEF Wiped
  <2> QED BY <2>1, <2>2
<1>6. Wiped(0) => Wiped(1) \/ up[1] = Connecting(replay.connecting)
  <2>1. \A j \in DOMAIN up : j = 1 \/ j > 1
    BY <1>1
  <2> QED BY <2>1 DEF Wiped
<1>7. Wiped(1) => Wiped(0)
  BY <1>1 DEF Wiped
<1>8. ASSUME ExitBehind(1) PROVE \E i \in DOMAIN up' : up'[i].type = "Exited"
  <2>1. PICK j \in DOMAIN up : j > 1 /\ up[j].type = "Exited"
    BY <1>8 DEF ExitBehind
  <2>2. j # 1
    BY <1>1, <2>1
  <2> QED BY <1>1, <2>1, <2>2
<1> QED BY <1>1, <1>2, <1>3, <1>4, <1>5, <1>6, <1>7, <1>8

\* What each word changes of a record.
HeardAs(s, m, t) ==
    /\ m.type = "Connecting" => /\ t.attempt = m.attempt /\ ~t.authenticated /\ ~t.unreachable
                                /\ t.state = "Connecting"
    /\ m.type \in {"Authenticated", "Unreachable", "Exited", "Closing"} => t.attempt = s.attempt
    /\ m.type \in {"Unreachable", "Exited", "Closing"} => t.authenticated = s.authenticated
    /\ m.type \in {"Authenticated", "Exited", "Closing"} => t.unreachable = s.unreachable
    /\ m.type = "Authenticated" => t.authenticated /\ t.state = "Connected"
    /\ m.type = "Unreachable" => t.unreachable /\ t.state = s.state /\ t.told = s.told
    /\ m.type = "Exited" => t.state = Outcome(m.code, s.authenticated, s.unreachable)
    /\ m.type = "Closing" => t.state = "Closed"
    /\ m.type = "Waiting" => t.state = "Waiting"
    /\ t.told => s.told

\* Whether it was told to connect isn't for the words to say.
LEMMA ApplyTold ==
    ASSUME NEW s \in Session, NEW m
    PROVE  Apply(s, m).told = s.told
<1>1. CASE m.type \in {"Waiting", "Connecting", "Authenticated", "Unreachable", "Exited", "Closing"}
  BY <1>1 DEF Apply, Session
<1>2. CASE m.type \notin {"Waiting", "Connecting", "Authenticated", "Unreachable", "Exited",
                         "Closing"}
  BY <1>2 DEF Apply
<1> QED BY <1>1, <1>2

\* Heard is so.
LEMMA HeardFields ==
    ASSUME NEW s \in Session, NEW m \in ShimMessage
    PROVE  HeardAs(s, m, Heard(s, m))
<1> DEFINE t == IF m.type = "Connecting" THEN [s EXCEPT !.told = FALSE] ELSE s
           a == Apply(t, m)
<1>1. /\ t \in Session /\ t.state = s.state /\ t.authenticated = s.authenticated
      /\ t.unreachable = s.unreachable /\ t.attempt = s.attempt
      /\ m.type # "Connecting" => t.told = s.told
      /\ t.told => s.told
  BY DEF Session
<1>2. Heard(s, m) = [a EXCEPT !.typed = (a.state = "Connected")]
  BY DEF Heard
<1>3. a \in Session
  BY <1>1, ApplyType
<1> HIDE DEF t
<1>4. HeardAs(t, m, a)
  <2>0. a.told => t.told
    BY <1>1, ApplyTold DEF a
  <2>1. CASE m.type = "Connecting"
    <3>1. a = [t EXCEPT !.authenticated = FALSE, !.unreachable = FALSE,
                        !.attempt = m.attempt, !.state = "Connecting"]
      BY <2>1 DEF Apply
    <3>2. a.attempt = m.attempt /\ ~a.authenticated /\ ~a.unreachable /\ a.state = "Connecting"
      BY <1>1, <3>1 DEF Session
    <3> QED BY <2>0, <2>1, <3>2 DEF HeardAs
  <2>2. CASE m.type = "Authenticated"
    <3>1. a = [t EXCEPT !.authenticated = TRUE, !.state = "Connected"]
      BY <2>2 DEF Apply
    <3>2. /\ a.attempt = t.attempt /\ a.authenticated /\ a.unreachable = t.unreachable
          /\ a.state = "Connected"
      BY <1>1, <3>1 DEF Session
    <3> QED BY <2>0, <2>2, <3>2 DEF HeardAs
  <2>3. CASE m.type = "Unreachable"
    <3>1. a = [t EXCEPT !.unreachable = TRUE]
      BY <2>3 DEF Apply
    <3>2. /\ a.attempt = t.attempt /\ a.authenticated = t.authenticated /\ a.unreachable
          /\ a.state = t.state /\ a.told = t.told
      BY <1>1, <3>1 DEF Session
    <3> QED BY <2>0, <2>3, <3>2 DEF HeardAs
  <2>4. CASE m.type = "Exited"
    <3>1. a = [t EXCEPT !.state = Outcome(m.code, t.authenticated, t.unreachable)]
      BY <2>4 DEF Apply
    <3>2. /\ a.attempt = t.attempt /\ a.authenticated = t.authenticated
          /\ a.unreachable = t.unreachable
          /\ a.state = Outcome(m.code, t.authenticated, t.unreachable)
      BY <1>1, <3>1 DEF Session
    <3> QED BY <2>0, <2>4, <3>2 DEF HeardAs
  <2>5. CASE m.type = "Closing"
    <3>1. a = [t EXCEPT !.state = "Closed"]
      BY <2>5 DEF Apply
    <3>2. /\ a.attempt = t.attempt /\ a.authenticated = t.authenticated
          /\ a.unreachable = t.unreachable /\ a.state = "Closed"
      BY <1>1, <3>1 DEF Session
    <3> QED BY <2>0, <2>5, <3>2 DEF HeardAs
  <2>6. CASE m.type = "Waiting"
    <3>1. a = [t EXCEPT !.state = "Waiting"]
      BY <2>6 DEF Apply
    <3>2. a.state = "Waiting"
      BY <1>1, <3>1 DEF Session
    <3> QED BY <2>0, <2>6, <3>2 DEF HeardAs
  <2>7. CASE m.type \notin {"Connecting", "Authenticated", "Unreachable", "Exited", "Closing",
                            "Waiting"}
    BY <2>0, <2>7 DEF HeardAs
  <2> QED BY <2>1, <2>2, <2>3, <2>4, <2>5, <2>6, <2>7
<1>5. /\ Heard(s, m).state = a.state /\ Heard(s, m).authenticated = a.authenticated
      /\ Heard(s, m).unreachable = a.unreachable /\ Heard(s, m).attempt = a.attempt
      /\ Heard(s, m).told = a.told
  BY <1>2, <1>3 DEF Session
<1> HIDE DEF a
<1> QED BY <1>1, <1>4, <1>5 DEF HeardAs

\* Hearing the first word.
LEMMA HearView ==
    ASSUME PipeInv, up \in Seq(ShimMessage), up # << >>, up' = Tail(up),
           UNCHANGED <<replay, auth, wire>>,
           session \in Session, session' \in Session, replay \in Replay,
           MemoryInv,
           up[1].type # "Hello" => HeardAs(session, up[1], session')
    PROVE  PipeInv'
<1> DEFINE m == up[1]
           n == replay.connecting
<1>1. /\ \A i \in DOMAIN up' : /\ i + 1 \in DOMAIN up /\ up'[i] = up[i + 1]
                               /\ Wiped(i)' <=> Wiped(i + 1)
                               /\ ExitBehind(i)' <=> ExitBehind(i + 1)
      /\ \A j \in DOMAIN up : j = 1 \/ \E i \in DOMAIN up' : j = i + 1
      /\ Wiped(0)' <=> Wiped(1)
      /\ ExitBehind(1) => \E i \in DOMAIN up' : up'[i].type = "Exited"
      /\ Wiped(1) => Wiped(0)
      /\ Wiped(0) => Wiped(1) \/ up[1] = Connecting(n)
      /\ 1 \in DOMAIN up /\ Head(up) = up[1] /\ up[1] \in ShimMessage
  BY HearShifts
<1>t. replay.outcome \in {"none", "Waiting"} \cup Code /\ "Waiting" \notin Code /\ "none" \notin Code
  BY DEF Replay, Code
<1>c. Telling' <=> Telling
  BY DEF Telling
<1>m. m.type \in {"Hello", "Waiting", "Authenticated", "Unreachable", "Closing", "Connecting", "Exited"}
  BY <1>1 DEF ShimMessage
<1>2. WordsInv'
  <2> SUFFICES ASSUME Telling', NEW i \in DOMAIN up', ~Wiped(i)' PROVE WordOK(i)'
    BY DEF WordsInv
  <2>1. WordOK(i + 1)
    BY <1>1, <1>c DEF PipeInv, WordsInv
  <2> QED BY <1>1, <2>1 DEF WordOK
<1>n. Telling /\ ~Wiped(1) => WordOK(1)
  BY <1>1 DEF PipeInv, WordsInv
<1>k. Connecting(n).type = "Connecting"
  BY DEF Connecting
<1>3. Kept'
  <2> SUFFICES ASSUME Telling'
               PROVE  /\ replay.authenticated =>
                            \/ \E i \in DOMAIN up' : ~Wiped(i)' /\ up'[i].type = "Authenticated"
                            \/ ~Wiped(0)' /\ session'.authenticated
                      /\ replay.unreachable =>
                            \/ \E i \in DOMAIN up' : ~Wiped(i)' /\ up'[i].type = "Unreachable"
                            \/ ~Wiped(0)' /\ session'.unreachable
    BY DEF Kept
  <2>1. ASSUME replay.authenticated
        PROVE  \/ \E i \in DOMAIN up' : ~Wiped(i)' /\ up'[i].type = "Authenticated"
               \/ ~Wiped(0)' /\ session'.authenticated
    <3>1. CASE \E i \in DOMAIN up : ~Wiped(i) /\ up[i].type = "Authenticated"
      <4>1. PICK i \in DOMAIN up : ~Wiped(i) /\ up[i].type = "Authenticated"
        BY <3>1
      <4>2. CASE i = 1
        BY <1>1, <4>1, <4>2 DEF HeardAs
      <4>3. CASE i # 1
        BY <1>1, <4>1, <4>3
      <4> QED BY <4>2, <4>3
    <3>2. CASE ~Wiped(0) /\ session.authenticated
      <4>1. ~Wiped(1) /\ m # Connecting(n)
        BY <1>1, <1>k, <3>2 DEF Wiped
      <4>2. WordOK(1)
        BY <1>c, <1>n, <4>1
      <4>3. m.type \in {"Authenticated", "Unreachable", "Closing", "Exited"}
        <5>1. m.type # "Connecting"
          <6>1. m.type = "Connecting" => m = Connecting(n)
            BY <1>1, <4>2 DEF WordOK, ShimMessage, Connecting
          <6> QED BY <4>1, <6>1
        <5> QED BY <1>m, <4>2, <5>1 DEF WordOK
      <4>4. session'.authenticated
        BY <3>2, <4>3 DEF HeardAs
      <4> QED BY <1>1, <4>1, <4>4
    <3> QED BY <1>c, <2>1, <3>1, <3>2 DEF PipeInv, Kept
  <2>2. ASSUME replay.unreachable
        PROVE  \/ \E i \in DOMAIN up' : ~Wiped(i)' /\ up'[i].type = "Unreachable"
               \/ ~Wiped(0)' /\ session'.unreachable
    <3>1. CASE \E i \in DOMAIN up : ~Wiped(i) /\ up[i].type = "Unreachable"
      <4>1. PICK i \in DOMAIN up : ~Wiped(i) /\ up[i].type = "Unreachable"
        BY <3>1
      <4>2. CASE i = 1
        BY <1>1, <4>1, <4>2 DEF HeardAs
      <4>3. CASE i # 1
        BY <1>1, <4>1, <4>3
      <4> QED BY <4>2, <4>3
    <3>2. CASE ~Wiped(0) /\ session.unreachable
      <4>1. ~Wiped(1) /\ m # Connecting(n)
        BY <1>1, <1>k, <3>2 DEF Wiped
      <4>2. WordOK(1)
        BY <1>c, <1>n, <4>1
      <4>3. m.type \in {"Authenticated", "Unreachable", "Closing", "Exited"}
        <5>1. m.type # "Connecting"
          <6>1. m.type = "Connecting" => m = Connecting(n)
            BY <1>1, <4>2 DEF WordOK, ShimMessage, Connecting
          <6> QED BY <4>1, <6>1
        <5> QED BY <1>m, <4>2, <5>1 DEF WordOK
      <4>4. session'.unreachable
        BY <3>2, <4>3 DEF HeardAs
      <4> QED BY <1>1, <4>1, <4>4
    <3> QED BY <1>c, <2>2, <3>1, <3>2 DEF PipeInv, Kept
  <2> QED BY <2>1, <2>2
<1>4. RecordInv'
  <2> SUFFICES ASSUME Telling', ~Wiped(0)'
               PROVE  /\ session'.attempt = n
                      /\ session'.authenticated => auth
                      /\ session'.unreachable => replay.unreachable
                      /\ Untold' => StateOK(session)'
    BY DEF RecordInv, StateOK
  <2>1. Telling /\ ~Wiped(1) /\ WordOK(1)
    BY <1>1, <1>c, <1>n
  <2>2. Untold' => ~ExitBehind(1)
    BY <1>1 DEF Untold
  <2>o. n # 0 /\ replay.outcome # "Waiting"
    BY <2>1 DEF Telling, MemoryInv
  <2>e. StateOK(session)' <=>
            \/ session'.state = "Closed"
            \/ session'.told /\ session'.state = "Connecting"
            \/ replay.outcome \in Code
                 /\ session'.state = Outcome(replay.outcome, session'.authenticated, session'.unreachable)
            \/ replay.outcome = "none" /\ session'.authenticated /\ session'.state = "Connected"
            \/ replay.outcome = "none" /\ ~session'.authenticated /\ session'.state = "Connecting"
    BY DEF StateOK
  <2>3. CASE m.type = "Connecting"
    <3>1. m.attempt = n
      BY <2>1, <2>3 DEF WordOK
    <3>2. Untold' => replay.outcome \notin Code
      BY <2>1, <2>2, <2>3 DEF WordOK
    <3>3. /\ session'.attempt = n /\ ~session'.authenticated /\ ~session'.unreachable
          /\ session'.state = "Connecting"
      BY <2>3, <3>1 DEF HeardAs
    <3> QED BY <1>t, <2>e, <2>o, <3>2, <3>3
  <2>4. CASE m.type # "Connecting"
    <3>1. ~Wiped(0)
      BY <1>1, <1>k, <2>1, <2>4
    <3>2. /\ session.attempt = n
          /\ session.authenticated => auth
          /\ session.unreachable => replay.unreachable
          /\ Untold => StateOK(session)
      BY <2>1, <3>1 DEF PipeInv, RecordInv
    <3>3. CASE m.type = "Authenticated"
      <4>1. Untold' => replay.outcome \notin Code
        BY <2>1, <2>2, <3>3 DEF WordOK
      <4>2. auth
        BY <2>1, <3>3 DEF WordOK
      <4>3. /\ session'.attempt = n /\ session'.authenticated /\ session'.unreachable = session.unreachable
            /\ session'.state = "Connected"
        BY <3>2, <3>3 DEF HeardAs
      <4> QED BY <1>t, <2>e, <2>o, <3>2, <4>1, <4>2, <4>3
    <3>4. CASE m.type = "Unreachable"
      <4>1. Untold' => replay.outcome \notin Code
        BY <2>1, <2>2, <3>4 DEF WordOK
      <4>2. replay.unreachable
        BY <2>1, <3>4 DEF WordOK
      <4>3. /\ session'.attempt = n /\ session'.authenticated = session.authenticated
            /\ session'.state = session.state /\ session'.told = session.told
        BY <3>2, <3>4 DEF HeardAs
      <4>4. Untold' => Untold
        BY <1>1, <3>4 DEF Untold
      <4>5. ASSUME Untold' PROVE StateOK(session)'
        <5>1. StateOK(session) /\ replay.outcome \notin Code
          BY <3>2, <4>1, <4>4, <4>5
        <5> QED BY <2>e, <4>3, <5>1 DEF StateOK
      <4> QED BY <3>2, <4>2, <4>3, <4>5
    <3>5. CASE m.type = "Exited"
      <4>1. replay.outcome \in Code /\ (Untold' => m.code = replay.outcome)
        BY <2>1, <2>2, <3>5 DEF WordOK
      <4>2. /\ session'.attempt = n /\ session'.authenticated = session.authenticated
            /\ session'.unreachable = session.unreachable
            /\ session'.state = Outcome(m.code, session.authenticated, session.unreachable)
        BY <3>2, <3>5 DEF HeardAs
      <4> QED BY <2>e, <3>2, <4>1, <4>2
    <3>6. CASE m.type = "Closing"
      <4>1. /\ session'.attempt = n /\ session'.authenticated = session.authenticated
            /\ session'.unreachable = session.unreachable /\ session'.state = "Closed"
        BY <3>2, <3>6 DEF HeardAs
      <4> QED BY <2>e, <3>2, <4>1
    <3> QED BY <1>m, <2>1, <2>4, <3>3, <3>4, <3>5, <3>6 DEF WordOK
  <2> QED BY <2>3, <2>4
<1>5. WaitingInv'
  <2> SUFFICES ASSUME wire = "up", replay.connecting = 0, replay.outcome = "Waiting"
               PROVE  /\ \A i \in DOMAIN up' :
                           /\ up'[i].type \in {"Hello", "Waiting", "Closing"}
                           /\ up'[i].type = "Hello" =>
                                \E j \in DOMAIN up' : j > i /\ up'[j].type = "Waiting"
                      /\ (Untold' /\ \A i \in DOMAIN up' : up'[i].type # "Hello") =>
                           \/ session'.state \in {"Waiting", "Closed"}
                           \/ session'.told /\ session'.state = "Connecting"
    BY DEF WaitingInv
  <2>1. \A i \in DOMAIN up :
           /\ up[i].type \in {"Hello", "Waiting", "Closing"}
           /\ up[i].type = "Hello" => \E k \in DOMAIN up : k > i /\ up[k].type = "Waiting"
    BY DEF PipeInv, WaitingInv
  <2>n. (\A i \in DOMAIN up' : i \in Nat) /\ \A i \in DOMAIN up : i \in Nat
    OBVIOUS
  <2>2. ASSUME NEW i \in DOMAIN up'
        PROVE  /\ up'[i].type \in {"Hello", "Waiting", "Closing"}
               /\ up'[i].type = "Hello" => \E j \in DOMAIN up' : j > i /\ up'[j].type = "Waiting"
    <3>1. i + 1 \in DOMAIN up /\ up'[i] = up[i + 1] /\ i \in Nat
      BY <1>1, <2>n
    <3>2. ASSUME up'[i].type = "Hello"
          PROVE  \E j \in DOMAIN up' : j > i /\ up'[j].type = "Waiting"
      <4>1. PICK k \in DOMAIN up : k > i + 1 /\ up[k].type = "Waiting"
        BY <2>1, <3>1, <3>2
      <4>2. PICK j \in DOMAIN up' : k = j + 1
        BY <1>1, <3>1, <4>1, <2>n
      <4> QED BY <1>1, <2>n, <3>1, <4>1, <4>2
    <3> QED BY <2>1, <3>1, <3>2
  <2>3. CASE m.type = "Hello"
    <3>1. PICK k \in DOMAIN up : k > 1 /\ up[k].type = "Waiting"
      BY <1>1, <2>1, <2>3
    <3>2. PICK j \in DOMAIN up' : k = j + 1
      BY <1>1, <2>n, <3>1
    <3>3. ~Untold'
      BY <1>1, <3>1, <3>2 DEF Untold
    <3> QED BY <2>2, <3>3
  <2>4. CASE m.type \in {"Waiting", "Closing"}
    BY <2>2, <2>4 DEF HeardAs
  <2> QED BY <1>1, <2>1, <2>3, <2>4
<1> QED BY <1>2, <1>3, <1>4, <1>5 DEF PipeInv

\* The words said again on a new connection.
LEMMA ReconnectView ==
    ASSUME wire' = "up", up' = <<Word("Hello")>> \o ReplayWords(replay), replay' = replay,
           auth' = auth, replay \in Replay, MemoryInv, replay.authenticated => auth
    PROVE  PipeInv'
<1> DEFINE w == ReplayWords(replay)
           h == Word("Hello")
<1>0. w \in Seq(ShimMessage) /\ h \in ShimMessage
  BY ReplayWordsType, WordsType
<1>c. "none" \notin Code /\ "Waiting" \notin Code /\ replay.outcome \in {"none", "Waiting"} \cup Code
  BY DEF Replay, Code
<1> HIDE DEF w, h
<1>1. /\ 1 \in DOMAIN up' /\ up'[1] = h
      /\ \A i \in DOMAIN w : i + 1 \in DOMAIN up' /\ up'[i + 1] = w[i] /\ i \in Nat /\ i > 0
      /\ \A i \in DOMAIN up' : i \in Nat /\ (i = 1 \/ (i > 1 /\ i - 1 \in DOMAIN w /\ up'[i] = w[i - 1]))
      /\ Len(w) \in Nat /\ Len(up') = Len(w) + 1
  <2>1. up' = <<h>> \o w
    BY DEF w, h
  <2> QED BY <1>0, <2>1
<1>2. CASE replay.connecting # 0
  <2>0. replay.outcome # "Waiting"
    BY <1>2 DEF MemoryInv
  <2> DEFINE n == replay.connecting
  <2>1. /\ 1 \in DOMAIN w /\ w[1] = Connecting(n)
        /\ \A i \in DOMAIN w :
              \/ i = 1
              \/ i > 1 /\ replay.authenticated /\ w[i] = Word("Authenticated")
              \/ i > 1 /\ replay.unreachable /\ w[i] = Word("Unreachable")
              \/ i > 1 /\ replay.outcome \in Code /\ w[i] = Exited(replay.outcome) /\ i = Len(w)
        /\ replay.authenticated => \E i \in DOMAIN w : i > 1 /\ w[i] = Word("Authenticated")
        /\ replay.unreachable => \E i \in DOMAIN w : i > 1 /\ w[i] = Word("Unreachable")
        /\ replay.outcome \in Code =>
              \E k \in DOMAIN w : k = Len(w) /\ k > 1 /\ w[k] = Exited(replay.outcome)
    BY <1>2, <2>0, AgainIs DEF w
  <2>w. /\ Word("Authenticated").type = "Authenticated" /\ Word("Unreachable").type = "Unreachable"
        /\ \A c : Exited(c).type = "Exited" /\ Exited(c).code = c
        /\ \A c : Connecting(c).type = "Connecting" /\ Connecting(c).attempt = c
    BY DEF Word, Exited, Connecting
  <2>2. \A i \in DOMAIN up' :
              \/ i = 1
              \/ i = 2 /\ up'[i] = Connecting(n)
              \/ i > 2 /\ replay.authenticated /\ up'[i] = Word("Authenticated")
              \/ i > 2 /\ replay.unreachable /\ up'[i] = Word("Unreachable")
              \/ i > 2 /\ replay.outcome \in Code /\ up'[i] = Exited(replay.outcome)
                   /\ i = Len(up')
    <3> TAKE i \in DOMAIN up'
    <3>1. CASE i # 1
      <4>1. i - 1 \in DOMAIN w /\ up'[i] = w[i - 1] /\ i \in Nat /\ i > 1
        BY <1>1, <3>1
      <4>2. CASE i - 1 = 1
        <5>1. i = 2
          BY <4>1, <4>2
        <5> QED BY <2>1, <4>1, <4>2, <5>1
      <4>3. CASE i - 1 # 1
        <5>1. i > 2
          BY <4>1, <4>3
        <5>2. \/ replay.authenticated /\ w[i - 1] = Word("Authenticated")
              \/ replay.unreachable /\ w[i - 1] = Word("Unreachable")
              \/ replay.outcome \in Code /\ w[i - 1] = Exited(replay.outcome) /\ i - 1 = Len(w)
          BY <2>1, <4>1, <4>3
        <5>3. i - 1 = Len(w) => i = Len(up')
          BY <1>1, <4>1
        <5> QED BY <4>1, <5>1, <5>2, <5>3
      <4> QED BY <4>2, <4>3
    <3> QED BY <3>1
  <2>3. 2 \in DOMAIN up' /\ up'[2] = Connecting(n)
    BY <1>1, <2>1
  <2>4. Wiped(0)' /\ Wiped(1)'
    <3>1. replay'.connecting = n
      OBVIOUS
    <3>2. \E j \in DOMAIN up' : j > 0 /\ j > 1 /\ up'[j] = Connecting(n)
      <4>1. 2 > 0 /\ 2 > 1
        OBVIOUS
      <4> QED BY ONLY <2>3, <4>1, Zenon
    <3> QED BY <3>1, <3>2 DEF Wiped
  <2>5. \A i \in DOMAIN up' : i > 1 => ~Wiped(i)'
    <3>1. \A j \in DOMAIN up' : j > 2 => up'[j] # Connecting(n)
      <4> TAKE j \in DOMAIN up'
      <4> HAVE j > 2
      <4>1. j \in Nat /\ j # 1 /\ j # 2
        BY <1>1
      <4>2. up'[j] \in {Word("Authenticated"), Word("Unreachable"), Exited(replay.outcome)}
        BY <2>2, <4>1
      <4> QED BY <2>w, <4>2
    <3>2. \A i, j \in DOMAIN up' : i > 1 /\ j > i => j > 2
      BY <1>1
    <3> QED BY <3>1, <3>2 DEF Wiped
  <2>6. ASSUME replay.outcome \in Code
        PROVE  \A i \in DOMAIN up' : i = Len(up') \/ ExitBehind(i)'
    <3>1. PICK k \in DOMAIN w : k = Len(w) /\ k > 1 /\ w[k] = Exited(replay.outcome)
      BY <2>1, <2>6
    <3>2. k + 1 \in DOMAIN up' /\ k + 1 = Len(up') /\ up'[k + 1].type = "Exited"
      BY <1>1, <2>w, <3>1
    <3>3. \A i \in DOMAIN up' : i = k + 1 \/ k + 1 > i
      <4>1. DOMAIN up' = 1..Len(up')
        <5>1. up' \in Seq(ShimMessage)
          BY <1>0 DEF w, h
        <5> QED BY <5>1
      <4> QED BY <1>1, <3>2, <4>1
    <3> QED BY <3>2, <3>3 DEF ExitBehind
  <2>7. WordsInv'
    <3> SUFFICES ASSUME NEW i \in DOMAIN up', ~Wiped(i)' PROVE WordOK(i)'
      BY DEF WordsInv
    <3>1. i # 1
      BY <2>4
    <3>2. CASE i = 2 /\ up'[i] = Connecting(n)
      <4>1. up'[i].type = "Connecting" /\ up'[i].attempt = n
        BY <2>w, <3>2
      <4>2. replay.outcome \in Code => ExitBehind(i)'
        <5>1. ASSUME replay.outcome \in Code PROVE i # Len(up')
          <6>1. PICK k \in DOMAIN w : k = Len(w) /\ k > 1
            BY <2>1, <5>1
          <6> QED BY <1>1, <3>2, <6>1
        <5> QED BY <2>6, <5>1
      <4> QED BY <4>1, <4>2 DEF WordOK
    <3>3. CASE i > 2 /\ replay.authenticated /\ up'[i] = Word("Authenticated")
      <4>1. up'[i].type = "Authenticated"
        BY <2>w, <3>3
      <4>2. replay.outcome \in Code => ExitBehind(i)'
        <5>1. ASSUME replay.outcome \in Code PROVE i # Len(up')
          <6>1. PICK k \in DOMAIN w : k = Len(w) /\ k > 1 /\ w[k] = Exited(replay.outcome)
            BY <2>1, <5>1
          <6>2. k + 1 = Len(up') /\ up'[k + 1].type = "Exited"
            BY <1>1, <2>w, <6>1
          <6> QED BY <4>1, <6>2
        <5> QED BY <2>6, <5>1
      <4> QED BY <3>3, <4>1, <4>2 DEF WordOK
    <3>4. CASE i > 2 /\ replay.unreachable /\ up'[i] = Word("Unreachable")
      <4>1. up'[i].type = "Unreachable"
        BY <2>w, <3>4
      <4>2. replay.outcome \in Code => ExitBehind(i)'
        <5>1. ASSUME replay.outcome \in Code PROVE i # Len(up')
          <6>1. PICK k \in DOMAIN w : k = Len(w) /\ k > 1 /\ w[k] = Exited(replay.outcome)
            BY <2>1, <5>1
          <6>2. k + 1 = Len(up') /\ up'[k + 1].type = "Exited"
            BY <1>1, <2>w, <6>1
          <6> QED BY <4>1, <6>2
        <5> QED BY <2>6, <5>1
      <4> QED BY <3>4, <4>1, <4>2 DEF WordOK
    <3>5. CASE i > 2 /\ replay.outcome \in Code /\ up'[i] = Exited(replay.outcome)
      <4>1. up'[i].type = "Exited" /\ up'[i].code = replay.outcome
        BY <2>w, <3>5
      <4> QED BY <3>5, <4>1 DEF WordOK
    <3> QED BY <2>2, <3>1, <3>2, <3>3, <3>4, <3>5
  <2>8. Kept'
    <3>1. replay.authenticated => \E i \in DOMAIN up' : ~Wiped(i)' /\ up'[i].type = "Authenticated"
      <4>1. ASSUME replay.authenticated
            PROVE  \E i \in DOMAIN up' : ~Wiped(i)' /\ up'[i].type = "Authenticated"
        <5>1. PICK i \in DOMAIN w : i > 1 /\ w[i] = Word("Authenticated")
          BY <2>1, <4>1
        <5>2. i + 1 \in DOMAIN up' /\ i + 1 > 1 /\ up'[i + 1].type = "Authenticated"
          BY <1>1, <2>w, <5>1
        <5> QED BY <2>5, <5>2
      <4> QED BY <4>1
    <3>2. replay.unreachable => \E i \in DOMAIN up' : ~Wiped(i)' /\ up'[i].type = "Unreachable"
      <4>1. ASSUME replay.unreachable
            PROVE  \E i \in DOMAIN up' : ~Wiped(i)' /\ up'[i].type = "Unreachable"
        <5>1. PICK i \in DOMAIN w : i > 1 /\ w[i] = Word("Unreachable")
          BY <2>1, <4>1
        <5>2. i + 1 \in DOMAIN up' /\ i + 1 > 1 /\ up'[i + 1].type = "Unreachable"
          BY <1>1, <2>w, <5>1
        <5> QED BY <2>5, <5>2
      <4> QED BY <4>1
    <3> QED BY <3>1, <3>2 DEF Kept
  <2> QED BY <1>2, <2>4, <2>7, <2>8 DEF PipeInv, RecordInv, WaitingInv
<1>3. CASE replay.connecting = 0 /\ replay.outcome = "Waiting"
  <2>1. 1 \in DOMAIN w /\ \A i \in DOMAIN w : w[i] = Word("Waiting")
    BY <1>3, WaitsAgain DEF w, MemoryInv
  <2>2. Word("Waiting").type = "Waiting" /\ h.type = "Hello"
    BY DEF Word, h
  <2>3. /\ 2 \in DOMAIN up' /\ up'[2].type = "Waiting"
        /\ \A i \in DOMAIN up' : up'[i].type \in {"Hello", "Waiting"}
        /\ \A i \in DOMAIN up' : up'[i].type = "Hello" => i = 1
    <3>1. up'[1].type = "Hello"
      BY <1>1, <2>2
    <3>2. \A i \in DOMAIN up' : i # 1 => up'[i].type = "Waiting"
      BY <1>1, <2>1, <2>2
    <3>3. 1 + 1 \in DOMAIN up' /\ 1 + 1 = 2 /\ 2 # 1
      BY <1>1, <2>1
    <3> QED BY <3>1, <3>2, <3>3
  <2>4. ~Untold'
    BY <2>3 DEF Untold
  <2>5. \A i \in DOMAIN up' :
             /\ up'[i].type \in {"Hello", "Waiting", "Closing"}
             /\ up'[i].type = "Hello" => \E j \in DOMAIN up' : j > i /\ up'[j].type = "Waiting"
    BY <2>3
  <2> QED BY <1>3, <2>4, <2>5 DEF PipeInv, WordsInv, Kept, RecordInv, WaitingInv, Telling
<1>4. CASE replay.connecting = 0 /\ replay.outcome # "Waiting"
  BY <1>4 DEF PipeInv, WordsInv, Kept, RecordInv, WaitingInv, Telling
<1> QED BY <1>2, <1>3, <1>4

\* The shim's steps.
LEMMA ShimView ==
    ASSUME TypeOK, EndKnown, ReplayInv, Fresh, ViewInv,
           \/ Start \/ PreconnectStops \/ Connect \/ Sleep \/ Wake \/ Relogin \/ SshEnded
           \/ Report \/ FollowWords \/ PressR \/ PressC \/ TabClosing \/ Die
    PROVE  ViewInv'
<1> USE MaxAttemptAssumption
<1>t. /\ replay \in Replay /\ up \in Seq(ShimMessage) /\ attempt \in Nat /\ auth \in BOOLEAN
      /\ NoReplay \in Replay /\ MemoryInv /\ PipeInv
      /\ "none" \notin Code /\ "Waiting" \notin Code
  BY NoReplayType DEF TypeOK, ShimTypeOK, PipeTypeOK, ViewInv, PipeInv, Code
<1>w. /\ \A t \in {"Waiting", "Closing", "Authenticated", "Unreachable"} :
            Word(t) \in ShimMessage /\ Word(t).type = t
      /\ \A c \in Code : Exited(c) \in ShimMessage /\ Exited(c).type = "Exited" /\ Exited(c).code = c
  BY WordsType DEF Word, Exited
<1>s. ASSUME NEW m, Say(m) PROVE replay' = Remember(replay, m)
  BY <1>s DEF Say
<1>h. ASSUME Hangup
      PROVE  /\ wire' = "up" => wire = "up"
             /\ wire = "down" => wire' = "down"
  BY <1>h DEF Hangup
<1>q. MemoryInv' /\ PipeInv' => ViewInv'
  BY DEF ViewInv, PipeInv
<1>u. ASSUME replay' = replay, running' = running, wire = "down" => wire' = "down",
             pc' \notin {"start", "startWait"} \/ (pc' = pc /\ attempt' = attempt)
      PROVE  MemoryInv'
  BY <1>t, <1>u DEF MemoryInv
<1>r. ASSUME UNCHANGED <<replay, up, session, auth>>, wire' = "up" => wire = "up"
      PROVE  PipeInv'
  <2>1. /\ session'.attempt = session.attempt
        /\ session'.authenticated = session.authenticated
        /\ session'.unreachable = session.unreachable
        /\ session.told => session'.told
        /\ session'.state \in {session.state, "Closed"}
    BY <1>r
  <2> QED BY <1>r, <1>t, <2>1, Untouched
<1>1. CASE Start
  <2>1. CASE Say(Word("Waiting")) /\ pc = "startWait" /\ pc' = "after"
    <3>1. replay' = [NoReplay EXCEPT !.outcome = "Waiting"]
      BY <1>s, <2>1, RememberWords
    <3>2. /\ replay'.connecting = 0 /\ ~replay'.unreachable /\ replay'.outcome = "Waiting"
          /\ ~replay'.authenticated
      BY <3>1 DEF NoReplay
    <3>3. UNCHANGED <<wire, running>>
      BY <1>1 DEF Start, app
    <3>4. \A i \in DOMAIN up : up[i].type \in {"Hello", "Waiting", "Closing"}
      BY <1>t, <2>1 DEF MemoryInv, Fresh
    <3>5. PipeInv'
      BY <1>t, <2>1, <3>1, <3>3, <3>4, WaitingView
    <3>6. MemoryInv'
      BY <1>t, <2>1, <3>2, <3>3 DEF MemoryInv
    <3> QED BY <1>q, <3>5, <3>6
  <2>2. CASE Quiet /\ pc' = "begin"
    BY <1>1, <1>q, <1>r, <1>u, <2>2 DEF Start, Quiet, app
  <2> QED BY <1>1, <2>1, <2>2 DEF Start
<1>2. CASE PreconnectStops
  <2>1. /\ Say(Exited("connection")) /\ pc' = "after" /\ UNCHANGED <<wire, session, running, auth>>
        /\ "connection" \in Code
    BY <1>2 DEF PreconnectStops, app, Code
  <2>2. /\ replay'.connecting = replay.connecting /\ replay'.authenticated = replay.authenticated
        /\ replay'.unreachable = replay.unreachable /\ replay'.outcome = "connection"
    <3>1. replay' = [replay EXCEPT !.outcome = "connection"]
      BY <1>s, <2>1, RememberExited
    <3> QED BY <1>t, <3>1 DEF Replay
  <2>3. PipeInv'
    BY <1>t, <1>w, <2>1, <2>2, SayView
  <2>4. MemoryInv'
    BY <1>t, <2>1, <2>2 DEF MemoryInv
  <2> QED BY <1>q, <2>3, <2>4
<1>3. CASE Connect
  <2>1. /\ Say(Connecting(attempt')) /\ attempt' = attempt + 1 /\ attempt < MaxAttempt
        /\ UNCHANGED <<wire, running>> /\ pc' \in {"top", "report"}
    BY <1>3 DEF Connect, app
  <2>2. attempt' \in Attempt
    BY <1>t, <2>1 DEF Attempt
  <2>3. replay' = [NoReplay EXCEPT !.connecting = attempt']
    BY <1>s, <2>1, RememberConnecting
  <2>4. replay'.outcome = "none"
    BY <2>3 DEF NoReplay
  <2>5. PipeInv'
    BY <1>t, <2>1, <2>2, <2>3, ConnectView
  <2>6. MemoryInv'
    BY <1>t, <2>1, <2>4 DEF MemoryInv
  <2> QED BY <1>q, <2>5, <2>6
<1>4. CASE Sleep \/ Relogin
  BY <1>4, <1>q, <1>r, <1>u DEF Sleep, Relogin, pipe, app
<1>o. pc \in {"top", "asleep"} =>
          replay.outcome = "none" /\ replay.connecting = attempt /\ attempt # 0
  BY DEF ReplayInv, ReplayTellsTheTruth
<1>5. CASE Wake
  <2>1. /\ pc = "asleep" /\ pc' \in {"gone", "top"} /\ UNCHANGED <<auth, session, running>>
        /\ wire' = "up" => wire = "up"
        /\ wire = "down" => wire' = "down"
        /\ (auth /\ Say(Word("Authenticated"))) \/ Quiet
    BY <1>5, <1>h DEF Wake, app
  <2>2. CASE Quiet
    BY <1>q, <1>r, <1>u, <2>1, <2>2 DEF Quiet
  <2>3. CASE auth /\ Say(Word("Authenticated"))
    <3>1. /\ replay'.connecting = replay.connecting /\ replay'.authenticated
          /\ replay'.unreachable = replay.unreachable /\ replay'.outcome = replay.outcome
      <4>1. replay' = [replay EXCEPT !.authenticated = TRUE]
        BY <1>s, <2>3, RememberWords
      <4> QED BY <1>t, <4>1 DEF Replay
    <3>2. PipeInv'
      <4>1. Word("Authenticated") \in ShimMessage /\ Word("Authenticated").type = "Authenticated"
        BY <1>w
      <4> QED BY <1>o, <1>t, <2>1, <2>3, <3>1, <4>1, SayView
    <3>3. MemoryInv'
      BY <1>o, <1>t, <2>1, <3>1 DEF MemoryInv
    <3> QED BY <1>q, <3>2, <3>3
  <2> QED BY <2>1, <2>2, <2>3
<1>6. CASE SshEnded
  <2>1. /\ pc = "top" /\ pc' = "report" /\ UNCHANGED <<auth, session, wire, running>>
        /\ Say(Word("Unreachable")) \/ Quiet
    BY <1>6 DEF SshEnded, app
  <2>2. CASE Quiet
    BY <1>q, <1>r, <1>u, <2>1, <2>2 DEF Quiet
  <2>3. CASE Say(Word("Unreachable"))
    <3>1. /\ replay'.connecting = replay.connecting /\ replay'.authenticated = replay.authenticated
          /\ replay'.unreachable /\ replay'.outcome = replay.outcome
      <4>1. replay' = [replay EXCEPT !.unreachable = TRUE]
        BY <1>s, <2>3, RememberWords
      <4> QED BY <1>t, <4>1 DEF Replay
    <3>2. PipeInv'
      <4>1. Word("Unreachable") \in ShimMessage /\ Word("Unreachable").type = "Unreachable"
        BY <1>w
      <4> QED BY <1>o, <1>t, <2>1, <2>3, <3>1, <4>1, SayView
    <3>3. MemoryInv'
      BY <1>o, <1>t, <2>1, <3>1 DEF MemoryInv
    <3> QED BY <1>q, <3>2, <3>3
  <2> QED BY <2>1, <2>2, <2>3
<1>7. CASE Report
  <2>1. /\ UNCHANGED <<auth, session, wire, running>> /\ Say(Exited(ssh)) /\ ssh \in Code
        /\ pc' = "after"
    BY <1>7 DEF Report, app, EndKnown
  <2>2. /\ replay'.connecting = replay.connecting /\ replay'.authenticated = replay.authenticated
        /\ replay'.unreachable = replay.unreachable /\ replay'.outcome = ssh
    <3>1. replay' = [replay EXCEPT !.outcome = ssh]
      BY <1>s, <2>1, RememberExited
    <3> QED BY <1>t, <3>1 DEF Replay
  <2>3. PipeInv'
    <3>1. Exited(ssh) \in ShimMessage /\ Exited(ssh).type = "Exited" /\ Exited(ssh).code = ssh
      BY <1>w, <2>1
    <3> QED BY <1>t, <2>1, <2>2, <3>1, SayView
  <2>4. MemoryInv'
    BY <1>t, <2>1, <2>2 DEF MemoryInv
  <2> QED BY <1>q, <2>3, <2>4
<1>8. CASE TabClosing
  <2>1. /\ UNCHANGED <<attempt, auth, session, wire, pc, running>> /\ Say(Word("Closing"))
    BY <1>8 DEF TabClosing, app
  <2>2. replay' = replay
    BY <1>s, <2>1, RememberWords
  <2>3. PipeInv'
    <3>1. Word("Closing") \in ShimMessage /\ Word("Closing").type = "Closing"
      BY <1>w
    <3> QED BY <1>t, <2>1, <2>2, <3>1, SayView
  <2> QED BY <1>q, <1>u, <2>1, <2>2, <2>3
<1>9. CASE FollowWords \/ PressR \/ PressC \/ Die
  <2>1. /\ UNCHANGED <<replay, up, auth, session, running, attempt>>
        /\ wire' = "up" => wire = "up"
        /\ wire = "down" => wire' = "down"
        /\ pc' \in {pc, "begin", "gone"}
    BY <1>9, <1>h DEF FollowWords, PressR, PressC, Die, pipe, app
  <2> QED BY <1>q, <1>r, <1>u, <2>1
<1> QED BY <1>1, <1>2, <1>3, <1>4, <1>5, <1>6, <1>7, <1>8, <1>9

\* The login signal is of the attempt that is remembered.
LEMMA SignalView ==
    ASSUME TypeOK, ReplayInv, Signals, ViewInv, SignalHeard
    PROVE  PipeInv'
<1>1. /\ ssh = "in" /\ auth /\ pc \in {"top", "asleep"}
      /\ UNCHANGED <<replay, up, auth, wire>>
  BY DEF SignalHeard, Signals, SshRuns, shim, pipe
<1>2. replay.outcome = "none" /\ replay.connecting # 0
  BY <1>1 DEF ReplayInv, ReplayTellsTheTruth
<1>3. /\ session'.attempt = session.attempt /\ session'.authenticated
      /\ session'.unreachable = session.unreachable /\ session'.state = "Connected"
  BY DEF SignalHeard, TypeOK, AppTypeOK, Session
<1>4. /\ \A i : Wiped(i)' = Wiped(i)
      /\ \A i : ExitBehind(i)' = ExitBehind(i)
      /\ Telling' = Telling
  BY <1>1 DEF Wiped, ExitBehind, Telling
<1>5. WordsInv'
  <2>1. \A i : WordOK(i) => WordOK(i)'
    BY <1>1, <1>4 DEF WordOK
  <2> QED BY <1>1, <1>4, <2>1 DEF ViewInv, WordsInv
<1>6. Kept'
  BY <1>1, <1>3, <1>4 DEF ViewInv, Kept
<1>7. RecordInv'
  BY <1>1, <1>2, <1>3, <1>4 DEF ViewInv, RecordInv, StateOK
<1>8. WaitingInv'
  BY <1>1, <1>2 DEF WaitingInv
<1> QED BY <1>5, <1>6, <1>7, <1>8 DEF PipeInv

\* The steps of the pipe, of NativeTerm and of the person.
LEMMA OthersView ==
    ASSUME TypeOK, ReplayInv, Signals, ViewInv,
           \/ LogIn \/ SshExits \/ Reconnect \/ Deliver \/ Break \/ HearStep \/ SignalStep
           \/ TypeLoginCommand \/ QueueStep \/ QueueGivesUp \/ AskStep \/ Crash \/ Restart
           \/ GraceEnds \/ RestoreTab \/ UNCHANGED vars
    PROVE  ViewInv'
<1>t. /\ replay \in Replay /\ up \in Seq(ShimMessage) /\ session \in Session /\ auth \in BOOLEAN
      /\ MemoryInv /\ PipeInv
  BY DEF TypeOK, ShimTypeOK, PipeTypeOK, AppTypeOK, ViewInv, PipeInv
<1>q. MemoryInv' /\ PipeInv' => ViewInv'
  BY DEF ViewInv, PipeInv
<1>u. ASSUME UNCHANGED <<replay, pc, attempt>>, running' => running \/ wire' = "down",
             ~running' => ~running \/ wire' = "down", wire = "down" => wire' = "down"
      PROVE  MemoryInv'
  BY <1>t, <1>u DEF MemoryInv
<1>r. ASSUME UNCHANGED <<replay, up, session>>, auth => auth', wire' = "up" => wire = "up"
      PROVE  PipeInv'
  <2>1. /\ session'.attempt = session.attempt
        /\ session'.authenticated = session.authenticated
        /\ session'.unreachable = session.unreachable
        /\ session.told => session'.told
        /\ session'.state \in {session.state, "Closed"}
    BY <1>r
  <2> QED BY <1>r, <1>t, <2>1, Untouched
<1>1. CASE LogIn
  BY <1>1, <1>q, <1>r, <1>u DEF LogIn, pipe
<1>2. CASE SshExits
  BY <1>2, <1>q, <1>r, <1>u DEF SshExits, pipe, app
<1>3. CASE Reconnect
  <2>1. /\ wire' = "up" /\ up' = <<Word("Hello")>> \o ReplayWords(replay)
        /\ UNCHANGED <<replay, auth, running, pc, attempt>> /\ running
    BY <1>3 DEF Reconnect, shim, app
  <2>2. PipeInv'
    BY <1>t, <2>1, ReconnectView DEF ReplayInv
  <2>3. MemoryInv'
    BY <1>t, <2>1 DEF MemoryInv
  <2> QED BY <1>q, <2>2, <2>3
<1>4. CASE Deliver
  BY <1>4, <1>q, <1>r, <1>u DEF Deliver, app
<1>5. CASE Break
  BY <1>5, <1>q, <1>r, <1>u DEF Break, shim, app
<1>6. CASE HearHello
  <2>1. /\ up # << >> /\ Head(up) = Word("Hello") /\ up' = Tail(up)
        /\ UNCHANGED <<replay, auth, wire, running, pc, attempt>>
    BY <1>6 DEF HearHello, shim
  <2>2. Word("Hello").type = "Hello"
    BY DEF Word
  <2>3. session' \in Session
    BY <1>6, <1>t DEF HearHello, Session, State
  <2>4. up[1].type = "Hello"
    BY <1>t, <2>1, <2>2
  <2>5. PipeInv'
    BY <1>t, <2>1, <2>3, <2>4, HearView
  <2> QED BY <1>q, <1>u, <2>1, <2>5
<1>7. CASE Hear
  <2> DEFINE m == Head(up)
  <2>1. /\ up # << >> /\ up' = Tail(up) /\ UNCHANGED <<replay, auth, wire, running, pc, attempt>>
    BY <1>7 DEF Hear, shim
  <2>2. m = up[1] /\ m \in ShimMessage
    BY <1>t, <2>1
  <2>3. Heard(session, m) \in Session /\ HeardAs(session, m, Heard(session, m))
    BY <1>t, <2>2, HeardIs, HeardFields
  <2>4. \/ session' = Heard(session, m)
        \/ m = Word("Closing") /\ session' = [Heard(session, m) EXCEPT !.restorable = TRUE]
    BY <1>7 DEF Hear
  <2> HIDE DEF m
  <2>5. session' \in Session /\ HeardAs(session, m, session')
    <3>1. CASE session' = Heard(session, m)
      BY <2>3, <3>1
    <3>2. CASE m = Word("Closing") /\ session' = [Heard(session, m) EXCEPT !.restorable = TRUE]
      <4>1. m.type = "Closing"
        BY <3>2 DEF Word
      <4>2. /\ session' \in Session /\ session'.attempt = Heard(session, m).attempt
            /\ session'.authenticated = Heard(session, m).authenticated
            /\ session'.unreachable = Heard(session, m).unreachable
            /\ session'.state = Heard(session, m).state
            /\ session'.told = Heard(session, m).told
        BY <2>3, <3>2 DEF Session
      <4> QED BY <2>3, <4>1, <4>2 DEF HeardAs
    <3> QED BY <2>4, <3>1, <3>2
  <2>6. PipeInv'
    BY <1>t, <2>1, <2>2, <2>5, HearView
  <2> QED BY <1>q, <1>u, <2>1, <2>6
<1>8. CASE LinkEnds
  <2>1. wire' # "up" /\ wire' = "down" /\ UNCHANGED <<replay, running, pc, attempt>>
    BY <1>8 DEF LinkEnds, shim
  <2> QED BY <1>q, <1>u, <2>1, Unconnected
<1>9. CASE SignalHello \/ TypeLoginCommand
  BY <1>9, <1>q, <1>r, <1>u DEF SignalHello, TypeLoginCommand, shim, pipe
<1>10. CASE SignalHeard
  <2>1. UNCHANGED <<replay, running, pc, attempt, wire>>
    BY <1>10 DEF SignalHeard, shim, pipe
  <2> QED BY <1>10, <1>q, <1>u, <2>1, SignalView
<1>11. CASE QueueChoose \/ QueueTell \/ QueueGivesUp
  BY <1>11, <1>q, <1>r, <1>u DEF QueueChoose, QueueTell, QueueGivesUp, shim, pipe
<1>b. ASSUME UNCHANGED <<shim, wire, up, running>>,
             /\ session'.attempt = session.attempt
             /\ session'.authenticated = session.authenticated
             /\ session'.unreachable = session.unreachable
             /\ session.told => session'.told
             /\ \/ session'.state \in {session.state, "Closed"}
                \/ session'.told /\ session'.state = "Connecting"
      PROVE  ViewInv'
  <2>1. UNCHANGED <<replay, auth, pc, attempt, wire, up, running>>
    BY <1>b DEF shim
  <2>2. PipeInv'
    BY <1>b, <1>t, <2>1, Untouched
  <2> QED BY <1>q, <1>u, <2>1, <2>2
<1>12. CASE QueueMark
  <2>1. /\ session'.attempt = session.attempt
        /\ session'.authenticated = session.authenticated
        /\ session'.unreachable = session.unreachable
        /\ session'.told
        /\ session'.state = session.state \/ session'.state = "Connecting"
    BY <1>12, <1>t DEF QueueMark, Session
  <2> QED BY <1>12, <1>b, <2>1 DEF QueueMark, pipe
<1>13. CASE AskStep
  <2>1. UNCHANGED <<shim, wire, up, running>>
    BY <1>13 DEF AskStep, AskConnect, AskDisconnect, AskClose, AskSendText, Ask
  <2>2. CASE AskConnect
    <3>1. /\ session'.attempt = session.attempt
          /\ session'.authenticated = session.authenticated
          /\ session'.unreachable = session.unreachable
          /\ session'.told
          /\ session'.state = session.state
      BY <1>t, <2>2 DEF AskConnect, Session
    <3> QED BY <1>b, <2>1, <3>1
  <2>3. CASE AskClose
    <3>1. /\ session'.attempt = session.attempt
          /\ session'.authenticated = session.authenticated
          /\ session'.unreachable = session.unreachable
          /\ session'.told = session.told
          /\ session'.state \in {session.state, "Closed"}
      BY <1>t, <2>3 DEF AskClose, Session
    <3> QED BY <1>b, <2>1, <3>1
  <2>4. CASE AskDisconnect \/ AskSendText
    BY <1>b, <2>1, <2>4 DEF AskDisconnect, AskSendText
  <2> QED BY <1>13, <2>2, <2>3, <2>4 DEF AskStep
<1>14. CASE Crash
  <2>1. wire' = "down" /\ wire' # "up" /\ UNCHANGED <<replay, pc, attempt>>
    BY <1>14 DEF Crash, shim
  <2>2. MemoryInv'
    BY <1>t, <2>1 DEF MemoryInv
  <2> QED BY <1>q, <2>1, <2>2, Unconnected
<1>15. CASE Restart
  <2>1. wire' = "down" /\ wire' # "up" /\ UNCHANGED <<replay, pc, attempt>>
    BY <1>15, <1>t DEF Restart, shim, pipe, MemoryInv
  <2>2. MemoryInv'
    BY <1>t, <2>1 DEF MemoryInv
  <2> QED BY <1>q, <2>1, <2>2, Unconnected
<1>16. CASE GraceEnds
  <2>1. /\ session.state = "Detached" /\ UNCHANGED <<replay, auth, pc, attempt, wire, up, running>>
        /\ session'.state = "Gone" /\ session'.attempt = session.attempt
        /\ session'.authenticated = session.authenticated
        /\ session'.unreachable = session.unreachable
    BY <1>16, <1>t DEF GraceEnds, shim, pipe, Session
  <2>2. /\ \A i : Wiped(i)' = Wiped(i)
        /\ \A i : ExitBehind(i)' = ExitBehind(i)
        /\ Untold' = Untold /\ Telling' = Telling
    BY <2>1 DEF Wiped, ExitBehind, Untold, Telling
  <2>3. ~StateOK(session)
    <3>1. \A c, a, u : Outcome(c, a, u) # "Detached"
      BY DEF Outcome
    <3> QED BY <2>1, <3>1 DEF StateOK
  <2>4. WordsInv'
    <3>1. \A i : WordOK(i) => WordOK(i)'
      BY <2>1, <2>2 DEF WordOK
    <3> QED BY <2>1, <2>2, <3>1, <1>t DEF PipeInv, WordsInv
  <2>5. Kept' /\ RecordInv' /\ WaitingInv'
    BY <1>t, <2>1, <2>2, <2>3 DEF PipeInv, Kept, RecordInv, WaitingInv
  <2> QED BY <1>q, <1>u, <2>1, <2>4, <2>5 DEF PipeInv
<1>17. CASE RestoreTab
  <2>1. /\ wire' # "up" /\ wire' = "down" /\ attempt' = 0 /\ replay' = NoReplay
    BY <1>17 DEF RestoreTab, pipe
  <2>2. MemoryInv'
    BY <2>1 DEF MemoryInv, NoReplay
  <2> QED BY <1>q, <2>1, <2>2, Unconnected
<1>18. CASE UNCHANGED vars
  BY <1>18, <1>q, <1>r, <1>u DEF vars, shim, pipe, app
<1> QED BY <1>1, <1>2, <1>3, <1>4, <1>5, <1>6, <1>7, <1>8, <1>9, <1>10, <1>11, <1>12, <1>13,
           <1>14, <1>15, <1>16, <1>17, <1>18 DEF HearStep, SignalStep, QueueStep

\* With nothing on its way, NativeTerm's record says what the shim remembers.
THEOREM ViewMatchesEver ==
    ASSUME ~LateSignals
    PROVE  Spec => []ViewMatchesReplay
<1>1. Init => ViewInv
  BY DEF Init, ViewInv, MemoryInv, WordsInv, Kept, RecordInv, WaitingInv, Telling, NoReplay
<1>2. TypeOK /\ EndKnown /\ ReplayInv /\ LoginInv /\ ViewInv /\ [Next]_vars => ViewInv'
  <2> SUFFICES ASSUME TypeOK, EndKnown, ReplayInv, LoginInv, ViewInv, [Next]_vars PROVE ViewInv'
    OBVIOUS
  <2>1. Signals /\ Fresh
    BY DEF LoginInv
  <2> QED BY <2>1, ShimView, OthersView DEF Next, ShimStep, Environment
<1>3. TypeOK /\ ReplayInv /\ ViewInv => ViewMatchesReplay
  BY ViewImplies
<1> QED
  BY <1>1, <1>2, <1>3, TypeCorrect, EndKnownInvariant, ReplayInvariant, LoginInvariant, PTL
     DEF Spec

-----------------------------------------------------------------------------
(* What NativeTerm said and the shim took: a word among words.             *)

\* A word put behind others, or taken from their front.
LEMMA HasWords ==
    ASSUME NEW words \in Seq(AppMessage), NEW m
    PROVE  /\ ~Has(<< >>, m)
           /\ \A x \in AppMessage : Has(Append(words, x), m) => Has(words, m) \/ m = x
           /\ words # << >> => (Has(Tail(words), m) => Has(words, m))
           /\ words # << >> => Has(words, Head(words))
  BY DEF Has

\* A word that is sent or, when the pipe is down, is not.
LEMMA HasSent ==
    ASSUME NEW words \in Seq(AppMessage), NEW x \in AppMessage, NEW sent,
           sent = words \/ sent = Append(words, x)
    PROVE  \A m : Has(sent, m) => Has(words, m) \/ m = x
<1>1. CASE sent = words
  BY <1>1
<1>2. CASE sent = Append(words, x)
  BY <1>2 DEF Has
<1> QED BY <1>1, <1>2

\* Of the words that decide, one is the first.
LEMMA FirstDecides ==
    ASSUME inbox \in Seq(AppMessage), \E i \in DOMAIN inbox : Decides(i)
    PROVE  \E i \in DOMAIN inbox : Decides(i) /\ \A j \in 1..(i - 1) : ~Decides(j)
<1> DEFINE First(i) == Decides(i) /\ \A j \in 1..(i - 1) : ~Decides(j)
           S == {n \in Nat : (\E i \in DOMAIN inbox : i <= n /\ Decides(i))
                                => \E i \in DOMAIN inbox : First(i)}
<1>0. DOMAIN inbox = 1..Len(inbox) /\ Len(inbox) \in Nat
  OBVIOUS
<1>1. 0 \in S
  BY <1>0
<1>2. ASSUME NEW n \in Nat, n \in S PROVE n + 1 \in S
  <2>1. ASSUME NEW i \in DOMAIN inbox, i <= n + 1, Decides(i)
        PROVE  \E k \in DOMAIN inbox : First(k)
    <3>1. CASE \E k \in DOMAIN inbox : k <= n /\ Decides(k)
      BY <1>2, <3>1
    <3>2. CASE ~\E k \in DOMAIN inbox : k <= n /\ Decides(k)
      <4>1. \A j \in 1..(i - 1) : j \in DOMAIN inbox /\ j <= n
        BY <1>0, <2>1
      <4> QED BY <2>1, <3>2, <4>1
    <3> QED BY <3>1, <3>2
  <2> QED BY <2>1
<1>3. \A n \in Nat : n \in S
  <2> HIDE DEF S
  <2> QED BY <1>1, <1>2, SetInduction
<1>4. Len(inbox) \in S
  BY <1>0, <1>3
<1> QED BY <1>0, <1>4

\* What decides is one of the words that came.
LEMMA DecisionIs ==
    ASSUME inbox \in Seq(AppMessage)
    PROVE  Decision = "Connect" => Has(inbox, "Connect")
<1> SUFFICES ASSUME Decision = "Connect" PROVE Has(inbox, "Connect")
  OBVIOUS
<1>1. \E i \in DOMAIN inbox : Decides(i)
  BY DEF Decision
<1> DEFINE First(i) == Decides(i) /\ \A j \in 1..(i - 1) : ~Decides(j)
           k == CHOOSE i \in DOMAIN inbox : First(i)
<1>2. k \in DOMAIN inbox
  <2>1. \E i \in DOMAIN inbox : First(i)
    BY <1>1, FirstDecides
  <2> HIDE DEF First
  <2> QED BY <2>1
<1>3. Decision = inbox[k]
  BY <1>1 DEF Decision
<1> HIDE DEF k
<1> QED BY <1>2, <1>3 DEF Has

(* A tab nobody asked to connect, and that nothing on its way asks.        *)
Unasked ==
    ~asked =>
        /\ attempt = 0 /\ pc \in {"startWait", "after", "gone"}
        /\ ~Has(down, "Connect") /\ ~Has(inbox, "Connect")
        /\ queuePc = "idle" /\ ~queued /\ ~session.told

(* Before the first login of a tab nothing is typed into it, on its way to *)
(* it, or about to be.                                                     *)
Unspoken ==
    attempt <= 1 /\ ~auth =>
        /\ signal = "none" /\ ~Shown(session) /\ ~typing /\ ~replay.authenticated
        /\ \A i \in DOMAIN up : up[i].type # "Authenticated"
        /\ ~Has(down, "SendText") /\ ~Has(inbox, "SendText")

(* A login belongs to an attempt: none while ssh logs in, or before one.   *)
NoLoginYet ==
    /\ ssh = "login" => ~auth
    /\ attempt = 0 => ~auth /\ ssh = "none"

(* What the steps keep.                                                    *)
AskInv == Unasked /\ Unspoken /\ NoLoginYet

\* The steps of the shim.
LEMMA ShimAsks ==
    ASSUME TypeOK, AskInv,
           \/ Start \/ PreconnectStops \/ Connect \/ Sleep \/ Wake \/ Relogin \/ SshEnded
           \/ Report \/ FollowWords \/ PressR \/ PressC \/ TabClosing \/ Die
    PROVE  AskInv'
<1> USE MaxAttemptAssumption, SessionLinkAssumption
<1>t. /\ replay \in Replay /\ up \in Seq(ShimMessage) /\ attempt \in Nat /\ auth \in BOOLEAN
      /\ NoReplay \in Replay /\ inbox \in Seq(AppMessage) /\ down \in Seq(AppMessage)
  BY NoReplayType DEF TypeOK, ShimTypeOK, PipeTypeOK
<1>i. Unasked /\ Unspoken /\ NoLoginYet
  BY DEF AskInv
<1>w. /\ \A t \in {"Waiting", "Closing", "Authenticated", "Unreachable"} :
            Word(t) \in ShimMessage /\ Word(t).type = t
      /\ \A c \in Code : Exited(c) \in ShimMessage /\ Exited(c).type = "Exited"
      /\ \A n \in Attempt : Connecting(n) \in ShimMessage /\ Connecting(n).type = "Connecting"
  BY WordsType DEF Word, Exited, Connecting
\* What is said is a login only after one.
<1>s. ASSUME NEW m \in ShimMessage, Say(m),
             m.type = "Authenticated" => auth,
             attempt' <= 1 /\ ~auth' => attempt <= 1 /\ ~auth,
             UNCHANGED <<signal, session, typing, down>>,
             ~Has(inbox', "SendText") \/ inbox' = inbox
      PROVE  Unspoken'
  <2> SUFFICES ASSUME attempt' <= 1, ~auth' PROVE Unspoken'
    BY DEF Unspoken
  <2>1. /\ signal = "none" /\ ~Shown(session) /\ ~typing /\ ~replay.authenticated
        /\ \A i \in DOMAIN up : up[i].type # "Authenticated"
        /\ ~Has(down, "SendText") /\ ~Has(inbox, "SendText")
    BY <1>i, <1>s DEF Unspoken
  <2>2. m.type # "Authenticated"
    BY <1>s
  <2>3. \A i \in DOMAIN up' : up'[i].type # "Authenticated"
    BY <1>s, <1>t, <2>1, <2>2, SayIs
  <2>4. ~replay'.authenticated
    <3>1. replay' = Remember(replay, m)
      BY <1>s DEF Say
    <3> QED BY <1>t, <2>1, <2>2, <3>1 DEF Remember, NoReplay, Replay
  <2> QED BY <1>s, <2>1, <2>3, <2>4 DEF Unspoken
<1>1. CASE Start
  <2>0. /\ UNCHANGED <<attempt, ssh, auth, inbox, down, queuePc, queued, session, asked, signal, typing>>
        /\ pc' = "after" \/ (pc = "start" /\ pc' = "begin")
    BY <1>1 DEF Start, app, person
  <2>1. Unasked' /\ NoLoginYet'
    BY <1>i, <2>0 DEF Unasked, NoLoginYet
  <2>2. CASE Say(Word("Waiting"))
    <3>1. Word("Waiting") \in ShimMessage /\ Word("Waiting").type # "Authenticated"
      BY <1>w
    <3> QED BY <1>s, <2>0, <2>1, <2>2, <3>1 DEF AskInv
  <2>3. CASE Quiet
    BY <1>i, <2>0, <2>1, <2>3 DEF AskInv, Unspoken, Quiet
  <2> QED BY <1>1, <2>2, <2>3 DEF Start
<1>2. CASE PreconnectStops
  <2>0. /\ UNCHANGED <<ssh, auth, inbox, down, queuePc, queued, session, asked, signal, typing>>
        /\ pc = "begin" /\ attempt' = attempt + 1 /\ Say(Exited("connection"))
    BY <1>2 DEF PreconnectStops, app, person
  <2>1. asked
    BY <1>i, <2>0 DEF Unasked
  <2>2. Unasked' /\ NoLoginYet'
    BY <1>i, <1>t, <2>0, <2>1 DEF Unasked, NoLoginYet
  <2>3. Exited("connection") \in ShimMessage /\ Exited("connection").type # "Authenticated"
    BY <1>w DEF Code
  <2>4. attempt' <= 1 => attempt <= 1
    BY <1>t, <2>0
  <2> QED BY <1>s, <2>0, <2>2, <2>3, <2>4 DEF AskInv
<1>3. CASE Connect
  <2>0. /\ UNCHANGED <<inbox, down, queuePc, queued, session, asked, signal, typing>>
        /\ pc = "begin" /\ attempt' = attempt + 1 /\ attempt < MaxAttempt
        /\ Say(Connecting(attempt')) /\ auth' = FALSE
    BY <1>3 DEF Connect, app, person
  <2>1. asked
    BY <1>i, <2>0 DEF Unasked
  <2>2. Unasked' /\ NoLoginYet'
    BY <1>i, <1>t, <2>0, <2>1 DEF Unasked, NoLoginYet
  <2>3. Connecting(attempt') \in ShimMessage /\ Connecting(attempt').type # "Authenticated"
    BY <1>t, <1>w, <2>0 DEF Attempt
  <2>4. attempt' <= 1 => attempt <= 1 /\ ~auth
    BY <1>i, <1>t, <2>0 DEF NoLoginYet
  <2> QED BY <1>s, <2>0, <2>2, <2>3, <2>4 DEF AskInv
<1>4. CASE Sleep \/ Relogin
  <2>0. /\ UNCHANGED <<attempt, auth, inbox, replay, down, up, queuePc, queued, session, asked,
                       signal, typing>>
        /\ pc = "top" /\ ssh' \in {ssh, "none"}
    BY <1>4 DEF Sleep, Relogin, pipe, app, person
  <2> QED BY <1>i, <2>0 DEF AskInv, Unasked, Unspoken, NoLoginYet
<1>5. CASE Wake
  <2>0. /\ UNCHANGED <<attempt, auth, down, queuePc, queued, session, asked, signal, typing>>
        /\ pc = "asleep" /\ inbox' = << >>
        /\ (auth /\ Say(Word("Authenticated"))) \/ Quiet
        /\ ssh' = "none" \/ ssh' = ssh \/ (SshRuns /\ ssh' = KillCode)
    BY <1>5 DEF Wake, app, person
  <2>1. asked /\ ~Has(inbox', "SendText")
    BY <1>i, <1>t, <2>0, HasWords DEF Unasked
  <2>2. KillCode # "login"
    BY DEF Code
  <2>3. Unasked' /\ NoLoginYet'
    BY <1>i, <2>0, <2>1, <2>2 DEF Unasked, NoLoginYet, SshRuns
  <2>4. CASE auth /\ Say(Word("Authenticated"))
    <3>1. Word("Authenticated") \in ShimMessage
      BY <1>w
    <3> QED BY <1>s, <2>0, <2>1, <2>3, <2>4, <3>1 DEF AskInv
  <2>5. CASE Quiet
    BY <1>i, <2>0, <2>1, <2>3, <2>5 DEF AskInv, Unspoken, Quiet
  <2> QED BY <2>0, <2>4, <2>5
<1>6. CASE SshEnded
  <2>0. /\ UNCHANGED <<attempt, ssh, auth, inbox, down, queuePc, queued, session, asked, signal, typing>>
        /\ pc = "top" /\ (Quiet \/ Say(Word("Unreachable")))
    BY <1>6 DEF SshEnded, app, person
  <2>1. Unasked' /\ NoLoginYet'
    BY <1>i, <2>0 DEF Unasked, NoLoginYet
  <2>2. CASE Say(Word("Unreachable"))
    <3>1. Word("Unreachable") \in ShimMessage /\ Word("Unreachable").type # "Authenticated"
      BY <1>w
    <3> QED BY <1>s, <2>0, <2>1, <2>2, <3>1 DEF AskInv
  <2>3. CASE Quiet
    BY <1>i, <2>0, <2>1, <2>3 DEF AskInv, Unspoken, Quiet
  <2> QED BY <2>0, <2>2, <2>3
<1>7. CASE Report
  <2>0. /\ UNCHANGED <<attempt, auth, inbox, down, queuePc, queued, session, asked, signal, typing>>
        /\ pc = "report" /\ ssh' = "none" /\ Say(Exited(ssh))
    BY <1>7 DEF Report, app, person
  <2>1. Unasked' /\ NoLoginYet'
    BY <1>i, <2>0 DEF Unasked, NoLoginYet
  <2>2. Exited(ssh).type = "Exited" /\ replay' = [replay EXCEPT !.outcome = ssh]
    BY <2>0, RememberExited DEF Exited, Say
  <2>3. replay'.authenticated = replay.authenticated
    BY <1>t, <2>2 DEF Replay
  <2>4. up' = up \/ up' = Append(up, Exited(ssh))
    BY <2>0 DEF Say
  <2>5. Unspoken'
    <3> SUFFICES ASSUME attempt <= 1, ~auth PROVE \A i \in DOMAIN up' : up'[i].type # "Authenticated"
      BY <1>i, <2>0, <2>3 DEF Unspoken
    <3>1. \A i \in DOMAIN up : up[i].type # "Authenticated"
      BY <1>i DEF Unspoken
    <3> DEFINE x == Exited(ssh)
    <3>2. up' = up \/ up' = Append(up, x)
      BY <2>4
    <3>3. x.type # "Authenticated"
      BY <2>2
    <3> HIDE DEF x
    <3>4. CASE up' = up
      BY <3>1, <3>4
    <3>5. CASE up' = Append(up, x)
      <4>1. \A i \in DOMAIN up' : up'[i] = x \/ (i \in DOMAIN up /\ up'[i] = up[i])
        BY <1>t, <3>5
      <4> QED BY <3>1, <3>3, <4>1
    <3> QED BY <3>2, <3>4, <3>5
  <2> QED BY <2>1, <2>5 DEF AskInv
<1>8. CASE TabClosing
  <2>0. /\ UNCHANGED <<attempt, ssh, auth, pc, inbox, down, queuePc, queued, session, asked, signal, typing>>
        /\ Say(Word("Closing"))
    BY <1>8 DEF TabClosing, app, person
  <2>1. Unasked' /\ NoLoginYet'
    BY <1>i, <2>0 DEF Unasked, NoLoginYet
  <2>2. Word("Closing") \in ShimMessage /\ Word("Closing").type # "Authenticated"
    BY <1>w
  <2> QED BY <1>s, <2>0, <2>1, <2>2 DEF AskInv
<1>9. CASE FollowWords
  <2>0. /\ UNCHANGED <<attempt, ssh, auth, replay, up, down, queuePc, queued, session, asked, signal, typing>>
        /\ inbox' = << >>
        /\ \/ Decision = "Connect"
           \/ pc' = "gone" \/ pc' = pc
           \/ Has(inbox, "SendText")
    BY <1>9 DEF FollowWords, app, person
  <2>1. ~Has(inbox', "SendText") /\ ~Has(inbox', "Connect")
    BY <1>t, <2>0, HasWords
  <2>2. Unspoken' /\ NoLoginYet'
    BY <1>i, <2>0, <2>1 DEF Unspoken, NoLoginYet
  <2>3. ASSUME ~asked PROVE Decision # "Connect" /\ ~Has(inbox, "SendText")
    BY <1>i, <1>t, <2>3, DecisionIs DEF Unasked, Unspoken, NoLoginYet
  <2>4. Unasked'
    BY <1>i, <2>0, <2>1, <2>3 DEF Unasked
  <2> QED BY <2>2, <2>4 DEF AskInv
<1>10. CASE PressR \/ PressC \/ Die
  <2>0. /\ UNCHANGED <<attempt, auth, replay, inbox, up, down, queuePc, queued, session, signal, typing>>
        /\ asked' \/ (asked' = asked /\ pc' = "gone")
        /\ ssh' \in {ssh, "none"}
    BY <1>10 DEF PressR, PressC, Die, pipe, app, person
  <2> QED BY <1>i, <2>0 DEF AskInv, Unasked, Unspoken, NoLoginYet
<1> QED BY <1>1, <1>2, <1>3, <1>4, <1>5, <1>6, <1>7, <1>8, <1>9, <1>10

\* The steps of the pipe, of NativeTerm and of the person.
LEMMA OthersAsk ==
    ASSUME TypeOK, AskInv, MaxRestores = 0,
           \/ LogIn \/ SshExits \/ Reconnect \/ Deliver \/ Break \/ HearStep \/ SignalStep
           \/ TypeLoginCommand \/ QueueStep \/ QueueGivesUp \/ AskStep \/ Crash \/ Restart
           \/ GraceEnds \/ RestoreTab \/ UNCHANGED vars
    PROVE  AskInv'
<1>t. /\ replay \in Replay /\ up \in Seq(ShimMessage) /\ session \in Session /\ auth \in BOOLEAN
      /\ inbox \in Seq(AppMessage) /\ down \in Seq(AppMessage) /\ attempt \in Nat
      /\ restores \in 0..MaxRestores
  BY MaxAttemptAssumption DEF TypeOK, ShimTypeOK, PipeTypeOK, AppTypeOK, PersonTypeOK
<1>i. Unasked /\ Unspoken /\ NoLoginYet
  BY DEF AskInv
<1>1. CASE LogIn
  <2>0. /\ UNCHANGED <<pc, attempt, inbox, down, queuePc, queued, session, asked>>
        /\ auth' = TRUE /\ ssh = "login" /\ ssh' = "in"
    BY <1>1 DEF LogIn, pipe, person
  <2> QED BY <1>i, <2>0 DEF AskInv, Unasked, Unspoken, NoLoginYet
<1>2. CASE SshExits
  <2>0. /\ UNCHANGED <<pc, attempt, auth, replay, inbox, up, down, queuePc, queued, session, asked,
                       signal, typing>>
        /\ SshRuns /\ ssh' \in Code
    BY <1>2 DEF SshExits, pipe, app, person
  <2> QED BY <1>i, <2>0 DEF AskInv, Unasked, Unspoken, NoLoginYet, SshRuns, Code
<1>3. CASE Reconnect
  <2>0. /\ UNCHANGED <<pc, attempt, ssh, auth, replay, inbox, queuePc, queued, session, asked,
                       signal, typing>>
        /\ down' = << >> /\ up' = <<Word("Hello")>> \o ReplayWords(replay)
    BY <1>3 DEF Reconnect, shim, app, person
  <2>1. ~Has(down', "Connect") /\ ~Has(down', "SendText")
    BY <1>t, <2>0, HasWords
  <2>2. ASSUME ~replay.authenticated
        PROVE  \A i \in DOMAIN up' : up'[i].type # "Authenticated"
    <3>1. ReplayWords(replay) \in Seq(ShimMessage)
          /\ \A i \in DOMAIN ReplayWords(replay) : ReplayWords(replay)[i].type # "Authenticated"
      BY <1>t, <2>2, ReplayWordsType, ReplayWordsSay
    <3>2. Word("Hello") \in ShimMessage /\ Word("Hello").type = "Hello"
      BY WordsType DEF Word
    <3> DEFINE w == ReplayWords(replay)
               h == Word("Hello")
    <3>3. up' = <<h>> \o w
      BY <2>0
    <3> HIDE DEF w, h
    <3>4. w \in Seq(ShimMessage) /\ (\A i \in DOMAIN w : w[i].type # "Authenticated")
          /\ h \in ShimMessage /\ h.type = "Hello"
      BY <3>1, <3>2 DEF w, h
    <3>5. \A i \in DOMAIN up' : (i = 1 /\ up'[i] = h) \/ (i - 1 \in DOMAIN w /\ up'[i] = w[i - 1])
      BY <3>3, <3>4
    <3>6. ASSUME NEW i \in DOMAIN up' PROVE up'[i].type # "Authenticated"
      <4>1. CASE up'[i] = h
        BY <3>4, <4>1
      <4>2. CASE i - 1 \in DOMAIN w /\ up'[i] = w[i - 1]
        <5> DEFINE j == i - 1
        <5> HIDE DEF j
        <5>1. j \in DOMAIN w /\ up'[i] = w[j]
          BY <4>2 DEF j
        <5> QED BY <3>4, <5>1
      <4> QED BY <3>5, <4>1, <4>2
    <3> QED BY <3>6
  <2> QED BY <1>i, <2>0, <2>1, <2>2 DEF AskInv, Unasked, Unspoken, NoLoginYet
<1>4. CASE Deliver
  <2>0. /\ UNCHANGED <<pc, attempt, ssh, auth, replay, up, queuePc, queued, session, asked,
                       signal, typing>>
        /\ down # << >> /\ inbox' = Append(inbox, Head(down)) /\ down' = Tail(down)
    BY <1>4 DEF Deliver, app, person
  <2>1. \A m : Has(down', m) => Has(down, m)
    BY <1>t, <2>0, HasWords
  <2>2. \A m : Has(inbox', m) => Has(inbox, m) \/ Has(down, m)
    <3>1. Head(down) \in AppMessage /\ Has(down, Head(down))
      BY <1>t, <2>0, HasWords
    <3>2. \A m : Has(inbox', m) => Has(inbox, m) \/ m = Head(down)
      BY <1>t, <2>0, <3>1, HasWords
    <3> QED BY <3>1, <3>2
  <2> QED BY <1>i, <2>0, <2>1, <2>2 DEF AskInv, Unasked, Unspoken, NoLoginYet
<1>5. CASE Break
  <2>0. /\ UNCHANGED <<pc, attempt, ssh, auth, replay, inbox, up, queuePc, queued, session, asked,
                       signal, typing>>
        /\ down' = << >>
    BY <1>5 DEF Break, shim, app, person
  <2>1. ~Has(down', "Connect") /\ ~Has(down', "SendText")
    BY <1>t, <2>0, HasWords
  <2> QED BY <1>i, <2>0, <2>1 DEF AskInv, Unasked, Unspoken, NoLoginYet
<1>6. CASE HearHello
  <2>0. /\ UNCHANGED <<pc, attempt, ssh, auth, replay, inbox, down, queuePc, queued, asked,
                       signal, typing>>
        /\ up # << >> /\ up' = Tail(up)
    BY <1>6 DEF HearHello, shim, person
  <2>1. session'.told = session.told /\ (Shown(session') => Shown(session))
    BY <1>6, <1>t DEF HearHello, Session, Shown
  <2>2. \A i \in DOMAIN up' : i + 1 \in DOMAIN up /\ up'[i] = up[i + 1]
    BY <1>t, <2>0, TailIs
  <2> QED BY <1>i, <2>0, <2>1, <2>2 DEF AskInv, Unasked, Unspoken, NoLoginYet
<1>7. CASE Hear
  <2> DEFINE m == Head(up)
             h == Heard(session, m)
  <2>0. /\ UNCHANGED <<pc, attempt, ssh, auth, replay, inbox, down, queuePc, asked, signal>>
        /\ up # << >> /\ up' = Tail(up)
        /\ session' = h \/ session' = [h EXCEPT !.restorable = TRUE]
        /\ typing' = (typing \/ NewLogin(session, m))
        /\ queued' = (queued \/ LostConnect(session, m))
    BY <1>7 DEF Hear, shim, person
  <2>1. /\ m \in ShimMessage /\ 1 \in DOMAIN up /\ m = up[1]
        /\ \A i \in DOMAIN up' : i + 1 \in DOMAIN up /\ up'[i] = up[i + 1]
    BY <1>t, <2>0, TailIs
  <2> HIDE DEF m
  <2>2. /\ h \in Session /\ (h.told => session.told)
        /\ Shown(h) => m.type = "Authenticated" \/ Shown(session)
    BY <1>t, <2>1, HeardIs, HeardFields DEF HeardAs
  <2>3. /\ NewLogin(session, m) => Shown(h)
        /\ LostConnect(session, m) => session.told
    BY DEF NewLogin, LostConnect, Shown
  <2> HIDE DEF h
  <2>4. session'.told = h.told /\ (Shown(session') <=> Shown(h))
    BY <2>0, <2>2 DEF Session, Shown
  <2>5. Unasked'
    BY <1>i, <2>0, <2>2, <2>3, <2>4 DEF Unasked
  <2>6. Unspoken'
    BY <1>i, <2>0, <2>1, <2>2, <2>3, <2>4 DEF Unspoken
  <2>7. NoLoginYet'
    BY <1>i, <2>0 DEF NoLoginYet
  <2> QED BY <2>5, <2>6, <2>7 DEF AskInv
<1>8. CASE LinkEnds
  <2>0. /\ UNCHANGED <<pc, attempt, ssh, auth, replay, inbox, up, queuePc, queued, asked,
                       signal, typing>>
        /\ down' = << >>
    BY <1>8 DEF LinkEnds, shim, person
  <2>1. ~Has(down', "Connect") /\ ~Has(down', "SendText")
    BY <1>t, <2>0, HasWords
  <2>2. session'.told = session.told /\ (Shown(session') => Shown(session))
    BY <1>8, <1>t DEF LinkEnds, Session, Shown
  <2> QED BY <1>i, <2>0, <2>1, <2>2 DEF AskInv, Unasked, Unspoken, NoLoginYet
<1>9. CASE SignalHello \/ SignalHeard
  <2>0. /\ UNCHANGED <<pc, attempt, ssh, auth, replay, inbox, up, down, queuePc, queued, asked, typing>>
        /\ signal # "none"
    BY <1>9 DEF SignalHello, SignalHeard, shim, pipe, person
  <2>1. session'.told = session.told
    BY <1>9, <1>t DEF SignalHello, SignalHeard, Session
  <2> QED BY <1>i, <2>0, <2>1 DEF AskInv, Unasked, Unspoken, NoLoginYet
<1>d. ASSUME UNCHANGED <<pc, attempt, ssh, auth, replay, inbox, up, queuePc, queued, asked,
                         signal, session>>,
             typing' => typing,
             down' = down \/ \E x \in AppMessage : down' = Append(down, x) /\ x # "Connect"
                                /\ (x = "SendText" => typing \/ session.state = "Connected")
      PROVE  AskInv'
  <2>1. ASSUME NEW m, Has(down', m), ~Has(down, m)
        PROVE  m # "Connect" /\ (m = "SendText" => (typing \/ session.state = "Connected"))
    <3>1. CASE down' = down
      BY <2>1, <3>1
    <3>2. CASE down' # down
      <4>1. PICK x \in AppMessage :
                  /\ down' = Append(down, x)
                  /\ x # "Connect" /\ (x = "SendText" => typing \/ session.state = "Connected")
        BY <1>d, <3>2
      <4>2. m = x
        BY <1>t, <2>1, <4>1, HasSent
      <4> QED BY <4>1, <4>2
    <3> QED BY <3>1, <3>2
  <2>2. /\ ~asked => ~Has(down', "Connect")
        /\ attempt <= 1 /\ ~auth => ~Has(down', "SendText")
    BY <1>i, <2>1 DEF Unasked, Unspoken, Shown
  <2> QED BY <1>d, <1>i, <2>2 DEF AskInv, Unasked, Unspoken, NoLoginYet
<1>a. AppMessage = {"Connect", "Disconnect", "Close", "SendText"}
  BY DEF AppMessage
<1>10. CASE TypeLoginCommand
  <2>0. /\ UNCHANGED <<pc, attempt, ssh, auth, replay, inbox, up, queuePc, queued, asked,
                       signal, session>>
        /\ typing /\ typing' = FALSE
        /\ down' = down \/ down' = Append(down, "SendText")
    BY <1>10 DEF TypeLoginCommand, shim, person
  <2> QED BY <1>a, <1>d, <2>0
<1>11. CASE QueueStep
  <2>0. /\ UNCHANGED <<pc, attempt, ssh, auth, replay, inbox, up, asked, signal, typing>>
        /\ down' = down \/ down' = Append(down, "Connect")
        /\ queued \/ queuePc # "idle"
    BY <1>11 DEF QueueStep, QueueChoose, QueueTell, QueueMark, shim, pipe, person
  <2>1. asked
    BY <1>i, <2>0 DEF Unasked
  <2>2. Shown(session') => Shown(session)
    BY <1>11, <1>t DEF QueueStep, QueueChoose, QueueTell, QueueMark, Session, Shown
  <2>3. Has(down', "SendText") => Has(down, "SendText")
    <3>1. \A m : Has(down', m) => Has(down, m) \/ m = "Connect"
      BY <1>a, <1>t, <2>0, HasSent
    <3> QED BY <3>1
  <2> QED BY <1>i, <2>0, <2>1, <2>2, <2>3 DEF AskInv, Unasked, Unspoken, NoLoginYet
<1>12. CASE QueueGivesUp
  <2>0. /\ UNCHANGED <<pc, attempt, ssh, auth, replay, inbox, up, down, asked, signal, typing, session,
                       queuePc>>
        /\ queued
    BY <1>12 DEF QueueGivesUp, shim, pipe, person
  <2> QED BY <1>i, <2>0 DEF AskInv, Unasked, Unspoken, NoLoginYet
<1>13. CASE AskConnect
  <2>0. /\ UNCHANGED <<pc, attempt, ssh, auth, replay, inbox, up, signal, typing>>
        /\ down' = down \/ down' = Append(down, "Connect")
        /\ asked'
    BY <1>13 DEF AskConnect, Ask, Tell, shim
  <2>1. Shown(session') => Shown(session)
    BY <1>13, <1>t DEF AskConnect, Session, Shown
  <2>2. Has(down', "SendText") => Has(down, "SendText")
    <3>1. \A m : Has(down', m) => Has(down, m) \/ m = "Connect"
      BY <1>a, <1>t, <2>0, HasSent
    <3> QED BY <3>1
  <2> QED BY <1>i, <2>0, <2>1, <2>2 DEF AskInv, Unasked, Unspoken, NoLoginYet
<1>14. CASE AskClose
  <2>0. /\ UNCHANGED <<pc, attempt, ssh, auth, replay, inbox, up, signal, typing, asked, queuePc, queued>>
        /\ down' = down \/ down' = Append(down, "Close")
    BY <1>14 DEF AskClose, Ask, Tell, shim
  <2>1. session'.told = session.told /\ (Shown(session') => Shown(session))
    BY <1>14, <1>t DEF AskClose, Session, Shown
  <2>2. /\ Has(down', "SendText") => Has(down, "SendText")
        /\ Has(down', "Connect") => Has(down, "Connect")
    <3>1. \A m : Has(down', m) => Has(down, m) \/ m = "Close"
      BY <1>a, <1>t, <2>0, HasSent
    <3> QED BY <3>1
  <2> QED BY <1>i, <2>0, <2>1, <2>2 DEF AskInv, Unasked, Unspoken, NoLoginYet
<1>15. CASE AskDisconnect \/ AskSendText
  <2>0. /\ UNCHANGED <<pc, attempt, ssh, auth, replay, inbox, up, queuePc, queued, asked,
                       signal, session, typing>>
        /\ \/ down' = down \/ down' = Append(down, "Disconnect")
           \/ session.state = "Connected" /\ down' = Append(down, "SendText")
    BY <1>15 DEF AskDisconnect, AskSendText, Ask, Tell, shim
  <2> QED BY <1>a, <1>d, <2>0
<1>16. CASE Crash
  <2>0. /\ UNCHANGED <<pc, attempt, ssh, auth, replay, inbox, asked>>
        /\ up' = << >> /\ down' = << >> /\ signal' = "none" /\ ~queued' /\ queuePc' = "idle" /\ ~typing'
        /\ session' = NewSession(IF IsOpen(session.state) THEN "Detached" ELSE "Gone")
    BY <1>16 DEF Crash, shim, person
  <2>1. ~Has(down', "Connect") /\ ~Has(down', "SendText") /\ DOMAIN up' = {}
    BY <1>t, <2>0, HasWords
  <2>2. ~session'.told /\ ~Shown(session')
    BY <2>0 DEF NewSession, Shown
  <2> QED BY <1>i, <2>0, <2>1, <2>2 DEF AskInv, Unasked, Unspoken, NoLoginYet
<1>17. CASE Restart \/ GraceEnds
  <2>0. UNCHANGED <<pc, attempt, ssh, auth, replay, inbox, up, down, queuePc, queued, asked,
                    signal, typing>>
    BY <1>17 DEF Restart, GraceEnds, shim, pipe, person
  <2>1. session'.told = session.told /\ (Shown(session') => Shown(session))
    BY <1>17, <1>t DEF Restart, GraceEnds, Session, Shown
  <2> QED BY <1>i, <2>0, <2>1 DEF AskInv, Unasked, Unspoken, NoLoginYet
<1>18. CASE RestoreTab
  BY <1>18, <1>t DEF RestoreTab
<1>19. CASE UNCHANGED vars
  BY <1>19, <1>i DEF AskInv, Unasked, Unspoken, NoLoginYet, vars, shim, pipe, app, person
<1> QED BY <1>1, <1>2, <1>3, <1>4, <1>5, <1>6, <1>7, <1>8, <1>9, <1>10, <1>11, <1>12, <1>13,
           <1>14, <1>15, <1>16, <1>17, <1>18, <1>19 DEF HearStep, SignalStep, AskStep

\* A tab connects only when somebody asked for it, and its first prompts are answered
\* by nobody else - but for a tab that is restored.
THEOREM NothingUnaskedEver ==
    ASSUME MaxRestores = 0
    PROVE  Spec => []NothingUnasked
<1>1. Init => AskInv
  <2> SUFFICES ASSUME Init PROVE AskInv
    OBVIOUS
  <2>1. /\ ~Has(down, "Connect") /\ ~Has(down, "SendText")
        /\ ~Has(inbox, "Connect") /\ ~Has(inbox, "SendText")
    BY DEF Init, Has
  <2>2. ~session.told /\ ~Shown(session) /\ ~replay.authenticated
    BY DEF Init, NewSession, Shown, NoReplay
  <2>3. /\ attempt = 0 /\ ~auth /\ ssh = "none" /\ queuePc = "idle" /\ signal = "none" /\ ~typing
        /\ DOMAIN up = {}
    BY DEF Init
  <2>4. ~asked => pc \in {"startWait", "after", "gone"} /\ ~queued
    BY DEF Init
  <2> QED BY <2>1, <2>2, <2>3, <2>4 DEF AskInv, Unasked, Unspoken, NoLoginYet
<1>2. TypeOK /\ AskInv /\ [Next]_vars => AskInv'
  <2> SUFFICES ASSUME TypeOK, AskInv, [Next]_vars PROVE AskInv'
    OBVIOUS
  <2> QED BY ShimAsks, OthersAsk DEF Next, ShimStep, Environment
<1>3. TypeOK /\ AskInv => NothingUnasked
  BY MaxAttemptAssumption
     DEF TypeOK, ShimTypeOK, AskInv, Unasked, Unspoken, NoLoginYet, NothingUnasked,
         NoTextAtFirstPrompt
<1> QED BY <1>1, <1>2, <1>3, TypeCorrect, PTL DEF Spec
=============================================================================
