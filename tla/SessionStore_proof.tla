------------------------- MODULE SessionStore_proof -------------------------
(***************************************************************************)
(* Theorems about SessionStore, for any number of tabs, runs of            *)
(* NativeTerm, words, acts and restored panes: its types; no second tab of *)
(* a session is opened in the place of a restored pane; the row in         *)
(* state.db agrees with the record in memory; and a lost session opened    *)
(* again is not brought back later by a restored pane.                     *)
(***************************************************************************)
EXTENDS SessionStore, TLAPS

What == {"opened", "seen", "setShim", "closed", "withWindow", "notRestorable"}

-----------------------------------------------------------------------------
(* Writing.                                                                *)

\* What is written for a change of the state is a sequence of writes.
LEMMA EndedOrBackType ==
    ASSUME NEW before, NEW after
    PROVE  EndedOrBack(before, after) \in {<< >>, <<"closed">>, <<"seen">>}
  BY DEF EndedOrBack

\* New writes are put behind the thread's own; the others keep theirs.
LEMMA EnqueueType ==
    ASSUME writes \in [Thread -> Seq(Write)], raced \in BOOLEAN,
           NEW t \in Thread, NEW ws \in Seq(What),
           mem' \in Record, Enqueue(t, ws)
    PROVE  writes' \in [Thread -> Seq(Write)] /\ raced' \in BOOLEAN
<1> DEFINE new == [i \in DOMAIN ws |-> [what |-> ws[i], tab |-> mem'.tab]]
<1>1. new \in Seq(Write)
  <2>1. DOMAIN ws = 1..Len(ws) /\ Len(ws) \in Nat
    OBVIOUS
  <2>2. ASSUME NEW i \in DOMAIN ws
        PROVE  [what |-> ws[i], tab |-> mem'.tab] \in Write
    BY DEF Write, What, Record
  <2> HIDE DEF Write
  <2> QED BY <2>1, <2>2
<1>2. writes[t] \o new \in Seq(Write)
  BY <1>1
<1>3. writes' = [writes EXCEPT ![t] = writes[t] \o new]
  BY DEF Enqueue
<1>4. raced' \in BOOLEAN
  BY DEF Enqueue
<1> QED BY <1>2, <1>3, <1>4

\* A thread's write is an old one of its own in its place, or a new one.
LEMMA EnqueueKeeps ==
    ASSUME writes \in [Thread -> Seq(Write)],
           NEW t \in Thread, NEW ws \in Seq(What),
           Enqueue(t, ws), NEW o \in Thread
    PROVE  /\ o # t => writes'[o] = writes[o]
           /\ \A i \in DOMAIN writes[o] :
                  i \in DOMAIN writes'[o] /\ writes'[o][i] = writes[o][i]
           /\ \A i \in DOMAIN writes'[o] :
                  \/ i \in DOMAIN writes[o] /\ writes'[o][i] = writes[o][i]
                  \/ /\ o = t
                     /\ writes'[o][i].tab = mem'.tab
                     /\ \E j \in DOMAIN ws : writes'[o][i].what = ws[j]
           /\ o = t => \A j \in DOMAIN ws :
                  \E i \in DOMAIN writes'[o] : writes'[o][i].what = ws[j]
<1> DEFINE new == [i \in DOMAIN ws |-> [what |-> ws[i], tab |-> mem'.tab]]
<1>1. writes' = [writes EXCEPT ![t] = writes[t] \o new]
  BY DEF Enqueue
<1>2. CASE o # t
  BY <1>1, <1>2
<1>3. CASE o = t
  <2>1. writes'[o] = writes[o] \o new
    BY <1>1, <1>3
  <2>2. /\ DOMAIN ws = 1..Len(ws) /\ Len(ws) \in Nat
        /\ DOMAIN writes[o] = 1..Len(writes[o]) /\ Len(writes[o]) \in Nat
    OBVIOUS
  <2>3. new \in Seq({new[i] : i \in DOMAIN ws}) /\ Len(new) = Len(ws)
    BY <2>2
  <2>4. /\ DOMAIN writes'[o] = 1..(Len(writes[o]) + Len(ws))
        /\ \A i \in 1..Len(writes[o]) : writes'[o][i] = writes[o][i]
        /\ \A i \in (Len(writes[o]) + 1)..(Len(writes[o]) + Len(ws)) :
               writes'[o][i] = new[i - Len(writes[o])]
    BY <2>1, <2>2, <2>3
  <2>n. ASSUME NEW k \in DOMAIN ws
        PROVE  new[k].what = ws[k] /\ new[k].tab = mem'.tab
    OBVIOUS
  <2> HIDE DEF new
  <2>5. ASSUME NEW i \in DOMAIN writes[o]
        PROVE  i \in DOMAIN writes'[o] /\ writes'[o][i] = writes[o][i]
    BY <2>2, <2>4
  <2>6. ASSUME NEW i \in DOMAIN writes'[o], i \notin DOMAIN writes[o]
        PROVE  /\ writes'[o][i].tab = mem'.tab
               /\ \E j \in DOMAIN ws : writes'[o][i].what = ws[j]
    <3>0. i \in (Len(writes[o]) + 1)..(Len(writes[o]) + Len(ws))
      BY <2>2, <2>4, <2>6
    <3>1. /\ i - Len(writes[o]) \in DOMAIN ws
          /\ writes'[o][i] = new[i - Len(writes[o])]
      BY <3>0, <2>2, <2>4
    <3> QED BY <3>1, <2>n
  <2>7. ASSUME NEW j \in DOMAIN ws
        PROVE  \E i \in DOMAIN writes'[o] : writes'[o][i].what = ws[j]
    <3> DEFINE n == Len(writes[o])
    <3>0. j \in 1..Len(ws)
      BY <2>2
    <3>1. n + j \in (n + 1)..(n + Len(ws)) /\ n + j \in 1..(n + Len(ws))
          /\ (n + j) - n = j
      <4> HIDE DEF n
      <4> QED BY <3>0, <2>2 DEF n
    <3>2. writes'[o][n + j] = new[j]
      BY <3>1, <2>4
    <3>3. writes'[o][n + j].what = ws[j] /\ n + j \in DOMAIN writes'[o]
      BY <3>1, <3>2, <2>4, <2>n
    <3> QED BY <3>3
  <2> QED BY <1>3, <2>5, <2>6, <2>7, Zenon
<1> QED BY <1>2, <1>3

\* A change of the record, with what follows it, keeps the types.
LEMMA UpdateType ==
    ASSUME TypeOK, NEW t \in Thread, NEW record \in Record,
           NEW then \in Seq(What), Update(t, record, then)
    PROVE  /\ mem' \in Record
           /\ mem.listed => mem' = record
           /\ ~mem.listed => mem' = mem
           /\ writes' \in [Thread -> Seq(Write)]
           /\ raced' \in BOOLEAN
<1>1. EndedOrBack(mem.state, record.state) \o then \in Seq(What)
  <2>1. /\ << >> \in Seq(What)
        /\ <<"closed">> \in Seq(What)
        /\ <<"seen">> \in Seq(What)
    BY DEF What
  <2> HIDE DEF What
  <2>2. EndedOrBack(mem.state, record.state) \in Seq(What)
    BY <2>1, EndedOrBackType
  <2> QED BY <2>2
<1>2. CASE mem.listed
  BY <1>1, <1>2, EnqueueType DEF Update, TypeOK
<1>3. CASE ~mem.listed
  BY <1>3 DEF Update, TypeOK
<1> QED BY <1>2, <1>3

\* One statement on a row gives a row; a row that can be restored is closed.
LEMMA WrittenType ==
    ASSUME NEW r \in Row, NEW w \in Write, r.restorable => r.closed
    PROVE  /\ Written(r, w) \in Row
           /\ Written(r, w).restorable => Written(r, w).closed
<1>1. w.tab \in 0..MaxTabs
  BY DEF Write
<1>2. CASE w.what = "opened"
  <2>1. Written(r, w) = [r EXCEPT !.known = TRUE, !.closed = FALSE,
                                  !.restorable = FALSE, !.tab = w.tab]
    BY <1>2 DEF Written
  <2> QED BY <2>1, <1>1 DEF Row
<1>3. CASE w.what # "opened" /\ ~r.known
  <2>1. Written(r, w) = r
    BY <1>3 DEF Written
  <2> QED BY <2>1
<1>4. CASE r.known /\ w.what = "seen"
  <2>1. Written(r, w) = [r EXCEPT !.closed = FALSE, !.restorable = FALSE,
                                  !.tab = w.tab]
    BY <1>4 DEF Written
  <2> QED BY <2>1, <1>1 DEF Row
<1>5. CASE r.known /\ w.what = "setShim"
  <2>1. Written(r, w) = [r EXCEPT !.shim = w.tab]
    BY <1>5 DEF Written
  <2> QED BY <2>1, <1>1 DEF Row
<1>6. CASE r.known /\ w.what \in {"closed", "withWindow", "notRestorable"}
  BY <1>6 DEF Written, Row
<1> QED BY <1>2, <1>3, <1>4, <1>5, <1>6 DEF Write

\* A hello makes a record of a listed session one with a link.
LEMMA LinkedType ==
    ASSUME mem \in Record, tab \in 0..MaxTabs, mem.listed
    PROVE  Linked \in Record /\ Linked.listed /\ Linked.tab = tab
  BY DEF Linked, Record, State, IsOpen

-----------------------------------------------------------------------------
(* The types.                                                              *)

\* Every state is of its types, a row that can be restored is closed, and a
\* session with a link is in the list.
THEOREM StoreTypeCorrect == Spec => []TypeOK
<1> USE SessionStoreAssumption
<1>1. Init => TypeOK
  <2> SUFFICES ASSUME Init PROVE TypeOK
    OBVIOUS
  <2>1. writes \in [Thread -> Seq(Write)]
    <3>1. << >> \in Seq(Write)
      OBVIOUS
    <3>2. [what |-> "opened", tab |-> 1] \in Write
      BY DEF Write
    <3>3. <<[what |-> "opened", tab |-> 1]>> \in Seq(Write)
      BY <3>2
    <3> QED BY <3>1, <3>3 DEF Init
  <2>2. mem \in Record /\ (mem.link => mem.listed)
    <3>1. 0 \in 0..MaxTabs /\ 1 \in 0..MaxTabs
      OBVIOUS
    <3> QED BY <3>1 DEF Init, NoRecord, Record, State
  <2>3. row \in Row /\ (row.restorable => row.closed)
    BY DEF Init, Row
  <2>4. /\ window \in BOOLEAN /\ running \in BOOLEAN /\ lost \in BOOLEAN
        /\ told \in BOOLEAN /\ leaving \in BOOLEAN /\ tookWindow \in BOOLEAN
        /\ raced \in BOOLEAN
    BY Zenon DEF Init
  <2>5. /\ tab \in 1..MaxTabs /\ events \in 0..MaxEvents
        /\ paneTab \in 0..MaxTabs /\ restores \in 0..MaxRestores
        /\ starts \in 0..MaxStarts /\ spare \in 0..MaxTabs /\ acts \in 0..MaxActs
    BY DEF Init
  <2>6. /\ up \in Seq({"Hello", "Word", "Closing"}) /\ opening \subseteq Opener
        /\ shim \in {"asked", "alive", "closing", "gone"}
        /\ wire \in {"down", "up", "closing"}
        /\ pane \in {"none", "asking", "held", "closed", "shell"}
        /\ linkPc \in {"idle", "checking"}
        /\ grace \in {"waiting", "saw", "marked", "done"}
        /\ reopened \in {"no", "now", "before"}
    BY DEF Init, Opener
  <2> QED BY <2>1, <2>2, <2>3, <2>4, <2>5, <2>6, Zenon DEF TypeOK
<1>2. TypeOK /\ [Next]_vars => TypeOK'
  <2> SUFFICES ASSUME TypeOK, [Next]_vars PROVE TypeOK'
    OBVIOUS
  <2> USE DEF TypeOK
  <2>1. CASE TabAppears
    BY <2>1 DEF TabAppears, tabs, link, panes, app, store, history
  <2>2. CASE SayWord
    BY <2>2 DEF SayWord, tabs, link, panes, app, store, history
  <2>3. CASE TabCloses
    BY <2>3 DEF TabCloses, tabs, link, panes, app, store, history
  <2>4. CASE ShimEnds
    BY <2>4 DEF ShimEnds, tabs, link, panes, app, store, history
  <2>5. CASE WindowGoes
    <3>1. window' \in BOOLEAN
      BY <2>5, Zenon DEF WindowGoes
    <3> QED BY <2>5, <3>1 DEF WindowGoes, tabs, link, panes, app, store, history
  <2>6. CASE LinkUp
    BY <2>6 DEF LinkUp, tabs, link, panes, app, store, history
  <2>7. CASE Break
    <3>1. told' \in BOOLEAN
      BY <2>7, Zenon DEF Break
    <3> QED BY <2>7, <3>1 DEF Break, tabs, link, panes, app, store, history
  <2>8. CASE HearHello
    <3>1. /\ mem' \in Record /\ (mem'.link => mem'.listed)
          /\ writes' \in [Thread -> Seq(Write)] /\ raced' \in BOOLEAN
      <4>1. "link" \in Thread
        BY DEF Thread
      <4>2. CASE mem.listed
        <5>1. Linked \in Record /\ Linked.listed
          BY <4>2, LinkedType
        <5>2. <<"seen", "setShim">> \in Seq(What)
          BY DEF What
        <5>3. Update("link", Linked, <<"seen", "setShim">>)
          BY <2>8, <4>2 DEF HearHello
        <5> QED BY <4>1, <4>2, <5>1, <5>2, <5>3, UpdateType
      <4>3. CASE ~mem.listed
        <5>1. /\ mem' = [NoRecord EXCEPT !.listed = TRUE, !.state = "Live",
                                        !.link = TRUE, !.tab = tab]
              /\ Enqueue("link", <<"opened", "seen", "setShim">>)
          BY <2>8, <4>3 DEF HearHello
        <5>2. mem' \in Record /\ mem'.listed
          <6>1. tab \in 0..MaxTabs
            OBVIOUS
          <6> QED BY <5>1, <6>1 DEF NoRecord, Record, State
        <5>3. <<"opened", "seen", "setShim">> \in Seq(What)
          BY DEF What
        <5> QED BY <4>1, <5>1, <5>2, <5>3, EnqueueType
      <4> QED BY <4>2, <4>3
    <3>2. tookWindow' \in BOOLEAN
      BY <2>8, Zenon DEF HearHello
    <3>3. up' \in Seq({"Hello", "Word", "Closing"})
      BY <2>8 DEF HearHello
    <3>4. /\ reopened' \in {"no", "now", "before"}
          /\ UNCHANGED <<tabs, wire, events, panes, running, starts, spare, lost,
                         linkPc, opening, grace, told, leaving, row, acts>>
      BY <2>8 DEF HearHello
    <3> QED BY <3>1, <3>2, <3>3, <3>4 DEF tabs, panes
  <2>9. CASE HearWord
    <3> DEFINE record == [mem EXCEPT !.state = "Live"]
    <3>1. record \in Record /\ (record.link => mem.link) /\ record.listed = mem.listed
      BY DEF Record, State
    <3>2. "link" \in Thread /\ << >> \in Seq(What)
      BY DEF Thread, Opener
    <3>3. Update("link", record, << >>)
      BY <2>9 DEF HearWord
    <3> HIDE DEF record
    <3>4. /\ mem' \in Record /\ (mem'.link => mem'.listed)
          /\ writes' \in [Thread -> Seq(Write)] /\ raced' \in BOOLEAN
      BY <3>1, <3>2, <3>3, UpdateType
    <3> QED BY <2>9, <3>4 DEF HearWord, tabs, link, panes, app, store, history
  <2>10. CASE HearClosing
    <3> DEFINE record == [mem EXCEPT !.state = "Closed"]
    <3>1. record \in Record /\ (record.link => mem.link) /\ record.listed = mem.listed
      BY DEF Record, State
    <3>2. "link" \in Thread /\ << >> \in Seq(What)
      BY DEF Thread, Opener
    <3>3. Update("link", record, << >>)
      BY <2>10 DEF HearClosing
    <3> HIDE DEF record
    <3>4. /\ mem' \in Record /\ (mem'.link => mem'.listed)
          /\ writes' \in [Thread -> Seq(Write)] /\ raced' \in BOOLEAN
      BY <3>1, <3>2, <3>3, UpdateType
    <3> QED BY <2>10, <3>4 DEF HearClosing, tabs, link, panes, app, store, history
  <2>11. CASE WindowSeenGone
    <3>1. mem' \in Record /\ (mem'.link => mem'.listed)
      BY <2>11 DEF WindowSeenGone, Record
    <3>2. "link" \in Thread /\ <<"withWindow">> \in Seq(What)
      BY DEF Thread, What
    <3>3. writes' \in [Thread -> Seq(Write)] /\ raced' \in BOOLEAN
      BY <2>11, <3>1, <3>2, EnqueueType DEF WindowSeenGone
    <3> QED BY <2>11, <3>1, <3>3 DEF WindowSeenGone, tabs, link, panes, app, store, history
  <2>12. CASE WindowStays
    BY <2>12 DEF WindowStays, tabs, link, panes, app, store, history
  <2>13. CASE LinkEnds
    <3> DEFINE record == [mem EXCEPT !.link = FALSE, !.state = IF @ # "Closed" THEN "Gone" ELSE @]
    <3>1. record \in Record /\ (record.link => mem.link) /\ record.listed = mem.listed
      BY DEF Record, State
    <3>2. "link" \in Thread /\ << >> \in Seq(What)
      BY DEF Thread, Opener
    <3>3. Update("link", record, << >>)
      BY <2>13 DEF LinkEnds
    <3> HIDE DEF record
    <3>4. /\ mem' \in Record /\ (mem'.link => mem'.listed)
          /\ writes' \in [Thread -> Seq(Write)] /\ raced' \in BOOLEAN
      BY <3>1, <3>2, <3>3, UpdateType
    <3> QED BY <2>13, <3>4 DEF LinkEnds, tabs, link, panes, app, store, history
  <2>14. ASSUME NEW t \in Opener, TabSeen(t)
        PROVE  TypeOK'
    BY <2>14 DEF TabSeen, Answer, Opener, tabs, link, panes, app, store, history
  <2>15. ASSUME NEW t \in Opener, TabMissing(t)
        PROVE  TypeOK'
    <3> DEFINE record == [mem EXCEPT !.state = "Failed"]
    <3>1. record \in Record /\ (record.link => mem.link) /\ record.listed = mem.listed
      BY DEF Record, State
    <3>2. t \in Thread /\ << >> \in Seq(What)
      BY DEF Thread, Opener
    <3>3. Update(t, record, << >>)
      BY <2>15 DEF TabMissing
    <3> HIDE DEF record
    <3>4. /\ mem' \in Record /\ (mem'.link => mem'.listed)
          /\ writes' \in [Thread -> Seq(Write)] /\ raced' \in BOOLEAN
      BY <3>1, <3>2, <3>3, UpdateType
    <3> QED BY <2>15, <3>4 DEF TabMissing, Answer, Opener, tabs, link, panes, app, store, history
  <2>16. CASE Replace
    <3>1. CASE mem.listed
      <4> DEFINE record == [mem EXCEPT !.tab = tab', !.state = "Opening"]
      <4>1. tab' \in 1..MaxTabs
        BY <2>16, <3>1 DEF Replace
      <4>2. record \in Record /\ record.listed
        <5>1. tab' \in 0..MaxTabs
          BY <4>1
        <5> QED BY <3>1, <5>1 DEF Record, State
      <4>3. "replacer" \in Thread /\ <<"opened">> \in Seq(What)
        BY DEF Thread, Opener, What
      <4>4. Update("replacer", record, <<"opened">>)
        BY <2>16, <3>1 DEF Replace
      <4> HIDE DEF record
      <4>5. /\ mem' \in Record /\ (mem'.link => mem'.listed)
            /\ writes' \in [Thread -> Seq(Write)] /\ raced' \in BOOLEAN
        BY <3>1, <4>2, <4>3, <4>4, UpdateType
      <4>6. window' \in BOOLEAN /\ tookWindow' \in BOOLEAN
        BY <2>16, <3>1, Zenon DEF Replace
      <4> QED BY <2>16, <3>1, <4>1, <4>5, <4>6 DEF Replace, Opener, tabs, link, panes, app, store, history
    <3>2. CASE ~mem.listed
      BY <2>16, <3>2 DEF Replace, tabs, link, panes, app, store, history
    <3> QED BY <3>1, <3>2
  <2>17. CASE PaneRestored
    BY <2>17 DEF PaneRestored, tabs, link, panes, app, store, history
  <2>18. CASE PaneAsks
    <3>1. mem' \in Record /\ (mem'.link => mem'.listed)
      BY <2>18 DEF PaneAsks, Record, NoRecord, State
    <3>2. /\ pane' \in {"held", "shell"} /\ spare' \in {0, spare}
          /\ reopened' \in {"no", reopened}
      BY <2>18 DEF PaneAsks
    <3>3. UNCHANGED <<tabs, link, paneTab, restores, running, starts, lost, linkPc,
                      opening, grace, told, leaving, store, acts, tookWindow,
                      raced>>
      BY <2>18 DEF PaneAsks
    <3> QED BY <3>1, <3>2, <3>3 DEF tabs, link, store
  <2>19. CASE AskClose
    <3> DEFINE record == [mem EXCEPT !.state = "Closed"]
    <3>1. record \in Record /\ (record.link => mem.link) /\ record.listed = mem.listed
      BY DEF Record, State
    <3>2. "ui" \in Thread /\ << >> \in Seq(What)
      BY DEF Thread, Opener
    <3>3. Update("ui", record, << >>)
      BY <2>19 DEF AskClose, Close, PersonActs
    <3> HIDE DEF record
    <3>4. /\ mem' \in Record /\ (mem'.link => mem'.listed)
          /\ writes' \in [Thread -> Seq(Write)] /\ raced' \in BOOLEAN
      BY <3>1, <3>2, <3>3, UpdateType
    <3>5. told' \in BOOLEAN /\ leaving' \in BOOLEAN
      BY <2>19, Zenon DEF AskClose, Close
    <3> QED BY <2>19, <3>4, <3>5 DEF AskClose, PersonActs, tabs, link, panes, app, store, history
  <2>20. CASE AskExit
    <3>1. CASE Close(TRUE)
      <4> DEFINE record == [mem EXCEPT !.state = "Closed"]
      <4>1. record \in Record /\ record.link = mem.link /\ record.listed = mem.listed
        BY DEF Record, State
      <4>2. "ui" \in Thread /\ << >> \in Seq(What)
        BY DEF Thread
      <4>3. Update("ui", record, << >>)
        BY <3>1 DEF Close
      <4> HIDE DEF record
      <4>4. /\ mem' \in Record /\ (mem'.link => mem'.listed)
            /\ writes' \in [Thread -> Seq(Write)] /\ raced' \in BOOLEAN
        BY <4>1, <4>2, <4>3, UpdateType
      <4>5. told' \in BOOLEAN /\ leaving' \in BOOLEAN
        BY <3>1, Zenon DEF Close
      <4> QED BY <2>20, <4>4, <4>5 DEF AskExit, PersonActs, tabs, link, panes, app, store, history
    <3>2. CASE leaving' = TRUE /\ UNCHANGED <<mem, told, writes, raced>>
      BY <2>20, <3>2 DEF AskExit, PersonActs, tabs, link, panes, app, store, history
    <3> QED BY <2>20, <3>1, <3>2 DEF AskExit
  <2>21. CASE ClearFinished
    BY <2>21 DEF ClearFinished, Cleared, PersonActs, Record, NoRecord, State, tabs, link, panes, app, store, history
  <2>22. CASE AnswerLost
    <3>1. mem' \in Record /\ (mem'.link => mem'.listed)
      BY <2>22 DEF AnswerLost, Cleared, NoRecord, Record, State
    <3>2. "ui" \in Thread /\ <<"notRestorable">> \in Seq(What)
      BY DEF Thread, What
    <3>3. writes' \in [Thread -> Seq(Write)] /\ raced' \in BOOLEAN
      BY <2>22, <3>1, <3>2, EnqueueType DEF AnswerLost
    <3>4. lost' \in BOOLEAN
      BY <2>22, Zenon DEF AnswerLost
    <3>5. reopened' \in {"now", reopened} /\ acts' \in 0..MaxActs
      BY <2>22 DEF AnswerLost, PersonActs
    <3>6. UNCHANGED <<tabs, link, panes, running, starts, spare, linkPc, opening,
                      grace, told, leaving, row, tookWindow>>
      BY <2>22 DEF AnswerLost
    <3> QED BY <3>1, <3>3, <3>4, <3>5, <3>6 DEF tabs, link, panes
  <2>23. CASE Stop
    <3>1. /\ running' \in BOOLEAN /\ window' \in BOOLEAN /\ leaving' \in BOOLEAN
          /\ lost' \in BOOLEAN
      BY <2>23, Zenon DEF Stop
    <3>2. mem' \in Record /\ (mem'.link => mem'.listed)
      BY <2>23 DEF Stop, Record, NoRecord, State
    <3>3. << >> \in Seq(Write)
      OBVIOUS
    <3>4. writes' \in [Thread -> Seq(Write)]
      BY <2>23, <3>3 DEF Stop
    <3>5. /\ pane' \in {"asking", pane} /\ reopened' \in {"before", "no", reopened}
          /\ shim' \in {"gone", shim}
      BY <2>23 DEF Stop
    <3> QED BY <2>23, <3>1, <3>2, <3>4, <3>5 DEF Stop
  <2>24. CASE Start
    <3> DEFINE offered == row.known /\ ~row.closed /\ ~ShimAlive
               r == IF offered THEN [row EXCEPT !.closed = TRUE, !.restorable = TRUE]
                               ELSE row
    <3>1. r \in Row /\ (r.restorable => r.closed) /\ r.tab \in 0..MaxTabs
      BY DEF Row
    <3>2. row' = r
      BY <2>24 DEF Start
    <3>3. mem' \in Record /\ (mem'.link => mem'.listed)
      <4>1. row.tab \in 0..MaxTabs
        BY DEF Row
      <4>2. mem' \in {NoRecord, [NoRecord EXCEPT !.listed = TRUE,
                                               !.state = "Detached",
                                               !.tab = row.tab]}
        BY <2>24 DEF Start
      <4>3. NoRecord \in Record /\ ~NoRecord.link
        BY DEF Record, NoRecord, State
      <4>4. /\ [NoRecord EXCEPT !.listed = TRUE, !.state = "Detached",
                                !.tab = row.tab] \in Record
            /\ [NoRecord EXCEPT !.listed = TRUE, !.state = "Detached",
                                !.tab = row.tab].listed
        BY <4>1 DEF Record, NoRecord, State
      <4> QED BY <4>2, <4>3, <4>4
    <3>4. spare' \in {0, r.tab}
      BY <2>24 DEF Start
    <3>5. running' \in BOOLEAN /\ lost' \in BOOLEAN
      BY <2>24, Zenon DEF Start
    <3>6. starts' \in 0..MaxStarts /\ grace' = "waiting"
      BY <2>24 DEF Start
    <3>7. UNCHANGED <<tabs, link, panes, linkPc, opening, told, leaving, writes,
                      history>>
      BY <2>24 DEF Start
    <3> HIDE DEF r
    <3> QED BY <3>1, <3>2, <3>3, <3>4, <3>5, <3>6, <3>7
            DEF tabs, link, panes, history
  <2>25. CASE GraceLooks
    BY <2>25 DEF GraceLooks, tabs, link, panes, app, store, history
  <2>26. CASE GraceEnds
    <3> DEFINE record == [mem EXCEPT !.state = IF @ = "Detached" THEN "Gone" ELSE @]
    <3>1. record \in Record /\ (record.link => mem.link) /\ record.listed = mem.listed
      BY DEF Record, State
    <3>2. "grace" \in Thread /\ << >> \in Seq(What)
      BY DEF Thread, Opener
    <3>3. Update("grace", record, << >>)
      BY <2>26 DEF GraceEnds
    <3> HIDE DEF record
    <3>4. /\ mem' \in Record /\ (mem'.link => mem'.listed)
          /\ writes' \in [Thread -> Seq(Write)] /\ raced' \in BOOLEAN
      BY <3>1, <3>2, <3>3, UpdateType
    <3> QED BY <2>26, <3>4 DEF GraceEnds, tabs, link, panes, app, store, history
  <2>27. CASE GraceOffers
    BY <2>27 DEF GraceOffers, tabs, link, panes, app, store, history
  <2>28. ASSUME NEW t \in Thread, Flush(t)
        PROVE  TypeOK'
    <3>1. Head(writes[t]) \in Write /\ Tail(writes[t]) \in Seq(Write)
      BY <2>28 DEF Flush
    <3>2. row' \in Row /\ (row'.restorable => row'.closed)
      BY <2>28, <3>1, WrittenType DEF Flush
    <3>3. writes' \in [Thread -> Seq(Write)]
      BY <2>28, <3>1 DEF Flush
    <3> QED BY <2>28, <3>2, <3>3 DEF Flush, tabs, link, panes, app, history
  <2>29. CASE UNCHANGED vars
    BY <2>29 DEF vars, tabs, link, panes, app, store, history
  <2> QED BY <2>1, <2>2, <2>3, <2>4, <2>5, <2>6, <2>7, <2>8, <2>9, <2>10, <2>11, <2>12, <2>13, <2>14, <2>15, <2>16, <2>17, <2>18, <2>19, <2>20, <2>21, <2>22, <2>23, <2>24, <2>25, <2>26, <2>27, <2>28, <2>29
          DEF Next, ShimStep, LinkStep, OpenerStep, AskStep
<1> QED BY <1>1, <1>2, PTL DEF Spec

-----------------------------------------------------------------------------
(* No second tab.                                                          *)
(*                                                                         *)
(* A pane restored by the terminal is the pane of the newest tab (paneTab  *)
(* = tab) until its replacement is asked for (paneTab < tab). From then on *)
(* the replacer's thread, or, if NativeTerm stops, the row must know the   *)
(* new tab: a row that still told of the pane's tab would have the next    *)
(* run replace it again.  So the invariant follows the number of the tab   *)
(* from the record over the writes to the row and back.                    *)

\* A write that tells the row of a tab.
Stamps(w) == w.what \in {"opened", "seen"}

StampsOf(t) == {i \in DOMAIN writes[t] : Stamps(writes[t][i])}

\* With the link down, its thread has nothing to tell the row of a tab; from
\* the hello on, the record has the tab at the link's other end.
LinkInv ==
    /\ ~running => wire = "down"
    /\ wire = "down" => up = << >> /\ StampsOf("link") = {}
    /\ mem.listed /\ wire # "down" /\ (up = << >> \/ Head(up) # "Hello") =>
           mem.tab = tab

\* Whatever is still to be written of a tab is of the newest.
WritesInv ==
    /\ \A t \in Thread : \A i \in StampsOf(t) : writes[t][i].tab = tab
    /\ StampsOf("grace") = {} /\ StampsOf("opener") = {}
    /\ \A i \in StampsOf("ui") : writes["ui"][i].what = "opened" /\ shim = "asked"

\* The row has the tab, or will have before the terminal is asked for it.
RowInv ==
    shim # "gone" \/ wire # "down" =>
        row.tab = tab \/ (shim = "asked" /\ Unwritten)

\* A restored pane waits for its first replacement, or for the answer that the
\* replacement is there, or nothing takes its tab for one to be replaced.
PaneInv ==
    /\ paneTab <= tab
    /\ pane \in {"asking", "held"} =>
         /\ paneTab # 0
         /\ \/ shim = "gone" /\ wire = "down"
            \/ pane = "held" /\ "replacer" \in opening /\ paneTab < tab
            \/ /\ pane = "asking" /\ paneTab # tab
               /\ row.tab = tab
               /\ mem.listed => mem.tab = tab
               /\ spare \in {0, tab}

Inv == LinkInv /\ WritesInv /\ RowInv /\ PaneInv

\* The writes that tell of a tab stay as they are.
SameStamps ==
    \A t \in Thread :
        /\ StampsOf(t)' = StampsOf(t)
        /\ \A i \in StampsOf(t) : writes'[t][i] = writes[t][i]

\* So a tab that wasn't written down yet still isn't, and no other.
LEMMA SameUnwritten ==
    ASSUME SameStamps PROVE Unwritten' <=> Unwritten
<1>1. {"ui", "replacer"} \subseteq Thread
  BY DEF Thread, Opener
<1>2. ASSUME NEW t \in {"ui", "replacer"}, NEW i \in DOMAIN writes[t],
             writes[t][i].what = "opened"
      PROVE  Unwritten'
  <2>1. i \in StampsOf(t)
    BY <1>2 DEF StampsOf, Stamps
  <2>2. i \in DOMAIN writes'[t] /\ writes'[t][i].what = "opened"
    BY <1>1, <1>2, <2>1 DEF SameStamps, StampsOf
  <2> QED BY <2>2 DEF Unwritten
<1>3. ASSUME NEW t \in {"ui", "replacer"}, NEW i \in DOMAIN writes'[t],
             writes'[t][i].what = "opened"
      PROVE  Unwritten
  <2>1. i \in StampsOf(t)'
    BY <1>3 DEF StampsOf, Stamps
  <2>2. i \in DOMAIN writes[t] /\ writes[t][i].what = "opened"
    BY <1>1, <1>3, <2>1 DEF SameStamps, StampsOf
  <2> QED BY <2>2 DEF Unwritten
<1> QED BY <1>2, <1>3 DEF Unwritten

\* Nothing written, and nothing more to write.
LEMMA UnchangedStamps ==
    ASSUME writes' = writes PROVE SameStamps
  BY DEF SameStamps, StampsOf

\* Writes that don't tell of a tab.
LEMMA QuietEnqueue ==
    ASSUME writes \in [Thread -> Seq(Write)],
           NEW t \in Thread, NEW ws \in Seq(What), Enqueue(t, ws),
           \A j \in DOMAIN ws : ws[j] \notin {"opened", "seen"}
    PROVE  SameStamps
<1> SUFFICES ASSUME NEW o \in Thread
             PROVE  /\ StampsOf(o)' = StampsOf(o)
                    /\ \A i \in StampsOf(o) : writes'[o][i] = writes[o][i]
  BY DEF SameStamps
<1>1. \A i \in DOMAIN writes[o] :
          i \in DOMAIN writes'[o] /\ writes'[o][i] = writes[o][i]
  BY EnqueueKeeps
<1>2. ASSUME NEW i \in DOMAIN writes'[o], i \notin DOMAIN writes[o]
      PROVE  ~Stamps(writes'[o][i])
  <2>1. \E j \in DOMAIN ws : writes'[o][i].what = ws[j]
    BY <1>2, EnqueueKeeps
  <2> QED BY <2>1 DEF Stamps
<1> QED BY <1>1, <1>2 DEF StampsOf

\* So does a change of the record to a state that isn't open, or to the same.
LEMMA QuietUpdate ==
    ASSUME TypeOK, NEW t \in Thread, NEW record \in Record,
           Update(t, record, << >>),
           ~IsOpen(record.state) \/ record.state = mem.state
    PROVE  SameStamps
<1>1. CASE mem.listed
  <2> DEFINE ws == EndedOrBack(mem.state, record.state)
  <2>1. ws \in {<< >>, <<"closed">>}
    BY DEF EndedOrBack
  <2>2. << >> \in Seq(What) /\ <<"closed">> \in Seq(What)
    BY DEF What
  <2>3. Enqueue(t, ws \o << >>)
    BY <1>1 DEF Update
  <2> HIDE DEF ws
  <2>4. ws \in Seq(What)
    <3> HIDE DEF What
    <3> QED BY <2>1, <2>2
  <2>5. ws \o << >> = ws
    <3> HIDE DEF What
    <3> QED BY <2>4
  <2>6. \A j \in DOMAIN ws : ws[j] \notin {"opened", "seen"}
    BY <2>1
  <2> QED BY <2>3, <2>4, <2>5, <2>6, QuietEnqueue DEF TypeOK
<1>2. CASE ~mem.listed
  BY <1>2, UnchangedStamps DEF Update
<1> QED BY <1>1, <1>2

\* What changes none of the invariant's parts.
LEMMA Frame ==
    ASSUME Inv, SameStamps, row'.tab = row.tab,
           mem'.listed => mem.listed /\ mem'.tab = mem.tab,
           UNCHANGED <<tab, shim, wire, up, pane, paneTab, spare, opening,
                       running>>
    PROVE  Inv'
<1>1. {"link", "ui", "grace", "opener"} \subseteq Thread
  BY DEF Thread, Opener
<1>2. LinkInv'
  BY <1>1 DEF Inv, LinkInv, SameStamps
<1>3. WritesInv'
  BY <1>1 DEF Inv, WritesInv, SameStamps
<1>4. RowInv'
  BY SameUnwritten DEF Inv, RowInv
<1>5. PaneInv'
  BY DEF Inv, PaneInv
<1> QED BY <1>2, <1>3, <1>4, <1>5 DEF Inv

\* A new write that tells of a tab is the thread's own, and tells of the
\* record's; a tab not written down yet still isn't.
LEMMA EnqueueStamps ==
    ASSUME writes \in [Thread -> Seq(Write)],
           NEW t \in Thread, NEW ws \in Seq(What), Enqueue(t, ws)
    PROVE  /\ \A o \in Thread : o # t => StampsOf(o)' = StampsOf(o)
           /\ \A o \in Thread : \A i \in StampsOf(o)' :
                  \/ i \in StampsOf(o) /\ writes'[o][i] = writes[o][i]
                  \/ o = t /\ writes'[o][i].tab = mem'.tab
           /\ Unwritten => Unwritten'
<1>1. ASSUME NEW o \in Thread, o # t
      PROVE  StampsOf(o)' = StampsOf(o)
  <2>1. writes'[o] = writes[o]
    BY <1>1, EnqueueKeeps
  <2> QED BY <2>1 DEF StampsOf
<1>2. ASSUME NEW o \in Thread, NEW i \in StampsOf(o)'
      PROVE  \/ i \in StampsOf(o) /\ writes'[o][i] = writes[o][i]
             \/ o = t /\ writes'[o][i].tab = mem'.tab
  <2>1. i \in DOMAIN writes'[o] /\ Stamps(writes'[o][i])
    BY <1>2 DEF StampsOf
  <2>2. \/ i \in DOMAIN writes[o] /\ writes'[o][i] = writes[o][i]
        \/ o = t /\ writes'[o][i].tab = mem'.tab
    BY <2>1, EnqueueKeeps
  <2> QED BY <2>1, <2>2 DEF StampsOf
<1>3. ASSUME NEW o \in {"ui", "replacer"}, NEW i \in DOMAIN writes[o],
             writes[o][i].what = "opened"
      PROVE  Unwritten'
  <2>1. o \in Thread
    BY DEF Thread, Opener
  <2>2. i \in DOMAIN writes'[o] /\ writes'[o][i] = writes[o][i]
    BY <2>1, EnqueueKeeps
  <2> QED BY <1>3, <2>2 DEF Unwritten
<1> QED BY <1>1, <1>2, <1>3 DEF Unwritten

\* Writing one: the thread's other writes move up.
LEMMA FlushMoves ==
    ASSUME writes \in [Thread -> Seq(Write)], NEW t \in Thread, Flush(t)
    PROVE  /\ \A o \in Thread : o # t => writes'[o] = writes[o]
           /\ 1 \in DOMAIN writes[t] /\ Head(writes[t]) = writes[t][1]
           /\ \A i \in DOMAIN writes'[t] :
                  i + 1 \in DOMAIN writes[t] /\ writes'[t][i] = writes[t][i + 1]
           /\ \A i \in DOMAIN writes[t] : i # 1 =>
                  i - 1 \in DOMAIN writes'[t] /\ writes'[t][i - 1] = writes[t][i]
<1> DEFINE s == writes[t]
<1>1. s \in Seq(Write) /\ s # << >>
  BY DEF Flush
<1>2. writes' = [writes EXCEPT ![t] = Tail(s)]
  BY DEF Flush
<1>3. writes'[t] = Tail(s) /\ \A o \in Thread : o # t => writes'[o] = writes[o]
  BY <1>2
<1> HIDE DEF s
<1>4. /\ DOMAIN s = 1..Len(s) /\ Len(s) \in Nat /\ Len(s) > 0
      /\ DOMAIN Tail(s) = 1..(Len(s) - 1) /\ Head(s) = s[1]
      /\ \A i \in 1..(Len(s) - 1) : Tail(s)[i] = s[i + 1]
  BY <1>1
<1>5. ASSUME NEW i \in DOMAIN Tail(s)
      PROVE  i + 1 \in DOMAIN s /\ Tail(s)[i] = s[i + 1]
  BY <1>4
<1>6. ASSUME NEW i \in DOMAIN s, i # 1
      PROVE  i - 1 \in DOMAIN Tail(s) /\ Tail(s)[i - 1] = s[i]
  BY <1>4, <1>6
<1>7. 1 \in DOMAIN s /\ Head(s) = s[1]
  BY <1>4
<1> QED BY <1>3, <1>5, <1>6, <1>7 DEF s

-----------------------------------------------------------------------------
(* The steps that keep the invariant by themselves.                        *)

\* The link's thread hears a word: what it writes tells of the link's tab.
LEMMA LinkSays ==
    ASSUME TypeOK, Inv, NEW ws \in Seq(What),
           up # << >>,
           \/ Enqueue("link", ws) /\ mem'.tab = tab
           \/ writes' = writes,
           mem'.listed => mem'.tab = tab,
           UNCHANGED <<tabs, wire, panes, running, spare, opening, row>>
    PROVE  Inv'
<1> USE DEF tabs, panes
<1>1. "link" \in Thread /\ {"ui", "grace", "opener"} \subseteq Thread
  BY DEF Thread, Opener
<1>2. wire # "down"
  BY DEF Inv, LinkInv
<1>3. LinkInv'
  BY <1>2 DEF Inv, LinkInv
<1>4. /\ \A o \in Thread : \A i \in StampsOf(o)' :
             \/ i \in StampsOf(o) /\ writes'[o][i] = writes[o][i]
             \/ o = "link" /\ writes'[o][i].tab = tab
      /\ \A o \in Thread : o # "link" => StampsOf(o)' = StampsOf(o)
      /\ Unwritten => Unwritten'
  <2>1. CASE writes' = writes
    BY <2>1 DEF StampsOf, Unwritten
  <2>2. CASE Enqueue("link", ws) /\ mem'.tab = tab
    BY <1>1, <2>2, EnqueueStamps DEF TypeOK
  <2> QED BY <2>1, <2>2
<1>5. WritesInv'
  BY <1>1, <1>4 DEF Inv, WritesInv
<1>6. RowInv'
  BY <1>4 DEF Inv, RowInv
<1>7. PaneInv'
  BY <1>2 DEF Inv, PaneInv
<1> QED BY <1>3, <1>5, <1>6, <1>7 DEF Inv

\* The terminal runs the tab it was asked for, or the tab or its shim goes.
LEMMA ShimMoves ==
    ASSUME TypeOK, Inv, TabAppears \/ TabCloses \/ ShimEnds
    PROVE  Inv'
<1> USE DEF tabs, link, panes, app, store, history
<1>1. UNCHANGED <<tab, mem, writes, row, pane, paneTab, spare, opening, running>>
  BY DEF TabAppears, TabCloses, ShimEnds
<1>2. shim = "asked" => TabAppears /\ ~Unwritten
  BY DEF TabAppears, TabCloses, ShimEnds
<1>3. shim # "gone" /\ shim' # "asked" /\ (wire' = "down" <=> wire = "down")
  BY DEF TabAppears, TabCloses, ShimEnds
<1>4. StampsOf("ui") = {}
  <2>1. ASSUME NEW i \in StampsOf("ui")
        PROVE  FALSE
    <3>1. writes["ui"][i].what = "opened" /\ shim = "asked" /\ i \in DOMAIN writes["ui"]
      BY DEF Inv, WritesInv, StampsOf
    <3> QED BY <3>1, <1>2 DEF Unwritten
  <2> QED BY <2>1
<1>5. \A t \in Thread : StampsOf(t)' = StampsOf(t)
  BY <1>1 DEF StampsOf
<1>6. "ui" \in Thread /\ "link" \in Thread /\ "grace" \in Thread /\ "opener" \in Thread
  BY DEF Thread, Opener
<1>7. LinkInv'
  <2>1. \/ up' = up
        \/ wire = "up" /\ up' = Append(up, "Closing")
    BY DEF TabAppears, TabCloses, ShimEnds
  <2>2. wire # "down" /\ up' # << >> /\ Head(up') # "Hello"
            => up = << >> \/ Head(up) # "Hello"
    <3>1. CASE up' = up
      BY <3>1
    <3>2. CASE up' = Append(up, "Closing") /\ up # << >>
      BY <3>2 DEF TypeOK
    <3> QED BY <2>1, <3>1, <3>2
  <2>3. up' = << >> => up = << >>
    BY <2>1 DEF TypeOK
  <2>4. wire' = "down" => up' = up
    BY <1>3, <2>1
  <2> QED BY <1>1, <1>3, <1>5, <1>6, <2>2, <2>3, <2>4 DEF Inv, LinkInv
<1>8. WritesInv'
  BY <1>1, <1>4, <1>5, <1>6 DEF Inv, WritesInv
<1>9. RowInv'
  BY <1>1, <1>2, <1>3 DEF Inv, RowInv
<1>10. PaneInv'
  BY <1>1, <1>3 DEF Inv, PaneInv
<1> QED BY <1>7, <1>8, <1>9, <1>10 DEF Inv

\* The shim says a word, or the link comes up or breaks.
LEMMA WireMoves ==
    ASSUME TypeOK, Inv, SayWord \/ LinkUp \/ Break
    PROVE  Inv'
<1> USE DEF tabs, link, panes, app, store, history
<1>1. UNCHANGED <<tab, shim, mem, writes, row, pane, paneTab, spare, opening, running>>
  BY DEF SayWord, LinkUp, Break
<1>2. SameStamps /\ (Unwritten' <=> Unwritten)
  BY <1>1, UnchangedStamps, SameUnwritten
<1>3. wire' # "down" /\ (wire = "down" => LinkUp /\ shim # "gone")
  BY DEF SayWord, LinkUp, Break
<1>4. "ui" \in Thread /\ "link" \in Thread /\ "grace" \in Thread /\ "opener" \in Thread
  BY DEF Thread, Opener
<1>5. LinkInv'
  <2>1. CASE LinkUp
    BY <2>1, <1>1, <1>3 DEF LinkUp, LinkInv
  <2>2. CASE SayWord
    <3>1. up' = Append(up, "Word") /\ wire' = wire /\ wire = "up"
      BY <2>2 DEF SayWord
    <3>2. up' # << >> /\ (up # << >> => Head(up') = Head(up))
      BY <3>1 DEF TypeOK
    <3> QED BY <1>1, <1>3, <3>1, <3>2 DEF Inv, LinkInv
  <2>3. CASE Break
    BY <2>3, <1>1, <1>3 DEF Break, Inv, LinkInv
  <2> QED BY <2>1, <2>2, <2>3
<1>6. WritesInv'
  BY <1>1, <1>2, <1>4 DEF Inv, WritesInv, SameStamps
<1>7. RowInv'
  BY <1>1, <1>2, <1>3 DEF Inv, RowInv
<1>8. PaneInv'
  BY <1>1, <1>3 DEF Inv, PaneInv
<1> QED BY <1>5, <1>6, <1>7, <1>8 DEF Inv

\* The link's thread comes to the end, with everything written.
LEMMA LinkEndsKeeps ==
    ASSUME TypeOK, Inv, LinkEnds
    PROVE  Inv'
<1> USE DEF tabs, link, panes, app, store, history
<1> DEFINE record == [mem EXCEPT !.link = FALSE,
                                 !.state = IF @ # "Closed" THEN "Gone" ELSE @]
<1>1. /\ writes["link"] = << >> /\ wire = "closing" /\ up = << >> /\ wire' = "down"
      /\ Update("link", record, << >>)
  BY DEF LinkEnds, LinkFree, Free
<1>2. UNCHANGED <<tab, shim, up, row, pane, paneTab, spare, opening, running>>
  BY DEF LinkEnds
<1>3. {"link", "ui", "grace", "opener"} \subseteq Thread
  BY DEF Thread, Opener
<1>4. /\ record \in Record /\ record.tab = mem.tab /\ record.listed = mem.listed
      /\ record.state = mem.state \/ ~IsOpen(record.state)
  BY DEF TypeOK, Record, State, IsOpen
<1> HIDE DEF record
<1>5. SameStamps /\ (Unwritten' <=> Unwritten)
  BY <1>1, <1>3, <1>4, QuietUpdate, SameUnwritten
<1>6. mem'.listed => mem.listed /\ mem'.tab = mem.tab
  BY <1>1, <1>4 DEF Update
<1>7. StampsOf("link") = {}
  BY <1>1 DEF StampsOf
<1>8. LinkInv'
  BY <1>1, <1>2, <1>3, <1>5, <1>7 DEF LinkInv, SameStamps
<1>9. WritesInv'
  BY <1>2, <1>3, <1>5 DEF Inv, WritesInv, SameStamps
<1>10. RowInv'
  BY <1>1, <1>2, <1>5 DEF Inv, RowInv
<1>11. PaneInv'
  BY <1>1, <1>2, <1>6 DEF Inv, PaneInv
<1> QED BY <1>8, <1>9, <1>10, <1>11 DEF Inv

\* A thread's tab was looked for: the pane waits no longer for it.
LEMMA OpenerKeeps ==
    ASSUME TypeOK, Inv, NEW t \in Opener, OpenerStep(t)
    PROVE  Inv'
<1> USE DEF tabs, link, panes, app, store, history
<1> DEFINE record == [mem EXCEPT !.state = "Failed"]
<1>1. /\ UNCHANGED <<tab, shim, wire, up, row, paneTab, spare, running>>
      /\ opening' = opening \ {t}
      /\ pane' \in {pane, "closed", "shell"}
      /\ t = "replacer" => pane' # "held"
  BY DEF OpenerStep, TabSeen, TabMissing, Answer
<1>2. {"link", "ui", "grace", "opener"} \cup Opener \subseteq Thread
  BY DEF Thread, Opener
<1>3. SameStamps /\ (mem'.listed => mem.listed /\ mem'.tab = mem.tab)
  <2>1. CASE TabSeen(t)
    BY <2>1, UnchangedStamps DEF TabSeen
  <2>2. CASE TabMissing(t)
    <3>1. Update(t, record, << >>)
      BY <2>2 DEF TabMissing
    <3>2. /\ record \in Record /\ record.tab = mem.tab /\ record.listed = mem.listed
          /\ ~IsOpen(record.state)
      BY DEF TypeOK, Record, State, IsOpen
    <3> HIDE DEF record
    <3>3. SameStamps
      BY <1>2, <3>1, <3>2, QuietUpdate
    <3>4. mem'.listed => mem.listed /\ mem'.tab = mem.tab
      BY <3>1, <3>2 DEF Update
    <3> QED BY <3>3, <3>4
  <2> QED BY <2>1, <2>2 DEF OpenerStep
<1>4. LinkInv'
  BY <1>1, <1>2, <1>3 DEF Inv, LinkInv, SameStamps
<1>5. WritesInv'
  BY <1>1, <1>2, <1>3 DEF Inv, WritesInv, SameStamps
<1>6. RowInv'
  BY <1>1, <1>3, SameUnwritten DEF Inv, RowInv
<1>7. PaneInv'
  BY <1>1, <1>3 DEF Inv, PaneInv, Opener
<1> QED BY <1>4, <1>5, <1>6, <1>7 DEF Inv

\* What is written last is there.
LEMMA ThenOpened ==
    ASSUME NEW ws \in Seq(What)
    PROVE  /\ ws \o <<"opened">> \in Seq(What)
           /\ \E j \in DOMAIN (ws \o <<"opened">>) : (ws \o <<"opened">>)[j] = "opened"
<1>1. "opened" \in What
  BY DEF What
<1> HIDE DEF What
<1> DEFINE s == ws \o <<"opened">>
<1>2. s \in Seq(What) /\ Len(s) = Len(ws) + 1 /\ s[Len(ws) + 1] = "opened"
  BY <1>1
<1>3. DOMAIN s = 1..(Len(ws) + 1) /\ Len(ws) \in Nat
  BY <1>2
<1> HIDE DEF s
<1>4. \E j \in DOMAIN s : s[j] = "opened"
  <2>1. Len(ws) + 1 \in DOMAIN s
    BY <1>3
  <2> QED BY <1>2, <2>1
<1> QED BY <1>2, <1>4 DEF s

\* A new tab is only asked for where nothing of the pane's is left: its number
\* is then to be written down.
LEMMA ReplaceKeeps ==
    ASSUME TypeOK, Inv, Replace
    PROVE  Inv' /\ shim = "gone"
<1> USE DEF tabs, link, panes, app, store, history
<1>0. shim = "gone" /\ wire = "down" /\ paneTab # 0 /\ paneTab <= tab
  BY DEF Replace, Inv, PaneInv
<1>1. UNCHANGED <<wire, up, paneTab, spare, running, row>>
  BY DEF Replace
<1>2. {"link", "ui", "grace", "opener", "replacer"} = Thread
  BY DEF Thread, Opener
<1>3. CASE ~mem.listed
  <2>1. /\ UNCHANGED <<tab, shim, opening, mem, writes>>
        /\ pane' = "closed"
    BY <1>3 DEF Replace
  <2>2. SameStamps /\ (Unwritten' <=> Unwritten)
    BY <2>1, UnchangedStamps, SameUnwritten
  <2>3. LinkInv' /\ WritesInv'
    BY <1>1, <1>2, <2>1, <2>2 DEF Inv, LinkInv, WritesInv, SameStamps
  <2>4. RowInv'
    BY <1>1, <2>1, <2>2 DEF Inv, RowInv
  <2>5. PaneInv'
    BY <1>1, <2>1 DEF Inv, PaneInv
  <2> QED BY <1>0, <2>3, <2>4, <2>5 DEF Inv
<1>4. CASE mem.listed
  <2> DEFINE record == [mem EXCEPT !.tab = tab', !.state = "Opening"]
             ws == EndedOrBack(mem.state, "Opening") \o <<"opened">>
  <2>1. /\ tab' = tab + 1 /\ shim' = "asked" /\ pane' = pane
        /\ opening' = opening \cup {"replacer"}
        /\ Update("replacer", record, <<"opened">>)
        /\ writes["replacer"] = << >>
    BY <1>4 DEF Replace, Free
  <2>2. record.state = "Opening" /\ record.tab = tab'
    BY DEF TypeOK, Record
  <2>3. mem'.tab = tab' /\ Enqueue("replacer", ws)
    BY <1>4, <2>1, <2>2 DEF Update
  <2>4. ws \in Seq(What) /\ \E j \in DOMAIN ws : ws[j] = "opened"
    <3>1. << >> \in Seq(What) /\ <<"seen">> \in Seq(What) /\ <<"closed">> \in Seq(What)
      BY DEF What
    <3>2. EndedOrBack(mem.state, "Opening") \in Seq(What)
      <4> HIDE DEF What
      <4> QED BY <3>1, EndedOrBackType
    <3> QED BY <3>2, ThenOpened
  <2> HIDE DEF record, ws
  <2>5. /\ \A o \in Thread : o # "replacer" => StampsOf(o)' = StampsOf(o)
        /\ \A o \in Thread : \A i \in StampsOf(o)' :
               \/ i \in StampsOf(o) /\ writes'[o][i] = writes[o][i]
               \/ o = "replacer" /\ writes'[o][i].tab = mem'.tab
    BY <1>2, <2>3, <2>4, EnqueueStamps DEF TypeOK
  <2>6. \A o \in Thread : StampsOf(o) = {}
    <3>1. StampsOf("replacer") = {}
      BY <2>1 DEF StampsOf
    <3> QED BY <1>0, <1>2, <3>1 DEF Inv, LinkInv, WritesInv
  <2>7. LinkInv'
    BY <1>0, <1>1, <1>2, <2>5, <2>6 DEF Inv, LinkInv
  <2>8. WritesInv'
    BY <1>2, <2>3, <2>5, <2>6 DEF Inv, WritesInv
  <2>9. RowInv'
    <3>1. \E i \in DOMAIN writes'["replacer"] : writes'["replacer"][i].what = "opened"
      <4>1. PICK j \in DOMAIN ws : ws[j] = "opened"
        BY <2>4
      <4>2. \E i \in DOMAIN writes'["replacer"] : writes'["replacer"][i].what = ws[j]
        <5>1. "replacer" \in Thread /\ writes \in [Thread -> Seq(Write)]
          BY <1>2 DEF TypeOK
        <5> QED BY <5>1, <2>3, <2>4, EnqueueKeeps
      <4> QED BY <4>1, <4>2
    <3> QED BY <2>1, <3>1 DEF RowInv, Unwritten
  <2>10. PaneInv'
    <3>1. paneTab' < tab' /\ paneTab' <= tab'
      BY <1>0, <1>1, <2>1 DEF TypeOK
    <3>2. pane' = "held"
      BY <2>1 DEF Replace
    <3> QED BY <1>0, <1>1, <2>1, <3>1, <3>2 DEF PaneInv
  <2> QED BY <1>0, <2>7, <2>8, <2>9, <2>10 DEF Inv
<1> QED BY <1>3, <1>4

\* The terminal brings a pane back, and the pane asks.
LEMMA PaneKeeps ==
    ASSUME TypeOK, Inv, PaneRestored \/ PaneAsks
    PROVE  Inv'
<1> USE DEF tabs, link, panes, app, store, history
<1>1. UNCHANGED <<tab, shim, wire, up, writes, row, opening, running>>
  BY DEF PaneRestored, PaneAsks
<1>2. SameStamps /\ (Unwritten' <=> Unwritten)
  BY <1>1, UnchangedStamps, SameUnwritten
<1>3. {"link", "ui", "grace", "opener"} \subseteq Thread
  BY DEF Thread, Opener
<1>4. WritesInv'
  BY <1>1, <1>2, <1>3 DEF Inv, WritesInv, SameStamps
<1>5. RowInv'
  BY <1>1, <1>2 DEF Inv, RowInv
<1>6. CASE PaneRestored
  <2>1. /\ shim = "gone" /\ wire = "down" /\ pane' = "asking" /\ paneTab' = tab
        /\ mem' = mem
    BY <1>6 DEF PaneRestored
  <2>2. LinkInv'
    BY <1>1, <1>2, <1>3, <2>1 DEF Inv, LinkInv, SameStamps
  <2>3. PaneInv'
    BY <1>1, <2>1 DEF PaneInv, TypeOK
  <2> QED BY <1>4, <1>5, <2>2, <2>3 DEF Inv
<1>7. CASE PaneAsks /\ shim = "gone" /\ wire = "down"
  <2>1. LinkInv'
    BY <1>1, <1>2, <1>3, <1>7 DEF Inv, LinkInv, SameStamps
  <2>2. PaneInv'
    <3>1. pane = "asking" /\ paneTab' = paneTab
      BY <1>7 DEF PaneAsks
    <3> QED BY <1>1, <1>7, <3>1 DEF Inv, PaneInv
  <2> QED BY <1>4, <1>5, <2>1, <2>2 DEF Inv
<1>8. CASE PaneAsks /\ ~(shim = "gone" /\ wire = "down")
  <2>1. /\ pane = "asking" /\ paneTab # tab /\ paneTab # 0 /\ spare \in {0, tab}
        /\ mem.listed => mem.tab = tab
    BY <1>8 DEF PaneAsks, Inv, PaneInv
  <2>2. ~InMemory /\ spare # paneTab
    BY <2>1 DEF InMemory
  <2>3. pane' = "shell" /\ UNCHANGED <<mem, paneTab>>
    BY <1>8, <2>2 DEF PaneAsks
  <2>4. LinkInv'
    BY <1>1, <1>2, <1>3, <2>3 DEF Inv, LinkInv, SameStamps
  <2>5. PaneInv'
    BY <1>1, <2>3 DEF Inv, PaneInv
  <2> QED BY <1>4, <1>5, <2>4, <2>5 DEF Inv
<1> QED BY <1>6, <1>7, <1>8

\* NativeTerm ends: the row has the tab, or the tab is never asked for.
LEMMA StopKeeps ==
    ASSUME TypeOK, Inv, Stop
    PROVE  Inv'
<1>1. UNCHANGED <<tab, paneTab, row>>
  BY DEF Stop
<1>2. /\ wire' = "down" /\ up' = << >> /\ mem' = NoRecord /\ spare' = 0
      /\ writes' = [t \in Thread |-> << >>]
      /\ pane' \in {"asking", pane} /\ pane' # "held"
      /\ pane' = "asking" => pane \in {"asking", "held"}
  BY DEF Stop
<1>3. \A t \in Thread : StampsOf(t)' = {}
  BY <1>2 DEF StampsOf
<1>4. {"link", "ui", "grace", "opener"} \subseteq Thread
  BY DEF Thread, Opener
<1>5. shim' # "gone" => shim' = shim /\ shim # "gone" /\ row.tab = tab
  <2>1. CASE shim = "asked" /\ Unwritten
    BY <2>1 DEF Stop
  <2>2. CASE ~(shim = "asked" /\ Unwritten)
    BY <2>2 DEF Stop, Inv, RowInv
  <2> QED BY <2>1, <2>2
<1>6. ~mem'.listed
  BY <1>2 DEF NoRecord
<1>7. LinkInv'
  BY <1>2, <1>3, <1>4, <1>6 DEF LinkInv
<1>8. WritesInv'
  BY <1>3, <1>4 DEF WritesInv
<1>9. RowInv'
  BY <1>1, <1>2, <1>5 DEF RowInv
<1>10. PaneInv'
  <2>1. paneTab' <= tab'
    BY <1>1 DEF Inv, PaneInv
  <2>2. CASE shim' = "gone"
    BY <1>1, <1>2, <2>1, <2>2 DEF Inv, PaneInv
  <2>3. ASSUME shim' # "gone", pane' = "asking"
        PROVE  paneTab # 0 /\ paneTab # tab
    BY <1>2, <1>5, <2>3 DEF Inv, PaneInv, TypeOK
  <2> QED BY <1>1, <1>2, <1>5, <1>6, <2>1, <2>2, <2>3 DEF PaneInv
<1> QED BY <1>7, <1>8, <1>9, <1>10 DEF Inv

\* It is started again: what it reads is of the tab the row has.
LEMMA StartKeeps ==
    ASSUME TypeOK, Inv, Start
    PROVE  Inv'
<1> USE DEF tabs, link, panes, history
<1>1. UNCHANGED <<tab, shim, wire, up, pane, paneTab, opening, writes>> /\ ~running
  BY DEF Start
<1>2. row'.tab = row.tab /\ spare' \in {0, row.tab}
  <2> DEFINE r == IF row.known /\ ~row.closed /\ ~ShimAlive
                    THEN [row EXCEPT !.closed = TRUE, !.restorable = TRUE] ELSE row
  <2>1. row' = r /\ spare' \in {0, r.tab}
    BY DEF Start
  <2>2. r.tab = row.tab
    BY DEF TypeOK, Row
  <2> QED BY <2>1, <2>2
<1>3. mem'.listed => mem'.tab = row.tab
  <2>1. mem' \in {NoRecord, [NoRecord EXCEPT !.listed = TRUE,
                                            !.state = "Detached",
                                            !.tab = row.tab]}
    BY DEF Start
  <2>2. ~NoRecord.listed /\ [NoRecord EXCEPT !.listed = TRUE, !.state = "Detached",
                                             !.tab = row.tab].tab = row.tab
    BY DEF NoRecord
  <2> QED BY <2>1, <2>2
<1>4. SameStamps /\ (Unwritten' <=> Unwritten)
  BY <1>1, UnchangedStamps, SameUnwritten
<1>5. {"link", "ui", "grace", "opener"} \subseteq Thread
  BY DEF Thread, Opener
<1>6. LinkInv'
  BY <1>1, <1>4, <1>5 DEF Inv, LinkInv, SameStamps
<1>7. WritesInv'
  BY <1>1, <1>4, <1>5 DEF Inv, WritesInv, SameStamps
<1>8. RowInv'
  BY <1>1, <1>2, <1>4 DEF Inv, RowInv
<1>9. PaneInv'
  BY <1>1, <1>2, <1>3 DEF Inv, PaneInv
<1> QED BY <1>6, <1>7, <1>8, <1>9 DEF Inv

\* A write that tells the row of a tab tells it of the newest.
LEMMA FlushKeeps ==
    ASSUME TypeOK, Inv, NEW t \in Thread, Flush(t)
    PROVE  Inv'
<1> USE DEF tabs, link, panes, app, history
<1> DEFINE w == Head(writes[t])
<1>1. UNCHANGED <<tab, shim, wire, up, pane, paneTab, mem, spare, opening, running>>
  BY DEF Flush
<1>2. /\ \A o \in Thread : o # t => writes'[o] = writes[o]
      /\ 1 \in DOMAIN writes[t] /\ w = writes[t][1]
      /\ \A i \in DOMAIN writes'[t] :
             i + 1 \in DOMAIN writes[t] /\ writes'[t][i] = writes[t][i + 1]
      /\ \A i \in DOMAIN writes[t] : i # 1 =>
             i - 1 \in DOMAIN writes'[t] /\ writes'[t][i - 1] = writes[t][i]
  BY FlushMoves DEF TypeOK
<1>3. {"link", "ui", "grace", "opener"} \subseteq Thread
  BY DEF Thread, Opener
<1>4. \A o \in Thread : \A i \in StampsOf(o)' :
          \E j \in StampsOf(o) : writes'[o][i] = writes[o][j]
  BY <1>2 DEF StampsOf
<1>5. /\ row'.tab = row.tab \/ (Stamps(w) /\ row'.tab = w.tab)
      /\ w.what = "opened" => row'.tab = w.tab
  <2>1. row' = Written(row, w)
    BY DEF Flush
  <2>2. row \in Row /\ w \in Write
    BY DEF TypeOK, Flush
  <2> HIDE DEF w
  <2> QED BY <2>1, <2>2 DEF Written, Row, Write, Stamps
<1>6. Stamps(w) => w.tab = tab
  <2>1. Stamps(w) => 1 \in StampsOf(t)
    BY <1>2 DEF StampsOf
  <2> QED BY <1>2, <2>1 DEF Inv, WritesInv
<1>7. row.tab = tab => row'.tab = tab
  BY <1>5, <1>6
<1>8. Unwritten => Unwritten' \/ row'.tab = tab
  <2> SUFFICES ASSUME NEW o \in {"ui", "replacer"}, NEW i \in DOMAIN writes[o],
                      writes[o][i].what = "opened"
               PROVE  Unwritten' \/ row'.tab = tab
    BY DEF Unwritten
  <2>1. CASE o = t /\ i = 1
    BY <1>2, <1>5, <1>6, <2>1 DEF Stamps
  <2>2. CASE o = t /\ i # 1
    BY <1>2, <2>2 DEF Unwritten
  <2>3. CASE o # t
    <3>1. writes'[o] = writes[o]
      BY <1>2, <2>3 DEF Thread, Opener
    <3> QED BY <3>1 DEF Unwritten
  <2> QED BY <2>1, <2>2, <2>3
<1>9. LinkInv'
  BY <1>1, <1>3, <1>4 DEF Inv, LinkInv
<1>10. WritesInv'
  BY <1>1, <1>3, <1>4 DEF Inv, WritesInv
<1>11. RowInv'
  BY <1>1, <1>7, <1>8 DEF Inv, RowInv
<1>12. PaneInv'
  BY <1>1, <1>7 DEF Inv, PaneInv
<1> QED BY <1>9, <1>10, <1>11, <1>12 DEF Inv

-----------------------------------------------------------------------------

\* The words the link's thread hears.
LEMMA HearKeeps ==
    ASSUME TypeOK, Inv, HearHello \/ HearWord \/ HearClosing
    PROVE  Inv'
<1>1. /\ up # << >> /\ up' = Tail(up)
      /\ UNCHANGED <<tabs, wire, panes, running, spare, opening, row>>
  BY DEF HearHello, HearWord, HearClosing
<1>2. "link" \in Thread
  BY DEF Thread
<1>3. << >> \in Seq(What) /\ <<"seen", "setShim">> \in Seq(What)
      /\ <<"opened", "seen", "setShim">> \in Seq(What)
      /\ <<"closed">> \in Seq(What) /\ <<"seen">> \in Seq(What)
  BY DEF What
<1> HIDE DEF What
<1>4. ASSUME NEW record \in Record, NEW then \in Seq(What), mem.listed,
             Update("link", record, then), record.tab = tab
      PROVE  Inv'
  <2> DEFINE ws == EndedOrBack(mem.state, record.state) \o then
  <2>1. ws \in Seq(What)
    <3>1. EndedOrBack(mem.state, record.state) \in Seq(What)
      BY <1>3, EndedOrBackType
    <3> QED BY <3>1
  <2>2. Enqueue("link", ws) /\ mem'.tab = tab
    BY <1>4 DEF Update
  <2> HIDE DEF ws
  <2> QED BY <1>1, <2>1, <2>2, LinkSays
<1>5. CASE HearHello /\ mem.listed
  <2>1. Linked \in Record /\ Linked.tab = tab
    <3>1. mem \in Record /\ tab \in 0..MaxTabs
      BY DEF TypeOK
    <3> QED BY <1>5, <3>1, LinkedType
  <2>2. Update("link", Linked, <<"seen", "setShim">>)
    BY <1>5 DEF HearHello
  <2> QED BY <1>3, <1>4, <1>5, <2>1, <2>2
<1>6. CASE HearHello /\ ~mem.listed
  <2>1. Enqueue("link", <<"opened", "seen", "setShim">>)
    BY <1>6 DEF HearHello
  <2>2. mem'.tab = tab
    BY <1>6 DEF HearHello, NoRecord
  <2> QED BY <1>1, <1>3, <2>1, <2>2, LinkSays
<1>7. CASE (HearWord \/ HearClosing) /\ mem.listed
  <2>1. Head(up) # "Hello"
    BY <1>7 DEF HearWord, HearClosing
  <2>2. mem.tab = tab
    BY <1>1, <1>7, <2>1 DEF Inv, LinkInv
  <2>3. ASSUME NEW state \in {"Live", "Closed"}
        PROVE  /\ [mem EXCEPT !.state = state] \in Record
               /\ [mem EXCEPT !.state = state].tab = tab
    BY <2>2 DEF TypeOK, Record, State
  <2>4. \/ Update("link", [mem EXCEPT !.state = "Live"], << >>)
        \/ Update("link", [mem EXCEPT !.state = "Closed"], << >>)
    BY <1>7 DEF HearWord, HearClosing
  <2> QED BY <1>3, <1>4, <1>7, <2>3, <2>4
<1>8. CASE (HearWord \/ HearClosing) /\ ~mem.listed
  <2>1. writes' = writes /\ mem' = mem
    BY <1>8 DEF HearWord, HearClosing, Update
  <2> QED BY <1>1, <1>3, <1>8, <2>1, LinkSays
<1> QED BY <1>5, <1>6, <1>7, <1>8

\* What the person does, and what the grace period does, tells of no tab.
LEMMA OthersKeep ==
    ASSUME TypeOK, Inv,
           \/ WindowGoes \/ WindowSeenGone \/ WindowStays \/ AskStep
           \/ GraceLooks \/ GraceEnds \/ GraceOffers \/ UNCHANGED vars
    PROVE  Inv'
<1>1. UNCHANGED <<tab, shim, wire, up, pane, paneTab, spare, opening, running, row>>
  BY DEF WindowGoes, WindowSeenGone, WindowStays, AskStep, AskClose, AskExit,
         ClearFinished, AnswerLost, GraceLooks, GraceEnds, GraceOffers, vars,
         tabs, link, panes, app, store
<1>2. {"link", "ui", "grace"} \subseteq Thread
  BY DEF Thread
<1>3. ASSUME NEW t \in Thread, NEW record \in Record, Update(t, record, << >>),
             ~IsOpen(record.state) \/ record.state = mem.state,
             record.tab = mem.tab
      PROVE  SameStamps /\ (mem'.listed => mem.listed /\ mem'.tab = mem.tab)
  <2>1. SameStamps
    BY <1>3, QuietUpdate
  <2>2. mem'.listed => mem.listed /\ mem'.tab = mem.tab
    BY <1>3 DEF Update
  <2> QED BY <2>1, <2>2
<1>4. SameStamps /\ (mem'.listed => mem.listed /\ mem'.tab = mem.tab)
  <2>1. CASE /\ writes' = writes
             /\ mem' = mem \/ ~mem'.listed
    BY <2>1, UnchangedStamps
  <2>2. CASE WindowSeenGone
    <3>1. Enqueue("link", <<"withWindow">>)
      BY <2>2 DEF WindowSeenGone
    <3>2. /\ <<"withWindow">> \in Seq(What)
          /\ \A j \in DOMAIN <<"withWindow">> : <<"withWindow">>[j] \notin {"opened", "seen"}
      BY DEF What
    <3>3. SameStamps
      <4> HIDE DEF What
      <4>1. writes \in [Thread -> Seq(Write)]
        BY DEF TypeOK
      <4> QED BY <1>2, <3>1, <3>2, <4>1, QuietEnqueue
    <3>4. mem' = IF mem.listed THEN [mem EXCEPT !.restorable = TRUE] ELSE mem
      BY <2>2 DEF WindowSeenGone
    <3>5. mem'.tab = mem.tab /\ mem'.listed = mem.listed
      BY <3>4 DEF TypeOK, Record
    <3> QED BY <3>3, <3>5
  <2>3. CASE AskClose \/ (AskExit /\ ~UNCHANGED <<mem, writes>>)
    <3> DEFINE record == [mem EXCEPT !.state = "Closed"]
    <3>1. Update("ui", record, << >>)
      BY <2>3 DEF AskClose, AskExit, Close
    <3>2. record \in Record /\ record.tab = mem.tab /\ ~IsOpen(record.state)
      BY DEF TypeOK, Record, State, IsOpen
    <3> HIDE DEF record
    <3> QED BY <1>2, <1>3, <3>1, <3>2
  <2>4. CASE AnswerLost /\ writes' # writes
    <3>1. Enqueue("ui", <<"notRestorable">>)
      BY <2>4 DEF AnswerLost
    <3>2. /\ <<"notRestorable">> \in Seq(What)
          /\ \A j \in DOMAIN <<"notRestorable">> : <<"notRestorable">>[j] \notin {"opened", "seen"}
      BY DEF What
    <3>3. SameStamps
      <4> HIDE DEF What
      <4>1. writes \in [Thread -> Seq(Write)]
        BY DEF TypeOK
      <4> QED BY <1>2, <3>1, <3>2, <4>1, QuietEnqueue
    <3>4. mem' = mem \/ ~mem'.listed
      BY <2>4 DEF AnswerLost, Cleared, NoRecord
    <3> QED BY <3>3, <3>4
  <2>5. CASE (ClearFinished \/ AnswerLost) /\ writes' = writes
    <3>1. mem' = mem \/ ~mem'.listed
      BY <2>5 DEF ClearFinished, AnswerLost, Cleared, NoRecord
    <3> QED BY <2>1, <2>5, <3>1
  <2>6. CASE GraceEnds
    <3> DEFINE record == [mem EXCEPT !.state = IF @ = "Detached" THEN "Gone" ELSE @]
    <3>1. Update("grace", record, << >>)
      BY <2>6 DEF GraceEnds
    <3>2. /\ record \in Record /\ record.tab = mem.tab
          /\ record.state = mem.state \/ ~IsOpen(record.state)
      BY DEF TypeOK, Record, State, IsOpen
    <3> HIDE DEF record
    <3> QED BY <1>2, <1>3, <3>1, <3>2
  <2>7. WindowGoes \/ WindowStays \/ GraceLooks \/ GraceOffers \/ UNCHANGED vars
            => UNCHANGED <<mem, writes>>
    BY DEF WindowGoes, WindowStays, GraceLooks, GraceOffers, vars, app, store
  <2>8. ClearFinished => writes' = writes
    BY DEF ClearFinished, store
  <2> QED BY <2>1, <2>2, <2>3, <2>4, <2>5, <2>6, <2>7, <2>8 DEF AskStep
<1>5. row'.tab = row.tab
  BY <1>1
<1> QED BY <1>1, <1>4, <1>5, Frame

-----------------------------------------------------------------------------

\* In every state whatever takes the number of a tab - the record, the writes,
\* the row, the list of restorable sessions, a restored pane - agrees with the
\* newest tab as far as the invariant says.
THEOREM TabsAgree == Spec => []Inv
<1>1. Init => Inv
  <2> SUFFICES ASSUME Init
               PROVE  Inv
    OBVIOUS
  <2>1. /\ writes["ui"] = <<[what |-> "opened", tab |-> 1]>>
        /\ \A t \in Thread : t # "ui" => writes[t] = << >>
    BY DEF Init, Thread
  <2>2. \A t \in Thread : t # "ui" => StampsOf(t) = {}
    BY <2>1 DEF StampsOf
  <2>3. DOMAIN writes["ui"] = {1} /\ writes["ui"][1] = [what |-> "opened", tab |-> 1]
    BY <2>1
  <2>4. \A i \in StampsOf("ui") : writes["ui"][i].tab = 1 /\ writes["ui"][i].what = "opened"
    BY <2>3 DEF StampsOf
  <2>5. {"link", "ui", "grace", "opener"} \subseteq Thread
    BY DEF Thread, Opener
  <2>6. LinkInv
    BY <2>2, <2>5 DEF Init, LinkInv
  <2>7. WritesInv
    BY <2>2, <2>4, <2>5 DEF Init, WritesInv
  <2>8. RowInv
    BY <2>3 DEF Init, RowInv, Unwritten
  <2>9. PaneInv
    BY DEF Init, PaneInv
  <2> QED BY <2>6, <2>7, <2>8, <2>9 DEF Inv
<1>2. TypeOK /\ Inv /\ [Next]_vars => Inv'
  BY ShimMoves, WireMoves, HearKeeps, LinkEndsKeeps, OpenerKeeps, ReplaceKeeps,
     PaneKeeps, StopKeeps, StartKeeps, FlushKeeps, OthersKeep
     DEF Next, ShimStep, LinkStep
<1> QED BY <1>1, <1>2, StoreTypeCorrect, PTL DEF Spec

\* No new tab is asked for while the session's own may still be there.
THEOREM NoSecondTabEver == Spec => NoSecondTab
<1>1. TypeOK /\ Inv /\ [Next]_vars => (tab' # tab => shim = "gone")
  <2>1. TypeOK /\ Inv /\ Replace => shim = "gone"
    BY ReplaceKeeps
  <2>2. TabAppears \/ ShimStep \/ LinkUp \/ Break \/ LinkStep => tab' = tab
    BY DEF TabAppears, ShimStep, SayWord, TabCloses, ShimEnds, WindowGoes,
           LinkUp, Break, LinkStep, HearHello, HearWord, HearClosing,
           WindowSeenGone, WindowStays, LinkEnds, tabs
  <2>3. (\E t \in Opener : OpenerStep(t)) \/ PaneRestored \/ PaneAsks \/ AskStep
            => tab' = tab
    BY DEF OpenerStep, TabSeen, TabMissing, PaneRestored, PaneAsks, AskStep,
           AskClose, AskExit, ClearFinished, AnswerLost, tabs
  <2>4. Stop \/ Start \/ GraceLooks \/ GraceEnds \/ GraceOffers
        \/ (\E t \in Thread : Flush(t)) \/ UNCHANGED vars
            => tab' = tab
    BY DEF Stop, Start, GraceLooks, GraceEnds, GraceOffers, Flush, vars, tabs
  <2> QED BY <2>1, <2>2, <2>3, <2>4 DEF Next
<1>2. TypeOK /\ Inv /\ [Next]_vars => [tab' # tab => shim = "gone"]_vars
  BY <1>1
<1> QED BY <1>2, StoreTypeCorrect, TabsAgree, PTL DEF Spec, NoSecondTab

-----------------------------------------------------------------------------
(* The record and its row.                                                 *)
(*                                                                         *)
(* The row says what the record does, or one thread is about to write it:  *)
(* what it has to write then agrees with the record, and no other thread   *)
(* writes anything that doesn't.  The one record the row needn't agree     *)
(* with is that of a pane held without a replacement asked for.            *)

Opens == {"opened", "seen"}

Closes == {"closed", "withWindow"}

Kinds(t) == {writes[t][i].what : i \in DOMAIN writes[t]}

Tells(kinds) == kinds \cap (Opens \cup Closes) # {}

\* The record is one the row is to agree with.
Tracked == /\ running /\ mem.listed /\ ~raced
           /\ pane = "held" => "replacer" \in opening

\* No thread has to write both, one thread writes at a time, and the row
\* agrees with the record or is told to.
AgreeInv ==
    /\ \A t \in Thread : Kinds(t) \cap Closes = {} \/ Kinds(t) \cap Opens = {}
    /\ ~running => Quiet
    /\ ~raced => \A t, u \in Thread :
                     writes[t] # << >> /\ writes[u] # << >> => t = u
    /\ Tracked => \A t \in Thread :
           /\ Kinds(t) \cap Closes # {} => ~IsOpen(mem.state)
           /\ Kinds(t) \cap Opens # {} => IsOpen(mem.state)
    /\ Tracked /\ row.known /\ (\A t \in Thread : ~Tells(Kinds(t))) =>
           row.closed = ~IsOpen(mem.state)

\* A pane is held while its replacement is asked for; from the hello on the
\* record has the link; and while the link's thread looks for the window, the
\* session is closed.
HoldInv ==
    /\ "replacer" \in opening => pane = "held"
    /\ mem.listed /\ wire # "down" /\ (up = << >> \/ Head(up) # "Hello") => mem.link
    /\ linkPc = "checking" =>
           wire # "down" /\ (mem.listed => mem.link /\ ~IsOpen(mem.state))

\* A thread that had nothing to write has the new writes.
LEMMA EnqueueKinds ==
    ASSUME writes \in [Thread -> Seq(Write)], NEW t \in Thread,
           NEW ws \in Seq(What), Free(t), Enqueue(t, ws)
    PROVE  /\ Kinds(t)' = {ws[j] : j \in DOMAIN ws}
           /\ \A o \in Thread : o # t => writes'[o] = writes[o] /\ Kinds(o)' = Kinds(o)
           /\ writes'[t] # << >> => ws # << >>
<1>1. \A o \in Thread : o # t => writes'[o] = writes[o]
  BY EnqueueKeeps
<1>2. DOMAIN writes[t] = {}
  BY DEF Free
<1>3. /\ \A i \in DOMAIN writes'[t] : \E j \in DOMAIN ws : writes'[t][i].what = ws[j]
      /\ \A j \in DOMAIN ws : \E i \in DOMAIN writes'[t] : writes'[t][i].what = ws[j]
  BY <1>2, EnqueueKeeps
<1>4. Kinds(t)' = {ws[j] : j \in DOMAIN ws}
  BY <1>3 DEF Kinds
<1>5. ws = << >> => writes'[t] = << >>
  <2> DEFINE new == [i \in DOMAIN ws |-> [what |-> ws[i], tab |-> mem'.tab]]
  <2>1. writes' = [writes EXCEPT ![t] = << >> \o new]
    BY DEF Enqueue, Free
  <2>2. ASSUME ws = << >>
        PROVE  new = << >>
    BY <2>2
  <2>3. writes'[t] = << >> \o new
    BY <2>1
  <2> HIDE DEF new
  <2>4. ASSUME ws = << >>
        PROVE  << >> \o new = << >>
    BY <2>2, <2>4
  <2> QED BY <2>3, <2>4
<1> QED BY <1>1, <1>4, <1>5 DEF Kinds

\* What tells nothing about being open, of a record as open as before.
Same == Tracked' => Tracked /\ IsOpen(mem'.state) = IsOpen(mem.state)

\* Nothing written, and nothing to write.
LEMMA Silent ==
    ASSUME AgreeInv, UNCHANGED <<writes, row, raced, running>>, Same
    PROVE  AgreeInv'
<1>1. \A t \in Thread : Kinds(t)' = Kinds(t)
  BY DEF Kinds
<1>2. Quiet' <=> Quiet
  BY DEF Quiet
<1> QED BY <1>1, <1>2 DEF AgreeInv, Same, Tells

\* A thread gets something to write that agrees with the record.
LEMMA Says ==
    ASSUME TypeOK, AgreeInv, NEW t \in Thread, NEW ws \in Seq(What),
           Free(t), Enqueue(t, ws), UNCHANGED <<row, running>>,
           NEW kinds, kinds = {ws[j] : j \in DOMAIN ws},
           kinds \cap Closes = {} \/ kinds \cap Opens = {},
           kinds \cap Closes # {} => (Tracked' => ~IsOpen(mem'.state)),
           kinds \cap Opens # {} => (Tracked' => IsOpen(mem'.state)),
           ~Tells(kinds) => Same
    PROVE  AgreeInv'
<1>1. /\ Kinds(t)' = kinds
      /\ \A o \in Thread : o # t => writes'[o] = writes[o] /\ Kinds(o)' = Kinds(o)
      /\ writes'[t] # << >> => ws # << >>
  BY EnqueueKinds DEF TypeOK
<1>2. /\ running /\ Kinds(t) = {}
      /\ raced' = (raced \/ (ws # << >> /\ \E o \in Thread \ {t} : writes[o] # << >>))
  BY DEF Free, Enqueue, Kinds
<1>3. \A o \in Thread : Kinds(o)' \cap Closes = {} \/ Kinds(o)' \cap Opens = {}
  BY <1>1 DEF AgreeInv
<1>4. ASSUME ~raced', NEW o \in Thread, NEW u \in Thread,
             writes'[o] # << >>, writes'[u] # << >>
      PROVE  o = u
  BY <1>1, <1>2, <1>4 DEF AgreeInv
<1>5. CASE ws # << >>
  <2>1. ASSUME Tracked'
        PROVE  \A o \in Thread : o # t => Kinds(o) = {} /\ Kinds(o)' = {}
    <3>1. \A o \in Thread : o # t => writes[o] = << >>
      BY <1>2, <1>5, <2>1 DEF Tracked
    <3> QED BY <1>1, <3>1 DEF Kinds
  <2>2. ASSUME Tracked'
        PROVE  \A o \in Thread :
                 /\ Kinds(o)' \cap Closes # {} => ~IsOpen(mem'.state)
                 /\ Kinds(o)' \cap Opens # {} => IsOpen(mem'.state)
    BY <1>1, <2>1, <2>2
  <2>3. ASSUME Tracked', row'.known, \A o \in Thread : ~Tells(Kinds(o)')
        PROVE  row'.closed = ~IsOpen(mem'.state)
    <3>1. ~Tells(kinds)
      BY <1>1, <2>3
    <3>2. Tracked /\ IsOpen(mem'.state) = IsOpen(mem.state)
      BY <2>3, <3>1 DEF Same
    <3>3. \A o \in Thread : ~Tells(Kinds(o))
      BY <1>2, <2>1, <2>3 DEF Tells
    <3> QED BY <2>3, <3>2, <3>3 DEF AgreeInv
  <2>4. \A o \in Thread : Tells(Kinds(o))' = Tells(Kinds(o)')
    BY DEF Tells
  <2> QED BY <1>2, <1>3, <1>4, <2>2, <2>3, <2>4 DEF AgreeInv
<1>6. CASE ws = << >>
  <2>1. kinds = {}
    BY <1>6
  <2>2. \A o \in Thread : Kinds(o)' = Kinds(o)
    BY <1>1, <1>2, <2>1
  <2>3. Same
    BY <2>1 DEF Tells
  <2>4. raced' <=> raced
    BY <1>2, <1>6, Zenon
  <2> QED BY <1>2, <1>3, <1>4, <2>2, <2>3, <2>4 DEF AgreeInv, Same, Tells
<1> QED BY <1>5, <1>6

Said(ws) == {ws[j] : j \in DOMAIN ws}

\* What a thread writes after something else is written too.
LEMMA SaidBoth ==
    ASSUME NEW S, NEW s \in Seq(S), NEW t \in Seq(S)
    PROVE  Said(s \o t) = Said(s) \cup Said(t)
<1>1. /\ DOMAIN s = 1..Len(s) /\ Len(s) \in Nat
      /\ DOMAIN t = 1..Len(t) /\ Len(t) \in Nat
      /\ DOMAIN (s \o t) = 1..(Len(s) + Len(t))
      /\ \A i \in 1..Len(s) : (s \o t)[i] = s[i]
      /\ \A i \in (Len(s) + 1)..(Len(s) + Len(t)) : (s \o t)[i] = t[i - Len(s)]
  OBVIOUS
<1>2. ASSUME NEW i \in DOMAIN (s \o t)
      PROVE  (s \o t)[i] \in Said(s) \cup Said(t)
  <2>1. CASE i \in 1..Len(s)
    BY <1>1, <2>1 DEF Said
  <2>2. CASE i \notin 1..Len(s)
    <3>1. i - Len(s) \in DOMAIN t /\ (s \o t)[i] = t[i - Len(s)]
      BY <1>1, <1>2, <2>2
    <3> QED BY <3>1 DEF Said
  <2> QED BY <2>1, <2>2
<1>3. ASSUME NEW i \in DOMAIN s
      PROVE  s[i] \in Said(s \o t)
  BY <1>1, <1>3 DEF Said
<1>4. ASSUME NEW i \in DOMAIN t
      PROVE  t[i] \in Said(s \o t)
  <2>1. i + Len(s) \in DOMAIN (s \o t) /\ (s \o t)[i + Len(s)] = t[i]
    <3>1. /\ i + Len(s) \in (Len(s) + 1)..(Len(s) + Len(t))
          /\ (i + Len(s)) - Len(s) = i
      BY <1>1
    <3>2. i + Len(s) \in DOMAIN (s \o t)
      BY <1>1, <3>1
    <3>3. (s \o t)[i + Len(s)] = t[(i + Len(s)) - Len(s)]
      BY <1>1, <3>1
    <3> QED BY <3>1, <3>2, <3>3
  <2> QED BY <2>1 DEF Said
<1> QED BY <1>2, <1>3, <1>4 DEF Said

\* A thread changes the record, with what follows it.
LEMMA UpdateSays ==
    ASSUME TypeOK, AgreeInv, NEW t \in Thread, NEW record \in Record,
           NEW then \in {<< >>, <<"seen", "setShim">>, <<"opened">>},
           Free(t), Update(t, record, then), UNCHANGED <<row, running>>,
           then # << >> => IsOpen(record.state),
           then = << >> => (Tracked' => Tracked)
    PROVE  AgreeInv'
<1>1. CASE mem.listed
  <2> DEFINE before == EndedOrBack(mem.state, record.state)
             ws == before \o then
             kinds == Said(ws)
  <2>1. mem' = record /\ Enqueue(t, ws)
    BY <1>1 DEF Update
  <2>2. before \in {<< >>, <<"closed">>, <<"seen">>}
    BY EndedOrBackType
  <2>3. /\ before = <<"closed">> => ~IsOpen(record.state)
        /\ before = <<"seen">> => IsOpen(record.state)
        /\ before = << >> => IsOpen(record.state) = IsOpen(mem.state)
    BY DEF EndedOrBack, IsOpen
  <2> HIDE DEF before
  <2>4. before \in Seq(What) /\ then \in Seq(What) /\ ws \in Seq(What)
    <3>1. /\ << >> \in Seq(What) /\ <<"closed">> \in Seq(What)
          /\ <<"seen">> \in Seq(What) /\ <<"seen", "setShim">> \in Seq(What)
          /\ <<"opened">> \in Seq(What)
      BY DEF What
    <3> HIDE DEF What
    <3>2. before \in Seq(What) /\ then \in Seq(What)
      BY <2>2, <3>1
    <3> QED BY <3>2
  <2>5. kinds = Said(before) \cup Said(then)
    BY <2>4, SaidBoth
  <2>6. /\ Said(<< >>) = {} /\ Said(<<"closed">>) = {"closed"}
        /\ Said(<<"seen">>) = {"seen"} /\ Said(<<"opened">>) = {"opened"}
        /\ Said(<<"seen", "setShim">>) = {"seen", "setShim"}
    <3>1. Said(<< >>) = {}
      BY DEF Said
    <3>2. ASSUME NEW x PROVE Said(<<x>>) = {x}
      BY DEF Said
    <3>3. Said(<<"seen", "setShim">>) = {"seen", "setShim"}
      <4>1. DOMAIN <<"seen", "setShim">> = {1, 2}
        OBVIOUS
      <4>2. <<"seen", "setShim">>[1] = "seen" /\ <<"seen", "setShim">>[2] = "setShim"
        OBVIOUS
      <4> QED BY <4>1, <4>2 DEF Said
    <3> QED BY <3>1, <3>2, <3>3
  <2> HIDE DEF kinds, ws
  <2>7. kinds \cap Closes # {} => ~IsOpen(mem'.state)
    BY <2>1, <2>2, <2>3, <2>5, <2>6 DEF Closes
  <2>8. kinds \cap Opens # {} => IsOpen(mem'.state)
    BY <2>1, <2>2, <2>3, <2>5, <2>6 DEF Opens
  <2>9. ~Tells(kinds) => before = << >> /\ then = << >>
    BY <2>2, <2>5, <2>6 DEF Tells, Opens, Closes
  <2>10. ~Tells(kinds) => Same
    BY <2>1, <2>3, <2>9 DEF Same
  <2>11. kinds = {ws[j] : j \in DOMAIN ws}
    BY DEF kinds, Said
  <2> QED BY <2>1, <2>4, <2>7, <2>8, <2>10, <2>11, Says
<1>2. CASE ~mem.listed
  <2>1. UNCHANGED <<mem, writes, raced>>
    BY <1>2 DEF Update
  <2>2. Same
    BY <1>2, <2>1 DEF Same, Tracked
  <2> QED BY <2>1, <2>2, Silent
<1> QED BY <1>1, <1>2

\* What is written is what the record says.
LEMMA FlushSays ==
    ASSUME TypeOK, AgreeInv, NEW t \in Thread, Flush(t)
    PROVE  AgreeInv'
<1> DEFINE w == Head(writes[t])
<1>1. UNCHANGED <<pane, opening, mem, running, raced>> /\ running
  BY DEF Flush, panes, app, history
<1>2. /\ \A o \in Thread : o # t => writes'[o] = writes[o]
      /\ 1 \in DOMAIN writes[t] /\ w = writes[t][1]
      /\ \A i \in DOMAIN writes'[t] :
             i + 1 \in DOMAIN writes[t] /\ writes'[t][i] = writes[t][i + 1]
      /\ \A i \in DOMAIN writes[t] : i # 1 =>
             i - 1 \in DOMAIN writes'[t] /\ writes'[t][i - 1] = writes[t][i]
  BY FlushMoves DEF TypeOK
<1>3. \A o \in Thread : o # t => Kinds(o)' = Kinds(o)
  BY <1>2 DEF Kinds
<1>4. w.what \in Kinds(t) /\ Kinds(t)' \subseteq Kinds(t)
      /\ Kinds(t) \subseteq Kinds(t)' \cup {w.what}
  BY <1>2 DEF Kinds
<1>5. writes[t] # << >>
  BY DEF Flush
<1>6. row' = Written(row, w) /\ row \in Row /\ w \in Write
  BY DEF Flush, TypeOK
<1>7. /\ w.what \in Opens /\ row'.known => ~row'.closed
      /\ w.what \in Closes /\ row'.known => row'.closed
      /\ w.what \notin Opens \cup Closes =>
             row'.closed = row.closed /\ row'.known = row.known
  <2> HIDE DEF w
  <2> QED BY <1>6 DEF Written, Row, Write, Opens, Closes
<1> HIDE DEF w
<1>8. \A o \in Thread : Kinds(o)' \subseteq Kinds(o)
  BY <1>3, <1>4
<1>9. Tracked' <=> Tracked
  BY <1>1 DEF Tracked
<1>10. ASSUME Tracked, row'.known, \A o \in Thread : ~Tells(Kinds(o)')
       PROVE  row'.closed = ~IsOpen(mem.state)
  <2>1. \A o \in Thread : o # t => ~Tells(Kinds(o))
    BY <1>3, <1>10
  <2>2. CASE w.what \in Opens
    <3>1. IsOpen(mem.state)
      BY <1>4, <1>10, <2>2 DEF AgreeInv
    <3>2. row'.closed = FALSE
      BY <1>6, <1>7, <1>10, <2>2, WrittenType DEF TypeOK, Row
    <3> QED BY <3>1, <3>2
  <2>3. CASE w.what \in Closes
    <3>1. ~IsOpen(mem.state)
      BY <1>4, <1>10, <2>3 DEF AgreeInv
    <3>2. row'.closed = TRUE
      BY <1>6, <1>7, <1>10, <2>3, WrittenType DEF TypeOK, Row
    <3> QED BY <3>1, <3>2
  <2>4. CASE w.what \notin Opens \cup Closes
    <3>1. ~Tells(Kinds(t))
      BY <1>4, <1>10, <2>4 DEF Tells
    <3> QED BY <1>7, <1>10, <2>1, <2>4, <3>1 DEF AgreeInv
  <2> QED BY <2>2, <2>3, <2>4
<1>11. \A o \in Thread : writes'[o] # << >> => writes[o] # << >>
  BY <1>2, <1>5
<1>12. \A o \in Thread : Kinds(o)' \cap Closes = {} \/ Kinds(o)' \cap Opens = {}
  BY <1>8 DEF AgreeInv
<1>13. Tracked => \A o \in Thread :
           /\ Kinds(o)' \cap Closes # {} => ~IsOpen(mem.state)
           /\ Kinds(o)' \cap Opens # {} => IsOpen(mem.state)
  BY <1>8 DEF AgreeInv
<1>14. \A o \in Thread : Tells(Kinds(o))' = Tells(Kinds(o)')
  BY DEF Tells
<1> QED BY <1>1, <1>9, <1>10, <1>11, <1>12, <1>13, <1>14 DEF AgreeInv

-----------------------------------------------------------------------------
(* Every step keeps them.                                                  *)

\* The shim, the window, the link and the terminal change no record.
LEMMA OutsideAgrees ==
    ASSUME TypeOK, Inv, AgreeInv, HoldInv,
           \/ TabAppears \/ ShimStep \/ LinkUp \/ Break \/ WindowStays
           \/ PaneRestored \/ GraceLooks \/ GraceOffers \/ UNCHANGED vars
    PROVE  AgreeInv' /\ HoldInv'
<1>1. UNCHANGED <<writes, row, raced, running, mem, opening>>
      /\ (pane' = pane \/ pane' = "asking")
  BY DEF TabAppears, ShimStep, SayWord, TabCloses, ShimEnds, WindowGoes, LinkUp,
         Break, WindowStays, PaneRestored, GraceLooks, GraceOffers, vars, tabs,
         link, panes, app, store, history
<1>2. pane' # pane => pane # "held"
  BY DEF TabAppears, ShimStep, SayWord, TabCloses, ShimEnds, WindowGoes, LinkUp,
         Break, WindowStays, PaneRestored, GraceLooks, GraceOffers, vars, panes
<1>3. linkPc' = "checking" => linkPc = "checking"
  BY DEF TabAppears, ShimStep, SayWord, TabCloses, ShimEnds, WindowGoes, LinkUp,
         Break, WindowStays, PaneRestored, GraceLooks, GraceOffers, vars, app
<1>4. Same
  BY <1>1, <1>2 DEF Same, Tracked
<1>5. wire # "down" => wire' # "down"
  BY DEF TabAppears, ShimStep, SayWord, TabCloses, ShimEnds, WindowGoes, LinkUp,
         Break, WindowStays, PaneRestored, GraceLooks, GraceOffers, vars, link
<1>6. wire' # "down" /\ (up' = << >> \/ Head(up') # "Hello") =>
          wire # "down" /\ (up = << >> \/ Head(up) # "Hello")
  <2>1. CASE SayWord \/ TabCloses
    <3>1. /\ wire' = wire
          /\ \/ up' = up
             \/ wire = "up" /\ \E x \in {"Word", "Closing"} : up' = Append(up, x)
      BY <2>1 DEF SayWord, TabCloses
    <3>2. ASSUME NEW x \in {"Word", "Closing"}, up # << >>
          PROVE  Append(up, x) # << >> /\ Head(Append(up, x)) = Head(up)
      BY <3>2 DEF TypeOK
    <3> QED BY <3>1, <3>2
  <2>2. CASE LinkUp
    <3>1. up' = <<"Hello">>
      BY <2>2 DEF LinkUp
    <3> QED BY <3>1
  <2>3. CASE Break \/ ShimEnds
    BY <2>3 DEF Break, ShimEnds
  <2>4. CASE \/ TabAppears \/ WindowGoes \/ WindowStays \/ PaneRestored
             \/ GraceLooks \/ GraceOffers \/ UNCHANGED vars
    BY <2>4 DEF TabAppears, WindowGoes, WindowStays, PaneRestored, GraceLooks,
                GraceOffers, vars, link
  <2> QED BY <2>1, <2>2, <2>3, <2>4 DEF ShimStep
<1>7. AgreeInv'
  BY <1>1, <1>4, Silent
<1>8. HoldInv'
  BY <1>1, <1>2, <1>3, <1>5, <1>6 DEF HoldInv
<1> QED BY <1>7, <1>8

\* What the link's thread hears.
LEMMA HearAgrees ==
    ASSUME TypeOK, Inv, AgreeInv, HoldInv, HearHello \/ HearWord \/ HearClosing
    PROVE  AgreeInv' /\ HoldInv'
<1>1. /\ up # << >> /\ up' = Tail(up) /\ linkPc = "idle"
      /\ UNCHANGED <<wire, pane, running, opening, row>>
      /\ Free("link")
  BY DEF HearHello, HearWord, HearClosing, LinkFree, panes
<1>2. "link" \in Thread /\ wire # "down"
  BY <1>1 DEF Thread, Inv, LinkInv
<1>3. ~mem.listed => (Tracked' => mem'.listed)
  BY DEF Tracked
<1>4. CASE HearHello /\ mem.listed
  <2>1. Update("link", Linked, <<"seen", "setShim">>)
    BY <1>4 DEF HearHello
  <2>2. /\ Linked \in Record /\ Linked.link
        /\ IsOpen(Linked.state)
    <3>1. mem \in Record /\ tab \in 0..MaxTabs
      BY DEF TypeOK
    <3>2. Linked \in Record
      BY <1>4, <3>1, LinkedType
    <3>3. Linked.link /\ IsOpen(Linked.state)
      BY <3>1 DEF Linked, Record, IsOpen
    <3> QED BY <3>2, <3>3
  <2>3. AgreeInv'
    BY <1>1, <1>2, <2>1, <2>2, UpdateSays
  <2>4. mem' = Linked /\ linkPc' = "idle"
    BY <1>1, <1>4, <2>1 DEF Update, HearHello
  <2>5. HoldInv'
    BY <1>1, <2>2, <2>4 DEF HoldInv
  <2> QED BY <2>3, <2>5
<1>5. CASE HearHello /\ ~mem.listed
  <2> DEFINE ws == <<"opened", "seen", "setShim">>
  <2>1. Enqueue("link", ws) /\ linkPc' = "idle"
    BY <1>1, <1>5 DEF HearHello
  <2>2. mem'.link /\ mem'.state = "Live"
    BY <1>5 DEF HearHello, NoRecord
  <2>3. ws \in Seq(What)
    BY DEF What
  <2>4. {ws[j] : j \in DOMAIN ws} = {"opened", "seen", "setShim"}
    <3>1. DOMAIN ws = {1, 2, 3}
      OBVIOUS
    <3>2. ws[1] = "opened" /\ ws[2] = "seen" /\ ws[3] = "setShim"
      OBVIOUS
    <3> HIDE DEF ws
    <3> QED BY <3>1, <3>2
  <2> HIDE DEF ws
  <2> DEFINE kinds == {"opened", "seen", "setShim"}
  <2>5. /\ kinds \cap Closes = {} /\ Tells(kinds)
        /\ IsOpen(mem'.state)
    BY <2>2 DEF Closes, Opens, Tells, IsOpen
  <2> HIDE DEF kinds
  <2>6. AgreeInv'
    BY <1>1, <1>2, <2>1, <2>3, <2>4, <2>5, Says DEF kinds
  <2>7. HoldInv'
    BY <1>1, <2>1, <2>2 DEF HoldInv
  <2> QED BY <2>6, <2>7
<1>6. CASE HearWord
  <2> DEFINE record == [mem EXCEPT !.state = "Live"]
  <2>1. Update("link", record, << >>) /\ linkPc' = "idle" /\ UNCHANGED panes
    BY <1>1, <1>6 DEF HearWord
  <2>2. record \in Record /\ record.link = mem.link /\ record.listed = mem.listed
    BY DEF TypeOK, Record, State
  <2> HIDE DEF record
  <2>3. (mem'.listed => mem.listed) /\ mem'.link = mem.link
        /\ (mem.listed \/ ~mem'.listed)
    BY <2>1, <2>2 DEF Update
  <2>4. Tracked' => Tracked
    BY <1>1, <2>1, <2>3 DEF Tracked, Update, Enqueue
  <2>5. AgreeInv'
    BY <1>1, <1>2, <2>1, <2>2, <2>4, UpdateSays
  <2>6. Head(up) # "Hello"
    BY <1>6 DEF HearWord
  <2>7. HoldInv'
    BY <1>1, <2>1, <2>3, <2>6 DEF HoldInv
  <2> QED BY <2>5, <2>7
<1>7. CASE HearClosing
  <2> DEFINE record == [mem EXCEPT !.state = "Closed"]
  <2>1. Update("link", record, << >>) /\ (linkPc' = "checking" => mem.listed)
        /\ UNCHANGED panes
    BY <1>7 DEF HearClosing
  <2>2. /\ record \in Record /\ record.link = mem.link
        /\ record.listed = mem.listed /\ ~IsOpen(record.state)
    BY DEF TypeOK, Record, State, IsOpen
  <2> HIDE DEF record
  <2>3. /\ mem'.listed => mem.listed
        /\ mem'.link = mem.link
        /\ mem.listed => ~IsOpen(mem'.state)
    BY <2>1, <2>2 DEF Update
  <2>4. Tracked' => Tracked
    BY <1>1, <2>1, <2>3 DEF Tracked, Update, Enqueue
  <2>5. AgreeInv'
    BY <1>1, <1>2, <2>1, <2>2, <2>4, UpdateSays
  <2>6. Head(up) # "Hello"
    BY <1>7 DEF HearClosing
  <2>7. mem.listed => mem.link
    BY <1>2, <2>6 DEF HoldInv
  <2>8. HoldInv'
    BY <1>1, <1>2, <2>1, <2>3, <2>7 DEF HoldInv
  <2> QED BY <2>5, <2>8
<1> QED BY <1>4, <1>5, <1>6, <1>7

\* The link's thread sees the window gone, or its link at its end.
LEMMA LinkAgrees ==
    ASSUME TypeOK, Inv, AgreeInv, HoldInv, WindowSeenGone \/ LinkEnds
    PROVE  AgreeInv' /\ HoldInv'
<1>1. Free("link") /\ "link" \in Thread
  BY DEF WindowSeenGone, LinkEnds, LinkFree, Thread
<1>2. UNCHANGED <<pane, running, opening, row, up>> /\ linkPc' = "idle"
  BY DEF WindowSeenGone, LinkEnds, LinkFree, panes, link
<1>3. CASE WindowSeenGone
  <2>1. /\ linkPc = "checking" /\ Enqueue("link", <<"withWindow">>)
        /\ mem' = IF mem.listed THEN [mem EXCEPT !.restorable = TRUE] ELSE mem
        /\ wire' = wire
    BY <1>3 DEF WindowSeenGone, link
  <2>2. /\ mem'.listed = mem.listed /\ mem'.state = mem.state
        /\ mem'.link = mem.link
    BY <2>1 DEF TypeOK, Record
  <2>3. Tracked' => ~IsOpen(mem'.state)
    BY <2>1, <2>2 DEF HoldInv, Tracked
  <2> DEFINE ws == <<"withWindow">>
             kinds == {"withWindow"}
  <2>4. ws \in Seq(What) /\ kinds = {ws[j] : j \in DOMAIN ws}
    BY DEF What
  <2>5. kinds \cap Opens = {} /\ Tells(kinds)
    BY DEF Opens, Closes, Tells
  <2>6. Enqueue("link", ws)
    BY <2>1
  <2> HIDE DEF ws, kinds
  <2>7. AgreeInv'
    BY <1>1, <1>2, <2>3, <2>4, <2>5, <2>6, Says
  <2>8. HoldInv'
    BY <1>2, <2>1, <2>2 DEF HoldInv
  <2> QED BY <2>7, <2>8
<1>4. CASE LinkEnds
  <2> DEFINE record == [mem EXCEPT !.link = FALSE,
                                   !.state = IF @ # "Closed" THEN "Gone" ELSE @]
  <2>1. Update("link", record, << >>) /\ wire' = "down"
    BY <1>4 DEF LinkEnds
  <2>2. record \in Record /\ record.listed = mem.listed
    BY DEF TypeOK, Record, State
  <2> HIDE DEF record
  <2>3. mem'.listed => mem.listed
    BY <2>1, <2>2 DEF Update
  <2>4. Tracked' => Tracked
    BY <1>2, <2>1, <2>3 DEF Tracked, Update, Enqueue
  <2>5. AgreeInv'
    BY <1>1, <1>2, <2>1, <2>2, <2>4, UpdateSays
  <2>6. HoldInv'
    BY <1>2, <2>1 DEF HoldInv
  <2> QED BY <2>5, <2>6
<1> QED BY <1>3, <1>4

\* The threads that wait for tabs.
LEMMA OpenerAgrees ==
    ASSUME TypeOK, Inv, AgreeInv, HoldInv, NEW t \in Opener, OpenerStep(t)
    PROVE  AgreeInv' /\ HoldInv'
<1>1. /\ Free(t) /\ t \in Thread /\ t \in opening /\ opening' = opening \ {t}
      /\ UNCHANGED <<running, row, linkPc, wire, up>>
  BY DEF OpenerStep, TabSeen, TabMissing, Thread, link, store
<1>2. /\ pane' = "held" => pane = "held" /\ t # "replacer"
      /\ pane' # pane => t = "replacer"
  BY DEF OpenerStep, TabSeen, TabMissing, Answer
<1>3. /\ "replacer" \in opening' => pane' = "held"
      /\ pane = "held" /\ pane' # "held" => "replacer" \in opening
      /\ pane' = "held" /\ "replacer" \in opening' => "replacer" \in opening
  BY <1>1, <1>2 DEF HoldInv
<1>4. CASE TabSeen(t)
  <2>1. UNCHANGED <<mem, writes, raced>>
    BY <1>4 DEF TabSeen, store, history
  <2>2. Same
    BY <1>1, <1>3, <2>1 DEF Same, Tracked
  <2> QED BY <1>1, <1>3, <2>1, <2>2, Silent DEF HoldInv
<1>5. CASE TabMissing(t)
  <2> DEFINE record == [mem EXCEPT !.state = "Failed"]
  <2>1. Update(t, record, << >>) /\ mem.listed /\ ~mem.link
    BY <1>5 DEF TabMissing
  <2>2. /\ record \in Record /\ ~IsOpen(record.state) /\ record.listed = mem.listed
        /\ record.link = mem.link
    BY DEF TypeOK, Record, State, IsOpen
  <2> HIDE DEF record
  <2>3. mem' = record
    BY <2>1 DEF Update
  <2>4. Tracked' => Tracked
    BY <1>1, <1>3, <2>1, <2>2, <2>3 DEF Tracked, Update, Enqueue
  <2>5. AgreeInv'
    BY <1>1, <2>1, <2>2, <2>4, UpdateSays
  <2>6. HoldInv'
    BY <1>1, <1>3, <2>1, <2>2, <2>3 DEF HoldInv
  <2> QED BY <2>5, <2>6
<1> QED BY <1>4, <1>5 DEF OpenerStep

\* A new tab is asked for in the place of a restored pane, or the pane let go.
LEMMA ReplaceAgrees ==
    ASSUME TypeOK, Inv, AgreeInv, HoldInv, Replace
    PROVE  AgreeInv' /\ HoldInv'
<1>1. /\ Free("replacer") /\ "replacer" \in Thread
      /\ "replacer" \notin opening /\ pane = "held"
      /\ UNCHANGED <<running, row, linkPc, wire, up>>
  BY DEF Replace, Thread, Opener, link
<1>2. wire = "down"
  BY <1>1 DEF Inv, PaneInv
<1>3. linkPc # "checking"
  BY <1>2 DEF HoldInv
<1>4. CASE mem.listed
  <2> DEFINE record == [mem EXCEPT !.tab = tab', !.state = "Opening"]
  <2>1. /\ Update("replacer", record, <<"opened">>)
        /\ pane' = "held"
    BY <1>1, <1>4 DEF Replace
  <2>2. record \in Record /\ IsOpen(record.state)
    <3>1. tab' \in 0..MaxTabs
      BY <1>4, SessionStoreAssumption DEF Replace, TypeOK
    <3> QED BY <3>1 DEF TypeOK, Record, State, IsOpen
  <2> HIDE DEF record
  <2>3. AgreeInv'
    BY <1>1, <2>1, <2>2, UpdateSays
  <2>4. HoldInv'
    BY <1>1, <1>2, <1>3, <2>1 DEF HoldInv
  <2> QED BY <2>3, <2>4
<1>5. CASE ~mem.listed
  <2>1. UNCHANGED <<mem, writes, raced, opening>>
    BY <1>5 DEF Replace
  <2>2. Same
    BY <1>5, <2>1 DEF Same, Tracked
  <2> QED BY <1>1, <1>2, <1>3, <2>1, <2>2, Silent DEF HoldInv
<1> QED BY <1>4, <1>5

\* A restored pane is held: the row needn't agree until its tab is asked for.
LEMMA PaneAsksAgrees ==
    ASSUME TypeOK, Inv, AgreeInv, HoldInv, PaneAsks
    PROVE  AgreeInv' /\ HoldInv'
<1>1. /\ pane = "asking" /\ pane' \in {"held", "shell"}
      /\ UNCHANGED <<writes, row, raced, running, opening, linkPc, wire, up>>
  BY DEF PaneAsks, store, link
<1>2. "replacer" \notin opening
  BY <1>1 DEF HoldInv
<1>3. CASE pane' = "shell"
  <2>1. mem' = mem
    BY <1>3 DEF PaneAsks
  <2>2. Same
    BY <1>1, <1>3, <2>1 DEF Same, Tracked
  <2> QED BY <1>1, <1>2, <2>1, <2>2, Silent DEF HoldInv
<1>4. CASE pane' = "held"
  <2>1. Same
    BY <1>1, <1>2, <1>4 DEF Same, Tracked
  <2>2. \/ InMemory /\ mem' = [mem EXCEPT !.state = "Detached", !.restorable = FALSE]
        \/ /\ spare = paneTab
           /\ mem' = IF mem.listed THEN mem
                     ELSE [NoRecord EXCEPT !.listed = TRUE, !.state = "Detached",
                                           !.tab = spare]
    BY <1>4 DEF PaneAsks
  <2>3. CASE /\ InMemory
             /\ mem' = [mem EXCEPT !.state = "Detached", !.restorable = FALSE]
    <3>1. mem.listed /\ ~mem.link
      BY <2>3 DEF InMemory
    <3> QED BY <1>1, <1>2, <2>1, <3>1, Silent DEF HoldInv
  <2>4. CASE /\ spare = paneTab
             /\ mem' = IF mem.listed THEN mem
                       ELSE [NoRecord EXCEPT !.listed = TRUE, !.state = "Detached",
                                             !.tab = spare]
    <3>1. wire = "down"
      BY <1>1, <2>4 DEF Inv, PaneInv
    <3> QED BY <1>1, <1>2, <2>1, <3>1, Silent DEF HoldInv
  <2> QED BY <2>2, <2>3, <2>4
<1> QED BY <1>1, <1>3, <1>4

\* What the person does, and the end of the grace period.
LEMMA ActsAgree ==
    ASSUME TypeOK, Inv, AgreeInv, HoldInv, AskStep \/ GraceEnds
    PROVE  AgreeInv' /\ HoldInv'
<1>1. UNCHANGED <<pane, opening, wire, up, linkPc, running, row>>
  BY DEF AskStep, AskClose, AskExit, ClearFinished, AnswerLost, GraceEnds,
         panes, link, store
<1>2. {"ui", "grace"} \subseteq Thread
  BY DEF Thread
<1>3. ASSUME mem' = mem \/ ~mem'.listed
      PROVE  HoldInv' /\ (UNCHANGED <<writes, raced>> => AgreeInv')
  <2>1. HoldInv'
    BY <1>1, <1>3 DEF HoldInv
  <2>2. UNCHANGED raced => Same
    BY <1>1, <1>3 DEF Same, Tracked
  <2> QED BY <1>1, <2>1, <2>2, Silent
<1>4. ASSUME NEW t \in Thread, NEW record \in Record, Free(t),
             Update(t, record, << >>), record.listed = mem.listed,
             record.link = mem.link,
             record.state = mem.state \/ ~IsOpen(record.state)
      PROVE  AgreeInv' /\ HoldInv'
  <2>1. mem' \in {mem, record}
    BY <1>4 DEF Update
  <2>2. Tracked' => Tracked
    BY <1>1, <1>4, <2>1 DEF Tracked, Update, Enqueue
  <2>3. AgreeInv'
    BY <1>1, <1>4, <2>2, UpdateSays
  <2>4. HoldInv'
    BY <1>1, <1>4, <2>1 DEF HoldInv
  <2> QED BY <2>3, <2>4
<1>5. CASE AskClose \/ (AskExit /\ Close(TRUE))
  <2> DEFINE record == [mem EXCEPT !.state = "Closed"]
  <2>1. Free("ui") /\ Update("ui", record, << >>)
    BY <1>5 DEF AskClose, AskExit, Close, PersonActs
  <2>2. /\ record \in Record /\ record.listed = mem.listed
        /\ record.link = mem.link /\ ~IsOpen(record.state)
    BY DEF TypeOK, Record, State, IsOpen
  <2> HIDE DEF record
  <2> QED BY <1>2, <1>4, <2>1, <2>2
<1>6. CASE AskExit /\ UNCHANGED <<mem, writes, raced>>
  BY <1>3, <1>6
<1>7. CASE ClearFinished \/ AnswerLost
  <2>1. mem' = mem \/ ~mem'.listed
    BY <1>7 DEF ClearFinished, AnswerLost, Cleared, NoRecord
  <2>2. CASE UNCHANGED <<writes, raced>>
    BY <1>3, <2>1, <2>2
  <2>3. CASE ~UNCHANGED <<writes, raced>>
    <3> DEFINE ws == <<"notRestorable">>
               kinds == {"notRestorable"}
    <3>1. Free("ui") /\ Enqueue("ui", ws)
      BY <1>7, <2>3 DEF ClearFinished, AnswerLost, PersonActs, store
    <3>2. ws \in Seq(What) /\ kinds = {ws[j] : j \in DOMAIN ws}
      BY DEF What
    <3>3. kinds \cap Opens = {} /\ kinds \cap Closes = {}
      BY DEF Opens, Closes
    <3>4. Same
      BY <1>1, <2>1, <3>1 DEF Same, Tracked, Enqueue
    <3> HIDE DEF ws, kinds
    <3>5. AgreeInv'
      BY <1>1, <1>2, <3>1, <3>2, <3>3, <3>4, Says
    <3> QED BY <1>3, <2>1, <3>5
  <2> QED BY <2>2, <2>3
<1>8. CASE GraceEnds
  <2> DEFINE record == [mem EXCEPT !.state = IF @ = "Detached" THEN "Gone" ELSE @]
  <2>1. Free("grace") /\ Update("grace", record, << >>)
    BY <1>8 DEF GraceEnds
  <2>2. /\ record \in Record /\ record.listed = mem.listed
        /\ record.link = mem.link
        /\ record.state = mem.state \/ ~IsOpen(record.state)
    BY DEF TypeOK, Record, State, IsOpen
  <2> HIDE DEF record
  <2> QED BY <1>2, <1>4, <2>1, <2>2
<1>9. AskExit => Close(TRUE) \/ UNCHANGED <<mem, writes, raced>>
  BY DEF AskExit
<1> QED BY <1>5, <1>6, <1>7, <1>8, <1>9 DEF AskStep

\* NativeTerm ends, and is started again with the record its row makes.
LEMMA RunsAgree ==
    ASSUME TypeOK, Inv, AgreeInv, HoldInv, Stop \/ Start
    PROVE  AgreeInv' /\ HoldInv'
<1>1. CASE Stop
  <2>1. /\ ~running' /\ \A t \in Thread : writes'[t] = << >>
        /\ wire' = "down" /\ opening' = {} /\ linkPc' = "idle"
    BY <1>1 DEF Stop
  <2>2. \A t \in Thread : Kinds(t)' = {}
    BY <2>1 DEF Kinds
  <2>3. AgreeInv'
    BY <2>1, <2>2 DEF AgreeInv, Tracked, Quiet
  <2>4. HoldInv'
    BY <2>1 DEF HoldInv
  <2> QED BY <2>3, <2>4
<1>2. CASE Start
  <2>1. /\ ~running /\ running'
        /\ UNCHANGED <<writes, raced, opening, pane, linkPc, wire, up>>
    BY <1>2 DEF Start, history, panes, link
  <2>2. wire = "down" /\ linkPc # "checking"
    BY <2>1 DEF Inv, LinkInv, HoldInv
  <2>3. HoldInv'
    BY <2>1, <2>2 DEF HoldInv
  <2>4. \A t \in Thread : writes'[t] = << >> /\ Kinds(t)' = {}
    BY <2>1 DEF AgreeInv, Quiet, Kinds
  <2>5. mem'.listed => ~row'.closed /\ row'.closed \in BOOLEAN /\ IsOpen(mem'.state)
    <3> DEFINE open == row.known /\ ~row.closed
    <3>1. CASE open /\ ShimAlive
      <4>1. /\ row' = row
            /\ mem' = [NoRecord EXCEPT !.listed = TRUE, !.state = "Detached",
                                       !.tab = row.tab]
        BY <1>2, <3>1 DEF Start
      <4> QED BY <3>1, <4>1 DEF NoRecord, IsOpen, TypeOK, Row
    <3>2. CASE ~(open /\ ShimAlive)
      <4>1. mem' = NoRecord
        BY <1>2, <3>2 DEF Start
      <4> QED BY <4>1 DEF NoRecord
    <3> QED BY <3>1, <3>2
  <2>6. AgreeInv'
    BY <2>1, <2>4, <2>5 DEF AgreeInv, Tracked, IsOpen
  <2> QED BY <2>3, <2>6
<1> QED BY <1>1, <1>2

\* A write changes neither the record nor who waits.
LEMMA FlushHolds ==
    ASSUME HoldInv, NEW t \in Thread, Flush(t)
    PROVE  HoldInv'
  BY DEF HoldInv, Flush, panes, app, link

\* The row, the record and what is to be written stay as the invariant says.
LEMMA AgreeAlways == Spec => [](AgreeInv /\ HoldInv)
<1>1. Init => AgreeInv /\ HoldInv
  <2> SUFFICES ASSUME Init PROVE AgreeInv /\ HoldInv
    OBVIOUS
  <2>1. /\ writes["ui"] = <<[what |-> "opened", tab |-> 1]>>
        /\ \A t \in Thread : t # "ui" => writes[t] = << >>
        /\ "ui" \in Thread
    BY DEF Init, Thread
  <2>2. Kinds("ui") = {"opened"} /\ \A t \in Thread : t # "ui" => Kinds(t) = {}
    <3>1. DOMAIN writes["ui"] = {1} /\ writes["ui"][1].what = "opened"
      BY <2>1
    <3> QED BY <2>1, <3>1 DEF Kinds
  <2>3. mem.state = "Opening" /\ ~row.known /\ running
    BY DEF Init, NoRecord
  <2>4. Kinds("ui") \cap Closes = {}
    BY <2>2 DEF Closes
  <2>5. AgreeInv
    BY <2>1, <2>2, <2>3, <2>4 DEF AgreeInv, IsOpen
  <2>6. HoldInv
    BY DEF Init, HoldInv
  <2> QED BY <2>5, <2>6
<1>2. TypeOK /\ Inv /\ AgreeInv /\ HoldInv /\ [Next]_vars => AgreeInv' /\ HoldInv'
  BY OutsideAgrees, HearAgrees, LinkAgrees, OpenerAgrees, ReplaceAgrees,
     PaneAsksAgrees, ActsAgree, RunsAgree, FlushSays, FlushHolds
     DEF Next, LinkStep
<1> QED BY <1>1, <1>2, StoreTypeCorrect, TabsAgree, PTL DEF Spec

\* The row agrees with the record whenever no thread has anything left to
\* write, but for a race of two threads and a pane held (Shared::update).
THEOREM RowFollowsRecord == Spec => []RecordsAgree
<1>1. AgreeInv => RecordsAgree
  <2>1. ASSUME Quiet, NEW t \in Thread
        PROVE  Kinds(t) = {}
    BY <2>1 DEF Quiet, Kinds
  <2> QED BY <2>1 DEF AgreeInv, RecordsAgree, Tracked, Tells
<1> QED BY <1>1, AgreeAlways, PTL

-----------------------------------------------------------------------------
(* No second copy of a lost session.                                       *)
(*                                                                         *)
(* A lost session that was over when it was opened again has no record any *)
(* more, its row is closed, and "not restorable" is written last.  That    *)
(* needs the row of every session that isn't open to be closed, or about   *)
(* to be, also the one of a held pane and of a session not in the list.    *)

\* A session that isn't open, listed or not: nothing is left that opens its
\* row, and the row is closed or is about to be.
ShutInv ==
    /\ ~mem.listed => ~IsOpen(mem.state)
    /\ row.restorable => row.known
    /\ running /\ ~raced /\ ~IsOpen(mem.state) =>
         /\ \A t \in Thread : Kinds(t) \cap Opens = {}
         /\ row.known => row.closed \/ \E t \in Thread : Kinds(t) \cap Closes # {}

\* Opened again: no record, a closed row, and no mark for restoring once the
\* person's thread has written.
AgainInv ==
    reopened # "no" /\ ~raced =>
        /\ ~mem.listed /\ linkPc # "checking"
        /\ \A t \in Thread : Kinds(t) \subseteq {"notRestorable"}
        /\ row.restorable => "notRestorable" \in Kinds("ui")
        /\ row.known => row.closed
        /\ reopened = "before" => ~row.restorable /\ spare = 0

\* A thread gets something to write: either it opens nothing, or the session
\* is open.
LEMMA SaysShut ==
    ASSUME TypeOK, AgreeInv, ShutInv, NEW t \in Thread, NEW ws \in Seq(What),
           Free(t), Enqueue(t, ws), UNCHANGED <<row, running>>,
           NEW kinds, kinds = {ws[j] : j \in DOMAIN ws},
           IsOpen(mem'.state) \/ kinds \cap Opens = {},
           IsOpen(mem.state) => IsOpen(mem'.state) \/ kinds \cap Closes # {},
           ~mem'.listed => ~IsOpen(mem'.state)
    PROVE  ShutInv'
<1>1. /\ Kinds(t)' = kinds
      /\ \A o \in Thread : o # t => writes'[o] = writes[o] /\ Kinds(o)' = Kinds(o)
  BY EnqueueKinds DEF TypeOK
<1>2. /\ running /\ Kinds(t) = {}
      /\ raced' = (raced \/ (ws # << >> /\ \E o \in Thread \ {t} : writes[o] # << >>))
  BY DEF Free, Enqueue, Kinds
<1>3. ASSUME ~raced', ~IsOpen(mem'.state)
      PROVE  /\ \A o \in Thread : Kinds(o)' \cap Opens = {}
             /\ row.known => row.closed \/ \E o \in Thread : Kinds(o)' \cap Closes # {}
  <2>1. CASE IsOpen(mem.state)
    <3>1. kinds \cap Closes # {} /\ kinds \cap Opens = {}
      BY <1>3, <2>1
    <3>2. ws # << >>
      BY <3>1
    <3>3. \A o \in Thread : o # t => writes[o] = << >>
      BY <1>2, <1>3, <3>2
    <3>4. \A o \in Thread : o # t => Kinds(o) = {}
      BY <3>3 DEF Kinds
    <3>5. \A o \in Thread : o # t => Kinds(o)' = {}
      BY <1>1, <3>4
    <3> QED BY <1>1, <3>1, <3>5
  <2>2. CASE ~IsOpen(mem.state)
    <3>1. ~raced
      BY <1>2, <1>3
    <3>2. /\ \A o \in Thread : Kinds(o) \cap Opens = {}
          /\ row.known => row.closed \/ \E o \in Thread : Kinds(o) \cap Closes # {}
      BY <1>2, <2>2, <3>1 DEF ShutInv
    <3>3. \A o \in Thread : Kinds(o) \subseteq Kinds(o)'
      BY <1>1, <1>2
    <3>4. \A o \in Thread : Kinds(o)' \cap Opens = {}
      BY <1>1, <1>3, <3>2
    <3> QED BY <3>2, <3>3, <3>4
  <2> QED BY <2>1, <2>2
<1>4. running' /\ row' = row
  BY <1>2
<1> QED BY <1>3, <1>4 DEF ShutInv

\* Nothing written, and the session as open as before.
LEMMA SilentShut ==
    ASSUME ShutInv, UNCHANGED <<writes, row, raced, running>>,
           IsOpen(mem'.state) = IsOpen(mem.state) \/ IsOpen(mem'.state),
           ~mem'.listed => ~IsOpen(mem'.state)
    PROVE  ShutInv'
<1>1. \A t \in Thread : Kinds(t)' = Kinds(t)
  BY DEF Kinds
<1> QED BY <1>1 DEF ShutInv

\* A thread changes the record, with what follows it.
LEMMA UpdateShut ==
    ASSUME TypeOK, AgreeInv, ShutInv, NEW t \in Thread, NEW record \in Record,
           NEW then \in {<< >>, <<"seen", "setShim">>, <<"opened">>},
           Free(t), Update(t, record, then), UNCHANGED <<row, running>>,
           then # << >> => IsOpen(record.state),
           record.listed = mem.listed
    PROVE  ShutInv'
<1>1. CASE mem.listed
  <2> DEFINE before == EndedOrBack(mem.state, record.state)
             ws == before \o then
             kinds == Said(ws)
  <2>1. mem' = record /\ Enqueue(t, ws)
    BY <1>1 DEF Update
  <2>2. /\ before \in {<< >>, <<"closed">>, <<"seen">>}
        /\ before = <<"seen">> => IsOpen(record.state)
        /\ IsOpen(mem.state) /\ ~IsOpen(record.state) => before = <<"closed">>
    BY DEF EndedOrBack, IsOpen
  <2> HIDE DEF before
  <2>3. before \in Seq(What) /\ then \in Seq(What) /\ ws \in Seq(What)
    <3>1. /\ << >> \in Seq(What) /\ <<"closed">> \in Seq(What)
          /\ <<"seen">> \in Seq(What) /\ <<"seen", "setShim">> \in Seq(What)
          /\ <<"opened">> \in Seq(What)
      BY DEF What
    <3> HIDE DEF What
    <3>2. before \in Seq(What) /\ then \in Seq(What)
      BY <2>2, <3>1
    <3> QED BY <3>2
  <2>4. kinds = Said(before) \cup Said(then)
    BY <2>3, SaidBoth
  <2>5. Said(<< >>) = {} /\ Said(<<"closed">>) = {"closed"}
    <3>1. Said(<< >>) = {}
      BY DEF Said
    <3>2. ASSUME NEW x PROVE Said(<<x>>) = {x}
      BY DEF Said
    <3> QED BY <3>1, <3>2
  <2> HIDE DEF kinds, ws
  <2>6. IsOpen(mem'.state) \/ kinds \cap Opens = {}
    BY <2>1, <2>2, <2>4, <2>5 DEF Opens
  <2>7. IsOpen(mem.state) => IsOpen(mem'.state) \/ kinds \cap Closes # {}
    BY <2>1, <2>2, <2>4, <2>5 DEF Closes
  <2>8. kinds = {ws[j] : j \in DOMAIN ws}
    BY DEF kinds, Said
  <2> QED BY <1>1, <2>1, <2>3, <2>6, <2>7, <2>8, SaysShut
<1>2. CASE ~mem.listed
  <2>1. UNCHANGED <<mem, writes, raced>>
    BY <1>2 DEF Update
  <2> QED BY <2>1, SilentShut DEF ShutInv
<1> QED BY <1>1, <1>2

\* What is written closes the row of a session that isn't open.
LEMMA FlushShut ==
    ASSUME TypeOK, AgreeInv, ShutInv, AgainInv, NEW t \in Thread, Flush(t)
    PROVE  ShutInv' /\ AgainInv'
<1> DEFINE w == Head(writes[t])
<1>1. UNCHANGED <<mem, running, raced, linkPc, reopened, spare>>
  BY DEF Flush, app, history
<1>2. /\ \A o \in Thread : o # t => writes'[o] = writes[o]
      /\ 1 \in DOMAIN writes[t] /\ w = writes[t][1]
      /\ \A i \in DOMAIN writes'[t] :
             i + 1 \in DOMAIN writes[t] /\ writes'[t][i] = writes[t][i + 1]
      /\ \A i \in DOMAIN writes[t] : i # 1 =>
             i - 1 \in DOMAIN writes'[t] /\ writes'[t][i - 1] = writes[t][i]
  BY FlushMoves DEF TypeOK
<1>3. \A o \in Thread : o # t => Kinds(o)' = Kinds(o)
  BY <1>2 DEF Kinds
<1>4. w.what \in Kinds(t) /\ Kinds(t)' \subseteq Kinds(t)
      /\ Kinds(t) \subseteq Kinds(t)' \cup {w.what}
  BY <1>2 DEF Kinds
<1>5. row' = Written(row, w) /\ row \in Row /\ w \in Write
  BY DEF Flush, TypeOK
<1>6. /\ w.what \in Closes /\ row'.known => row'.closed
      /\ w.what \notin Opens \cup Closes =>
             row'.closed = row.closed /\ row'.known = row.known
      /\ w.what = "notRestorable" => ~row'.restorable
      /\ row'.restorable => row'.known
  <2> HIDE DEF w
  <2>1. row.restorable => row.known
    BY DEF ShutInv
  <2> QED BY <1>5, <2>1 DEF Written, Row, Write, Opens, Closes
<1>7. \A o \in Thread : Kinds(o)' \subseteq Kinds(o)
  BY <1>3, <1>4
<1> HIDE DEF w
<1>8. ASSUME running, ~raced, ~IsOpen(mem.state)
      PROVE  /\ \A o \in Thread : Kinds(o)' \cap Opens = {}
             /\ row'.known => row'.closed \/ \E o \in Thread : Kinds(o)' \cap Closes # {}
  <2>1. /\ \A o \in Thread : Kinds(o) \cap Opens = {}
        /\ row.known => row.closed \/ \E o \in Thread : Kinds(o) \cap Closes # {}
    BY <1>8 DEF ShutInv
  <2>2. CASE w.what \in Closes
    BY <1>6, <1>7, <2>1, <2>2
  <2>3. CASE w.what \notin Closes
    <3>1. w.what \notin Opens
      BY <1>4, <2>1
    <3>2. \A o \in Thread : Kinds(o) \cap Closes # {} => Kinds(o)' \cap Closes # {}
      BY <1>3, <1>4, <2>3
    <3> QED BY <1>6, <1>7, <2>1, <2>3, <3>1, <3>2
  <2> QED BY <2>2, <2>3
<1>9. ShutInv'
  BY <1>1, <1>6, <1>8 DEF ShutInv
<1>10. AgainInv'
  <2> SUFFICES ASSUME reopened # "no", ~raced
               PROVE  AgainInv'
    BY <1>1 DEF AgainInv
  <2>1. w.what = "notRestorable"
    BY <1>4 DEF AgainInv
  <2>2. ~row'.restorable /\ row'.closed = row.closed /\ row'.known = row.known
    BY <1>6, <2>1 DEF Opens, Closes
  <2> QED BY <1>1, <1>7, <2>2 DEF AgainInv
<1> QED BY <1>9, <1>10

\* The shim, the window, the link and the terminal change neither.
LEMMA OutsideShut ==
    ASSUME TypeOK, AgreeInv, ShutInv, AgainInv,
           \/ TabAppears \/ ShimStep \/ LinkUp \/ Break \/ WindowStays
           \/ PaneRestored \/ GraceLooks \/ GraceOffers \/ UNCHANGED vars
    PROVE  ShutInv' /\ AgainInv'
<1>1. UNCHANGED <<writes, row, raced, running, mem, spare, reopened>>
      /\ (linkPc' = linkPc \/ linkPc' = "idle")
  BY DEF TabAppears, ShimStep, SayWord, TabCloses, ShimEnds, WindowGoes, LinkUp,
         Break, WindowStays, PaneRestored, GraceLooks, GraceOffers, vars, tabs,
         link, panes, app, store, history
<1>2. ShutInv'
  BY <1>1, SilentShut DEF ShutInv
<1>3. \A t \in Thread : Kinds(t)' = Kinds(t)
  BY <1>1 DEF Kinds
<1>4. Kinds("ui")' = Kinds("ui")
  BY <1>1 DEF Kinds
<1>5. AgainInv'
  BY <1>1, <1>3, <1>4 DEF AgainInv
<1> QED BY <1>2, <1>5

\* The steps that leave a session opened again as it is: it isn't in the list.
LEMMA AgainStays ==
    ASSUME AgainInv, UNCHANGED <<row, spare, reopened>>,
           raced => raced',
           linkPc' = "checking" => linkPc = "checking" \/ mem.listed,
           ~mem.listed => UNCHANGED <<mem, writes>>
    PROVE  AgainInv'
<1> SUFFICES ASSUME reopened # "no", ~raced
             PROVE  AgainInv'
  BY DEF AgainInv
<1>1. ~mem.listed /\ UNCHANGED <<mem, writes>>
  BY DEF AgainInv
<1>2. \A t \in Thread : Kinds(t)' = Kinds(t)
  BY <1>1 DEF Kinds
<1>3. Kinds("ui")' = Kinds("ui")
  BY <1>1 DEF Kinds
<1> QED BY <1>1, <1>2, <1>3 DEF AgainInv

\* A thread changes the record of a session: neither is disturbed.
LEMMA UpdateKeepsBoth ==
    ASSUME TypeOK, AgreeInv, ShutInv, AgainInv, NEW t \in Thread,
           NEW record \in Record, Free(t), Update(t, record, << >>),
           record.listed = mem.listed, UNCHANGED <<row, running, spare, reopened>>,
           linkPc' = "checking" => linkPc = "checking" \/ mem.listed
    PROVE  ShutInv' /\ AgainInv'
<1>1. ShutInv'
  BY UpdateShut
<1>2. raced => raced'
  BY DEF Update, Enqueue
<1>3. ~mem.listed => UNCHANGED <<mem, writes>>
  BY DEF Update
<1> QED BY <1>1, <1>2, <1>3, AgainStays

\* What the link's thread hears and sees.
LEMMA LinkShut ==
    ASSUME TypeOK, AgreeInv, ShutInv, AgainInv,
           \/ HearHello \/ HearWord \/ HearClosing \/ WindowSeenGone \/ LinkEnds
    PROVE  ShutInv' /\ AgainInv'
<1>1. /\ Free("link") /\ "link" \in Thread
      /\ UNCHANGED <<running, row, spare>>
  BY DEF HearHello, HearWord, HearClosing, WindowSeenGone, LinkEnds, LinkFree, Thread
<1>2. CASE HearHello /\ mem.listed
  <2>1. Update("link", Linked, <<"seen", "setShim">>) /\ reopened' = "no"
    BY <1>2 DEF HearHello
  <2>2. Linked \in Record /\ Linked.listed
    <3>1. mem \in Record /\ tab \in 0..MaxTabs
      BY DEF TypeOK
    <3> QED BY <1>2, <3>1, LinkedType
  <2>3. IsOpen(Linked.state)
    BY DEF Linked, IsOpen, TypeOK, Record
  <2>4. ShutInv'
    BY <1>1, <1>2, <2>1, <2>2, <2>3, UpdateShut
  <2> QED BY <2>1, <2>4 DEF AgainInv
<1>3. CASE HearHello /\ ~mem.listed
  <2>1. /\ mem' = [NoRecord EXCEPT !.listed = TRUE, !.state = "Live",
                                   !.link = TRUE, !.tab = tab]
        /\ Enqueue("link", <<"opened", "seen", "setShim">>) /\ reopened' = "no"
    BY <1>3 DEF HearHello
  <2>2. mem'.listed /\ IsOpen(mem'.state)
    BY <2>1 DEF NoRecord, IsOpen
  <2> DEFINE ws == <<"opened", "seen", "setShim">>
             kinds == Said(ws)
  <2>3. ws \in Seq(What) /\ Enqueue("link", ws)
    BY <2>1 DEF What
  <2>4. kinds = {ws[j] : j \in DOMAIN ws}
    BY DEF Said
  <2> HIDE DEF ws, kinds
  <2>5. ShutInv'
    BY <1>1, <2>2, <2>3, <2>4, SaysShut
  <2> QED BY <2>1, <2>5 DEF AgainInv
<1>4. CASE HearWord
  <2> DEFINE record == [mem EXCEPT !.state = "Live"]
  <2>1. Update("link", record, << >>) /\ UNCHANGED <<linkPc, reopened>>
    BY <1>4 DEF HearWord
  <2>2. record \in Record /\ record.listed = mem.listed
    BY DEF TypeOK, Record, State
  <2> HIDE DEF record
  <2> QED BY <1>1, <2>1, <2>2, UpdateKeepsBoth
<1>5. CASE HearClosing
  <2> DEFINE record == [mem EXCEPT !.state = "Closed"]
  <2>1. /\ Update("link", record, << >>) /\ UNCHANGED reopened
        /\ linkPc' = "checking" => mem.listed
    BY <1>5 DEF HearClosing
  <2>2. record \in Record /\ record.listed = mem.listed
    BY DEF TypeOK, Record, State
  <2> HIDE DEF record
  <2> QED BY <1>1, <2>1, <2>2, UpdateKeepsBoth
<1>6. CASE LinkEnds
  <2> DEFINE record == [mem EXCEPT !.link = FALSE,
                                   !.state = IF @ # "Closed" THEN "Gone" ELSE @]
  <2>1. Update("link", record, << >>) /\ UNCHANGED <<linkPc, reopened>>
    BY <1>6 DEF LinkEnds
  <2>2. record \in Record /\ record.listed = mem.listed
    BY DEF TypeOK, Record, State
  <2> HIDE DEF record
  <2> QED BY <1>1, <2>1, <2>2, UpdateKeepsBoth
<1>7. CASE WindowSeenGone
  <2>1. /\ linkPc = "checking" /\ Enqueue("link", <<"withWindow">>)
        /\ mem' = IF mem.listed THEN [mem EXCEPT !.restorable = TRUE] ELSE mem
        /\ UNCHANGED reopened
    BY <1>7 DEF WindowSeenGone
  <2>2. mem'.listed = mem.listed /\ mem'.state = mem.state
    BY <2>1 DEF TypeOK, Record
  <2> DEFINE ws == <<"withWindow">>
             kinds == {"withWindow"}
  <2>3. ws \in Seq(What) /\ kinds = {ws[j] : j \in DOMAIN ws} /\ Enqueue("link", ws)
    BY <2>1 DEF What
  <2>4. kinds \cap Opens = {} /\ kinds \cap Closes # {}
    BY DEF Opens, Closes
  <2>5. raced => raced'
    BY <2>1 DEF Enqueue
  <2> HIDE DEF ws, kinds
  <2>6. ShutInv'
    BY <1>1, <2>2, <2>3, <2>4, SaysShut DEF ShutInv
  <2>7. AgainInv'
    BY <2>1, <2>5 DEF AgainInv
  <2> QED BY <2>6, <2>7
<1> QED BY <1>2, <1>3, <1>4, <1>5, <1>6, <1>7

\* The threads that wait for tabs, and the replacement of a restored pane.
LEMMA OpenerShut ==
    ASSUME TypeOK, AgreeInv, ShutInv, AgainInv,
           (\E t \in Opener : OpenerStep(t)) \/ Replace
    PROVE  ShutInv' /\ AgainInv'
<1>1. UNCHANGED <<running, row, spare, reopened, linkPc>>
  BY DEF OpenerStep, TabSeen, TabMissing, Replace, store, history
<1>2. CASE \/ \E t \in Opener : TabSeen(t)
           \/ Replace /\ ~mem.listed
  <2>1. UNCHANGED <<mem, writes, raced>>
    BY <1>2 DEF TabSeen, Replace, store, history
  <2> QED BY <1>1, <2>1, SilentShut, AgainStays DEF ShutInv
<1>3. ASSUME NEW t \in Opener, TabMissing(t)
      PROVE  ShutInv' /\ AgainInv'
  <2> DEFINE record == [mem EXCEPT !.state = "Failed"]
  <2>1. Update(t, record, << >>) /\ Free(t) /\ t \in Thread
    BY <1>3 DEF TabMissing, Thread
  <2>2. record \in Record /\ record.listed = mem.listed
    BY DEF TypeOK, Record, State
  <2> HIDE DEF record
  <2> QED BY <1>1, <2>1, <2>2, UpdateKeepsBoth
<1>4. CASE Replace /\ mem.listed
  <2> DEFINE record == [mem EXCEPT !.tab = tab', !.state = "Opening"]
  <2>1. /\ Update("replacer", record, <<"opened">>)
        /\ Free("replacer") /\ "replacer" \in Thread
    BY <1>4 DEF Replace, Thread, Opener
  <2>2. record \in Record /\ record.listed = mem.listed /\ IsOpen(record.state)
    <3>1. tab' \in 0..MaxTabs
      BY <1>4, SessionStoreAssumption DEF Replace, TypeOK
    <3> QED BY <3>1 DEF TypeOK, Record, State, IsOpen
  <2> HIDE DEF record
  <2>3. ShutInv'
    BY <1>1, <2>1, <2>2, UpdateShut
  <2>4. raced => raced'
    BY <1>4, <2>1 DEF Update, Enqueue
  <2> QED BY <1>1, <1>4, <2>3, <2>4, AgainStays
<1> QED BY <1>2, <1>3, <1>4 DEF OpenerStep

\* A session opened again in an earlier run is in no list a pane is answered
\* from.
LEMMA PaneAsksShut ==
    ASSUME TypeOK, Inv, ShutInv, AgainInv, PaneAsks
    PROVE  /\ ShutInv' /\ AgainInv'
           /\ pane' = "held" /\ ~raced => reopened # "before"
<1>1. /\ UNCHANGED <<writes, row, raced, running, linkPc>>
      /\ pane = "asking"
  BY DEF PaneAsks, store
<1>2. CASE pane' = "held"
  <2>1. reopened' = "no"
    BY <1>2 DEF PaneAsks
  <2>2. \/ InMemory /\ mem' = [mem EXCEPT !.state = "Detached", !.restorable = FALSE]
        \/ /\ spare = paneTab
           /\ mem' = IF mem.listed THEN mem
                     ELSE [NoRecord EXCEPT !.listed = TRUE, !.state = "Detached",
                                           !.tab = spare]
    BY <1>2 DEF PaneAsks
  <2>3. mem'.listed
    BY <2>2 DEF InMemory, TypeOK, Record, NoRecord
  <2>4. mem' = mem \/ IsOpen(mem'.state)
    BY <2>2 DEF InMemory, TypeOK, Record, NoRecord, IsOpen
  <2>5. ShutInv'
    BY <1>1, <2>3, <2>4, SilentShut
  <2>6. ~raced => reopened # "before"
    <3>1. paneTab # 0
      BY <1>1 DEF Inv, PaneInv
    <3> QED BY <2>2, <3>1 DEF AgainInv, InMemory
  <2> QED BY <2>1, <2>5, <2>6 DEF AgainInv
<1>3. CASE pane' # "held"
  <2>1. UNCHANGED <<mem, spare, reopened>>
    BY <1>3 DEF PaneAsks
  <2> QED BY <1>1, <1>3, <2>1, SilentShut, AgainStays DEF ShutInv
<1> QED BY <1>2, <1>3

\* What the person does, and the end of the grace period.
LEMMA ActsShut ==
    ASSUME TypeOK, AgreeInv, ShutInv, AgainInv, AskStep \/ GraceEnds
    PROVE  ShutInv' /\ AgainInv'
<1>1. UNCHANGED <<linkPc, running, row, spare>> /\ {"ui", "grace"} \subseteq Thread
  BY DEF AskStep, AskClose, AskExit, ClearFinished, AnswerLost, GraceEnds,
         store, Thread
<1>2. CASE AskClose \/ (AskExit /\ Close(TRUE))
  <2> DEFINE record == [mem EXCEPT !.state = "Closed"]
  <2>1. Free("ui") /\ Update("ui", record, << >>) /\ UNCHANGED reopened
    BY <1>2 DEF AskClose, AskExit, Close, PersonActs
  <2>2. record \in Record /\ record.listed = mem.listed
    BY DEF TypeOK, Record, State
  <2> HIDE DEF record
  <2> QED BY <1>1, <2>1, <2>2, UpdateKeepsBoth
<1>3. CASE AskExit /\ UNCHANGED <<mem, writes, raced>>
  <2>1. reopened' = reopened
    BY <1>3 DEF AskExit
  <2> QED BY <1>1, <1>3, <2>1, SilentShut, AgainStays DEF ShutInv
<1>4. CASE GraceEnds
  <2> DEFINE record == [mem EXCEPT !.state = IF @ = "Detached" THEN "Gone" ELSE @]
  <2>1. Free("grace") /\ Update("grace", record, << >>) /\ UNCHANGED reopened
    BY <1>4 DEF GraceEnds
  <2>2. record \in Record /\ record.listed = mem.listed
    BY DEF TypeOK, Record, State
  <2> HIDE DEF record
  <2> QED BY <1>1, <2>1, <2>2, UpdateKeepsBoth
<1>5. IsOpen(Cleared.state) = IsOpen(mem.state)
      /\ (~Cleared.listed => ~IsOpen(Cleared.state))
      /\ (~mem.listed => ~Cleared.listed)
      /\ (~IsOpen(mem.state) => ~Cleared.listed)
  BY DEF Cleared, NoRecord, IsOpen, ShutInv
<1>6. CASE ClearFinished
  <2>1. UNCHANGED <<writes, raced, reopened>> /\ mem' = Cleared /\ mem.listed
    BY <1>6 DEF ClearFinished, store
  <2> QED BY <1>1, <1>5, <2>1, SilentShut, AgainStays
<1>7. CASE AnswerLost /\ UNCHANGED <<reopened, writes, raced>>
  <2>1. mem' = Cleared
    BY <1>7 DEF AnswerLost
  <2>2. ShutInv'
    BY <1>1, <1>5, <1>7, <2>1, SilentShut
  <2>3. \A t \in Thread : Kinds(t)' = Kinds(t)
    BY <1>7 DEF Kinds
  <2>4. Kinds("ui")' = Kinds("ui")
    BY <1>7 DEF Kinds
  <2>5. AgainInv'
    BY <1>1, <1>5, <1>7, <2>1, <2>3, <2>4 DEF AgainInv
  <2> QED BY <2>2, <2>5
<1>8. CASE /\ AnswerLost /\ Enqueue("ui", <<"notRestorable">>)
           /\ reopened' = IF Over THEN "now" ELSE reopened
  <2> DEFINE ws == <<"notRestorable">>
             kinds == {"notRestorable"}
  <2>1. mem' = Cleared /\ Free("ui") /\ Enqueue("ui", ws)
    BY <1>8 DEF AnswerLost, PersonActs
  <2>2. ws \in Seq(What) /\ kinds = {ws[j] : j \in DOMAIN ws} /\ ws # << >>
    BY DEF What
  <2>3. kinds \cap Opens = {}
    BY DEF Opens
  <2>4. /\ running
        /\ raced' = (raced \/ (ws # << >> /\ \E o \in Thread \ {"ui"} : writes[o] # << >>))
    BY <2>1 DEF Free, Enqueue
  <2> HIDE DEF ws, kinds
  <2>5. ShutInv'
    BY <1>1, <1>5, <2>1, <2>2, <2>3, SaysShut
  <2>6. /\ Kinds("ui")' = kinds
        /\ \A o \in Thread : o # "ui" => writes'[o] = writes[o]
    BY <1>1, <2>1, <2>2, EnqueueKinds DEF TypeOK
  <2>7. ASSUME ~raced'
        PROVE  /\ ~raced
               /\ \A o \in Thread : Kinds(o) = {}
               /\ \A o \in Thread : o # "ui" => Kinds(o)' = {}
    <3>1. ~raced /\ \A o \in Thread : o # "ui" => writes[o] = << >>
      BY <2>2, <2>4, <2>7
    <3>2. \A o \in Thread : writes[o] = << >>
      BY <2>1, <3>1 DEF Free
    <3>3. \A o \in Thread : o # "ui" => writes'[o] = << >>
      BY <2>6, <3>1
    <3> QED BY <3>1, <3>2, <3>3 DEF Kinds
  <2>8. ASSUME ~raced', Over
        PROVE  AgainInv'
    <3>1. ~IsOpen(mem.state) /\ linkPc' # "checking" /\ reopened' = "now"
      BY <1>1, <1>8, <2>8 DEF Over
    <3>2. row.known => row.closed
      BY <2>4, <2>7, <2>8, <3>1 DEF ShutInv
    <3>3. ~mem'.listed
      BY <1>5, <2>1, <3>1
    <3>4. \A t \in Thread : Kinds(t)' \subseteq {"notRestorable"}
      BY <2>6, <2>7, <2>8 DEF kinds
    <3>5. "notRestorable" \in Kinds("ui")'
      BY <2>6 DEF kinds
    <3> QED BY <1>1, <3>1, <3>2, <3>3, <3>4, <3>5 DEF AgainInv
  <2>9. ASSUME ~raced', ~Over
        PROVE  AgainInv'
    <3>1. reopened' = reopened
      BY <1>8, <2>9
    <3>2. reopened # "no" => Over
      <4>1. ~mem.listed => ~mem.link
        BY DEF TypeOK
      <4> QED BY <2>7, <2>9, <4>1 DEF AgainInv, Over, ShutInv
    <3> QED BY <2>9, <3>1, <3>2 DEF AgainInv
  <2>10. raced' => AgainInv'
    BY DEF AgainInv
  <2> QED BY <2>5, <2>8, <2>9, <2>10
<1>9. /\ AskExit => Close(TRUE) \/ UNCHANGED <<mem, writes, raced>>
      /\ AnswerLost => \/ UNCHANGED <<reopened, writes, raced>>
                       \/ /\ Enqueue("ui", <<"notRestorable">>)
                          /\ reopened' = IF Over THEN "now" ELSE reopened
  BY DEF AskExit, AnswerLost
<1> QED BY <1>2, <1>3, <1>4, <1>6, <1>7, <1>8, <1>9 DEF AskStep

\* NativeTerm ends with everything written, or not; the next reads the row.
LEMMA RunsShut ==
    ASSUME TypeOK, Inv, AgreeInv, HoldInv, ShutInv, AgainInv, Stop \/ Start
    PROVE  ShutInv' /\ AgainInv'
<1>1. CASE Stop
  <2>1. /\ ~running' /\ \A t \in Thread : writes'[t] = << >>
        /\ linkPc' = "idle" /\ mem' = NoRecord /\ spare' = 0
        /\ UNCHANGED <<row, raced>>
    BY <1>1 DEF Stop
  <2>2. \A t \in Thread : Kinds(t)' = {}
    BY <2>1 DEF Kinds
  <2>3. ~mem'.listed /\ ~IsOpen(mem'.state)
    BY <2>1 DEF NoRecord, IsOpen
  <2>4. ShutInv'
    BY <2>1, <2>3 DEF ShutInv
  <2>5. AgainInv'
    <3>1. SUFFICES ASSUME reopened' # "no", ~raced
                   PROVE  ~row.restorable /\ (row.known => row.closed)
      BY <2>1, <2>2, <2>3 DEF AgainInv
    <3>2. \/ reopened = "before"
          \/ reopened = "now" /\ \A t \in Thread : writes[t] = << >>
      BY <1>1, <3>1 DEF Stop, TypeOK
    <3>3. CASE reopened = "before"
      BY <3>1, <3>3 DEF AgainInv
    <3>4. CASE reopened = "now" /\ \A t \in Thread : writes[t] = << >>
      <4>1. "ui" \in Thread
        BY DEF Thread
      <4>2. Kinds("ui") = {}
        BY <3>4, <4>1 DEF Kinds
      <4> QED BY <3>1, <3>4, <4>2 DEF AgainInv
    <3> QED BY <3>2, <3>3, <3>4
  <2> QED BY <2>4, <2>5
<1>2. CASE Start
  <2>1. /\ ~running /\ UNCHANGED <<writes, raced, linkPc, reopened>>
    BY <1>2 DEF Start, history
  <2> DEFINE open == row.known /\ ~row.closed
             r == IF open /\ ~ShimAlive
                    THEN [row EXCEPT !.closed = TRUE, !.restorable = TRUE] ELSE row
  <2>2. /\ row' = r
        /\ mem' = IF open /\ ShimAlive
                    THEN [NoRecord EXCEPT !.listed = TRUE, !.state = "Detached",
                                          !.tab = row.tab]
                    ELSE NoRecord
        /\ spare' = IF r.known /\ r.closed /\ r.restorable THEN r.tab ELSE 0
    BY <1>2 DEF Start
  <2>3. r.known = row.known /\ (r.restorable => r.known)
    BY DEF TypeOK, Row, ShutInv
  <2>4. ~(open /\ ShimAlive) => (r.known => r.closed)
    BY DEF TypeOK, Row
  <2>5. /\ ~NoRecord.listed /\ ~IsOpen(NoRecord.state)
        /\ [NoRecord EXCEPT !.listed = TRUE, !.state = "Detached",
                            !.tab = row.tab].listed
        /\ IsOpen([NoRecord EXCEPT !.listed = TRUE, !.state = "Detached",
                                   !.tab = row.tab].state)
    BY DEF NoRecord, IsOpen
  <2>6. ~open => r = row
    OBVIOUS
  <2>7. \A t \in Thread : Kinds(t)' = {}
    BY <2>1 DEF AgreeInv, Quiet, Kinds
  <2> HIDE DEF r
  <2>8. ShutInv'
    BY <2>2, <2>3, <2>4, <2>5, <2>7 DEF ShutInv
  <2>9. AgainInv'
    <3> SUFFICES ASSUME reopened # "no", ~raced
                 PROVE  AgainInv'
      BY <2>1 DEF AgainInv
    <3>1. /\ row.restorable => "notRestorable" \in Kinds("ui")
          /\ row.known => row.closed
          /\ linkPc # "checking"
      BY DEF AgainInv
    <3>2. "ui" \in Thread
      BY DEF Thread
    <3>3. Kinds("ui") = {}
      BY <2>1, <3>2 DEF AgreeInv, Quiet, Kinds
    <3>4. row' = row /\ mem' = NoRecord /\ spare' = 0 /\ ~row.restorable
      BY <2>2, <2>6, <3>1, <3>3
    <3> QED BY <2>1, <2>5, <2>7, <3>1, <3>4 DEF AgainInv
  <2> QED BY <2>8, <2>9
<1> QED BY <1>1, <1>2

\* A lost session opened again in an earlier run is not brought back by a
\* restored pane (Registry::not_restorable), whatever else was asked for and
\* however often NativeTerm crashed since.
THEOREM NoSecondCopyLaterEver == Spec => NoSecondCopyLater
<1>1. Init => ShutInv /\ AgainInv
  BY DEF Init, NoRecord, IsOpen, ShutInv, AgainInv
<1>2. TypeOK /\ Inv /\ AgreeInv /\ HoldInv /\ ShutInv /\ AgainInv /\ [Next]_vars
          => ShutInv' /\ AgainInv'
  <2> SUFFICES ASSUME TypeOK, Inv, AgreeInv, HoldInv, ShutInv, AgainInv, [Next]_vars
               PROVE  ShutInv' /\ AgainInv'
    OBVIOUS
  <2>1. CASE \/ TabAppears \/ ShimStep \/ LinkUp \/ Break \/ WindowStays
             \/ PaneRestored \/ GraceLooks \/ GraceOffers \/ UNCHANGED vars
    BY <2>1, OutsideShut
  <2>2. CASE \/ HearHello \/ HearWord \/ HearClosing \/ WindowSeenGone \/ LinkEnds
    BY <2>2, LinkShut
  <2>3. CASE (\E t \in Opener : OpenerStep(t)) \/ Replace
    BY <2>3, OpenerShut
  <2>4. CASE AskStep \/ GraceEnds
    BY <2>4, ActsShut
  <2>5. CASE Stop \/ Start
    BY <2>5, RunsShut
  <2> QED BY <2>1, <2>2, <2>3, <2>4, <2>5, PaneAsksShut, FlushShut
          DEF Next, LinkStep
<1>3. TypeOK /\ Inv /\ ShutInv /\ AgainInv /\ [Next]_vars
          => (pane = "asking" /\ pane' = "held" /\ ~raced => reopened # "before")
  <2>1. SUFFICES ASSUME TypeOK, Inv, ShutInv, AgainInv, [Next]_vars,
                        pane = "asking", pane' = "held", ~raced
                 PROVE  reopened # "before"
    OBVIOUS
  <2>2. PaneAsks
    BY <2>1 DEF Next, TabAppears, ShimStep, SayWord, TabCloses, ShimEnds,
           WindowGoes, LinkUp, Break, LinkStep, HearHello, HearWord, HearClosing,
           WindowSeenGone, WindowStays, LinkEnds, OpenerStep, TabSeen, TabMissing,
           Answer, Replace, PaneRestored, AskStep, AskClose, AskExit, ClearFinished,
           AnswerLost, Stop, Start, GraceLooks, GraceEnds, GraceOffers, Flush,
           panes, vars
  <2> QED BY <2>1, <2>2, PaneAsksShut
<1> QED BY <1>1, <1>2, <1>3, AgreeAlways, StoreTypeCorrect, TabsAgree, PTL
        DEF Spec, NoSecondCopyLater
=============================================================================
