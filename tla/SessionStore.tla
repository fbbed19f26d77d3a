---------------------------- MODULE SessionStore ----------------------------
(***************************************************************************)
(* What becomes of one session over several runs of NativeTerm: its tab    *)
(* and shim, the record in memory, its row in state.db, and the offers     *)
(* made from both - a tab still there is taken back, one closed with its   *)
(* window is opened again when the terminal restores the pane, one lost is *)
(* offered to the person.                                                  *)
(*                                                                         *)
(* Shared::update changes the record under the lock and writes the row     *)
(* after unlocking (native-term-app/src/lib.rs), so each thread's writes   *)
(* are a queue of their own here, and the threads' writes interleave.  A   *)
(* crash of NativeTerm loses the ones not done.                            *)
(*                                                                         *)
(* Coarser than SessionLink: of the shim's words only Hello, Closing and   *)
(* "a word that says ssh waits, runs or has ended" are told apart.  The    *)
(* tabs of the session are numbered; number n stands for the terminal's    *)
(* GUID of the n-th.  A second request for a tab that didn't show (resend) *)
(* and the seven days after which a row is forgotten are left out.         *)
(***************************************************************************)
EXTENDS Naturals, Sequences

CONSTANTS
    MaxTabs,         \* bound: tabs opened for the session
    MaxStarts,       \* bound: times NativeTerm is started again
    MaxEvents,       \* bound: words of the shims, and breaks of the link with
                     \* both ends alive, together
    MaxActs,         \* bound: things the person does
    MaxRestores      \* bound: panes the terminal restores

ASSUME SessionStoreAssumption ==
    /\ MaxTabs \in Nat \ {0}
    /\ {MaxStarts, MaxEvents, MaxActs, MaxRestores} \subseteq Nat

VARIABLES
    \* the newest tab and its shim
    tab,             \* its number
    shim,            \* "asked", "alive", "closing", "gone"
    window,          \* the tab's window is there
    \* the link
    wire,            \* "down", "up", "closing"
    up,
    events,
    \* a pane the terminal restored: a shim without a host
    pane,            \* "none", "asking", "held", "closed", "shell"
    paneTab,         \* the number of the tab it was
    restores,
    \* NativeTerm
    running,
    starts,
    mem,             \* the record in memory
    spare,           \* the tab of the session in the list of restorable
                     \* sessions read at the start, 0 for none
    lost,            \* the session is offered to be opened again
    linkPc,          \* the connection's thread: "idle", "checking"
    opening,         \* the threads that wait for the tab they asked for
    grace,           \* "waiting", "saw" (a detached session), "marked", "done"
    told,            \* a Close is on its way to the shim
    leaving,         \* NativeTerm is exiting
    writes,          \* per thread, what it has to write to the row
    row,             \* state.db
    \* the person, and what the properties remember
    acts,
    reopened,        \* the session was opened again as a lost one, and was over:
                     \* "no", "now" (in this run), "before" (and everything was
                     \* written when that run ended)
    tookWindow,      \* the tab was seen closing, and its window gone
    raced            \* two threads had writes at the same time

tabs == <<tab, shim, window>>
link == <<wire, up, events>>
panes == <<pane, paneTab, restores>>
app == <<running, starts, mem, spare, lost, linkPc, opening, grace, told, leaving>>
store == <<writes, row>>
history == <<acts, reopened, tookWindow, raced>>
vars == <<tabs, link, panes, app, store, history>>

\* "Live" stands for Waiting, Connecting, Connected and the ends of ssh.
State == {"Opening", "Detached", "Live", "Failed", "Gone", "Closed"}

IsOpen(state) == state \in {"Opening", "Detached", "Live"}

Record == [listed : BOOLEAN, state : State, restorable : BOOLEAN,
           link : BOOLEAN, tab : 0..MaxTabs]

NoRecord == [listed |-> FALSE, state |-> "Closed", restorable |-> FALSE,
             link |-> FALSE, tab |-> 0]

\* Of them, these wait for tabs: of those the person opened, and of those in
\* the place of restored panes.
Opener == {"opener", "replacer"}

Thread == {"link", "ui", "grace"} \cup Opener

\* What is written, and the number of the tab it tells of.
Write == [what : {"opened", "seen", "setShim", "closed", "withWindow",
                  "notRestorable"},
          tab : 0..MaxTabs]

\* shim: the number of the tab whose shim was linked last, 0 for none yet.
Row == [known : BOOLEAN, closed : BOOLEAN, restorable : BOOLEAN,
        tab : 0..MaxTabs, shim : 0..MaxTabs]

\* The types; a row that can be restored is closed, and a session with a link
\* is in the list.
TypeOK ==
    /\ row.restorable => row.closed
    /\ mem.link => mem.listed
    /\ tab \in 1..MaxTabs
    /\ shim \in {"asked", "alive", "closing", "gone"}
    /\ window \in BOOLEAN
    /\ wire \in {"down", "up", "closing"}
    /\ up \in Seq({"Hello", "Word", "Closing"})
    /\ events \in 0..MaxEvents
    /\ pane \in {"none", "asking", "held", "closed", "shell"}
    /\ paneTab \in 0..MaxTabs
    /\ restores \in 0..MaxRestores
    /\ running \in BOOLEAN
    /\ starts \in 0..MaxStarts
    /\ mem \in Record
    /\ spare \in 0..MaxTabs
    /\ lost \in BOOLEAN
    /\ linkPc \in {"idle", "checking"}
    /\ opening \subseteq Opener
    /\ grace \in {"waiting", "saw", "marked", "done"}
    /\ told \in BOOLEAN
    /\ leaving \in BOOLEAN
    /\ writes \in [Thread -> Seq(Write)]
    /\ row \in Row
    /\ acts \in 0..MaxActs
    /\ reopened \in {"no", "now", "before"}
    /\ tookWindow \in BOOLEAN
    /\ raced \in BOOLEAN

\* A tab was just asked for: its record is in memory, its row is not written.
Init ==
    /\ tab = 1
    /\ shim = "asked"
    /\ window = TRUE
    /\ wire = "down"
    /\ up = << >>
    /\ events = 0
    /\ pane = "none"
    /\ paneTab = 0
    /\ restores = 0
    /\ running = TRUE
    /\ starts = 0
    /\ mem = [NoRecord EXCEPT !.listed = TRUE, !.state = "Opening", !.tab = 1]
    /\ spare = 0
    /\ lost = FALSE
    /\ linkPc = "idle"
    /\ opening = {"opener"}
    /\ grace = "done"
    /\ told = FALSE
    /\ leaving = FALSE
    /\ writes = [t \in Thread |-> IF t = "ui" THEN <<[what |-> "opened", tab |-> 1]>>
                                             ELSE << >>]
    /\ row = [known |-> FALSE, closed |-> FALSE, restorable |-> FALSE,
              tab |-> 0, shim |-> 0]
    /\ acts = 0
    /\ reopened = "no"
    /\ tookWindow = FALSE
    /\ raced = FALSE

-----------------------------------------------------------------------------
(* Changing the record, and the writes that follow.                        *)

\* A thread goes on once it has written what it had to.
Free(t) == running /\ writes[t] = << >>

Enqueue(t, ws) ==
    /\ writes' = [writes EXCEPT ![t] = @ \o
                     [i \in DOMAIN ws |-> [what |-> ws[i], tab |-> mem'.tab]]]
    /\ raced' = (raced \/ (ws # << >> /\ \E o \in Thread \ {t} : writes[o] # << >>))

\* Wrong variant: a session that comes back isn't recorded.
EndedOrBackEnded(before, after) ==
    IF IsOpen(before) /\ ~IsOpen(after) THEN <<"closed">> ELSE << >>

\* What Shared::update writes for a change of the state.
EndedOrBack(before, after) ==
    CASE IsOpen(before) /\ ~IsOpen(after) -> <<"closed">>
      [] ~IsOpen(before) /\ IsOpen(after) -> <<"seen">>
      [] OTHER -> << >>

\* A session no longer in the list is left alone.
Update(t, record, then) ==
    IF mem.listed
      THEN /\ mem' = record
           /\ Enqueue(t, EndedOrBack(mem.state, record.state) \o then)
      ELSE UNCHANGED <<mem, writes, raced>>

\* Wrong variant: a session that comes back keeps its mark for restoring.
WrittenKeeps(r, w) ==
    IF ~r.known /\ w.what # "opened" THEN r
    ELSE CASE w.what = "opened" -> [r EXCEPT !.known = TRUE, !.closed = FALSE,
                                             !.restorable = FALSE, !.tab = w.tab]
           [] w.what = "seen" -> [r EXCEPT !.closed = FALSE, !.tab = w.tab]
           [] w.what = "setShim" -> [r EXCEPT !.shim = w.tab]
           [] w.what = "closed" -> [r EXCEPT !.closed = TRUE]
           [] w.what = "withWindow" -> [r EXCEPT !.closed = TRUE, !.restorable = TRUE]
           [] w.what = "notRestorable" -> [r EXCEPT !.restorable = FALSE]

\* One statement of the registry, on the row with the session's id.  Opening
\* the session leaves the shim recorded last.
Written(r, w) ==
    IF ~r.known /\ w.what # "opened" THEN r
    ELSE CASE w.what = "opened" -> [r EXCEPT !.known = TRUE, !.closed = FALSE,
                                             !.restorable = FALSE, !.tab = w.tab]
           [] w.what = "seen" -> [r EXCEPT !.closed = FALSE, !.restorable = FALSE,
                                           !.tab = w.tab]
           [] w.what = "setShim" -> [r EXCEPT !.shim = w.tab]
           [] w.what = "closed" -> [r EXCEPT !.closed = TRUE]
           [] w.what = "withWindow" -> [r EXCEPT !.closed = TRUE, !.restorable = TRUE]
           [] w.what = "notRestorable" -> [r EXCEPT !.restorable = FALSE]

Flush(t) ==
    /\ running
    /\ writes[t] # << >>
    /\ row' = Written(row, Head(writes[t]))
    /\ writes' = [writes EXCEPT ![t] = Tail(@)]
    /\ UNCHANGED <<tabs, link, panes, app, history>>

-----------------------------------------------------------------------------
(* The tab, its window and its shim.                                       *)

\* The row of a tab is written before the terminal is asked for it.
Unwritten == \E t \in {"ui", "replacer"} : \E i \in DOMAIN writes[t] :
                 writes[t][i].what = "opened"

TabAppears ==
    /\ shim = "asked" /\ ~Unwritten
    /\ shim' = "alive"
    /\ UNCHANGED <<tab, window, link, panes, app, store, history>>

SayWord ==
    /\ shim \in {"alive", "closing"}
    /\ wire = "up"
    /\ events < MaxEvents
    /\ events' = events + 1
    /\ up' = Append(up, "Word")
    /\ UNCHANGED <<tabs, wire, panes, app, store, history>>

\* The console's close handler says so.
TabCloses ==
    /\ shim = "alive"
    /\ shim' = "closing"
    /\ up' = IF wire = "up" THEN Append(up, "Closing") ELSE up
    /\ UNCHANGED <<tab, window, wire, events, panes, app, store, history>>

\* Its process ends: closed, told to, killed or crashed.
ShimEnds ==
    /\ shim \in {"alive", "closing"}
    /\ shim' = "gone"
    /\ wire' = IF wire = "up" THEN "closing" ELSE wire
    /\ UNCHANGED <<tab, window, up, events, panes, app, store, history>>

WindowGoes ==
    /\ shim \in {"closing", "gone"}
    /\ window
    /\ window' = FALSE
    /\ UNCHANGED <<tab, shim, link, panes, app, store, history>>

-----------------------------------------------------------------------------
(* The link and its thread (handle_connection).                            *)

LinkUp ==
    /\ running /\ ~leaving
    /\ wire = "down"
    /\ shim \in {"alive", "closing"}
    /\ wire' = "up"
    /\ up' = <<"Hello">>
    /\ UNCHANGED <<tabs, events, panes, app, store, history>>

Break ==
    /\ wire = "up"
    /\ events < MaxEvents
    /\ events' = events + 1
    /\ wire' = "closing"
    /\ told' = FALSE
    /\ UNCHANGED <<tabs, up, panes, running, starts, mem, spare, lost, linkPc,
                   opening, grace, leaving, store, history>>

LinkFree == Free("link") /\ linkPc = "idle"

Linked == [mem EXCEPT !.link = TRUE, !.tab = tab,
                      !.state = IF ~IsOpen(@) \/ @ = "Detached" THEN "Live" ELSE @]

\* Wrong variant: a shim whose session isn't in the list is left alone.
HearHelloKnown ==
    /\ LinkFree
    /\ up # << >> /\ Head(up) = "Hello"
    /\ up' = Tail(up)
    /\ Update("link", Linked, <<"seen", "setShim">>)
    /\ tookWindow' = FALSE
    /\ UNCHANGED <<tabs, wire, events, panes, running, starts, spare, lost,
                   linkPc, opening, grace, told, leaving, row, acts, reopened>>

\* A session that isn't known (any more) is adopted.
HearHello ==
    /\ LinkFree
    /\ up # << >> /\ Head(up) = "Hello"
    /\ up' = Tail(up)
    /\ IF mem.listed
         THEN Update("link", Linked, <<"seen", "setShim">>)
         ELSE /\ mem' = [NoRecord EXCEPT !.listed = TRUE, !.state = "Live",
                                         !.link = TRUE, !.tab = tab]
              /\ Enqueue("link", <<"opened", "seen", "setShim">>)
    /\ tookWindow' = FALSE
    /\ reopened' = "no"
    /\ UNCHANGED <<tabs, wire, events, panes, running, starts, spare, lost,
                   linkPc, opening, grace, told, leaving, row, acts>>

HearWord ==
    /\ LinkFree
    /\ up # << >> /\ Head(up) = "Word"
    /\ up' = Tail(up)
    /\ Update("link", [mem EXCEPT !.state = "Live"], << >>)
    /\ UNCHANGED <<tabs, wire, events, panes, running, starts, spare, lost,
                   linkPc, opening, grace, told, leaving, row, acts, reopened,
                   tookWindow>>

\* Where the tab's window is known, the thread looks for ten seconds whether
\* it goes too, and reads nothing meanwhile.
HearClosing ==
    /\ LinkFree
    /\ up # << >> /\ Head(up) = "Closing"
    /\ up' = Tail(up)
    /\ Update("link", [mem EXCEPT !.state = "Closed"], << >>)
    /\ linkPc' \in (IF mem.listed THEN {"checking", "idle"} ELSE {"idle"})
    /\ UNCHANGED <<tabs, wire, events, panes, running, starts, spare, lost,
                   opening, grace, told, leaving, row, acts, reopened,
                   tookWindow>>

WindowSeenGone ==
    /\ Free("link") /\ linkPc = "checking"
    /\ linkPc' = "idle"
    /\ ~window
    /\ mem' = IF mem.listed THEN [mem EXCEPT !.restorable = TRUE] ELSE mem
    /\ Enqueue("link", <<"withWindow">>)
    /\ tookWindow' = TRUE
    /\ UNCHANGED <<tabs, link, panes, running, starts, spare, lost, opening,
                   grace, told, leaving, row, acts, reopened>>

WindowStays ==
    /\ Free("link") /\ linkPc = "checking"
    /\ linkPc' = "idle"
    /\ window
    /\ UNCHANGED <<tabs, link, panes, running, starts, mem, spare, lost,
                   opening, grace, told, leaving, store, history>>

LinkEnds ==
    /\ LinkFree
    /\ wire = "closing" /\ up = << >>
    /\ wire' = "down"
    /\ Update("link",
              [mem EXCEPT !.link = FALSE,
                          !.state = IF @ # "Closed" THEN "Gone" ELSE @],
              << >>)
    /\ UNCHANGED <<tabs, up, events, panes, running, starts, spare, lost,
                   linkPc, opening, grace, told, leaving, row, acts, reopened,
                   tookWindow>>

-----------------------------------------------------------------------------
(* The thread that waits for a tab asked for (open_tabs), and the one that *)
(* replaces a restored pane.                                               *)

\* The pane is told to close: the tab in its place is there.
Answer(t, with) == pane' = IF t = "replacer" /\ pane = "held" THEN with ELSE pane

TabSeen(t) ==
    /\ Free(t) /\ t \in opening /\ ~Unwritten
    /\ shim # "asked" \/ ~(mem.listed /\ mem.state = "Opening" /\ ~mem.link)
    /\ opening' = opening \ {t}
    /\ Answer(t, "closed")
    /\ UNCHANGED <<tabs, link, paneTab, restores, running, starts, mem, spare,
                   lost, linkPc, grace, told, leaving, store, history>>

\* Wrong variant: the pane waits on.
TabMissingKeeps(t) ==
    /\ Free(t) /\ t \in opening /\ ~Unwritten
    /\ mem.listed /\ mem.state = "Opening" /\ ~mem.link
    /\ opening' = opening \ {t}
    /\ Update(t, [mem EXCEPT !.state = "Failed"], << >>)
    /\ UNCHANGED <<tabs, link, panes, running, starts, spare, lost,
                   linkPc, grace, told, leaving, row, acts, reopened, tookWindow>>

\* It didn't show in time; the pane becomes a local shell.
TabMissing(t) ==
    /\ Free(t) /\ t \in opening /\ ~Unwritten
    /\ mem.listed /\ mem.state = "Opening" /\ ~mem.link
    /\ opening' = opening \ {t}
    /\ Answer(t, "shell")
    /\ Update(t, [mem EXCEPT !.state = "Failed"], << >>)
    /\ UNCHANGED <<tabs, link, paneTab, restores, running, starts, spare, lost,
                   linkPc, grace, told, leaving, row, acts, reopened, tookWindow>>

\* Wrong variant: the tab in the pane's place isn't written down.
ReplaceUnwritten ==
    /\ Free("replacer") /\ "replacer" \notin opening /\ pane = "held"
    /\ mem.listed /\ tab < MaxTabs
    /\ tab' = tab + 1
    /\ shim' = "asked" /\ window' = TRUE
    /\ opening' = opening \cup {"replacer"}
    /\ Update("replacer", [mem EXCEPT !.tab = tab', !.state = "Opening"], << >>)
    /\ UNCHANGED <<link, panes, running, starts, spare, lost, linkPc,
                   grace, told, leaving, row, acts, reopened, tookWindow>>

\* A new tab, with the same session and a number of its own.
Replace ==
    /\ Free("replacer") /\ "replacer" \notin opening /\ pane = "held"
    /\ IF mem.listed
         THEN /\ tab < MaxTabs
              /\ tab' = tab + 1
              /\ shim' = "asked" /\ window' = TRUE
              /\ opening' = opening \cup {"replacer"}
              /\ Update("replacer", [mem EXCEPT !.tab = tab', !.state = "Opening"],
                        <<"opened">>)
              /\ tookWindow' = FALSE
              /\ UNCHANGED pane
         ELSE /\ pane' = "closed"
              /\ UNCHANGED <<tab, shim, window, opening, mem, writes, raced,
                             tookWindow>>
    /\ UNCHANGED <<link, paneTab, restores, running, starts, spare, lost,
                   linkPc, grace, told, leaving, row, acts, reopened>>

\* The terminal brings back the pane of a tab that went with its window.  It
\* starts anew for that, seconds later: by then NativeTerm has heard the link
\* to its end.
PaneRestored ==
    /\ shim = "gone" /\ ~window
    /\ wire = "down"
    /\ pane # "asking" /\ pane # "held"
    /\ restores < MaxRestores
    /\ restores' = restores + 1
    /\ pane' = "asking"
    /\ paneTab' = tab
    /\ UNCHANGED <<tabs, link, app, store, history>>

InMemory == /\ mem.listed /\ ~mem.link /\ mem.tab = paneTab
            /\ mem.state = "Detached" \/ (mem.restorable /\ ~IsOpen(mem.state))

\* A shim without a host: of a session that can be restored, or a local shell.
PaneAsks ==
    /\ running /\ ~leaving
    /\ pane = "asking"
    /\ \/ /\ InMemory
          /\ pane' = "held"
          /\ mem' = [mem EXCEPT !.state = "Detached", !.restorable = FALSE]
          /\ UNCHANGED spare
       \/ /\ ~InMemory /\ spare = paneTab
          /\ pane' = "held"
          /\ mem' = IF mem.listed THEN mem
                    ELSE [NoRecord EXCEPT !.listed = TRUE, !.state = "Detached",
                                          !.tab = spare]
          /\ spare' = 0
       \/ /\ ~InMemory /\ spare # paneTab
          /\ pane' = "shell"
          /\ UNCHANGED <<mem, spare>>
    /\ reopened' = IF pane' = "held" THEN "no" ELSE reopened
    /\ UNCHANGED <<tabs, link, paneTab, restores, running, starts, lost, linkPc,
                   opening, grace, told, leaving, store, acts, tookWindow, raced>>

-----------------------------------------------------------------------------
(* The person.                                                             *)

PersonActs == Free("ui") /\ ~leaving /\ acts < MaxActs /\ acts' = acts + 1

\* With a link the shim is told; without, the terminal closes the tab.
Close(then) ==
    /\ mem.listed /\ IsOpen(mem.state)
    /\ told' = (mem.link /\ wire = "up")
    /\ Update("ui", [mem EXCEPT !.state = "Closed"], << >>)
    /\ leaving' = then

AskClose ==
    /\ PersonActs
    /\ Close(FALSE)
    /\ UNCHANGED <<tabs, link, panes, running, starts, spare, lost, linkPc,
                   opening, grace, row, reopened, tookWindow>>

\* Exit closes every tab first, if the setting says so.
AskExit ==
    /\ PersonActs
    /\ \/ Close(TRUE)
       \/ leaving' = TRUE /\ UNCHANGED <<mem, told, writes, raced>>
    /\ UNCHANGED <<tabs, link, panes, running, starts, spare, lost, linkPc,
                   opening, grace, row, reopened, tookWindow>>

Cleared == IF IsOpen(mem.state) THEN mem ELSE NoRecord

ClearFinished ==
    /\ PersonActs
    /\ mem.listed /\ ~IsOpen(mem.state)
    /\ mem' = Cleared
    /\ UNCHANGED <<tabs, link, panes, running, starts, spare, lost, linkPc,
                   opening, grace, told, leaving, store, reopened, tookWindow,
                   raced>>

\* The session isn't open or linked any more, nor is its window looked for.
Over == ~mem.link /\ ~IsOpen(mem.state) /\ linkPc # "checking"

\* Opened again (as another session), or left.
\*
\* Wrong variant: the row stays as it was.
AnswerLostUnwritten ==
    /\ PersonActs
    /\ lost
    /\ lost' = FALSE
    /\ mem' = Cleared
    /\ reopened' = IF Over THEN "now" ELSE reopened
    /\ UNCHANGED <<tabs, link, panes, running, starts, spare, linkPc, opening,
                   grace, told, leaving, store, tookWindow, raced>>

AnswerLost ==
    /\ PersonActs
    /\ lost
    /\ lost' = FALSE
    /\ mem' = Cleared
    /\ \/ /\ reopened' = IF Over THEN "now" ELSE reopened
          /\ Enqueue("ui", <<"notRestorable">>)
       \/ UNCHANGED <<reopened, writes, raced>>
    /\ UNCHANGED <<tabs, link, panes, running, starts, spare, linkPc, opening,
                   grace, told, leaving, row, tookWindow>>

-----------------------------------------------------------------------------
(* NativeTerm's runs.                                                      *)

\* It ends: exited, killed or crashed.  The restored pane asks the next one; a
\* tab whose row wasn't written yet is never asked for.
Stop ==
    /\ running
    /\ running' = FALSE
    /\ IF shim = "asked" /\ Unwritten
         THEN shim' = "gone" /\ window' = FALSE
         ELSE UNCHANGED <<shim, window>>
    /\ leaving' = FALSE
    /\ wire' = "down"
    /\ up' = << >>
    /\ mem' = NoRecord
    /\ spare' = 0
    /\ lost' = FALSE
    /\ linkPc' = "idle"
    /\ opening' = {}
    /\ grace' = "done"
    /\ UNCHANGED told
    /\ writes' = [t \in Thread |-> << >>]
    /\ pane' = IF pane = "held" THEN "asking" ELSE pane
    /\ reopened' = IF reopened # "now" THEN reopened
                   ELSE IF \A t \in Thread : writes[t] = << >> THEN "before" ELSE "no"
    /\ UNCHANGED <<tab, events, paneTab, restores, starts, row, acts,
                   tookWindow, raced>>

\* Whether the shim recorded for the session still runs; unknown: assumed.
ShimAlive == row.shim = 0 \/ (row.shim = tab /\ shim \in {"alive", "closing"})

\* An open session whose shim has gone was closed with its window, as far as
\* anyone knows; it is offered, and may still be restored.
Start ==
    /\ ~running
    /\ starts < MaxStarts
    /\ starts' = starts + 1
    /\ running' = TRUE
    /\ LET open == row.known /\ ~row.closed
           r == IF open /\ ~ShimAlive
                  THEN [row EXCEPT !.closed = TRUE, !.restorable = TRUE] ELSE row
       IN /\ row' = r
          /\ lost' = (open /\ ~ShimAlive)
          /\ mem' = IF open /\ ShimAlive
                      THEN [NoRecord EXCEPT !.listed = TRUE, !.state = "Detached",
                                            !.tab = row.tab]
                      ELSE NoRecord
          /\ spare' = IF r.known /\ r.closed /\ r.restorable THEN r.tab ELSE 0
    /\ grace' = "waiting"
    /\ UNCHANGED <<tabs, link, panes, linkPc, opening, told, leaving, writes,
                   history>>

\* The grace period is over. The list of detached sessions is taken, then each
\* is looked at again; all of the list are offered.
GraceLooks ==
    /\ running
    /\ grace = "waiting"
    /\ grace' = IF mem.listed /\ mem.state = "Detached" THEN "saw" ELSE "done"
    /\ UNCHANGED <<tabs, link, panes, running, starts, mem, spare, lost, linkPc,
                   opening, told, leaving, store, history>>

GraceEnds ==
    /\ Free("grace")
    /\ grace = "saw"
    /\ grace' = "marked"
    /\ Update("grace",
              [mem EXCEPT !.state = IF @ = "Detached" THEN "Gone" ELSE @], << >>)
    /\ UNCHANGED <<tabs, link, panes, running, starts, spare, lost, linkPc,
                   opening, told, leaving, row, acts, reopened, tookWindow>>

GraceOffers ==
    /\ Free("grace")
    /\ grace = "marked"
    /\ grace' = "done"
    /\ lost' = TRUE
    /\ UNCHANGED <<tabs, link, panes, running, starts, mem, spare, linkPc,
                   opening, told, leaving, store, history>>

-----------------------------------------------------------------------------
ShimStep == SayWord \/ TabCloses \/ ShimEnds \/ WindowGoes

LinkStep == \/ HearHello \/ HearWord \/ HearClosing \/ WindowSeenGone
            \/ WindowStays \/ LinkEnds

OpenerStep(t) == TabSeen(t) \/ TabMissing(t)

AskStep == AskClose \/ AskExit \/ ClearFinished \/ AnswerLost

Next == \/ TabAppears \/ ShimStep
        \/ LinkUp \/ Break \/ LinkStep
        \/ (\E t \in Opener : OpenerStep(t)) \/ Replace \/ PaneRestored \/ PaneAsks
        \/ AskStep
        \/ Stop \/ Start \/ GraceLooks \/ GraceEnds \/ GraceOffers
        \/ \E t \in Thread : Flush(t)

Spec == Init /\ [][Next]_vars

(* NativeTerm's threads run; a shim told to close does; NativeTerm is      *)
(* started again where a pane or a tab waits for it (a shim without a host *)
(* starts it).                                                             *)
Fairness ==
    /\ WF_vars(LinkUp)
    /\ WF_vars(LinkStep)
    /\ \A t \in Opener : WF_vars(OpenerStep(t))
    /\ WF_vars(Replace)
    /\ WF_vars(PaneAsks)
    /\ WF_vars(GraceLooks) /\ WF_vars(GraceEnds \/ GraceOffers)
    /\ WF_vars(told /\ ShimEnds)
    /\ WF_vars(Start)
    /\ \A t \in Thread : WF_vars(Flush(t))

FairSpec == Spec /\ Fairness

-----------------------------------------------------------------------------
(* Properties.                                                             *)

Quiet == \A t \in Thread : writes[t] = << >>

\* Once every thread has written what it had to, the row says open exactly
\* when the record in memory does - unless two threads had writes at once, or
\* a restored pane is held, whose session is only written when its new tab is
\* asked for.  (Shared::update writes after unlocking.)
RecordsAgree ==
    running /\ mem.listed /\ row.known /\ Quiet /\ ~raced /\ pane # "held"
        => row.closed = ~IsOpen(mem.state)

\* No new tab is asked for in place of a restored pane while the session's own
\* tab may still be there, whatever NativeTerm crashed in the middle of.
NoSecondTab == [][tab' # tab => shim = "gone"]_vars

\* A lost session opened again in an earlier run is not brought back by a pane
\* the terminal restores later - unless two threads had writes at once, or its
\* window was still looked for (Over).
NoSecondCopyLater ==
    [][pane = "asking" /\ pane' = "held" /\ ~raced => reopened # "before"]_vars

\* A tab that stays gets its link, and its session is in the list, however
\* often NativeTerm was restarted and whatever the row says.
TabIsTakenBack ==
    running /\ ~leaving /\ shim = "alive"
        ~> mem.link \/ ~running \/ leaving \/ shim # "alive"

\* A restored pane is closed, or becomes a local shell.
PaneIsAnswered ==
    running /\ ~leaving /\ pane \in {"asking", "held"}
        ~> pane \in {"closed", "shell"} \/ ~running \/ leaving

\* However NativeTerm is restarted, neither tab nor pane waits for ever.
NoneIsLeftWaiting == TabIsTakenBack /\ PaneIsAnswered

\* docs/ARCHITECTURE.md: a session closed with its window stays replaceable.
WindowClosedIsRestorable ==
    tookWindow /\ Quiet /\ running /\ pane = "none" /\ linkPc = "idle"
    /\ wire = "down" /\ reopened = "no"
        => row.restorable

\* docs/ARCHITECTURE.md: a lost session that was opened again leaves a pane
\* the terminal restores a local shell.
NoSecondCopy ==
    [][pane = "asking" /\ pane' = "held" => reopened # "now"]_vars
=============================================================================
