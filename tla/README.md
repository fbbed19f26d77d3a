# NativeTerm: a TLA+ model of its sessions, files and stores

NativeTerm keeps a tree of ssh hosts and opens each session in a tab of the
user's own terminal. A helper process in the tab, the *shim*, runs ssh there,
supervises it, and keeps a pipe to NativeTerm, which may be closed, killed and
started again while the tabs live on. Around the sessions are a files window
that copies and edits files over SFTP, the ssh config files the hosts are kept
in, a data directory that machines may share, the questions of a login, and
ZMODEM transfers inside a tab.

This directory models how these parts stay in agreement: what a tab does, what
NativeTerm believes of it, what both do after a break, a crash or a restart, and
what is on disk in between. The modules are checked with TLC, and theorems about
the ones listed in section 5 are proved with TLAPS.

All paths below are under `src/crates/`.

## 1. The system

### Parts, state and operations

| Part | State it keeps | Operations |
|---|---|---|
| Words (`native-term-session/src/protocol.rs`, `lib.rs`) | none | the messages both ways; `classify_exit` |
| Shim, link (`native-term-shim/src/link.rs`) | the connection, the remembered words (`Replay`), what arrived | `send`/`remember`, connect every `RETRY` (2 s) with Hello and the remembered words, read, `drain`, hang up |
| Shim, main thread (`native-term-shim/src/main.rs`) | the attempt, the ssh child, the login event | `run` (with the close handler), `run_host`, `supervise`, `after_exit`, `run_without_host`; the helper `authenticated` is a process of its own |
| Login questions (`native-term-shim/src/saved.rs`, `hostkey.rs`, `askpass.rs`; `native-term-app/src/password_ask.rs`, `host_key_ask.rs`) | what the shim's pipe serves (`Armed`), the stored passwords with their refused marks, `known_hosts`, the key trusted once | ssh's questions answered from the store, by a window, or in the tab; a refused password marked, a used one kept, the key taken out again |
| ZMODEM (`native-term-shim/src/zmodem.rs`) | the helper's loop and clocks, the part `NAME.ntpart` | `receive`, `send`, cancel, drain, give up, rename |
| NativeTerm, sessions (`native-term-app/src/lib.rs`) | a list of `Session` under one lock; the links | one thread per connection (`handle_connection`, `apply`), the person's commands (`connect`, `disconnect`, `close`, `send_text`, `close_all`, ...) |
| Automatic reconnect (same file) | `auto_retries`, `retry_attempt`, `connected_at`, sleeping threads | `schedule_reconnect`, `next_retry`, `retrying` |
| Connection queue (`native-term-app/src/connect_queue.rs`) | a channel, a list of pending sessions | one thread, `run`: take, choose (`ready`), wait for a slot, tell, mark, put back |
| state.db and restoring (`native-term-app/src/registry.rs`, `lib.rs`) | a row per session; in memory the restorable and the lost sessions | `update` and its writes, the start with its grace period, `open_tabs`, panes a terminal restores (`replace_placeholders`), lost sessions |
| Transfers (`native-term-sftp/src/transfer.rs`, `lib.rs`; the jobs of `native-term-app/src/files_window.rs`) | the slots of a connection, a job's plan and place, its workers, parts and files | plan, make folders, take, wait for a turn, copy, rename; pause, resume, cancel, discard, change the width |
| Edited files (`native-term-app/src/files_window.rs`) | the copy here, the time of the file there, the flags shared with the window | open, look every 700 ms, compare, upload beside, rename or write in place; Overwrite, close |
| ssh config files (`native-term-config/src/ops.rs`, `write.rs`, `tree.rs`, ...) | the files, the tree of hosts as loaded | the `Editor`'s operations, each a list of edits: read, compare, replace, let ssh check, undo |
| Data directory (`native-term-app/src/data_lock.rs`, `settings.rs`, `data_dir.rs`, `main.rs`) | the pointer to it, the lock's file, `settings.toml` | start, take over, choose and save, move, quit |
| Importers, session log, proxies, terminals, windows, OS services, translations | see `PROJECT.json` | not modelled (section 6) |

### How they interact

The shim talks to NativeTerm by messages over the pipe; NativeTerm's threads
share the session list under a lock which they let go between reading and
acting; writes to `state.db` come after unlocking; the queue is reached through
a channel; the login helper has a connection of its own beside the shim's. The
terminal is only asked, and the person may act in the tab or at the window at
any time. A question of ssh goes from ssh through a pipe to the shim, perhaps on
to a window of NativeTerm's, and back; the window outlives the ssh that asked.
The workers of a transfer share a list of items, an error, two flags and the
slots of their connection, and write files that the next job may write again.
The thread that watches an edited file and the window share three flags. The
config files, the data directory and the files on a server are also changed by
others, with whom nothing is shared but the file system.

### What is hard

* **Replay.** NativeTerm learns all it knows of a running tab from the words the
  link repeats. They must be true, in order, and harmless when heard twice.
* **Two ways for one fact.** A login arrives from the helper and from the shim.
* **A word lost with its link.** Connect may be; so NativeTerm remembers that it
  told the shim, and tells again - but a tab that only waits must not connect.
* **Look, unlock, act.** Timer, queue, grace period and database threads all act
  on what they saw before; so do the edited file's thread (the time on the
  server), an edit of a config file (what was read), and the lock's removal.
* **Crashes** between the change of a record, its row, and what the terminal is
  asked for; between the two files of a move; between a part and its rename;
  **restored panes** that turn up in the middle.
* **Going on** with what was left half done: parts of transfers and of ZMODEM,
  the place in a plan, a password that was refused, a key trusted once.
* **Limits**: tries of automatic reconnect, logins at a time, slots whose number
  changes while they are taken, writes that wait for the other side.

What makes each part correct is the list of properties in section 3; each
hazard with its line is in `PROJECT.json`.

## 2. The modules

| Module | Models | Detail |
|---|---|---|
| `Protocol` | the words, the record of a session, `Apply`, `Remember`, `ReplayWords` | pure operators, used by the next two |
| `SessionLink` | one session: shim, ssh, helper, link, NativeTerm's record, the queue's thread, the person, crash and restart, a restored tab | the core: each step of each thread |
| `AutoReconnect` | automatic reconnects of one session | the shim's supervising is coarser, the counting is exact |
| `ConnectQueue` | the queue over several sessions with their shims and links | words reduced to five |
| `SessionStore` | a session over several runs of NativeTerm: record, row, tab, pane, lost list | words reduced to Hello, Closing and "any other"; per-thread queues of writes |
| `LoginQuestions` | the connections of one tab with what ssh asks: host key, password, saved, in a window, in the tab | one host, two accounts, passwords right or wrong |
| `Transfers` | the jobs of one connection, their workers and slots, parts and files | a file is a sequence of chunks, a chunk the version it was read from |
| `WholeFiles` | what a reader of a directory is promised | the abstract specification `Transfers` implements |
| `FileEdit` | an edited file, its watching thread, others on the server | contents with whose they are and whether they are whole |
| `ConfigFiles` | the main config, a folder's file and its copy elsewhere; two threads' operations, others' edits, crashes | each host's blocks, with a value, NativeTerm keys and a Tag; the order of different hosts, which changes nothing ssh makes of them, is left out |
| `DataDirectory` | machines with shared directories: lock, settings, move | one setting per machine |
| `Zmodem` | the helper, both ends of the protocol, the words between, parts and named files | the protocol itself external, in a few words |
| `..._proof` | theorems about the module of that name; `Protocol_proof` the lemmas the first two of these share, `Threads_proof` theorems about `ConnectQueue`, `LoginQuestions` and `Transfers`, `Saving_proof` about `DataDirectory`, `FileEdit` and the types of `ConfigFiles`, `Hosts_proof` about the hosts of `ConfigFiles` and what ssh accepts of its files (section 5) | |

Each module says in its banner what it leaves out, and each variable's comment
names what it stands for. The actions follow the code. `Wake` (`SessionLink`) is
one turn of `supervise`'s loop after `wait_any`, `FollowWords` one batch in
`after_exit`, `Hear` one turn of `handle_connection`'s loop with everything that
turn does (record, login command, lost Connect), `QueueChoose`/`QueueTell`/
`QueueMark` the three stretches of `run` between which the list is unlocked. In
`SessionStore`, `Update` is `Shared::update`: the record changes at once, and the
row's writes join the thread's queue, done later by `Flush` - or never, if
NativeTerm stops. In `Transfers`, `Take` and `Turn` are the two looks a worker
takes at the shared flags (under the list's lock, and after the wait for a slot),
`Copy` one request with the look after it, `SourceEnds` the end of `copy_file`
with its rename; the window's part is `Start`, `Resume`, `Pause`, `Cancel`,
`JobDone` and `Discard`. In `FileEdit`, the values of `pc` are the places where
the thread waits for the server, so others may come between any two. In
`ConfigFiles` an operation puts its edits into `writer[w].todo`, and each edit
goes through reading, comparing, replacing and checking in steps of its own. In
`DataDirectory`, `Try`, `Free` and the rest are `data_lock.rs`'s calls, with the
file and the name it has told apart. In `Zmodem`, `Turn` is what the helper's
loops `receive` and `send` do next, with a word, a cancel or a clock.

Definitions whose comment begins with *Wrong variant* are no part of the system.
They are plausible mistakes, some of them what the code's own documentation says
it once did; putting one in place of the definition it varies makes a property
fail (`PROJECT.json`, `mutants`), which shows that the property depends on that
code.

### Timing taken from the code

The modules have no clock, but for `Zmodem`, whose `Tick` counts in units of
`NUDGE`. Where the code relies on one wait being longer than another, a guard
says so, and its comment names the constants:

* `Reconnect` (`SessionLink`), `LinkUp` (`ConnectQueue`): `RETRY` lies between
  the end of a connection and the next, so the old one has been read to its end
  and the queue's thread is past the two lines between telling and marking.
* `SignalSettled` (`SessionLink`, with `LateSignals = FALSE`): the helper stays
  300 ms for NativeTerm to hear it. With `TRUE`, a login may be heard after the
  end of the ssh it is of, and a session then be shown connected that isn't.
* `Settled` (`AutoReconnect`): a timer waits at least 3 s, a login is stable
  after 60 s; by then a word on its way has arrived.
* `Heard` (`ConnectQueue`): the queue pauses (`POLL`, `SPACING`) for longer than
  words take, before it looks and before it tells.
* `PaneRestored` (`SessionStore`): a terminal starts anew before it restores a
  pane; by then NativeTerm has heard the old link to its end.
* `Looks` (`FileEdit`): a program takes less than two looks (700 ms each) to
  write the file it saves. Times are in whole seconds there and different for
  different saves; two saves within a second with the same size aren't told
  apart by the code, nor modelled.
* `SourceChanges` (`Transfers`): a source is changed at least a second after
  what was written before it, so that times compare as the versions do.

Two things are simply left out: a source saved while a job reads it
(`SourceChanges` waits until no job runs), and a file saved while ZMODEM sends it
(`Change` comes between transfers). In both the file that arrives may be of two
versions, as with any program that copies a file while it is written.

`QueueTell` may also drop a session whose shim didn't come: the 30 s after which
the code does (`SHIM_WAIT`) may be over at any look.

## 3. The runs

All of them pass, with two workers in one to four minutes each.

| Run | Bounds | States | Properties |
|---|---|---|---|
| `link_safety` | 2 attempts, 2 breaks, 1 crash, 1 act | 2.8 M | `TypeOK`, `ReplayTellsTheTruth`, `ViewMatchesReplay`, `NoFalseLogin`, `NothingUnasked` |
| `link_live` | 1 attempt, 1 break, 1 act, 1 restored tab | 182 k | `LostConnectIsToldAgain`, `CloseIsObeyed` |
| `auto_reconnect` | 4 attempts, 2 tries, 1 break, 1 act | 659 k | `TypeOK`, `RetriesBoundedUnlessStopped`, `OnlyDropsAreFollowed`, `EndsAreFollowedUp` |
| `store` | 4 tabs, 3 runs of NativeTerm, 1 event, 1 act, 1 restored pane | 2.2 M | `TypeOK`, `RecordsAgree`, `NoSecondTab`, `NoSecondCopyLater` |
| `store_live` | 3 tabs, 2 runs, 1 event, 1 restored pane | 85 k | `NoneIsLeftWaiting` |
| `queue` | 2 sessions, 1 slot, 1 event | 100 k | `QueueTypeOK`, `LoginsBounded`, `EverySessionIsTold` |
| `transfers` | 2 files of 1 or 2 chunks, 2 jobs, up to 2 workers each, 1 change, 1 act, 1 fault; downloads, uploads, and uploads to an old server | 878 k | `TypeOK`, `NothingIsSkipped`, `PartialNeverLooksReal`, `EveryRunEnds` |
| `edit` | 3 saves here, 2 by others, 1 fault | 264 k | `EditTypeOK`, `ConflictsAreReal`, `SavesArrive` |
| `config` | 2 hosts, 2 writing threads, 3 operations, edits of others or crashes | 713 k | `ConfigTypeOK`, `HostsAreKept`, `ChangesAreUsed`, `FilesAreAccepted` |
| `login` | 3 connections, 2 prompts each, 2 other acts | 1.6 M | `LoginTypeOK`, `OnceIsForgotten`, `RefusedIsLeft` |
| `data` | 2 machines, 3 directories, 1 choice each, 3 starts, 2 crashes, moves (some fail) or edits by hand | 1.8 M | `TypeOK`, `OneHolder`, `ChosenIsKept` |
| `zmodem` | 2 transfers of 2 files of 1 or 2 chunks, 2 words fit between, 1 change, 1 act, 1 fault | 677 k | `TypeOK`, `NamedAreWhole`, `TerminalStaysClean`, `SessionComesBack` |

Why the bounds are enough: two attempts give an earlier one whose login, end or
text may be mistaken for the next one's; one break repeats every word and loses
every word on the way down, one crash makes NativeTerm begin with nothing but
what is repeated, and a second break repeats it all again to the same NativeTerm;
one act races every thread. Four attempts with two tries reach the limit of
automatic reconnects and go past it. One slot for two sessions makes the second
wait for the first. Three runs of NativeTerm let a crash fall into a run that was
itself a recovery. Two jobs of the same folder make the second go over what the
first left; two workers and two files let the later file be done before the
earlier, and one slot fewer makes a worker wait; the versions of a file have both
lengths, so a part may be shorter than, as long as, or longer than the next
version. Two saves of others fall on both sides of a look. Three operations, imports, edits
of others or crashes put one thread's edit between two of the other's, and one more
change between or after; longer histories of the config files were looked at with one
host, and three of their four properties are proved. Three connections of a
tab let an answer to the first come in the second and act on the third. Three
directories let one machine move twice - the second time from the old folder, in
which it goes on - while the other starts in any.

What they show, in words:

* `ReplayTellsTheTruth`: the shim's memory is where the shim is.
* `ViewMatchesReplay`: with the link up and nothing on its way, NativeTerm's
  record is what those words tell - whatever came before.
* `NoFalseLogin`: no session is shown logged in, nor as dropped after a login,
  for an attempt that didn't log in.
* `NothingUnasked`: a tab connects only when somebody asked (without restored
  tabs), and text is never waiting for a tab's first ssh at its prompts. (For a
  later ssh of the tab, text sent just before the drop can.)
* `LostConnectIsToldAgain`, `CloseIsObeyed`: what was told is done.
* `OnlyDropsAreFollowed`, `EndsAreFollowedUp`, `RetriesBoundedUnlessStopped`:
  automatic reconnects happen where they should, only there, and not for ever.
  The bound is `Tries`, and one more for each key pressed while a try waits in
  the queue and for each break (it repeats an end and so leaves a second timer).
  It isn't claimed where a command run before connecting stops an attempt after
  an earlier login: the end then said counts as a drop from a stable connection,
  and the count starts again each time.
* `LoginsBounded`, `EverySessionIsTold`: the queue's two promises, which pull in
  opposite directions.
* `RecordsAgree`: the row says open exactly when the record does, once all is
  written, unless two threads' writes overlapped (then either may be last).
* `NoSecondTab`, `NoSecondCopyLater`, `NoneIsLeftWaiting`: what a person sees of
  crash recovery. `NoSecondCopyLater` isn't claimed where two threads' writes
  overlapped, nor where the session was opened again while its link's thread still
  looked for its window (`Over`; section 4).
* `NothingIsSkipped`: before the place where a job goes on, every file has
  arrived, in the planned version or a later one.
* `PartialNeverLooksReal`: `Transfers` implements `WholeFiles`, with the files'
  names as its content: whoever looks sees an old file or a new one, complete, and
  of one version.

  Both speak of downloads and of uploads, of each file that is promised
  (`Unspoiled`). Not promised is a file on an old server, where it is removed
  before the new one is renamed and may be away for a while. Nor is one from the
  moment a discard that came late has removed the part an upload was writing:
  then the code removes the real file, too (section 4). `spoiled` remembers what
  the name showed until then, and is set in no other case; in particular not for
  downloads, nor where the late discard finds no part, or an upload that has yet
  to look for one and so begins its file anew.
* `EveryRunEnds`: however many workers wait for the slots.
* `ConflictsAreReal`, `SavesArrive`: what others saved isn't replaced unasked, a
  conflict is never one's own save, and every save arrives or a conflict is
  shown. What others save while an upload is under way is excluded (`late`).
* `HostsAreKept`, `ChangesAreUsed`, `FilesAreAccepted`: at every step NativeTerm may
  be killed at, each host is in a file ssh reads, with what it was given last,
  once, and ssh accepts the files. What excuses a loss is recorded in `mishaps`,
  and each property names the excuses it takes. Three of them came out of the work on
  proofs, which follow histories longer than the run's: others take a host out of
  the file its copy was just made from, and the copy is then withdrawn or used
  (`removed`); folders the person chose are adopted and not yet checked
  (`Adopted`), so that what isn't in them is no loss, nor what is in them already
  theirs; and an import adds a host that the window has in two files just then,
  as it takes back a copy (`again`): the folder's file is copied elsewhere before
  ssh is asked whether it uses what was imported, the import is undone in the file
  that nobody reads any more, and its copy keeps the host twice. With it
  `ChangesAreUsed` holds in longer histories, too (one host: 9 operations of those
  that bear on it, 7 of any kind while nothing else happens to excuse a loss).
* `RefusedIsLeft`, `OnceIsForgotten`: a password the server refused isn't tried
  again by itself; a key trusted once goes with its session.
* `OneHolder`, `ChosenIsKept`: on Windows one machine holds a directory; and one
  used by one machine at a time keeps what was chosen, through crashes and moves.
* `NamedAreWhole`, `TerminalStaysClean`, `SessionComesBack`: a file gets its name
  only complete; after a transfer that is done nothing of it is shown, and after
  one done or cancelled the program on the server has ended, or what ends it is the
  last it has to read (the helper neither leaves without a word nor says anything
  after its last one); the terminal always gets the session back. What a program
  says between the end of the wait for silence and its reading of the cancel is
  shown (section 4): the wait may end at any moment nothing has come.

`CHECK_DEADLOCK FALSE` is in every configuration: a tab that is closed, a person
who is done, jobs and edits that have ended, and a bound that is reached are ends
the system really has.

### Fairness

Liveness assumes weak fairness of the threads of both programs (the shim's main
loop and link, NativeTerm's connection threads, the queue, the timers, the
database writes): each is a loop of its own that nothing disables for ever. A
shim whose tab was closed is ended by the system, one told to close ends.
NativeTerm is started again where a pane waits (`run_without_host` starts it).
Nothing is assumed of the person, of ssh (a login may hang for ever), of breaks,
or of the terminal showing the tab it was asked for.

`Transfers` assumes that some thread of the process goes on, and no more: which
worker gets a slot is left open (the code waits on a condition variable), so
`EveryRunEnds` holds for an unfair order too. A request to the server is answered
or fails with the connection. `FileEdit` assumes the watching thread, and that a
program that began to save comes to the end of it. `Zmodem` assumes the helper's
loop and that time passes: nothing of the server, the way or the person.

## 4. Divergences: what the code does otherwise than it is said

Met while modelling. Each line says what is said, and which definition or
constants show that the code does otherwise: the definitions that end in a
counterexample are in the modules, and no run of section 3 states them.

Sessions:

* `QueueKeepsItsPlace` (`SessionLink`). `native-term-app/src/connect_queue.rs:96`:
  a session whose link went "keeps its place in the queue". It is put back, but
  the end of the link made it Gone, for which `ready()` answers Never: the next
  pass drops it, and its shim waits in its tab.
* `LoginCommandOnce` (`SessionLink`, `LoginCommand = TRUE`).
  `docs/ARCHITECTURE.md:3918-3919`: the login command "is sent once". A link that
  breaks and comes back replays the login, which looks new: it is typed again.
* `NothingUnasked` with `MaxRestores = 1` (`SessionLink`).
  `docs/ARCHITECTURE.md:779-780`: "restored sessions never connect on their own".
  Where a Connect reached a tab that was being closed, `told_to_connect` stays
  set, and the restored tab is told again.
* `RefusedIsNotRetried` (`AutoReconnect`). `docs/ARCHITECTURE.md:2256`:
  "Auto-reconnect never retries a login failure". The timer checks, but the entry
  then waits in the queue, which takes any state that can connect.
* `WindowClosedIsRestorable` (`SessionStore`). `docs/ARCHITECTURE.md:816-820`:
  sessions closed with their window "stay replaceable for 7 days". An Exited said
  after Closing reopens the session and takes the mark away.
* `NoSecondCopy` (`SessionStore`). `docs/ARCHITECTURE.md:3545-3547`: a pane
  brought back later becomes "a local shell rather than a second copy". Not in
  the run of NativeTerm that opened the session again: panes are answered from
  the list read at its start. And not in a later one where the link's thread still
  looked whether the tab's window went (`lib.rs:1115`): finding it gone it writes
  the row restorable again, after the mark was taken away; nor where two threads'
  writes overlapped.

Transfers and edited files:

* `PartialNeverLooksReal` with `ChangePlanned = TRUE` (`Transfers`).
  `native-term-sftp/src/transfer.rs:8-11`, `docs/ARCHITECTURE.md:2947-2958`: a
  partial file never looks like the real one. A source saved while its job stands
  still is not looked at again: the part is compared with the time planned, and
  the file is of two versions. With `Overlap = TRUE` two jobs of the same folder
  write one part.
* `UploadsReplaceToo` (`Transfers`). `transfer.rs:523`: "an existing file is
  replaced once its copy is complete". A paused or failed upload that is cancelled
  has its part removed on a thread of its own (`files_window.rs:1424-1440`,
  `transfer.rs:596`). Where the next upload of that file already writes the part,
  its rename fails, and any failure has `finish_upload` (612-623) remove the real
  file and rename what isn't there. Where it was about to go on with the part
  (561-566), opening makes a new one (`native-term-sftp/src/lib.rs:751-755`), with
  a hole in place of what was there, and that gets the name.
* `WidthTakesEffect` with `Files = 3` (`Transfers`). `transfer.rs:106-118`: a
  smaller width takes effect as files finish. `free` is kept at zero, so two
  changes while files run leave more slots than the width.
* `CancelRemovesPart` with `Jobs = 1`, `MaxActs = 2` (`Transfers`).
  `docs/ARCHITECTURE.md:2953`: a cancel removes the partial file. A paused job
  that is cancelled discards only the part at its place, not those of the other
  workers; and one cancelled as its worker fails may leave it.
* The temporary copy of a text upload is left where the upload fails
  (`transfer.rs:560-579`; not modelled).
* `NeverTorn` (`FileEdit`). `docs/ARCHITECTURE.md:2800-2806`: where the
  rename fails for any reason, the file is written in place, also in folders
  where it might have been replaced.

Configuration and data:

* `ChangesOutliveMoves` (`ConfigFiles`). `native-term-config/src/write.rs:4`: a
  file that changed since it was read is not replaced. A move
  (`ops.rs:1008-1050`) writes into the other file the host as the tree has it:
  what others changed since is lost although nothing was written at once.
* `KeysAreIgnored` (`ConfigFiles`). `ops.rs:465-469` puts `IgnoreUnknown` before
  a NativeTerm key is written; other operations (`ops.rs:482-498`, `790-807`)
  write them into files of which that isn't sure.
* `NeverHalfWritten` (`DataDirectory`). `native-term-app/src/settings.rs:25-26`:
  `settings.toml` is "never half written". Two machines that save at once share
  one temporary file. They also erase each other's sections
  (`docs/ARCHITECTURE.md:5112-5113` has each keep to its own), as each writes the
  whole file it read at its start.
* `OneHolder` without `windows =>` (`DataDirectory`). `data_lock.rs:45-50` lets
  the lock go and then removes its file by name; on Unix another machine may hold
  that file by then. The lock is taken after the registry is opened and taken
  over (`main.rs:203-245`), so a second NativeTerm has already read and written.
  What is chosen after a move and before the restart is lost, and a move that
  crashed leaves a folder that is then "not empty".

Questions of a login:

* `KeptWorked` (`LoginQuestions`). `docs/ARCHITECTURE.md:2461-2462`: "a wrong one
  is never kept" (so `saved.rs:16-18`, `140`). A wrong password given with Save
  ticked, the next window skipped, the right one typed in the tab: the wrong one
  is stored as the session logs in.
* Closing the tab returns before `forget_once` (`main.rs:392-395`), so the key
  trusted once stays; `OnceIsForgotten` speaks of the other ends. A login may be
  missed where ssh exits first (`main.rs:458`, `475`). On Unix a Disconnect looks
  like a refusal and marks the saved password. Where the tab goes on as another
  user, the mark isn't made (`main.rs:404-412`). A window's late answer acts on
  what the next attempt serves.

ZMODEM:

* `GivesUpOnSilence` (`Zmodem`). `native-term-shim/src/zmodem.rs:26-31`: it gives
  up after `GIVE_UP` of "nothing at all". The clock isn't reset by what is taken
  or written while a file streams (384-397): after a minute of streaming the
  first wait of 50 ms gives up.
* A write that waits (380) looks neither at the cancel nor at the clock, though
  lines 636 and 655 say Esc or Ctrl+C cancel; `SessionComesBack` ends there
  (`~Passes`). A transfer that fails here (266, 413) returns without cancelling
  the program on the server. Going on compares sizes only (212): a file that was
  changed in between is marked `crossed` and excluded from `NamedAreWhole`. A
  rename that fails counts the file as done (236-238).
* `CancelLeavesNothing` (`Zmodem`). `zmodem.rs:322-325`: what the other side
  still sends is taken in "until it is quiet", as it "would show as garbage". Half
  a second without a word counts as quiet, wherever the cancel is by then. An
  upload over a slow way: the end of the file is written, Esc pressed, the server
  takes more than half a second over what is before it, and rz's answer comes when
  the session is the terminal's again. So with a download whose sender, or whose
  way, pauses that long.

## 5. The proofs

Each module `X_proof` extends `X` and proves what follows for every value of the
constants that satisfies the assumption named; every run evaluates the
assumptions of its module. `Threads_proof` and `Saving_proof` each hold the proofs
about three modules that have no name in common (hence `QueueInit`, `LoginInit`,
`EditInit` and `ConfigInit`, where the other modules say `Init`); `Hosts_proof` goes on
from what the latter proves of `ConfigFiles`. `Protocol_proof` has the lemmas about the operators of
`Protocol` on which both `SessionLink_proof` and `AutoReconnect_proof` rest: their types,
what is kept of each word, and what is said again (`AgainIs`).

`SessionLink_proof` (`MaxAttemptAssumption`, `SessionLinkAssumption`):

* `TypeCorrect`: `Spec => []TypeOK`. `TypeOK` isn't inductive: `Report` says
  `Exited(ssh)`, which is a word of the shim only because ssh has exited by
  then. `EndKnown` (`pc = "report" => ssh \in Code`) is therefore proved first
  and used in the step of `Report`. Lemmas about `Protocol` - `ApplyType`,
  `RememberType`, `ReplayWordsType` - carry the steps that handle words.
* `ReplayCorrect`: `Spec => []ReplayTellsTheTruth`. The invariant is strengthened
  (`ReplayInv`) by two facts: what is remembered as a login is one, wherever the
  shim is - not only where the property speaks of it - since the attempt it is
  of may end, be reported and wait before the next one wipes it; and a
  supervising shim has an attempt. `RememberWords`, `RememberConnecting` and
  `RememberExited` say what is kept of each word.
* `NoFalseLoginEver`: `Spec => []NoFalseLogin` where the login signal is heard
  before what it is of ends (`~LateSignals`, section 2; a signal heard later
  does show a login that is over). What is proved is `LoginInv`, of three parts. `Signals`:
  a signal that is pending is of an ssh that is logged in. `Fresh`: before a shim's
  first attempt nothing it remembers or has on its way tells of one - the numbers
  begin again with the shim of a restored tab, so a word left by the one before
  would pass for its own. `Current`: a login in the record, or in a word still on
  its way, is of this attempt, or the `Connecting` that wipes it is on its way.
  `ReplayWordsSay` carries the reconnection, where the words are said
  again, the attempt first; `SayKeeps` and `HearKeeps` the two ends of the pipe.
* `ViewMatchesEver`: `Spec => []ViewMatchesReplay`, where the login signal is heard in
  time (`~LateSignals`). The property speaks of an empty pipe; the invariant
  (`ViewInv`) of each place on it. A word that a later `Connecting` of the attempt
  remembered will wipe (`Wiped`) may say anything; what is behind that one is of the
  attempt and not contradicted by what follows (`WordOK`: an attempt that ended has
  its end told behind everything else); whatever is remembered was heard or
  is among those words (`Kept`); and a record that isn't to be wiped is of
  the attempt, with a state the words still to come don't set (`RecordInv`).
  `WaitingInv` is the same for a tab that hasn't connected. `HearView` moves all this
  one place forward, `ReconnectView` builds it from the words said again (`AgainIs`).
  What a NativeTerm started now would make of these (`Retold`, a fold over words) is
  computed by `RetoldIs`; the fold is shown to be defined by induction over a set
  (`SetInduction`, from the library's well-founded induction).
* `NothingUnaskedEver`: `Spec => []NothingUnasked`, where no tab is restored
  (`MaxRestores = 0`, section 4). `Unasked`: while nobody asked, no Connect is in the
  queue, in the record, on the pipe or in the shim's inbox. `Unspoken`: until the first
  login nothing tells of one - no signal, word, record or login command to
  type -, so nothing is typed. `FirstDecides` finds the first of the words that decide,
  by induction.

`AutoReconnect_proof` (`MaxAttemptAssumption`, `AutoReconnectAssumption`):

* `RetryTypeCorrect`: `Spec => []TypeOK`. The number of an attempt's
  timers is bounded only because each came from an end that was heard: `RetryTokens`
  counts everything that may still lead to a reconnect - timers (`Waits`, a set with a
  pair for each, so that they can be summed), the queue's mark, its choice, the Connect
  on the pipe, the attempt under way, ends on the pipe, an end to be told again - and
  says that it never exceeds one, and one more for each break and key.
* `OnlyDropsEver`: `Spec => OnlyDropsAreFollowed`. `RetryFollows`: with the words on
  their way, what NativeTerm believes of the attempt - logged in, not reached - comes
  to what the shim remembers of it (the last word about it says so, or none does and it
  is believed already). With `RetryFresh` (nothing is believed before the first
  attempt) it survives the break of the link and the words said again (`ToldAgain`),
  and `RetryEndKnown` then gives the state after the last word, `RetryEndTrue` how the
  attempt really ended.
* `RetriesBoundedEver`: `Spec => []RetriesBoundedUnlessStopped`. That `tried` and all that
  is ahead stay within the count, the breaks and the keys isn't inductive: the count
  starts anew where a drop of a stable connection is heard, and `tried` does not. So
  `RetryRooms` asks for the same without the count as long as such an end can still be
  heard (`DropMay`: it is on its way, or its attempt under way, and no word about a
  login comes before it). It can be heard once only: between two ends on the pipe there
  is the beginning of an attempt (`RetryApart`), which wipes the login believed.
  Where the tries start from 0, `RetryTokens` says that what is ahead fits (`FitsAgain`).

`SessionStore_proof` (`SessionStoreAssumption`):

* `StoreTypeCorrect`: `Spec => []TypeOK`. It includes that a row that can be
  restored is closed and that a session with a link is in the list.
  `EnqueueType`, `UpdateType` and `WrittenType` carry the steps that write.
* `NoSecondTabEver`: `Spec => NoSecondTab`, from `TabsAgree`: `Spec => []Inv`.
  `Replace` looks at the pane it holds and at nothing else; that the session's
  own tab is gone by then must have been so since the pane asked. A NativeTerm
  that stops between asking for the new tab and hearing from it leaves the pane
  asking again, and only the row keeps the next one from replacing it a second
  time. So the invariant follows the tab's number all the way round:
  `LinkInv` (once Hello was read, the record has the tab of the link; with the
  link down its thread has no number left to write), `WritesInv` (what is still
  to be written tells of the newest tab), `RowInv` (the row has the newest tab,
  or will before the terminal is asked for it, unless that tab is gone) and
  `PaneInv` (a pane that asks or is held belongs to a tab that is gone, or waits
  for the replacement asked for, or is older than all that could take it for
  one to be replaced). None of the four is inductive alone. Each action has a
  step of its own; the ones that write no number share `Frame`.
* `RowFollowsRecord`: `Spec => []RecordsAgree`. A row that disagrees with its
  record does so only while one thread has writes left whose last word on
  openness is the record's (`AgreeInv`); two such threads are what `raced` says.
  A held pane's session is written when its tab is asked for, so the invariant
  needs what a pane is held for (`HoldInv`).
* `NoSecondCopyLaterEver`: `Spec => NoSecondCopyLater`. `ShutInv`: a session that
  isn't open has its row closed or about to be, and nothing left to write that
  opens it. `AgainInv`: one that was opened again has no record, a closed row, and
  the word that takes the mark for restoring away written last, so that no later
  start finds it among those a pane may bring back.

`Threads_proof`, about `ConnectQueue` (`ConnectQueueAssumption`):

* `LoginsBoundedEver`: `QueueSpec => []LoginsBounded`. The queue counts the records it
  sees, while a session it has told has a Connect on its way, or a shim that
  says so in words still unheard. The invariant counts `Hot`, the sessions at
  their login because of the queue or about to be: each of them is `Counted`
  (its record says Connecting, or is about to be marked, and no word on its way
  says otherwise), so there are no more of them than the limit. `Heeded` says
  why telling is safe: with every word heard, a record that can be connected
  belongs to a tab where nothing runs. Only the part `RecordTypes` of `QueueTypeOK` is
  needed for it.
* `QueueTypeCorrect`: `QueueSpec => []QueueTypeOK`. The rest of the types, `Line`, is what the
  thread has taken from its channel and is about to do. `Taken` and `Kept` fold lines
  of any length: `GoneThrough` shows by induction that the function the fold chooses
  exists, `FoldStays` that what each place keeps is kept by all (`TakenType`,
  `KeptType`); `FirstReady` says that the place the look chooses is one of the line's.

`Threads_proof`, about `LoginQuestions` (`LoginQuestionsAssumption`):

* `LoginTypeCorrect`: `LoginSpec => []LoginTypeOK`.
* `RefusedIsLeftAlone`: `LoginSpec => RefusedIsLeft`. `Marked`: a password the server
  refused is marked, or the tab is just about to mark it - for which `OnePrompt`
  (a saved one is given at the only prompt of its ssh, so ssh ends where it is
  refused) and `Waiting` (a window that still asks belongs to an ssh that waits
  for it, or to one that is gone) are needed.
* `OnceAlwaysForgotten`: `LoginSpec => []OnceIsForgotten`, from `Once`: a key trusted
  once is among the known ones only while its tab runs and remembers to take it
  out, or is closed.

`Saving_proof`, about `DataDirectory` (`DataDirectoryAssumption`):

* `DataTypeCorrect`: `Spec => []TypeOK`. It includes `AloneHolds` (who is alone
  holds the file it opened), for which `Trying` is needed (a lock is tried on a
  file that was opened).
* `OneHolderEver`: `Spec => []OneHolder`. Holding a file's lock isn't enough:
  two files may have had the lock's name. `StillNamed` says that on Windows the
  file a NativeTerm is alone with is still the one by that name; `OnlySettled`
  (who is alone is past the start and before the end) keeps the step that
  removes the name away from it, and `InUse` the step that moves a directory.
* `ChosenIsKeptEver`: `Spec => []ChosenIsKept`. What must be known of a save is in
  three places. `WritesWhole`: the temporary file that is renamed is the one that
  was written, all of it, and nothing is saved over settings that couldn't be read.
  `KnowsAll`: what a NativeTerm has in memory is what the file has, but for its own
  choice - so rendering everything from memory brings nobody's older choice back.
  `Copied`: between the copy and the pointer the copy has what was saved, and no one
  uses it; `Pointed` (where someone starts has been used) keeps a second copy from
  going there. All hold only while `UsedAlone` does, which two NativeTerms in one
  directory break (section 4).

`Saving_proof`, about `FileEdit` (`FileEditAssumption`):

* `EditTypeCorrect`: `EditSpec => []EditTypeOK`. `Opening` is needed: the time of the copy
  here is odd just where a save is under way, so that the next save's number is one
  of those there are.
* `ConflictsAreRealEver`: `EditSpec => ConflictsAreReal`. Both halves compare two times,
  and what they mean depends on where the thread is. `Clean`: where nobody else
  saved and nothing failed, the time known is the file's, but for an upload on its
  way. `Known`: what others saved, and not while an upload was under way, is what was
  downloaded wherever its time is the one known - and stays it from the look at the
  server to the rename. `Times` (the time known is never of a file to come) makes a
  new save's time a new one, and `Copies` says what the copy here and the one beside
  the file may hold.

`Saving_proof`, about `ConfigFiles` (`ConfigAssumption`):

* `ConfigTypeCorrect`: `ConfigSpec => []ConfigTypeOK`. `ConfigTypes` isn't inductive
  without `ThereInv`: a file that isn't there is as if empty because what replaces or
  restores one is the text of a file that was, or nothing. That every value was given
  (`0 .. fresh`) is `NamesInv`, which asks the same of what each thread has read, is
  about to write and has still to do. What each kind of edit leaves of a document
  (`AddChange`, `UpdateChange`, `TakeChange`, `FolderChange`, ...) is a lemma, as are
  the outcomes of a step (`StepCases`).

`Hosts_proof`, about `ConfigFiles`:

* `HostsKeptEver`: `ConfigSpec => []HostsAreKept`. The property is far from inductive:
  a file that was just replaced may be refused by ssh and put back (`Refused`), an
  Include that was turned to a copy may be turned back, and what an edit takes
  away it takes because of something done before. The invariant is in two parts.
  `Ground` holds whatever happens: the types; what lists of edits a thread can have
  (`TodoInv`: an operation's, or what is left of one, each edit with its check and
  what undoes it); what it has written down is what the edit makes of what it read
  (`MakesInv`); the file is still as it was compared, or as it was put there, unless
  two wrote at once (`HeldInv`); no two threads give the same value (`ApartInv`).
  `Sure` holds while nothing excuses a loss: a host is in a file that ssh reads, one
  where it stays if what is being checked is refused (`Holds`), both with the Include
  as it is and as it would be put back (`Kept`); at most one folder's file is read
  (`SingleInv`), the tree is of files that ssh reads (`TreeInv`), the copy only once
  it is there (`NewInv`); an import adds to a file that is read and isn't refused for
  its keys (`ImportInv`); what the window has ahead can be done (`AheadInv`); and what it
  is at rests on what it should (`NowInv`: while a moved host is taken out of its
  old file the new one holds it for good; the copy of a folder's file has all its hosts
  before Include is turned to it). Every outcome of a step has its lemma
  (`PassesSure`, `RefusedSure`, `ReplaceSure`, `BegunSure`, `OthersSure`, ...), each
  with one lemma per conjunct it can disturb.
* `AcceptedEver`: `ConfigSpec => []FilesAreAccepted`. Nothing but `AtRest` keeps the
  property from being inductive: a file with NativeTerm keys may be written where ssh
  isn't told to ignore them, and is put back. So `AcceptInv` says, while no two wrote
  at once and NativeTerm wasn't killed, that ssh ignores the keys, and goes on doing
  so whatever is put back (`CalmIgnored`, `CalmHeader`), or that the files it reads have none
  (`PlainFiles`) once what the window is having checked is put back (`AsPutBack`); for
  what is written and not checked at all, a copy and its withdrawal, that the block
  moved has no keys either (`KeylessCopy`, and `KeysInv` for what was written down);
  and that an import, whose other half is done by another thread, doesn't come to its
  host before the keys are ignored (`ImportWaits`).

`Threads_proof`, about `Transfers` (`TransfersAssumption`, `AbsentAssumption`: a file that
isn't there is told from every other; and `~Overlap /\ ~ChangePlanned`:
one job of a folder runs at a time, no file changes under a plan that stands
still; without either the properties fail, see section 4):

* `TransfersTypeCorrect`: `Spec => []TypeOK`.
* `PartialNeverLooksRealEver`: `Spec => PartialNeverLooksReal`, the refinement of
  `WholeFiles`, for downloads and uploads, with what isn't promised of a file
  (section 3). A rename shows whatever the part holds, and an upload's that fails
  takes the real file away, so the invariant must know of each file promised
  (`FileAt`, `EndsAt`): `PartAt` (a part holds chunks of one version), `WorkAt`
  (the part a worker writes is of today's version, up to where the worker is; a
  download's may have been removed, an upload's is there, for its removal is what
  `spoiled` records), `RunAt` (a job that goes on does so by today's plan),
  `OneRuns` and `Apart` (no two workers have the same file). `ShownStep` maps each
  step to one of the abstract specification or to none; `Spoils` and
  `UnspoiledGoes` say that what a name showed when it ceased to be promised is
  what is held against it from then on, and that it stays so.
* `NothingIsSkippedEver`: `Spec => []NothingIsSkipped`, from the same invariant
  and `Going`: a file that was taken has arrived, or is in the hands of a worker,
  or lies at or after the place where the job will go on. Three lemmas carry most
  steps: `Alike` (nothing of the job moved), `Fails` (a worker failed, and the
  place is its file or an earlier one), `Others` (what the other workers hold).

`Zmodem_proof` (`ZmodemAssumption`):

* `NamedAreWholeEver`: `Spec => []NamedAreWhole`. `FileCompleted` gives a part its
  name because a word says that this was all; nothing is compared then. So the
  invariant must know what is on its way. While a download is live (`Live`) and the
  program on the server there, at most one word is on its way to it, and the words to the tab are of one file:
  `Between` says, for each place the server's end can be at, what either side may
  still hear before a file is begun, and `Taking` that what is written and what is on
  its way are together of one version, that the closing word comes where that
  version's length is reached, and that nothing but a cancel follows it. A program
  that doesn't listen (`Deaf`) offers no file. Uploads need none of this.
* `TerminalStaysCleanEver`: `Spec => []TerminalStaysClean`, from the same invariant and
  `CleanInv`. What is heard after a transfer is what was on its way when it ended, so
  each way to end needs to be known before: `Ending` (the last word of an upload is
  the receiver's, which has ended then), `Finished` (a download's comes where
  `Between` says that nothing else does), `Draining` and `Cancelled` (the cancel is
  the last word to the server until it is read, while the helper waits and after),
  `Gone` (nothing comes from a program that isn't there). An upload's sender acts on all the words that have
  come at once (`Heard`, a fold): `HeardKeeps` shows by induction over their places that
  what each word keeps all of them keep.
* `ZmodemTypeCorrect`: `Spec => []TypeOK`, from both and `SizeInv`: a part is no
  longer than the longest version (`Lengths`), for which what still comes of a file
  must fit in what is left of its version (`Fits`), and an upload's sender stays within
  its file because rz wants each from its start (`FromStart`, `Placed`).

What is only model-checked: `ChangesAreUsed` of `ConfigFiles`, and all
liveness; every other invariant and safety property of the runs is a theorem, some
of them under the assumptions named above.
Liveness under fairness and ENABLED are out of this prover's reach. Induction is
too, where a theorem of the library takes an operator as its parameter; over a set it
isn't (`SetInduction`), which is how the proofs follow the folds of `SessionLink`,
`Zmodem` and `ConnectQueue`.

## 6. Not modelled

* **Importers** (`native-term-config/src/securecrt.rs` and the like): parsing of
  foreign formats, without a state of their own.
* **Session log**: one thread appends the terminal's output to a file.
* **ntplink and proxies**: command lines and bytes passed between two programs.
* **Terminals** (`native-term-platform/src/windows_terminal`,
  `native-term-wezterm`): they drive a foreign program by its user interface or
  its command line, and what that program does is not in this repository.
  `SessionStore` has what may come of it: a tab appears or doesn't, a window
  goes, a pane comes back.
* **Windows, menus, translations**: drawing and texts. The commands a window may
  give are the person's steps.
* **Operating system services**: thin layers over system calls. The pipe between
  the processes is taken as two queues that end together; the checking of who is
  at its other end isn't modelled.
* **Text, formats, encodings** of what is modelled: the framing of the words, SFTP
  on the wire (`wire.rs`), the syntax of ssh_config and of `settings.toml`.
* In parts that are modelled: the comparison of folders (`sync.rs`), which has no
  state; several requests under way in one copy; text uploads; the second request
  for a tab that didn't show; sessions that aren't ssh; credential sets; two tabs
  that write one part by ZMODEM. `PROJECT.json` lists them with each component.

## 7. Plan

Done: the modules of section 2 and the theorems of section 5. Next:

1. An abstract specification of a session - waiting, connecting, connected,
   ended, gone, as a person sees it - and `SessionLink` shown to implement it.
2. The second request for a tab that didn't show (`resend`), in `SessionStore`.
3. Two tabs that write one part by ZMODEM.
