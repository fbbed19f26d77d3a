---------------------------- MODULE LoginQuestions ----------------------------
(***************************************************************************)
(* What ssh asks while it logs in (native-term-shim, saved.rs, hostkey.rs  *)
(* and run_host of main.rs): the host's key, and the account's password.   *)
(* The shim answers with a saved password, or asks in a window of          *)
(* NativeTerm's, or lets ssh ask in the tab.  A window outlives the ssh    *)
(* that asked: its answer comes to what the shim serves by then.           *)
(*                                                                         *)
(* One tab, one host with one key of its own, and two accounts there.  A   *)
(* password is right or wrong.  ssh-keygen and the store of passwords work.*)
(***************************************************************************)
EXTENDS Integers

CONSTANTS
    Own,            \* the host's user name
    Other,          \* another user name, given in the window
    MaxAttempts,    \* bound: connections of the tab
    MaxLoginActs    \* bound: NativeTerm closed or started, passwords saved
                    \* elsewhere, ssh not started

ASSUME LoginQuestionsAssumption ==
    /\ Own # Other
    /\ MaxAttempts \in Nat \ {0}
    /\ MaxLoginActs \in Nat

Users == {Own, Other}
Passwords == {"right", "wrong"}
None == "none"
Secrets == Passwords \cup {None}
Attempts == 1..MaxAttempts

\* What a window gave: a password for an account, to be kept or not.
Given == [user : Users, secret : Passwords, save : BOOLEAN]
NotGiven == [user |-> Own, secret |-> None, save |-> FALSE]

VARIABLES
    tab,        \* where run_host is, its user name and the password given with it
    attempt,
    armed,      \* what the pipe serves: the account, and what was said
    served,     \* the saved password was given, this attempt
    ssh,        \* the ssh of this attempt
    asked,      \* what each attempt's window asks still
    app,        \* NativeTerm runs
    store,      \* the saved passwords
    known,      \* the host's key in known_hosts: none, another one, kept, or
                \* to be taken out again
    once,       \* it is to be taken out when the session ends (ONCE)
    reported,   \* the login was seen
    loginActs,
    denied,     \* accounts whose saved password the server refused (history)
    unworked    \* a password was kept that didn't log in (history)

loginVars == <<tab, attempt, armed, served, ssh, asked, app, store, known, once,
          reported, loginActs, denied, unworked>>

Unarmed == [user |-> None, stored |-> FALSE, skipped |-> FALSE, keep |-> None,
            preset |-> None, relogin |-> NotGiven]
NoSsh == [step |-> "ended", prompts |-> 0, given |-> None, saved |-> FALSE, in |-> FALSE, failed |-> FALSE]

LoginTypeOK ==
    /\ tab \in [at : {"idle", "begin", "running", "closed"}, user : Users,
                preset : Given \cup {NotGiven}]
    /\ attempt \in 0..MaxAttempts
    /\ armed \in [user : Users \cup {None}, stored : BOOLEAN, skipped : BOOLEAN,
                  keep : Secrets, preset : Secrets, relogin : Given \cup {NotGiven}]
    /\ served \in BOOLEAN
    /\ ssh \in [step : {"key", "asks_key", "tab_key", "login", "asks", "tab", "checks",
                        "in", "ended"},
                prompts : 0..2, given : Secrets, saved : BOOLEAN, in : BOOLEAN, failed : BOOLEAN]
    /\ asked \in [Attempts -> [what : {None, "key", "changed_key", "password"},
                               user : Users, window : BOOLEAN]]
    /\ app \in BOOLEAN
    /\ store \in [Users -> [secret : Secrets, refused : BOOLEAN]]
    /\ known \in {None, "another", "kept", "once"}
    /\ once \in BOOLEAN /\ reported \in BOOLEAN
    /\ loginActs \in 0..MaxLoginActs
    /\ denied \subseteq Users
    /\ unworked \in BOOLEAN
    \* a prompt is shown only while there is one left
    /\ ssh.step \in {"asks", "tab", "checks"} => ssh.prompts > 0

LoginInit ==
    /\ tab = [at |-> "begin", user |-> Own, preset |-> NotGiven]
    /\ attempt = 0
    /\ armed = Unarmed
    /\ served = FALSE
    /\ ssh = NoSsh
    /\ asked = [n \in Attempts |-> [what |-> None, user |-> Own, window |-> FALSE]]
    /\ app = TRUE
    /\ store \in [Users -> {[secret |-> None, refused |-> FALSE],
                            [secret |-> "wrong", refused |-> FALSE]}]
    /\ store[Other].secret = None
    /\ known \in {None, "another", "kept"}
    /\ once = FALSE /\ reported = FALSE
    /\ loginActs = 0
    /\ denied = {} /\ unworked = FALSE

LoginAct == loginActs < MaxLoginActs /\ loginActs' = loginActs + 1

\* The ssh that runs is attempt n's.
Runs(n) == tab.at = "running" /\ attempt = n /\ ssh.step # "ended"
Ended == [ssh EXCEPT !.step = "ended"]
\* It ends with a status of a failed connection, as ssh itself does.
Failed == [Ended EXCEPT !.failed = TRUE]

-----------------------------------------------------------------------------
(* The tab. *)

\* A password is saved for the account, and not marked (Attempt::find).
Usable(u) == store[u].secret # None /\ ~store[u].refused

\* Wrong variant: ssh may ask for a saved password as often as for another.
PromptsUnlimited(u) == 2

\* A saved password is tried once; ssh asks for another more than once.
Prompts(u) == IF Usable(u) THEN 1 ELSE 2

\* A password given with another user name stays for this attempt.
Configured ==
    LET given == tab.preset
        preset == IF given.secret # None THEN given.secret ELSE armed.preset
        keep == IF given.secret = None THEN armed.keep
                ELSE IF given.save THEN given.secret ELSE None
    IN  [Unarmed EXCEPT !.user = tab.user, !.stored = Usable(tab.user) /\ preset = None,
                        !.keep = keep, !.preset = preset]

\* An attempt begins: the saved password is looked for, and ssh started, or not.
Begin ==
    /\ tab.at = "begin"
    /\ attempt < MaxAttempts
    /\ attempt' = attempt + 1
    /\ armed' = Configured
    /\ served' = FALSE
    /\ reported' = FALSE
    /\ \/ /\ tab' = [tab EXCEPT !.at = "running", !.preset = NotGiven]
          /\ ssh' = [NoSsh EXCEPT !.step = "key", !.prompts = Prompts(tab.user)]
          /\ UNCHANGED loginActs
       \/ /\ LoginAct
          /\ tab' = [tab EXCEPT !.at = "idle", !.preset = NotGiven]
          /\ UNCHANGED ssh
    /\ UNCHANGED <<asked, app, store, known, once, denied, unworked>>

\* The login is seen while ssh runs: a password to be kept is kept.
LoggedIn ==
    /\ tab.at = "running" /\ ssh.step = "in" /\ ~reported
    /\ reported' = TRUE
    /\ armed' = [armed EXCEPT !.keep = None]
    /\ IF armed.keep = None THEN UNCHANGED <<store, denied, unworked>>
       ELSE /\ store' = [store EXCEPT ![tab.user] = [secret |-> armed.keep, refused |-> FALSE]]
            /\ denied' = denied \ {tab.user}
            /\ unworked' = (unworked \/ armed.keep # ssh.given)
    /\ UNCHANGED <<tab, attempt, served, ssh, asked, app, known, once, loginActs>>

\* Wrong variant: a host trusted once is forgotten only after a login.
ForgetOnceLoggedIn ==
    /\ once' = (once /\ ~ssh.in)
    /\ known' = IF once /\ ssh.in THEN None ELSE known

\* Keys trusted once go.
ForgetOnce ==
    /\ once' = FALSE
    /\ known' = IF once THEN None ELSE known

\* Connected again at once, as the user name given in the window.  (Whether
\* the saved password was refused is not looked at.)
Again ==
    /\ tab' = [at |-> "begin", user |-> armed.relogin.user, preset |-> armed.relogin]
    /\ denied' = {}

\* ssh has ended.  Where the saved password was given and the login failed,
\* it is marked.
Finish ==
    /\ tab.at = "running" /\ ssh.step = "ended"
    /\ ForgetOnce
    /\ armed' = Unarmed
    /\ \/ /\ armed.relogin.secret # None
          /\ Again
          /\ UNCHANGED store
       \/ /\ armed.relogin.secret = None
          /\ tab' = [tab EXCEPT !.at = "idle"]
          /\ store' = [store EXCEPT ![tab.user].refused =
                          @ \/ (served /\ ssh.failed /\ ~ssh.in /\ store[tab.user].secret # None)]
          /\ UNCHANGED denied
    /\ UNCHANGED <<attempt, served, ssh, asked, app, reported, loginActs, unworked>>

\* Connect, or Reconnect, in an ended tab.
ConnectAgain ==
    /\ tab.at = "idle" /\ attempt < MaxAttempts
    /\ tab' = [tab EXCEPT !.at = "begin"]
    /\ UNCHANGED <<attempt, armed, served, ssh, asked, app, store, known, once,
                   reported, loginActs, denied, unworked>>

\* The tab is closed: ssh is ended, and so is the shim.
Close ==
    /\ tab.at \in {"idle", "running"}
    /\ tab' = [tab EXCEPT !.at = "closed"]
    /\ ssh' = Ended
    /\ asked' = [n \in Attempts |-> [asked[n] EXCEPT !.what = None, !.window = FALSE]]
    /\ UNCHANGED <<attempt, armed, served, app, store, known, once, reported, loginActs,
                   denied, unworked>>

-----------------------------------------------------------------------------
(* ssh's questions. *)

NoTab == UNCHANGED <<tab, attempt, reported, loginActs>>
Asks(what) == [asked EXCEPT ![attempt] = [what |-> what, user |-> tab.user, window |-> TRUE]]

\* The host's key: known, or asked about in a window; where there is none, a
\* new one in the tab, and another one is refused.
AskKey ==
    /\ ssh.step = "key"
    /\ \/ /\ known \in {"kept", "once"}
          /\ ssh' = [ssh EXCEPT !.step = "login"]
          /\ UNCHANGED asked
       \/ /\ known \in {None, "another"} /\ app
          /\ asked' = Asks(IF known = None THEN "key" ELSE "changed_key")
          /\ ssh' = [ssh EXCEPT !.step = "asks_key"]
       \/ /\ known \in {None, "another"} /\ ~app
          /\ ssh' = IF known = None THEN [ssh EXCEPT !.step = "tab_key"] ELSE Failed
          /\ UNCHANGED asked
    /\ NoTab
    /\ UNCHANGED <<armed, served, app, store, known, once, denied, unworked>>

\* The answer to attempt n's ssh, if that waits for it still: yes (it keeps
\* the key, as k) or no.
KeyYes(n, k) ==
    IF Runs(n) THEN ssh' = [ssh EXCEPT !.step = "login"] /\ known' = k
    ELSE UNCHANGED ssh /\ known' = IF known = "another" THEN None ELSE known
KeyNo(n) ==
    /\ ssh' = IF Runs(n) THEN Failed ELSE ssh
    /\ UNCHANGED known

Answered(n) == asked' = [asked EXCEPT ![n] = [@ EXCEPT !.what = None, !.window = FALSE]]

\* A new host's key is saved, trusted once, or not trusted; nobody answers in
\* time: not trusted.
AnswerKey(n) ==
    /\ asked[n].what = "key" /\ asked[n].window
    /\ Answered(n)
    /\ \/ /\ IF Runs(n) THEN KeyYes(n, "kept") ELSE UNCHANGED <<ssh, known>>
          /\ UNCHANGED once
       \/ /\ once' = TRUE
          /\ IF Runs(n) THEN KeyYes(n, "once") ELSE UNCHANGED <<ssh, known>>
       \/ KeyNo(n) /\ UNCHANGED once
    /\ NoTab
    /\ UNCHANGED <<armed, served, app, store, denied, unworked>>

\* Another key than the known one: the known one is taken out, and ssh keeps
\* the new one; or it is refused.
AnswerChangedKey(n) ==
    /\ asked[n].what = "changed_key" /\ asked[n].window
    /\ Answered(n)
    /\ KeyYes(n, "kept") \/ KeyNo(n)
    /\ NoTab
    /\ UNCHANGED <<armed, served, app, store, once, denied, unworked>>

\* A new host's key is asked about in the tab.
TabKey ==
    /\ ssh.step = "tab_key"
    /\ KeyYes(attempt, "kept") \/ KeyNo(attempt)
    /\ NoTab
    /\ UNCHANGED <<armed, served, asked, app, store, once, denied, unworked>>

Tries(secret) == [ssh EXCEPT !.step = "checks", !.given = secret]

\* ssh's prompt for the password: the one given with the user name, the saved
\* one (read now, and not marked meanwhile), or a window; else the tab.
AskPassword ==
    /\ ssh.step = "login"
    /\ \/ /\ ~armed.skipped /\ armed.preset # None
          /\ ssh' = Tries(armed.preset)
          /\ armed' = [armed EXCEPT !.preset = None]
          /\ UNCHANGED <<served, asked>>
       \/ /\ ~armed.skipped /\ armed.preset = None /\ armed.stored
          /\ IF Usable(tab.user)
             THEN served' = TRUE
                  /\ ssh' = [Tries(store[tab.user].secret) EXCEPT !.saved = TRUE]
             ELSE UNCHANGED served /\ ssh' = [ssh EXCEPT !.step = "tab"]
          /\ UNCHANGED <<armed, asked>>
       \/ /\ ~armed.skipped /\ armed.preset = None /\ ~armed.stored /\ app
          /\ asked' = Asks("password")
          /\ ssh' = [ssh EXCEPT !.step = "asks"]
          /\ UNCHANGED <<armed, served>>
       \/ /\ armed.skipped \/ (armed.preset = None /\ ~armed.stored /\ ~app)
          /\ armed' = [armed EXCEPT !.skipped = TRUE]
          /\ ssh' = [ssh EXCEPT !.step = "tab"]
          /\ UNCHANGED <<served, asked>>
    /\ NoTab
    /\ UNCHANGED <<app, store, known, once, denied, unworked>>

\* What the window says of attempt n's password.
AnswerPassword(n) ==
    /\ asked[n].what = "password" /\ asked[n].window
    /\ Answered(n)
    /\ \/ \E g \in Given :
            IF g.user = asked[n].user
            THEN /\ armed' = [armed EXCEPT !.keep = IF g.save THEN g.secret ELSE None]
                 /\ ssh' = IF Runs(n) THEN Tries(g.secret) ELSE ssh
            ELSE \* connected again as that user
                 /\ armed' = [armed EXCEPT !.relogin = g]
                 /\ ssh' = IF Runs(n) THEN Ended ELSE ssh
       \/ \* given up
          /\ ssh' = IF Runs(n) THEN Ended ELSE ssh
          /\ UNCHANGED armed
       \/ \* asked in the tab, as when nobody answers in time
          /\ armed' = [armed EXCEPT !.skipped = TRUE]
          /\ ssh' = IF Runs(n) THEN [ssh EXCEPT !.step = "tab"] ELSE ssh
    /\ NoTab
    /\ UNCHANGED <<served, app, store, known, once, denied, unworked>>

\* NativeTerm closes while its window asks: the tab asks instead, and another
\* key is refused.
Unanswered(n) ==
    /\ asked[n].what # None /\ ~asked[n].window
    /\ Answered(n)
    /\ armed' = [armed EXCEPT !.skipped = @ \/ asked[n].what = "password"]
    /\ ssh' = CASE ~Runs(n) -> ssh
                 [] Runs(n) /\ asked[n].what = "password" -> [ssh EXCEPT !.step = "tab"]
                 [] Runs(n) /\ asked[n].what = "key" -> [ssh EXCEPT !.step = "tab_key"]
                 [] Runs(n) /\ asked[n].what = "changed_key" -> Failed
    /\ NoTab
    /\ UNCHANGED <<served, app, store, known, once, denied, unworked>>

\* A password typed in the tab.
TabPassword ==
    /\ ssh.step = "tab"
    /\ \E secret \in Passwords : ssh' = Tries(secret)
    /\ NoTab
    /\ UNCHANGED <<armed, served, asked, app, store, known, once, denied, unworked>>

-----------------------------------------------------------------------------
(* The server, and who else acts. *)

\* Wrong variant: ssh isn't ended by its last prompt.
CheckAsksOn ==
    /\ ssh.step = "checks"
    /\ ssh' = IF ssh.given = "right" THEN [ssh EXCEPT !.step = "in", !.in = TRUE]
              ELSE [ssh EXCEPT !.step = "login", !.prompts = @ - 1]
    /\ NoTab
    /\ UNCHANGED <<armed, served, asked, app, store, known, once, denied, unworked>>

\* The server takes the password, or ssh asks again while it may.
Check ==
    /\ ssh.step = "checks"
    /\ IF ssh.given = "right"
       THEN ssh' = [ssh EXCEPT !.step = "in", !.in = TRUE] /\ UNCHANGED denied
       ELSE /\ ssh' = IF ssh.prompts = 1 THEN [Failed EXCEPT !.prompts = 0]
                      ELSE [ssh EXCEPT !.step = "login", !.prompts = @ - 1]
            /\ denied' = IF ssh.saved /\ store[tab.user].secret = ssh.given
                         THEN denied \cup {tab.user} ELSE denied
    /\ NoTab
    /\ UNCHANGED <<armed, served, asked, app, store, known, once, unworked>>

\* The server takes the person's key, and no password is asked for.
KeyLogin ==
    /\ ssh.step = "login" /\ ssh.prompts = Prompts(tab.user)
    /\ ssh' = [ssh EXCEPT !.step = "in", !.in = TRUE]
    /\ NoTab
    /\ UNCHANGED <<armed, served, asked, app, store, known, once, denied, unworked>>

\* ssh ends by itself or by Disconnect; a window that asks stays.
SshEnds ==
    /\ tab.at = "running" /\ ssh.step # "ended"
    /\ ssh' \in {Ended, Failed}
    /\ NoTab
    /\ UNCHANGED <<armed, served, asked, app, store, known, once, denied, unworked>>

AppStops ==
    /\ LoginAct /\ app /\ tab.at # "closed"
    /\ app' = FALSE
    /\ asked' = [n \in Attempts |-> [asked[n] EXCEPT !.window = FALSE]]
    /\ UNCHANGED <<tab, attempt, armed, served, ssh, store, known, once, reported,
                   denied, unworked>>

AppStarts ==
    /\ LoginAct /\ ~app /\ tab.at # "closed"
    /\ app' = TRUE
    /\ UNCHANGED <<tab, attempt, armed, served, ssh, asked, store, known, once,
                   reported, denied, unworked>>

\* A password is saved by the person or by another tab.
OthersSave ==
    /\ LoginAct /\ tab.at # "closed"
    /\ \E u \in Users, secret \in Passwords :
          /\ store' = [store EXCEPT ![u] = [secret |-> secret, refused |-> FALSE]]
          /\ denied' = denied \ {u}
    /\ UNCHANGED <<tab, attempt, armed, served, ssh, asked, app, known, once,
                   reported, unworked>>

LoginNext ==
    \/ Begin \/ LoggedIn \/ Finish \/ ConnectAgain \/ Close
    \/ AskKey \/ TabKey \/ AskPassword \/ TabPassword
    \/ \E n \in Attempts : AnswerKey(n) \/ AnswerChangedKey(n) \/ AnswerPassword(n)
                              \/ Unanswered(n)
    \/ Check \/ KeyLogin \/ SshEnds
    \/ AppStops \/ AppStarts \/ OthersSave

LoginSpec == LoginInit /\ [][LoginNext]_loginVars

-----------------------------------------------------------------------------
(* Properties. *)

\* A saved password the server refused is not given again before another is
\* saved: not in another prompt of that ssh, and not in a later attempt, as
\* long as the tab doesn't go on as another user (saved.rs: "no retries into
\* a server-side ban").
RefusedIsLeft ==
    [][ssh'.step = "checks" /\ ssh'.saved /\ ssh.step # "checks" => tab.user \notin denied]_loginVars

\* A key trusted once is in known_hosts only while its session lasts, in
\* whichever way that ends but by closing the tab (hostkey.rs, forget_once).
OnceIsForgotten == tab.at \in {"idle", "begin"} => known # "once"

\* A password kept from the window is the one that logged in
\* (docs/ARCHITECTURE.md: "a wrong one is never kept").
KeptWorked == ~unworked

===============================================================================
