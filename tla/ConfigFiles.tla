------------------------------ MODULE ConfigFiles ------------------------------
(***************************************************************************)
(* The ssh config files NativeTerm keeps the hosts in (native-term-config: *)
(* ops.rs, write.rs, document.rs, header.rs, folder_options.rs, tree.rs).  *)
(* An operation of the Editor is a sequence of edits; an edit reads a      *)
(* file, compares it with what was read, replaces it, lets ssh check the   *)
(* result and puts the previous file back where ssh refuses it.  Two       *)
(* threads do this, the window's and the import's, while others write the  *)
(* same files with an editor, and NativeTerm may be killed at any step.    *)
(*                                                                         *)
(* There is a main config, one folder file, and that file's copy in        *)
(* another directory.  A file is the flags of its head, whether it ends    *)
(* with a folder's options, and each host's blocks in their order, which   *)
(* are nearly always none or one: a HostName (a number, a new one for      *)
(* every change), whether it has NativeTerm keys, and its Tag.  The order  *)
(* of different hosts is left out: it changes nothing ssh makes of them.   *)
(***************************************************************************)
EXTENDS Integers, Sequences, FiniteSets, SequencesExt

CONSTANTS
    Alias,          \* names of hosts
    NoAlias,        \* of an edit that isn't about a host
    MaxEvents       \* bound: operations, imports, changes by others, crashes

ASSUME ConfigAssumption ==
    /\ NoAlias \notin Alias
    /\ MaxEvents \in Nat

Folders == {"old", "new"}
ConfigFile == {"main"} \cup Folders
Writers == {"window", "import"}
Tag == {"none", "own", "folder"}
Gone == -1      \* the HostName of a host that isn't there

VARIABLES
    files,      \* the files
    tree,       \* the hosts as NativeTerm loaded them last
    dir,        \* where the folder file is, as NativeTerm knows
    writer,     \* the edits each thread has to do
    events,     \* operations, imports, changes by others, crashes so far
    fresh,      \* the last HostName given
    known,      \* what each host was given last (history)
    mishaps     \* what excuses a loss (history)

configVars == <<files, tree, dir, writer, events, fresh, known, mishaps>>

Block(n, keys, t) == [name |-> n, keys |-> keys, tag |-> t]

\* A file that isn't there; it is read as an empty one.
NoDoc ==
    [there |-> FALSE, ignore |-> FALSE, include |-> <<>>, keys |-> FALSE, options |-> FALSE,
     hosts |-> [a \in Alias |-> <<>>]]
EmptyDoc == [NoDoc EXCEPT !.there = TRUE]

-----------------------------------------------------------------------------
(* Documents. *)

Hosts(doc) == {a \in Alias : doc.hosts[a] # <<>>}

\* Every host of a folder with options that has no Tag of its own gets theirs.
Tagged(b) == IF b.tag = "own" THEN b ELSE [b EXCEPT !.tag = "folder"]
Untag(b) == IF b.tag = "folder" THEN [b EXCEPT !.tag = "none"] ELSE b

Arrange(doc) ==
    IF doc.options
    THEN [doc EXCEPT !.hosts = [a \in Alias |-> [i \in DOMAIN @[a] |-> Tagged(@[a][i])]]]
    ELSE doc

WithOptions(doc) == Arrange([doc EXCEPT !.options = TRUE])
WithoutOptions(doc) ==
    [doc EXCEPT !.options = FALSE,
                !.hosts = [a \in Alias |-> [i \in DOMAIN @[a] |-> Untag(@[a][i])]]]

\* The lines at the top: IgnoreUnknown, and Include for the folder file.
WithHeader(doc, d) ==
    [doc EXCEPT !.ignore = TRUE,
                !.include = IF Contains(@, d) THEN @ ELSE <<d>> \o @]

ReplaceInclude(doc, from, to) ==
    WithHeader([doc EXCEPT !.include = [i \in DOMAIN @ |-> IF @[i] = from THEN to ELSE @[i]]], to)

\* What an edit makes of a document; the first of a host's blocks is meant,
\* but where a copy is taken out again, the last.
Change(e, doc) ==
    LET blocks == doc.hosts[e.alias]
    IN  CASE e.kind = "header" -> WithHeader(doc, e.to)
          [] e.kind = "include" -> ReplaceInclude(doc, e.from, e.to)
          [] e.kind = "ignore" -> [doc EXCEPT !.ignore = TRUE]
          [] e.kind \in {"add", "copy"} -> Arrange([doc EXCEPT !.hosts[e.alias] = Append(@, e.block)])
          [] e.kind = "update" /\ blocks # <<>> ->
                [doc EXCEPT !.hosts[e.alias][1] = [@ EXCEPT !.name = e.block.name, !.keys = e.block.keys]]
          [] e.kind = "id" /\ blocks # <<>> -> [doc EXCEPT !.hosts[e.alias][1].keys = TRUE]
          [] e.kind \in {"delete", "remove"} /\ blocks # <<>> -> [doc EXCEPT !.hosts[e.alias] = Tail(@)]
          [] e.kind = "withdraw" /\ blocks # <<>> -> [doc EXCEPT !.hosts[e.alias] = Front(@)]
          [] e.kind = "label" -> [doc EXCEPT !.keys = TRUE]
          [] e.kind = "create" -> [EmptyDoc EXCEPT !.keys = TRUE]
          [] e.kind = "options" -> WithOptions(doc)
          [] e.kind = "plain" -> WithoutOptions(doc)
          [] e.kind = "clone" -> files[e.from]
          [] OTHER -> doc

-----------------------------------------------------------------------------
(* What ssh makes of the files: the included ones first, the first block   *)
(* of an alias is used, and a key it doesn't know makes it refuse all.     *)

Reads(fs) == fs["main"].include \o <<"main">>
ReadFiles(fs) == ToSet(Reads(fs))

Aliases(fs) == UNION {Hosts(fs[f]) : f \in ReadFiles(fs)}

Effective(fs, a) ==
    IF a \notin Aliases(fs) THEN Gone
    ELSE LET r == Reads(fs)
             first == CHOOSE i \in DOMAIN r :
                         a \in Hosts(fs[r[i]]) /\ \A j \in 1 .. (i - 1) : a \notin Hosts(fs[r[j]])
         IN  fs[r[first]].hosts[a][1].name

\* No NativeTerm keys.
Keyless(doc) == ~doc.keys /\ \A a \in Alias : \A i \in DOMAIN doc.hosts[a] : ~doc.hosts[a][i].keys

Accepts(fs) == fs["main"].ignore \/ \A f \in ReadFiles(fs) : Keyless(fs[f])

\* Defined more than once.
Doubled(fs) ==
    LET r == Reads(fs)
    IN  {a \in Alias :
            \E i, j \in DOMAIN r :
                /\ {a} \subseteq Hosts(fs[r[i]]) \cap Hosts(fs[r[j]])
                /\ i # j \/ Len(fs[r[i]].hosts[a]) > 1}

Load(fs) ==
    UNION {{[alias |-> a, file |-> f, name |-> fs[f].hosts[a][i].name] : i \in DOMAIN fs[f].hosts[a]}
           : a \in Alias, f \in ReadFiles(fs)}

\* What is checked after an edit.
Checks(e) ==
    \/ e.check = "nothing"
    \/ /\ Accepts(files)
       /\ e.check = "name" => Effective(files, e.alias) = e.block.name
       /\ e.check = "hosts" => Aliases(files) = e.hosts

-----------------------------------------------------------------------------
(* Operations: the edits they are made of. *)

Edit(kind, f, a, block, check) ==
    [kind |-> kind, file |-> f, alias |-> a, block |-> block, check |-> check, undo |-> <<>>,
     from |-> "old", to |-> dir, hosts |-> {}]
NoBlock == Block(0, FALSE, "none")
Plain(kind, f) == Edit(kind, f, NoAlias, NoBlock, "parse")
Header == Plain("header", "main")
Ignore == Plain("ignore", "main")

NewBlock == Block(fresh + 1, TRUE, "none")

CreateHost(a, f) ==
    <<IF f = "main" THEN Ignore ELSE Header, Edit("add", f, a, NewBlock, "name")>>

UpdateHost(h) == <<Ignore, Edit("update", h.file, h.alias, NewBlock, "name")>>

DeleteHost(h) == <<Edit("delete", h.file, h.alias, NoBlock, "parse")>>

EnsureId(h) == <<Edit("id", h.file, h.alias, NoBlock, "parse")>>

\* The first block of a host in the file NativeTerm has it from.
BlockOf(h) == Untag(files[h.file].hosts[h.alias][1])

CopyOf(h, f) == Edit("copy", f, h.alias, BlockOf(h), "nothing")
TakenFrom(h) == Edit("remove", h.file, h.alias, [BlockOf(h) EXCEPT !.name = h.name], "name")
Withdrawal(h, f) == Edit("withdraw", f, h.alias, NoBlock, "nothing")
MoveHeader(f) == IF f = "main" THEN <<>> ELSE <<Header>>

\* Wrong variant: the host is taken out of its file first.
MoveRemovedFirst(h, f) ==
    MoveHeader(f) \o <<[TakenFrom(h) EXCEPT !.check = "parse"], CopyOf(h, f)>>

\* Wrong variant: where the host can't be removed, the copy stays.
MoveNotUndone(h, f) == MoveHeader(f) \o <<CopyOf(h, f), TakenFrom(h)>>

\* The block is read, written to the other file, and then removed here;
\* where that fails, the copy is taken out again.
MoveHost(h, f) ==
    MoveHeader(f)
    \o <<CopyOf(h, f),
         [TakenFrom(h) EXCEPT !.undo = <<Withdrawal(h, f)>>]>>

CreateFolder == <<Plain("create", dir), Header>>

SetFolder(kind) == IF kind = "label" THEN <<Ignore, Plain(kind, dir)>> ELSE <<Plain(kind, dir)>>

\* The folder file is copied, then Include is pointed at the copy.
MoveFolders ==
    LET copy == [Plain("clone", "new") EXCEPT !.check = "nothing", !.from = dir]
        drop == [Plain("drop", "new") EXCEPT !.check = "nothing"]
        include == [Plain("include", "main")
                    EXCEPT !.to = "new", !.check = "hosts", !.hosts = Aliases(files), !.undo = <<drop>>]
    IN  <<copy, include>>

AdoptFolders == <<[Plain("include", "main") EXCEPT !.to = "new"]>>

\* A folder of an import; once more where it fails.
ImportFolder(a) ==
    LET add == Edit("add", dir, a, NewBlock, "name")
    IN  <<Header, [add EXCEPT !.undo = <<add>>]>>

-----------------------------------------------------------------------------
(* An edit, step by step. *)

Idle == [todo |-> <<>>, step |-> "idle", text |-> NoDoc, new |-> NoDoc]

ConfigInit ==
    /\ \E ignore, options, keys \in BOOLEAN, include \in {<<>>, <<"old">>}, a \in Alias :
          /\ keys => ignore
          /\ LET main == [EmptyDoc EXCEPT !.ignore = ignore, !.include = include]
                 host == Block(0, keys, "none")
                 folder == [EmptyDoc EXCEPT !.hosts[a] = <<host>>]
             IN  \/ /\ include = <<"old">>
                    /\ files = [f \in ConfigFile |->
                                  CASE f = "main" -> main
                                    [] f = "old" -> IF options THEN WithOptions(folder) ELSE folder
                                    [] f = "new" -> NoDoc]
                 \/ /\ ~options
                    /\ files = [f \in ConfigFile |->
                                  IF f = "main" THEN [main EXCEPT !.hosts[a] = <<host>>] ELSE NoDoc]
    /\ tree = Load(files)
    /\ dir = "old"
    /\ writer = [w \in Writers |-> Idle]
    /\ events = 0 /\ fresh = 0
    /\ known = [a \in Alias |-> Effective(files, a)]
    /\ mishaps = {}

Current(w) == Head(writer[w].todo)
At(w, step) == writer[w].step = step

\* Another writes a file that w has compared but isn't done with.
Races(w, f) ==
    \E v \in Writers \ {w} : writer[v].step \in {"replace", "check"} /\ Current(v).file = f

\* The window is moving a host, the folders: what others write now of the
\* host, of the folder is missing in the copy it made.
Moving(a) == \E e \in ToSet(writer["window"].todo) : e.kind = "remove" /\ e.alias = a
FoldersMoving == \E e \in ToSet(writer["window"].todo) : e.kind = "include" /\ e.check = "hosts"

Mishap(m, yes) == IF yes THEN {m} ELSE {}
Stale(f, a) == Mishap("staleHost", Moving(a)) \cup Mishap("staleFolder", FoldersMoving /\ f # "main")

Bounds == UNCHANGED <<events, fresh>>
Happens == events < MaxEvents /\ events' = events + 1

\* Wrong variant: the thread isn't done after its last edit.
GoesOn(w, todo, fs, to) ==
    /\ writer' = [writer EXCEPT ![w] = [Idle EXCEPT !.todo = todo, !.step = "read"]]
    /\ dir' = to
    /\ UNCHANGED tree

\* What is left to do; the window loads the hosts again after each operation.
Goes(w, todo, fs, to) ==
    /\ writer' = [writer EXCEPT ![w] = [Idle EXCEPT !.todo = todo, !.step = IF todo = <<>> THEN "idle" ELSE "read"]]
    /\ dir' = to
    /\ tree' = IF todo = <<>> /\ w = "window" THEN Load(fs) ELSE tree

Done(w) ==
    Goes(w, Tail(writer[w].todo), files, IF Current(w).kind = "include" THEN Current(w).to ELSE dir)

GivesUp(w, fs) ==
    /\ Goes(w, Current(w).undo, fs, dir)
    /\ mishaps' = mishaps \cup Mishap("undoFailed", Current(w).kind = "withdraw")

\* A file that is made anew: it must not be there.
Anew(e) == e.kind \in {"clone", "create"}

Read(w) ==
    /\ At(w, "read")
    /\ LET e == Current(w)
           new == Change(e, files[e.file])
       IN  IF e.kind = "drop"
           THEN /\ files' = [files EXCEPT ![e.file] = NoDoc]
                /\ Goes(w, Tail(writer[w].todo), files', dir)
                /\ UNCHANGED <<known, mishaps>>
           ELSE /\ IF new = files[e.file] /\ ~Anew(e)
                   THEN IF e.kind = "delete" THEN GivesUp(w, files) ELSE Done(w) /\ UNCHANGED mishaps
                   ELSE /\ writer' = [writer EXCEPT
                              ![w] = [todo |-> @.todo, step |-> "compare",
                                      text |-> IF Anew(e) THEN NoDoc ELSE files[e.file],
                                      new |-> [new EXCEPT !.there = TRUE]]]
                        /\ UNCHANGED <<tree, dir, mishaps>>
                /\ UNCHANGED <<files, known>>
    /\ Bounds

\* Wrong variant: what is there now is replaced, whatever was read.
CompareNothing(w) ==
    /\ At(w, "compare")
    /\ writer' = [writer EXCEPT ![w].step = "replace"]
    /\ UNCHANGED <<files, tree, dir, known, mishaps>>
    /\ Bounds

\* A file that isn't as it was read is left alone.
Compare(w) ==
    /\ At(w, "compare")
    /\ IF files[Current(w).file] # writer[w].text
       THEN GivesUp(w, files)
       ELSE /\ writer' = [writer EXCEPT ![w].step = "replace"]
            /\ UNCHANGED <<tree, dir, mishaps>>
    /\ UNCHANGED <<files, known>>
    /\ Bounds

Replace(w) ==
    /\ At(w, "replace")
    /\ LET e == Current(w)
       IN  /\ files' = [files EXCEPT ![e.file] = writer[w].new]
           /\ mishaps' = mishaps
                 \cup Mishap("raced", Races(w, e.file))
                 \cup (IF w = "import" THEN Stale(e.file, e.alias) ELSE {})
                 \cup Mishap("again", e.kind = "add" /\ e.alias \in Doubled(files))
                 \cup Mishap("taken", \/ e.kind # "copy" /\ ~(Doubled(files') \subseteq Doubled(files))
                                      \/ Len(files'["main"].include) > 1)
    /\ writer' = [writer EXCEPT ![w].step = "check"]
    /\ UNCHANGED <<tree, dir, known>>
    /\ Bounds

\* Being given, or taken away, and not checked yet.
Pending(w, a, kinds) == At(w, "check") /\ Current(w).kind \in kinds /\ Current(w).alias = a

\* What the hosts were given last, once an edit counts.  What comes in with
\* a folder is known, but for what isn't checked yet; what isn't in it is gone.
KnownNow ==
    [a \in Alias |-> IF a \in Aliases(files) /\ \E w \in Writers : Pending(w, a, {"add", "update"})
                     THEN known[a] ELSE Effective(files, a)]

Knows(e) ==
    CASE e.kind \in {"add", "update"} -> [known EXCEPT ![e.alias] = e.block.name]
      [] e.kind = "delete" -> [known EXCEPT ![e.alias] = Gone]
      [] e.kind = "header" \/ (e.kind = "include" /\ e.check = "parse") -> KnownNow
      [] OTHER -> known

\* Wrong variant: what ssh refuses stays.
CheckNothing(w) ==
    /\ At(w, "check")
    /\ Done(w)
    /\ known' = Knows(Current(w))
    /\ UNCHANGED <<files, mishaps>>
    /\ Bounds

\* Where ssh refuses the result the previous file is put back (none: it is
\* removed).
Check(w) ==
    /\ At(w, "check")
    /\ LET e == Current(w)
       IN  IF Checks(e)
           THEN /\ Done(w)
                /\ known' = Knows(e)
                /\ UNCHANGED <<files, mishaps>>
           ELSE /\ files' = [files EXCEPT ![e.file] = writer[w].text]
                /\ Goes(w, e.undo, files', dir)
                /\ mishaps' = mishaps \cup Mishap("raced", Races(w, e.file))
                /\ UNCHANGED known
    /\ Bounds

Begin(w, todo, given) ==
    /\ At(w, "idle")
    /\ writer' = [writer EXCEPT ![w] = [Idle EXCEPT !.todo = todo, !.step = "read"]]
    /\ fresh' = IF given THEN fresh + 1 ELSE fresh
    /\ Happens
    /\ UNCHANGED <<files, tree, dir, known, mishaps>>

Operates(todo, given) == Begin("window", todo, given)

Has(h) == h.alias \in Hosts(files[h.file])

Create ==
    \E a \in Alias \ {h.alias : h \in tree}, f \in {"main", dir} :
        (f = "main" \/ files[f].there) /\ Operates(CreateHost(a, f), TRUE)
Update == \E h \in tree : Has(h) /\ Operates(UpdateHost(h), TRUE)
Delete == \E h \in tree : Operates(DeleteHost(h), FALSE)
Identify == \E h \in tree : Operates(EnsureId(h), FALSE)
Move == \E h \in tree : \E f \in {"main", dir} \ {h.file} : Has(h) /\ Operates(MoveHost(h, f), FALSE)
NewFolder == ~files[dir].there /\ Operates(CreateFolder, FALSE)
FolderSet == \E kind \in {"label", "options", "plain"} :
    files[dir].there /\ Operates(SetFolder(kind), FALSE)
FoldersMove == dir = "old" /\ files["old"].there /\ ~files["new"].there /\ Operates(MoveFolders, FALSE)
FoldersAdopt == dir = "old" /\ files["new"].there /\ Operates(AdoptFolders, FALSE)

Import ==
    \E a \in Alias \ {h.alias : h \in tree} : Begin("import", ImportFolder(a), TRUE)

\* The watcher of the folders saw a change.
Reload ==
    /\ At("window", "idle") /\ tree # Load(files)
    /\ tree' = Load(files)
    /\ UNCHANGED <<files, dir, writer, known, mishaps>>
    /\ Bounds

OthersMishaps(f, a) ==
    Mishap("raced", Races("others", f)) \cup Mishap("taken", a \in Doubled(files)) \cup Stale(f, a)

\* Another program changes, removes or adds a host.  A change that comes
\* after the host was copied and before the copy is used is a stale copy.
OthersWrite ==
    /\ Happens
    /\ \E f \in ReadFiles(files), a \in Alias :
        /\ \/ /\ a \in Hosts(files[f])
              /\ files' = [files EXCEPT ![f].hosts[a][1].name = fresh + 1]
              /\ known' = [known EXCEPT ![a] = fresh + 1]
              /\ mishaps' = mishaps \cup OthersMishaps(f, a)
           \/ /\ a \in Hosts(files[f])
              /\ files' = [files EXCEPT ![f].hosts[a] = Tail(@)]
              /\ known' = [known EXCEPT ![a] = Gone]
              /\ mishaps' = mishaps \cup OthersMishaps(f, a) \cup Mishap("removed", Moving(a))
           \/ /\ f = "main" /\ a \notin Aliases(files)
              /\ files' = [files EXCEPT ![f].hosts[a] = <<Block(fresh + 1, FALSE, "none")>>]
              /\ known' = [known EXCEPT ![a] = fresh + 1]
              /\ mishaps' = mishaps \cup OthersMishaps(f, a)
    /\ fresh' = fresh + 1
    /\ UNCHANGED <<tree, dir, writer>>

Deleted(a) == \E w \in Writers : Pending(w, a, {"delete"})
Adopted == \E w \in Writers : At(w, "check") /\ Current(w).kind = "include" /\ Current(w).check = "parse"

\* What was written and wasn't checked stays.
Killed ==
    /\ Happens
    /\ \E w \in Writers : ~At(w, "idle")
    /\ known' = [a \in Alias |-> IF Deleted(a) THEN Gone ELSE IF Adopted THEN Effective(files, a) ELSE known[a]]
    /\ writer' = [w \in Writers |-> Idle]
    /\ tree' = Load(files)
    /\ mishaps' = mishaps \cup {"crashed"}
    /\ UNCHANGED <<files, dir, fresh>>

Step(w) == Read(w) \/ Compare(w) \/ Replace(w) \/ Check(w)

ConfigNext ==
    \/ \E w \in Writers : Step(w)
    \/ Create \/ Update \/ Delete \/ Identify \/ Move \/ NewFolder \/ FolderSet
    \/ FoldersMove \/ FoldersAdopt \/ Import \/ Reload \/ OthersWrite \/ Killed

AliasSymmetry == Permutations(Alias)

ConfigSpec == ConfigInit /\ [][ConfigNext]_configVars

-----------------------------------------------------------------------------
(* Properties. *)

Blk == [name : 0 .. fresh, keys : BOOLEAN, tag : Tag]

\* Types.  A file that isn't there is as if empty; the main config always is.
ConfigTypeOK ==
    /\ \A f \in ConfigFile :
          /\ files[f].there \/ (files[f] = NoDoc /\ f # "main")
          /\ {files[f].ignore, files[f].keys, files[f].options} \subseteq BOOLEAN
          /\ ToSet(files[f].include) \subseteq Folders
          /\ \A a \in Alias : ToSet(files[f].hosts[a]) \subseteq Blk
    /\ tree \subseteq [alias : Alias, file : ConfigFile, name : 0 .. fresh]
    /\ dir \in Folders
    /\ \A w \in Writers : (writer[w].step = "idle") <=> (writer[w].todo = <<>>)
    /\ known \in [Alias -> {Gone} \cup 0 .. fresh]

\* A host is never lost, whatever step NativeTerm is killed at: it is always
\* in a file that ssh reads, but where two wrote a file at the same time, others
\* took a host away that was being moved, or the person chose other folders and
\* that isn't checked yet.
HostsAreKept ==
    mishaps \cap {"raced", "taken", "staleFolder", "removed"} = {} =>
        \A a \in Alias : known[a] # Gone => a \in Aliases(files) \/ Deleted(a) \/ Adopted

\* ssh uses what a host was given last, by whomever.
ChangesAreKept(excuses) ==
    mishaps \cap excuses = {} =>
        \A a \in Alias :
            \/ known[a] \in {Gone, Effective(files, a)}
            \/ \E w \in Writers : Pending(w, a, {"add", "update", "delete"})

AtRest == \A w \in Writers : ~At(w, "check")
AllDone == \A w \in Writers : At(w, "idle")

\* A change is only ever lost where two wrote at the same time, a name was
\* taken twice, or the host was being moved.  Once all is done each host is
\* defined once, whether it was moved or couldn't be: nothing of it is left
\* that isn't used.
ChangesAreUsed ==
    /\ ChangesAreKept({"raced", "taken", "again", "staleHost", "staleFolder", "crashed", "undoFailed"})
    /\ AllDone /\ mishaps = {} => Doubled(files) = {}

\* A file that changed since it was read isn't replaced: once all is done, a
\* change of others to a host that was being moved is used, too.
ChangesOutliveMoves == AllDone => ChangesAreKept({"raced", "taken", "crashed", "undoFailed"})

\* ssh is never left with files it refuses: it accepts them whenever no change
\* is waiting to be checked, unless two wrote a file at the same time or
\* NativeTerm was killed.
FilesAreAccepted == AtRest /\ mishaps \cap {"raced", "crashed"} = {} => Accepts(files)

\* A NativeTerm key is written only where ssh was told to ignore it.
KeysAreIgnored == Accepts(files)
=============================================================================
