------------------------------ MODULE Hosts_proof ------------------------------
(***************************************************************************)
(* Proofs about the ssh config files (ConfigFiles), for any hosts,         *)
(* operations, imports, changes by others and crashes, on the ground of    *)
(* their types (Saving_proof). No host is lost: each that NativeTerm was   *)
(* given stays in a file that ssh reads, unless it was deleted, or         *)
(* something happened that excuses a loss. And ssh accepts the files       *)
(* whenever no change is waiting to be checked: NativeTerm's keys, where   *)
(* ssh wasn't told to ignore them, don't outlive the check.                *)
(***************************************************************************)
EXTENDS Saving_proof

-----------------------------------------------------------------------------
(* What the threads have to do: the edits' checks and undoing, and which   *)
(* edits come one behind another.                                          *)

\* What each kind of edit is checked for, and what is done where it fails.
EditOK(e) ==
    /\ e.kind \in {"header", "ignore", "delete", "id", "label", "options", "plain", "create"} =>
          e.check = "parse" /\ e.undo = <<>>
    /\ e.kind \in {"copy", "withdraw", "clone", "drop"} => e.check = "nothing" /\ e.undo = <<>>
    /\ e.kind = "update" => e.check = "name" /\ e.undo = <<>>
    /\ e.kind = "add" =>
          /\ e.check = "name"
          /\ \/ e.undo = <<>>
             \/ \E x \in Edits :
                   /\ e.undo = <<x>> /\ x.kind = "add" /\ x.check = "name" /\ x.undo = <<>>
                   /\ x.file = e.file /\ x.to = e.to /\ x.alias = e.alias /\ x.block = e.block
    /\ e.kind = "remove" =>
          /\ e.check = "name"
          /\ \E x \in Edits :
                /\ e.undo = <<x>> /\ x.kind = "withdraw" /\ x.check = "nothing" /\ x.undo = <<>>
                /\ x.alias = e.alias /\ x.file # e.file
    /\ e.kind = "include" =>
          /\ e.to = "new" /\ e.from = "old"
          /\ \/ e.check = "parse" /\ e.undo = <<>>
             \/ /\ e.check = "hosts"
                /\ \E x \in Edits : /\ e.undo = <<x>> /\ x.kind = "drop" /\ x.check = "nothing"
                                    /\ x.undo = <<>> /\ x.file = "new"
    /\ e.kind = "clone" => e.file = "new" /\ e.from = "old"
    /\ e.kind = "drop" => e.file = "new"

\* A move: what is taken out again where the removal fails is what was copied.
MovePair(c, r) ==
    /\ c.kind = "copy" /\ r.kind = "remove" /\ c.alias = r.alias /\ c.file # r.file
    /\ r.undo[1].file = c.file

\* Two edits one behind the other.
WindowPair(x, y) ==
    \/ x.kind \in {"header", "ignore"} /\ y.kind \in {"add", "update", "label"}
    \/ x.kind = "create" /\ y.kind = "header"
    \/ MovePair(x, y)
    \/ x.kind = "clone" /\ y.kind = "include" /\ y.check = "hosts"

\* What the window has to do: an operation, or what is left of it.
WindowTodo(t) ==
    \/ t = <<>>
    \/ \E x \in Edits : t = <<x>> /\ x.kind \notin {"copy", "clone"}
    \/ \E x, y \in Edits : t = <<x, y>> /\ WindowPair(x, y)
    \/ \E x, y, z \in Edits : t = <<x, y, z>> /\ x.kind = "header" /\ x.to = y.file /\ MovePair(y, z)

\* What the import has to do: a host, behind the head that makes its file read.
ImportTodo(t) ==
    \/ t = <<>>
    \/ \E x \in Edits : t = <<x>> /\ x.kind = "add"
    \/ \E x, y \in Edits : t = <<x, y>> /\ x.kind = "header" /\ y.kind = "add" /\ x.to = y.file

\* Only the window makes the copy of the folder's file, and only while that
\* file is at its first place.
WindowPlace(e, d) ==
    /\ e.kind \in {"clone", "drop", "include"} => d = "old"
    /\ e.kind = "header" /\ e.to = "new" => d = "new"

\* The import writes no host to the main config, and to the copy of the folder's file only
\* once that is in its place.
ImportPlace(e, d) ==
    /\ e.file = "new" => d = "new"
    /\ e.to = "new" => d = "new"
    /\ e.kind = "add" => e.file \in Folders

\* A list of edits that a thread comes to have.
TodoOK(w, t, d) ==
    /\ \A e \in ToSet(t) : EditOK(e)
    /\ w = "window" => WindowTodo(t) /\ \A e \in ToSet(t) : WindowPlace(e, d)
    /\ w = "import" => ImportTodo(t) /\ \A e \in ToSet(t) : ImportPlace(e, d)

\* Each thread's list is such a one.
TodoInv == \A w \in Writers : TodoOK(w, writer[w].todo, dir)

\* The members of short sequences of edits.
LEMMA TodoSets ==
    ASSUME NEW x \in Edits, NEW y \in Edits, NEW z \in Edits
    PROVE  /\ ToSet(<<x>>) = {x} /\ ToSet(<<x, y>>) = {x, y} /\ ToSet(<<x, y, z>>) = {x, y, z}
           /\ <<x>>[1] = x
  BY DEF ToSet

\* A sequence has its first member and those of its rest.
LEMMA SetOfRest ==
    ASSUME NEW t \in Seq(Edits), t # <<>>
    PROVE  ToSet(t) = {Head(t)} \cup ToSet(Tail(t)) /\ Head(t) \in Edits /\ ToSet(t) \subseteq Edits
  <1>1. /\ Len(t) \in Nat /\ Len(t) > 0 /\ Head(t) = t[1]
        /\ Tail(t) \in Seq(Edits) /\ Len(Tail(t)) = Len(t) - 1
        /\ \A i \in 1 .. Len(t) - 1 : Tail(t)[i] = t[i + 1]
        /\ \A i \in 1 .. Len(t) : t[i] \in Edits
    OBVIOUS
  <1>2. ToSet(t) = {t[i] : i \in 1 .. Len(t)} /\ ToSet(Tail(t)) = {Tail(t)[i] : i \in 1 .. Len(t) - 1}
    <2>1. DOMAIN t = 1 .. Len(t) /\ DOMAIN Tail(t) = 1 .. Len(t) - 1
      BY <1>1
    <2> QED BY <2>1 DEF ToSet
  <1>3. ToSet(t) \subseteq {Head(t)} \cup ToSet(Tail(t))
    <2>1. SUFFICES ASSUME NEW i \in 1 .. Len(t), i # 1 PROVE t[i] \in ToSet(Tail(t))
      BY <1>1, <1>2
    <2>2. i - 1 \in 1 .. Len(t) - 1 /\ Tail(t)[i - 1] = t[i]
      BY <1>1, <2>1
    <2> QED BY <1>2, <2>2
  <1>4. {Head(t)} \cup ToSet(Tail(t)) \subseteq ToSet(t)
    <2>1. Head(t) \in ToSet(t)
      BY <1>1, <1>2
    <2>2. SUFFICES ASSUME NEW i \in 1 .. Len(t) - 1 PROVE Tail(t)[i] \in ToSet(t)
      BY <1>2, <2>1
    <2>3. i + 1 \in 1 .. Len(t) /\ Tail(t)[i] = t[i + 1]
      BY <1>1, <2>2
    <2> QED BY <1>2, <2>3
  <1> QED BY <1>1, <1>2, <1>3, <1>4

\* What may stand first, and what then follows.
LEMMA WindowTodoParts ==
    ASSUME NEW t \in Seq(Edits), t # <<>>, WindowTodo(t)
    PROVE  /\ WindowTodo(Tail(t))
           /\ Head(t).kind \in {"include", "drop", "withdraw", "remove", "delete", "id", "add", "update",
                                "options", "plain", "label"} => Tail(t) = <<>>
           /\ Head(t).kind = "copy" =>
                 \E r \in Edits : Tail(t) = <<r>> /\ MovePair(Head(t), r)
           /\ Head(t).kind = "clone" =>
                 \E r \in Edits : Tail(t) = <<r>> /\ r.kind = "include" /\ r.check = "hosts"
           /\ \/ Tail(t) = <<>>
              \/ \E r \in Edits : Tail(t) = <<r>> /\ WindowPair(Head(t), r)
              \/ \E c, r \in Edits : /\ Tail(t) = <<c, r>> /\ Head(t).kind = "header"
                                     /\ Head(t).to = c.file /\ MovePair(c, r)
  <1>1. CASE \E x \in Edits : t = <<x>> /\ x.kind \notin {"copy", "clone"}
    <2>1. PICK x \in Edits : t = <<x>> /\ x.kind \notin {"copy", "clone"}
      BY <1>1
    <2>2. Head(t) = x /\ Tail(t) = <<>>
      BY <2>1, TodoTypes
    <2> QED BY <2>1, <2>2 DEF WindowTodo
  <1>2. CASE \E x, y \in Edits : t = <<x, y>> /\ WindowPair(x, y)
    <2>1. PICK x \in Edits, y \in Edits : t = <<x, y>> /\ WindowPair(x, y)
      BY <1>2
    <2>2. Head(t) = x /\ Tail(t) = <<y>>
      BY <2>1, TodoTypes
    <2>3. y.kind \notin {"copy", "clone"}
      BY <2>1 DEF WindowPair, MovePair
    <2> QED BY <2>1, <2>2, <2>3 DEF WindowTodo, WindowPair, MovePair
  <1>3. CASE \E x, y, z \in Edits : t = <<x, y, z>> /\ x.kind = "header" /\ x.to = y.file /\ MovePair(y, z)
    <2>1. PICK x \in Edits, y \in Edits, z \in Edits :
             t = <<x, y, z>> /\ x.kind = "header" /\ x.to = y.file /\ MovePair(y, z)
      BY <1>3
    <2>2. Head(t) = x /\ Tail(t) = <<y, z>>
      BY <2>1, TodoTypes
    <2> QED BY <2>1, <2>2 DEF WindowTodo, WindowPair
  <1> QED BY <1>1, <1>2, <1>3 DEF WindowTodo

\* The same of an import.
LEMMA ImportTodoParts ==
    ASSUME NEW t \in Seq(Edits), t # <<>>, ImportTodo(t)
    PROVE  /\ ImportTodo(Tail(t))
           /\ \/ Head(t).kind = "add" /\ Tail(t) = <<>>
              \/ \E y \in Edits : Head(t).kind = "header" /\ Tail(t) = <<y>> /\ y.kind = "add" /\ Head(t).to = y.file
  <1>1. CASE \E x \in Edits : t = <<x>> /\ x.kind = "add"
    <2>1. PICK x \in Edits : t = <<x>> /\ x.kind = "add"
      BY <1>1
    <2>2. Head(t) = x /\ Tail(t) = <<>>
      BY <2>1, TodoTypes
    <2> QED BY <2>1, <2>2 DEF ImportTodo
  <1>2. CASE \E x, y \in Edits : t = <<x, y>> /\ x.kind = "header" /\ y.kind = "add" /\ x.to = y.file
    <2>1. PICK x \in Edits, y \in Edits : t = <<x, y>> /\ x.kind = "header" /\ y.kind = "add" /\ x.to = y.file
      BY <1>2
    <2>2. Head(t) = x /\ Tail(t) = <<y>>
      BY <2>1, TodoTypes
    <2> QED BY <2>1, <2>2 DEF ImportTodo
  <1> QED BY <1>1, <1>2 DEF ImportTodo

\* What is left behind the first edit is as it should be.
LEMMA TodoOKTail ==
    ASSUME NEW w \in Writers, NEW t \in Seq(Edits), t # <<>>, NEW d, TodoOK(w, t, d)
    PROVE  TodoOK(w, Tail(t), d)
  <1>1. ToSet(Tail(t)) \subseteq ToSet(t)
    BY SetOfRest
  <1>2. w = "window" => WindowTodo(Tail(t))
    BY WindowTodoParts DEF TodoOK
  <1>3. w = "import" => ImportTodo(Tail(t))
    BY ImportTodoParts DEF TodoOK
  <1> QED BY <1>1, <1>2, <1>3 DEF TodoOK

\* Nothing to do.
LEMMA TodoOKNone ==
    ASSUME NEW w \in Writers, NEW d
    PROVE  TodoOK(w, <<>>, d)
  <1>1. ToSet(<<>>) = {}
    BY DEF ToSet
  <1> QED BY <1>1 DEF TodoOK, WindowTodo, ImportTodo

\* So is what undoes the first edit.
LEMMA TodoOKUndo ==
    ASSUME NEW w \in Writers, NEW t \in Seq(Edits), t # <<>>, NEW d \in Folders, TodoOK(w, t, d)
    PROVE  TodoOK(w, Head(t).undo, d)
  <1> DEFINE e == Head(t)
  <1>1. e \in ToSet(t) /\ e \in Edits
    BY SetOfRest
  <1>2. EditOK(e) /\ (w = "window" => WindowPlace(e, d)) /\ (w = "import" => ImportPlace(e, d))
    BY <1>1 DEF TodoOK
  <1>3. w = "import" => e.kind \in {"add", "header"}
    BY ImportTodoParts DEF TodoOK
  <1>4. e.kind \in Kinds
    BY <1>1 DEF Edits
  <1> HIDE DEF e
  <1>5. CASE e.undo = <<>>
    BY <1>5, TodoOKNone DEF e
  <1>6. ASSUME e.undo # <<>>
        PROVE  \E x \in Edits : /\ e.undo = <<x>> /\ EditOK(x) /\ x.kind \notin {"copy", "clone"}
                                /\ w = "window" => WindowPlace(x, d)
                                /\ w = "import" => x.kind = "add" /\ ImportPlace(x, d)
    <2>1. e.kind \in {"add", "remove", "include"}
      BY <1>2, <1>4, <1>6 DEF EditOK, Kinds, HostKinds, MainKinds, NewKinds
    <2>2. CASE e.kind = "add"
      <3>1. PICK x \in Edits : /\ e.undo = <<x>> /\ x.kind = "add" /\ x.check = "name" /\ x.undo = <<>>
                               /\ x.file = e.file /\ x.to = e.to /\ x.alias = e.alias /\ x.block = e.block
        BY <1>2, <1>6, <2>2 DEF EditOK
      <3>2. EditOK(x)
        BY <3>1 DEF EditOK
      <3>3. (w = "window" => WindowPlace(x, d)) /\ (w = "import" => ImportPlace(x, d))
        BY <1>2, <2>2, <3>1 DEF WindowPlace, ImportPlace
      <3> QED BY <3>1, <3>2, <3>3
    <2>3. CASE e.kind = "remove"
      <3>1. PICK x \in Edits : /\ e.undo = <<x>> /\ x.kind = "withdraw" /\ x.check = "nothing" /\ x.undo = <<>>
                               /\ x.alias = e.alias /\ x.file # e.file
        BY <1>2, <2>3 DEF EditOK
      <3>2. EditOK(x)
        BY <3>1 DEF EditOK
      <3>3. WindowPlace(x, d) /\ w # "import"
        BY <1>3, <2>3, <3>1 DEF WindowPlace
      <3> QED BY <3>1, <3>2, <3>3
    <2>4. CASE e.kind = "include"
      <3>1. PICK x \in Edits : e.undo = <<x>> /\ x.kind = "drop" /\ x.check = "nothing" /\ x.undo = <<>> /\ x.file = "new"
        BY <1>2, <1>6, <2>4 DEF EditOK
      <3>2. EditOK(x)
        BY <3>1 DEF EditOK
      <3>3. w # "import"
        BY <1>3, <2>4
      <3>4. w = "window" => WindowPlace(x, d)
        BY <1>2, <2>4, <3>1 DEF WindowPlace
      <3> QED BY <3>1, <3>2, <3>3, <3>4
    <2> QED BY <2>1, <2>2, <2>3, <2>4
  <1>7. CASE e.undo # <<>>
    <2>1. PICK x \in Edits : /\ e.undo = <<x>> /\ EditOK(x) /\ x.kind \notin {"copy", "clone"}
                             /\ w = "window" => WindowPlace(x, d)
                             /\ w = "import" => x.kind = "add" /\ ImportPlace(x, d)
      BY <1>6, <1>7
    <2>2. ToSet(<<x>>) = {x}
      BY TodoSets
    <2>3. TodoOK(w, <<x>>, d)
      BY <2>1, <2>2 DEF TodoOK, WindowTodo, ImportTodo
    <2> QED BY <2>1, <2>3 DEF e
  <1> QED BY <1>5, <1>7

\* Where the folder's file is only changes at the end of an edit of Include.
LEMMA TodoOKMoved ==
    ASSUME NEW w \in Writers, NEW t \in Seq(Edits), NEW d \in Folders, TodoOK(w, t, d),
           w = "window" => t = <<>> \/ d = "new"
    PROVE  TodoOK(w, t, "new")
  <1>1. CASE t = <<>>
    BY <1>1, TodoOKNone
  <1>2. CASE t # <<>> /\ w = "window"
    BY <1>2
  <1>3. CASE w = "import"
    BY <1>3 DEF TodoOK, ImportPlace
  <1> QED BY <1>1, <1>2, <1>3 DEF Writers

\* What an edit as it is put together is worth.
LEMMA PutOK ==
    ASSUME NEW e \in Edits, e.undo = <<>>,
           \/ e.kind \in {"header", "ignore", "delete", "id", "label", "options", "plain", "create"} /\ e.check = "parse"
           \/ e.kind \in {"copy", "withdraw"} /\ e.check = "nothing"
           \/ e.kind \in {"add", "update"} /\ e.check = "name"
    PROVE  EditOK(e)
  BY DEF EditOK

\* What is begun with is as it should be.
LEMMA WindowBeginsOK ==
    ASSUME ConfigTypes, NEW todo, WindowBegins(todo)
    PROVE  TodoOK("window", todo, dir)
  <1>0. /\ dir \in Folders /\ dir \in ConfigFile /\ "main" \in ConfigFile /\ NoBlock \in Blks /\ NewBlock \in Blks
        /\ \A h \in tree : h.alias \in Alias /\ h.file \in ConfigFile
        /\ "window" \in Writers /\ ("new" = "new" => TRUE)
    BY BlockTypes DEF ConfigTypes, ConfigFile, Writers
  <1>1. /\ Header \in Edits /\ Header.kind = "header" /\ Header.to = dir /\ EditOK(Header)
        /\ Ignore \in Edits /\ Ignore.kind = "ignore" /\ EditOK(Ignore)
        /\ WindowPlace(Header, dir) /\ WindowPlace(Ignore, dir)
    BY HeaderTypes, LastEditsAreEdits, PutOK DEF WindowPlace
  <1>2. ASSUME NEW x \in Edits, EditOK(x), WindowPlace(x, dir), x.kind \notin {"copy", "clone"}
        PROVE  TodoOK("window", <<x>>, dir)
    <2>1. ToSet(<<x>>) = {x}
      BY TodoSets
    <2>2. WindowTodo(<<x>>)
      BY <1>2 DEF WindowTodo
    <2> QED BY <1>2, <2>1, <2>2 DEF TodoOK
  <1>3. ASSUME NEW x \in Edits, NEW y \in Edits, EditOK(x), EditOK(y), WindowPlace(x, dir), WindowPlace(y, dir),
               WindowPair(x, y)
        PROVE  TodoOK("window", <<x, y>>, dir)
    <2>1. ToSet(<<x, y>>) = {x, y}
      BY TodoSets
    <2>2. WindowTodo(<<x, y>>)
      BY <1>3 DEF WindowTodo
    <2> QED BY <1>3, <2>1, <2>2 DEF TodoOK
  <1>4. ASSUME NEW a \in Alias, NEW f \in {"main", dir}, todo = CreateHost(a, f)
        PROVE  TodoOK("window", todo, dir)
    <2> DEFINE y == Edit("add", f, a, NewBlock, "name")
    <2>1. y \in LastEdits /\ y.kind = "add" /\ y.check = "name" /\ y.undo = <<>>
      <3>1. "add" \in Kinds /\ "add" \in HostKinds /\ "add" \notin MainKinds /\ "add" \notin NewKinds /\ f \in ConfigFile
        BY <1>0 DEF Kinds, HostKinds, MainKinds, NewKinds
      <3> QED BY <1>0, <3>1, EditType
    <2>2. todo = <<IF f = "main" THEN Ignore ELSE Header, y>>
      BY <1>4 DEF CreateHost
    <2> HIDE DEF y
    <2>3. y \in Edits /\ EditOK(y) /\ WindowPlace(y, dir)
      BY <2>1, LastEditsAreEdits, PutOK DEF WindowPlace
    <2>4. CASE f = "main"
      BY <1>1, <1>3, <2>1, <2>2, <2>3, <2>4 DEF WindowPair
    <2>5. CASE f # "main"
      BY <1>1, <1>3, <2>1, <2>2, <2>3, <2>5 DEF WindowPair
    <2> QED BY <2>4, <2>5
  <1>5. ASSUME NEW h \in tree, todo = UpdateHost(h)
        PROVE  TodoOK("window", todo, dir)
    <2> DEFINE y == Edit("update", h.file, h.alias, NewBlock, "name")
    <2>1. y \in LastEdits /\ y.kind = "update" /\ y.check = "name" /\ y.undo = <<>>
      <3>1. "update" \in Kinds /\ "update" \in HostKinds /\ "update" \notin MainKinds /\ "update" \notin NewKinds
        BY DEF Kinds, HostKinds, MainKinds, NewKinds
      <3> QED BY <1>0, <3>1, EditType
    <2>2. todo = <<Ignore, y>>
      BY <1>5 DEF UpdateHost
    <2> HIDE DEF y
    <2>3. y \in Edits /\ EditOK(y) /\ WindowPlace(y, dir)
      BY <2>1, LastEditsAreEdits, PutOK DEF WindowPlace
    <2> QED BY <1>1, <1>3, <2>1, <2>2, <2>3 DEF WindowPair
  <1>6. ASSUME NEW h \in tree, NEW k \in {"delete", "id"}, todo = <<Edit(k, h.file, h.alias, NoBlock, "parse")>>
        PROVE  TodoOK("window", todo, dir)
    <2> DEFINE y == Edit(k, h.file, h.alias, NoBlock, "parse")
    <2>1. y \in LastEdits /\ y.kind = k /\ y.check = "parse" /\ y.undo = <<>>
      <3>1. k \in Kinds /\ k \in HostKinds /\ k \notin MainKinds /\ k \notin NewKinds
        BY DEF Kinds, HostKinds, MainKinds, NewKinds
      <3> QED BY <1>0, <3>1, EditType
    <2> HIDE DEF y
    <2>3. y \in Edits /\ EditOK(y) /\ WindowPlace(y, dir)
      BY <2>1, LastEditsAreEdits, PutOK DEF WindowPlace
    <2>4. todo = <<y>>
      BY <1>6 DEF y
    <2> QED BY <1>2, <2>1, <2>3, <2>4
  <1>7. ASSUME NEW h \in tree, NEW f \in {"main", dir} \ {h.file}, Has(h), todo = MoveHost(h, f)
        PROVE  TodoOK("window", todo, dir)
    <2> DEFINE c == CopyOf(h, f)
               r == Removal(h, f)
               x == Withdrawal(h, f)
    <2>1. /\ c \in Edits /\ c.kind = "copy" /\ c.file = f /\ c.alias = h.alias /\ c.check = "nothing" /\ c.undo = <<>>
          /\ x \in Edits /\ x.kind = "withdraw" /\ x.file = f /\ x.alias = h.alias /\ x.check = "nothing" /\ x.undo = <<>>
          /\ r \in Edits /\ r.kind = "remove" /\ r.file = h.file /\ r.alias = h.alias /\ r.check = "name" /\ r.undo = <<x>>
          /\ todo = IF f = "main" THEN <<c, r>> ELSE <<Header, c, r>>
      BY <1>7, MoveTypes, LastEditsAreEdits
    <2> HIDE DEF c, r, x
    <2>2. EditOK(c) /\ EditOK(r)
      BY <2>1 DEF EditOK
    <2>3. MovePair(c, r) /\ WindowPlace(c, dir) /\ WindowPlace(r, dir)
      BY <2>1, TodoSets DEF MovePair, WindowPlace
    <2>4. CASE f = "main"
      BY <1>3, <2>1, <2>2, <2>3, <2>4 DEF WindowPair
    <2>5. CASE f # "main"
      <3>1. todo = <<Header, c, r>> /\ Header.to = c.file
        BY <1>1, <2>1, <2>5
      <3>0. Header \in Edits /\ c \in Edits /\ r \in Edits
        BY <1>1, <2>1
      <3>4. ToSet(<<Header, c, r>>) = {Header, c, r}
        BY DEF ToSet
      <3>2. ToSet(todo) = {Header, c, r}
        BY <3>1, <3>4
      <3>3. WindowTodo(todo)
        BY <1>1, <2>1, <2>3, <3>1 DEF WindowTodo
      <3> QED BY <1>1, <2>2, <2>3, <3>2, <3>3 DEF TodoOK
    <2> QED BY <2>4, <2>5
  <1>8. ASSUME NEW k \in {"create", "label", "options", "plain"}, NEW y, y = Plain(k, dir)
        PROVE  y \in Edits /\ y.kind = k /\ EditOK(y) /\ WindowPlace(y, dir)
    <2>1. k \in Kinds \ HostKinds /\ k \notin MainKinds /\ dir \in Folders /\ dir \in ConfigFile
      BY <1>0 DEF Kinds, HostKinds, MainKinds, NewKinds
    <2>2. Plain(k, dir) \in LastEdits /\ Plain(k, dir).kind = k /\ Plain(k, dir).check = "parse" /\ Plain(k, dir).undo = <<>>
      BY <2>1, PlainType
    <2> QED BY <1>8, <2>2, LastEditsAreEdits, PutOK DEF WindowPlace
  <1>9. ASSUME todo = CreateFolder
        PROVE  TodoOK("window", todo, dir)
    <2>1. PICK y : y = Plain("create", dir)
      OBVIOUS
    <2>2. y \in Edits /\ y.kind = "create" /\ EditOK(y) /\ WindowPlace(y, dir)
      BY <1>8, <2>1
    <2>3. todo = <<y, Header>>
      BY <1>9, <2>1 DEF CreateFolder
    <2> QED BY <1>1, <1>3, <2>2, <2>3 DEF WindowPair
  <1>10. ASSUME NEW k \in {"label", "options", "plain"}, todo = SetFolder(k)
         PROVE  TodoOK("window", todo, dir)
    <2>1. PICK y : y = Plain(k, dir)
      OBVIOUS
    <2>2. y \in Edits /\ y.kind = k /\ EditOK(y) /\ WindowPlace(y, dir)
      BY <1>8, <2>1
    <2>3. CASE k = "label"
      <3>1. todo = <<Ignore, y>>
        BY <1>10, <2>1, <2>3 DEF SetFolder
      <3> QED BY <1>1, <1>3, <2>2, <2>3, <3>1 DEF WindowPair
    <2>4. CASE k # "label"
      <3>1. todo = <<y>>
        BY <1>10, <2>1, <2>4 DEF SetFolder
      <3> QED BY <1>2, <2>2, <2>4, <3>1
    <2> QED BY <2>3, <2>4
  <1>11. ASSUME dir = "old", todo = MoveFolders
         PROVE  TodoOK("window", todo, dir)
    <2> DEFINE c == MoveFolders[1]
               i == MoveFolders[2]
               x == i.undo[1]
    <2>1. /\ todo = <<c, i>>
          /\ c \in Edits /\ c.kind = "clone" /\ c.file = "new" /\ c.check = "nothing"
          /\ c.from = "old" /\ c.undo = <<>>
          /\ i \in Edits /\ i.kind = "include" /\ i.check = "hosts" /\ i.to = "new"
          /\ i.from = "old" /\ i.undo = <<x>>
          /\ x \in Edits /\ x.kind = "drop" /\ x.file = "new" /\ x.check = "nothing" /\ x.undo = <<>>
      BY <1>11, FoldersTypes, LastEditsAreEdits
    <2> HIDE DEF c, i, x
    <2>2. EditOK(c) /\ EditOK(i)
      BY <2>1 DEF EditOK
    <2>3. WindowPair(c, i) /\ WindowPlace(c, dir) /\ WindowPlace(i, dir)
      BY <1>11, <2>1 DEF WindowPair, WindowPlace
    <2> QED BY <1>3, <2>1, <2>2, <2>3
  <1>12. ASSUME dir = "old", todo = AdoptFolders
         PROVE  TodoOK("window", todo, dir)
    <2> DEFINE x == AdoptFolders[1]
    <2>1. /\ todo = <<x>> /\ x \in Edits /\ x.kind = "include" /\ x.check = "parse" /\ x.to = "new"
          /\ x.from = "old" /\ x.undo = <<>>
      BY <1>12, FoldersTypes, LastEditsAreEdits
    <2> HIDE DEF x
    <2>2. EditOK(x) /\ WindowPlace(x, dir)
      BY <1>12, <2>1 DEF EditOK, WindowPlace
    <2> QED BY <1>2, <2>1, <2>2
  <1> QED BY <1>4, <1>5, <1>6, <1>7, <1>9, <1>10, <1>11, <1>12 DEF WindowBegins, DeleteHost, EnsureId

\* So is an import.
LEMMA ImportBeginsOK ==
    ASSUME ConfigTypes, NEW todo, ImportBegins(todo)
    PROVE  TodoOK("import", todo, dir)
  <1>0. /\ dir \in Folders /\ dir \in ConfigFile /\ NewBlock \in Blks /\ "import" \in Writers
    BY BlockTypes DEF ConfigTypes, ConfigFile, Writers
  <1>1. /\ Header \in Edits /\ Header.kind = "header" /\ Header.to = dir /\ Header.file = "main" /\ EditOK(Header)
    BY HeaderTypes, LastEditsAreEdits, PutOK
  <1>2. PICK a \in Alias : todo = ImportFolder(a)
    BY DEF ImportBegins
  <1> DEFINE x == Edit("add", dir, a, NewBlock, "name")
             y == [x EXCEPT !.undo = <<x>>]
  <1>3. /\ x \in LastEdits /\ x.kind = "add" /\ x.check = "name" /\ x.undo = <<>> /\ x.file = dir
        /\ x.to = dir
    <2>1. "add" \in Kinds /\ "add" \in HostKinds /\ "add" \notin MainKinds /\ "add" \notin NewKinds
      BY DEF Kinds, HostKinds, MainKinds, NewKinds
    <2> QED BY <1>0, <2>1, EditType
  <1>4. todo = <<Header, y>>
    BY <1>2 DEF ImportFolder
  <1>5. /\ y \in Edits /\ y.kind = "add" /\ y.check = "name" /\ y.undo = <<x>> /\ y.file = dir /\ y.to = dir
        /\ y.alias = x.alias /\ y.block = x.block
    <2> HIDE DEF x
    <2>1. y \in Edits
      BY <1>3 DEF LastEdits, Edits, Shaped
    <2>2. y.kind = x.kind /\ y.check = x.check /\ y.undo = <<x>> /\ y.file = x.file /\ y.to = x.to
          /\ y.alias = x.alias /\ y.block = x.block
      BY <1>3 DEF LastEdits
    <2> QED BY <1>3, <2>1, <2>2
  <1> HIDE DEF x, y
  <1>6. EditOK(y) /\ x \in Edits
    BY <1>3, <1>5, LastEditsAreEdits DEF EditOK
  <1>7. ToSet(todo) = {Header, y}
    BY <1>1, <1>4, <1>5, TodoSets
  <1>8. ImportTodo(todo)
    BY <1>1, <1>4, <1>5 DEF ImportTodo
  <1>9. \A e \in ToSet(todo) : EditOK(e) /\ ImportPlace(e, dir)
    BY <1>0, <1>1, <1>5, <1>6, <1>7 DEF ImportPlace
  <1> QED BY <1>8, <1>9 DEF TodoOK


\* A thread's lists, where only its own has changed.
LEMMA TodoStays ==
    ASSUME ConfigTypes, TodoInv, NEW w \in Writers, writer' \in [Writers -> WriterStates],
           \A v \in Writers \ {w} : writer'[v] = writer[v],
           TodoOK(w, writer'[w].todo, dir'),
           dir' = dir \/ (dir' = "new" /\ w = "window")
    PROVE  TodoInv'
  <1>1. SUFFICES ASSUME NEW v \in Writers PROVE TodoOK(v, writer'[v].todo, dir')
    BY DEF TodoInv
  <1>2. CASE v = w
    BY <1>2
  <1>3. CASE v # w /\ dir' = dir
    BY <1>3 DEF TodoInv
  <1>4. CASE v # w /\ dir' = "new" /\ w = "window"
    <2>1. v = "import" /\ writer'[v] = writer[v] /\ writer[v].todo \in Seq(Edits) /\ dir \in Folders
      BY <1>4 DEF Writers, ConfigTypes, WriterStates
    <2> QED BY <1>4, <2>1, TodoOKMoved DEF TodoInv
  <1> QED BY <1>2, <1>3, <1>4

\* What a thread that takes up edits has to do.
LEMMA TakesUpWriter ==
    ASSUME ConfigTypes, NEW w \in Writers, NEW todo \in Seq(Edits), NEW to, NEW fs, TakesUp(w, todo, fs, to)
    PROVE  /\ writer' \in [Writers -> WriterStates]
           /\ writer'[w].todo = todo /\ writer'[w].step = IF todo = <<>> THEN "idle" ELSE "read"
           /\ \A v \in Writers \ {w} : writer'[v] = writer[v]
           /\ dir' = to
  <1> DEFINE s == IF todo = <<>> THEN "idle" ELSE "read"
             x == [Idle EXCEPT !.todo = todo, !.step = s]
  <1>1. writer \in [Writers -> WriterStates] /\ writer' = [writer EXCEPT ![w] = x] /\ dir' = to
    BY DEF ConfigTypes, TakesUp
  <1>2. x \in WriterStates /\ x.todo = todo /\ x.step = s
    BY NoDocType DEF Idle, WriterStates
  <1> HIDE DEF x
  <1> QED BY <1>1, <1>2

\* What stands first in a thread's list.
LEMMA CurrentOK ==
    ASSUME ConfigBasics, TodoInv, NEW w \in Writers, ~At(w, "idle")
    PROVE  /\ writer[w].todo \in Seq(Edits) /\ writer[w].todo # <<>>
           /\ Current(w) = Head(writer[w].todo) /\ Current(w) \in ToSet(writer[w].todo)
           /\ Current(w) \in Edits /\ EditOK(Current(w))
           /\ w = "window" => WindowPlace(Current(w), dir) /\ WindowTodo(writer[w].todo)
           /\ w = "import" => /\ ImportPlace(Current(w), dir) /\ ImportTodo(writer[w].todo)
                              /\ Current(w).kind \in {"header", "add"}
  <1>1. writer[w].todo \in Seq(Edits) /\ writer[w].todo # <<>>
    BY BusyCurrent DEF ConfigBasics, ConfigTypes, WriterStates
  <1>2. Current(w) = Head(writer[w].todo) /\ Current(w) \in ToSet(writer[w].todo) /\ Current(w) \in Edits
    BY <1>1, SetOfRest DEF Current
  <1>3. w = "import" => ImportTodo(writer[w].todo)
    BY DEF TodoInv, TodoOK
  <1>4. w = "import" => Current(w).kind \in {"header", "add"}
    BY <1>1, <1>2, <1>3, ImportTodoParts
  <1> QED BY <1>1, <1>2, <1>4 DEF TodoInv, TodoOK

\* Each step of an edit keeps the lists as they should be.
LEMMA StepTodo ==
    ASSUME ConfigBasics, TodoInv, NEW w \in Writers, Step(w)
    PROVE  TodoInv'
  <1>0. ConfigTypes /\ ~At(w, "idle")
    BY StepCases DEF ConfigBasics, Dropped, NothingToDo, NothingToDelete, ReadOn, OtherText, SameText,
       Replace, Passes, Refused, At
  <1>1. /\ writer[w].todo \in Seq(Edits) /\ writer[w].todo # <<>> /\ Current(w) = Head(writer[w].todo)
        /\ Current(w) \in Edits /\ EditOK(Current(w)) /\ TodoOK(w, writer[w].todo, dir) /\ dir \in Folders
        /\ Tail(writer[w].todo) \in Seq(Edits) /\ Current(w).undo \in Seq(Edits)
    BY <1>0, CurrentOK, CurrentType DEF TodoInv, ConfigTypes
  <1>2. TodoOK(w, Tail(writer[w].todo), dir) /\ TodoOK(w, Current(w).undo, dir)
    BY <1>1, TodoOKTail, TodoOKUndo
  <1>3. /\ TodoOK(w, Tail(writer[w].todo), NextDir(w))
        /\ NextDir(w) = dir \/ (NextDir(w) = "new" /\ w = "window")
    <2>1. CASE Current(w).kind # "include"
      BY <1>2, <2>1 DEF NextDir
    <2>2. CASE Current(w).kind = "include"
      <3>1. w = "window" /\ Current(w).to = "new"
        BY <1>0, <1>1, <2>2, CurrentOK DEF EditOK, Writers
      <3>2. Tail(writer[w].todo) = <<>>
        BY <1>0, <1>1, <2>2, <3>1, CurrentOK, WindowTodoParts
      <3> QED BY <2>2, <3>1, <3>2, TodoOKNone DEF NextDir
    <2> QED BY <2>1, <2>2
  <1>4. ASSUME NEW fs, TakesUp(w, Tail(writer[w].todo), fs, NextDir(w)) PROVE TodoInv'
    BY <1>0, <1>1, <1>3, <1>4, TakesUpWriter, TodoStays
  <1>5. ASSUME NEW fs, TakesUp(w, Tail(writer[w].todo), fs, dir) PROVE TodoInv'
    BY <1>0, <1>1, <1>2, <1>5, TakesUpWriter, TodoStays
  <1>6. ASSUME NEW fs, TakesUp(w, Current(w).undo, fs, dir) PROVE TodoInv'
    BY <1>0, <1>1, <1>2, <1>6, TakesUpWriter, TodoStays
  <1>7. ASSUME NEW x \in WriterStates, x.todo = writer[w].todo, writer' = [writer EXCEPT ![w] = x], dir' = dir
        PROVE  TodoInv'
    <2>1. writer \in [Writers -> WriterStates]
      BY <1>0 DEF ConfigTypes
    <2>2. writer' \in [Writers -> WriterStates] /\ writer'[w] = x /\ \A v \in Writers \ {w} : writer'[v] = writer[v]
      BY <1>7, <2>1
    <2> QED BY <1>0, <1>1, <1>7, <2>2, TodoStays
  <1>8. CASE Dropped(w)
    BY <1>5, <1>8 DEF Dropped
  <1>9. CASE NothingToDo(w)
    BY <1>4, <1>9 DEF NothingToDo
  <1>10. CASE NothingToDelete(w)
    BY <1>6, <1>10 DEF NothingToDelete
  <1>11. CASE ReadOn(w)
    <2> DEFINE d == IF Anew(Current(w)) THEN NoDoc ELSE files[Current(w).file]
               n == [Change(Current(w), files[Current(w).file]) EXCEPT !.there = TRUE]
               x == [todo |-> writer[w].todo, step |-> "compare", text |-> d, new |-> n]
    <2>1. files[Current(w).file] \in Docs /\ Current(w).kind # "drop"
      BY <1>0, <1>1, <1>11, CurrentType DEF ReadOn
    <2>2. d \in Docs /\ n \in Docs
      BY <1>0, <1>1, <2>1, ChangeType, NoDocType DEF Docs
    <2>3. writer' = [writer EXCEPT ![w] = x] /\ dir' = dir
      BY <1>11 DEF ReadOn
    <2> HIDE DEF d, n
    <2>4. x \in WriterStates /\ x.todo = writer[w].todo
      BY <1>1, <2>2 DEF WriterStates
    <2> HIDE DEF x
    <2> QED BY <1>7, <2>3, <2>4
  <1>12. CASE OtherText(w)
    BY <1>6, <1>12 DEF OtherText
  <1>13. ASSUME NEW st \in {"replace", "check"}, writer' = [writer EXCEPT ![w].step = st], dir' = dir
         PROVE  TodoInv'
    <2> DEFINE x == [writer[w] EXCEPT !.step = st]
    <2>1. writer' = [writer EXCEPT ![w] = x]
      BY <1>13
    <2>2. writer[w] \in WriterStates
      BY <1>0 DEF ConfigTypes
    <2>3. x \in WriterStates /\ x.todo = writer[w].todo
      BY <2>2 DEF WriterStates
    <2> HIDE DEF x
    <2> QED BY <1>7, <1>13, <2>1, <2>3
  <1>14. CASE SameText(w)
    BY <1>13, <1>14 DEF SameText
  <1>15. CASE Replace(w)
    BY <1>13, <1>15 DEF Replace
  <1>16. CASE Passes(w)
    BY <1>4, <1>16 DEF Passes
  <1>17. CASE Refused(w)
    BY <1>6, <1>17 DEF Refused
  <1> QED BY <1>0, <1>8, <1>9, <1>10, <1>11, <1>12, <1>14, <1>15, <1>16, <1>17, StepCases

\* So does every step.
LEMMA NextTodo ==
    ASSUME ConfigBasics, TodoInv, [ConfigNext]_configVars
    PROVE  TodoInv'
  <1>0. ConfigTypes
    BY DEF ConfigBasics
  <1>1. CASE \E w \in Writers : Step(w)
    BY <1>1, StepTodo
  <1>2. CASE Operations
    <2>1. PICK w, todo : /\ w \in Writers /\ Begun(w, todo)
                         /\ (w = "window" /\ WindowBegins(todo)) \/ (w = "import" /\ ImportBegins(todo))
      BY <1>2, OperationCases DEF Writers
    <2>2. TodoOK(w, todo, dir) /\ todo \in Seq(Edits)
      BY <1>0, <2>1, WindowBeginsOK, ImportBeginsOK, BeginTypes
    <2> DEFINE x == [Idle EXCEPT !.todo = todo, !.step = "read"]
    <2>3. writer' = [writer EXCEPT ![w] = x] /\ dir' = dir
      BY <2>1 DEF Begun
    <2>4. x.todo = todo /\ x \in WriterStates /\ writer \in [Writers -> WriterStates]
      BY <1>0, <2>2, NoDocType DEF Idle, WriterStates, ConfigTypes
    <2> HIDE DEF x
    <2>5. writer' \in [Writers -> WriterStates] /\ writer'[w] = x /\ \A v \in Writers \ {w} : writer'[v] = writer[v]
      BY <2>1, <2>3, <2>4
    <2> QED BY <1>0, <2>1, <2>2, <2>3, <2>4, <2>5, TodoStays
  <1>3. CASE Killed
    <2>1. \A w \in Writers : writer'[w].todo = <<>>
      BY <1>3 DEF Killed, Idle
    <2> QED BY <2>1, TodoOKNone DEF TodoInv
  <1>4. CASE Reload \/ OthersWrite \/ UNCHANGED configVars
    <2>1. writer' = writer /\ dir' = dir
      BY <1>4 DEF Reload, OthersWrite, configVars
    <2> QED BY <2>1 DEF TodoInv
  <1> QED BY <1>1, <1>2, <1>3, <1>4, NextCases

\* At first there is nothing to do.
LEMMA InitTodo == ConfigInit => TodoInv
  <1> SUFFICES ASSUME ConfigInit PROVE TodoInv
    OBVIOUS
  <1>1. \A w \in Writers : writer[w].todo = <<>>
    BY DEF ConfigInit, Idle
  <1> QED BY <1>1, TodoOKNone DEF TodoInv

-----------------------------------------------------------------------------
(* What a thread has written down to put into a file, against what it read *)
(* there: the head of the file, and the hosts in it.                       *)

\* The edits that take a host out of a file.
TakeKinds == {"delete", "remove", "withdraw"}

\* What an edit makes of the head of d: keys to ignore, and the folders included.
HeadMade(e, d, n) ==
    /\ e.kind \in MainKinds => n.ignore
    /\ e.kind = "header" => ToSet(n.include) = ToSet(d.include) \cup {e.to}
    /\ e.kind = "include" => ToSet(n.include) = (ToSet(d.include) \ {e.from}) \cup {e.to}
    /\ e.kind \notin {"header", "include"} \cup NewKinds => n.include = d.include
    /\ e.kind \notin MainKinds \cup NewKinds => n.ignore = d.ignore

\* What it makes of the hosts of d.
HostsMade(e, d, n) ==
    /\ e.kind # "drop"
    /\ e.kind \in {"create", "clone"} => Hosts(d) = {}
    /\ e.kind = "create" => Hosts(n) = {}
    /\ e.kind \in MainKinds \cup {"label", "options", "plain", "update", "id"} => Hosts(n) = Hosts(d)
    /\ e.kind \in {"update", "id"} => e.alias \in Hosts(d)
    /\ e.kind \in {"add", "copy"} => Hosts(n) = Hosts(d) \cup {e.alias}
    /\ e.kind \in TakeKinds =>
          e.alias \in Hosts(d) /\ Hosts(n) \subseteq Hosts(d) /\ Hosts(d) \ {e.alias} \subseteq Hosts(n)

\* Where a host is new in the file, its first block is the one that was put there.
FirstMade(e, d, n) ==
    e.kind = "add" /\ e.alias \notin Hosts(d) => n.hosts[e.alias][1].name = e.block.name

\* n is what the edit makes of d.
Makes(e, d, n) == HeadMade(e, d, n) /\ HostsMade(e, d, n) /\ FirstMade(e, d, n)

\* A thread has written down what its edit makes of what it read.
MakesInv ==
    \A w \in Writers : ~At(w, "idle") /\ ~At(w, "read") => Makes(Current(w), writer[w].text, writer[w].new)

\* Blocks that are the same but for their Tags are as many.
LEMMA SameSome ==
    ASSUME NEW s, NEW t, SameBlocks(s, t)
    PROVE  s = <<>> <=> t = <<>>
  BY DEF SameBlocks

\* No hosts in a file that isn't there.
LEMMA NoDocHosts == Hosts(NoDoc) = {}
  BY DEF Hosts, NoDoc

\* A folder is put before others.
LEMMA SetPut ==
    ASSUME NEW s \in Seq(Folders), NEW x \in Folders, NEW t,
           \/ x \in ToSet(s) /\ t = s
           \/ t = <<x>> \o s
    PROVE  ToSet(t) = ToSet(s) \cup {x}
  <1>1. CASE x \in ToSet(s) /\ t = s
    BY <1>1
  <1>2. CASE t = <<x>> \o s
    <2>1. /\ Len(s) \in Nat /\ <<x>> \in Seq(Folders) /\ Len(<<x>>) = 1 /\ <<x>>[1] = x
          /\ t \in Seq(Folders) /\ Len(t) = Len(s) + 1
      BY <1>2
    <2>2. DOMAIN s = 1 .. Len(s) /\ DOMAIN t = 1 .. Len(s) + 1
      BY <2>1
    <2>3. t[1] = x /\ \A i \in 1 .. Len(s) : t[i + 1] = s[i]
      BY <1>2, <2>1
    <2>4. ToSet(s) = {s[i] : i \in 1 .. Len(s)} /\ ToSet(t) = {t[i] : i \in 1 .. Len(s) + 1}
      BY <2>2 DEF ToSet
    <2>5. ToSet(t) \subseteq ToSet(s) \cup {x}
      <3>1. SUFFICES ASSUME NEW i \in 1 .. Len(s) + 1, i # 1 PROVE t[i] \in ToSet(s)
        BY <2>3, <2>4
      <3>2. i - 1 \in 1 .. Len(s) /\ t[i] = s[i - 1]
        BY <2>1, <2>3, <3>1
      <3> QED BY <2>4, <3>2
    <2>6. ToSet(s) \cup {x} \subseteq ToSet(t)
      <3>1. 1 \in 1 .. Len(s) + 1
        BY <2>1
      <3>2. x \in ToSet(t)
        BY <2>3, <2>4, <3>1
      <3>3. SUFFICES ASSUME NEW i \in 1 .. Len(s) PROVE s[i] \in ToSet(t)
        BY <2>4, <3>2
      <3>4. i + 1 \in 1 .. Len(s) + 1 /\ t[i + 1] = s[i]
        BY <2>1, <2>3
      <3> QED BY <2>4, <3>4
    <2> QED BY <2>5, <2>6
  <1> QED BY <1>1, <1>2

\* One folder is put for another.
LEMMA SetPointed ==
    ASSUME NEW s \in Seq(Folders), NEW x \in Folders, NEW y \in Folders, x # y
    PROVE  ToSet(PointedTo(s, x, y)) \cup {y} = (ToSet(s) \ {x}) \cup {y}
  <1>1. DOMAIN PointedTo(s, x, y) = DOMAIN s /\ \A i \in DOMAIN s : PointedTo(s, x, y)[i] = IF s[i] = x THEN y ELSE s[i]
    BY DEF PointedTo
  <1>2. /\ ToSet(s) = {s[i] : i \in DOMAIN s}
        /\ ToSet(PointedTo(s, x, y)) = {PointedTo(s, x, y)[i] : i \in DOMAIN s}
    BY <1>1 DEF ToSet
  <1> QED BY <1>1, <1>2

\* What an edit that changes a file makes of it, but for a file made anew.
LEMMA ChangeMakes ==
    ASSUME NEW e \in Edits, EditOK(e), NEW d \in Docs, e.kind \notin NewKinds,
           e.kind \in {"update", "id"} \cup TakeKinds => Change(e, d) # d
    PROVE  Makes(e, d, Change(e, d))
  <1>0. /\ e.from \in Folders /\ e.to \in Folders /\ e.kind \in Kinds /\ e.block \in Blks
        /\ e.kind \in HostKinds => e.alias \in Alias
    BY DEF Edits, Shaped
  <1> DEFINE r == Change(e, d)
  <1>a. d.include \in Seq(Folders) /\ \A b \in Alias : d.hosts[b] \in Seq(Blks)
    BY DocParts
  <1>1. CASE e.kind = "header"
    <2>1. r = WithHeader(d, e.to)
      BY <1>1 DEF Change
    <2>2. /\ r.hosts = d.hosts /\ r.ignore
          /\ \/ e.to \in ToSet(d.include) /\ r.include = d.include
             \/ e.to \notin ToSet(d.include) /\ r.include = <<e.to>> \o d.include
      BY <1>0, <2>1, HeaderSame
    <2> HIDE DEF r
    <2>3. ToSet(r.include) = ToSet(d.include) \cup {e.to}
      BY <1>0, <1>a, <2>2, SetPut
    <2> QED BY <1>1, <2>2, <2>3 DEF r, Makes, HeadMade, HostsMade, FirstMade, Hosts, MainKinds, NewKinds, TakeKinds
  <1>2. CASE e.kind = "include"
    <2>1. r = ReplaceInclude(d, e.from, e.to)
      BY <1>2 DEF Change
    <2>a. /\ ReplaceInclude(d, e.from, e.to).hosts = d.hosts /\ ReplaceInclude(d, e.from, e.to).ignore
          /\ PointedTo(d.include, e.from, e.to) \in Seq(Folders)
          /\ \/ /\ e.to \in ToSet(PointedTo(d.include, e.from, e.to))
                /\ ReplaceInclude(d, e.from, e.to).include = PointedTo(d.include, e.from, e.to)
             \/ /\ e.to \notin ToSet(PointedTo(d.include, e.from, e.to))
                /\ ReplaceInclude(d, e.from, e.to).include = <<e.to>> \o PointedTo(d.include, e.from, e.to)
      BY <1>0, IncludeSame
    <2> HIDE DEF r
    <2>2. /\ r.hosts = d.hosts /\ r.ignore
          /\ PointedTo(d.include, e.from, e.to) \in Seq(Folders)
          /\ \/ /\ e.to \in ToSet(PointedTo(d.include, e.from, e.to))
                /\ r.include = PointedTo(d.include, e.from, e.to)
             \/ /\ e.to \notin ToSet(PointedTo(d.include, e.from, e.to))
                /\ r.include = <<e.to>> \o PointedTo(d.include, e.from, e.to)
      BY <2>1, <2>a
    <2>3. e.from # e.to
      BY <1>2 DEF EditOK
    <2>4. ToSet(r.include) = ToSet(PointedTo(d.include, e.from, e.to)) \cup {e.to}
      BY <1>0, <2>2, SetPut
    <2>5. ToSet(r.include) = (ToSet(d.include) \ {e.from}) \cup {e.to}
      BY <1>0, <1>a, <2>3, <2>4, SetPointed
    <2> QED BY <1>2, <2>2, <2>5 DEF r, Makes, HeadMade, HostsMade, FirstMade, Hosts, MainKinds, NewKinds, TakeKinds
  <1>3. CASE e.kind = "ignore"
    <2>1. r.hosts = d.hosts /\ r.ignore /\ r.include = d.include
      BY <1>3, IgnoreChange
    <2> HIDE DEF r
    <2> QED BY <1>3, <2>1 DEF r, Makes, HeadMade, HostsMade, FirstMade, Hosts, MainKinds, NewKinds, TakeKinds
  <1>4. CASE e.kind \in {"add", "copy"}
    <2>1. e.alias \in Alias
      BY <1>0, <1>4 DEF HostKinds
    <2>2. /\ SameHead(d, r) /\ OthersSame(d, r, e.alias)
          /\ SameBlocks(r.hosts[e.alias], Append(d.hosts[e.alias], e.block))
      BY <1>4, <2>1, AddChange
    <2> HIDE DEF r
    <2>3. \A b \in Alias \ {e.alias} : r.hosts[b] = <<>> <=> d.hosts[b] = <<>>
      BY <2>2, SameSome DEF OthersSame
    <2>4. d.hosts[e.alias] \in Seq(Blks)
      BY <1>a, <2>1
    <2>5. r.hosts[e.alias] # <<>> /\ (d.hosts[e.alias] = <<>> => r.hosts[e.alias][1].name = e.block.name)
      <3>1. Len(Append(d.hosts[e.alias], e.block)) > 0 /\ Append(d.hosts[e.alias], e.block) # <<>>
        BY <1>0, <2>4
      <3>2. r.hosts[e.alias] # <<>>
        <4> DEFINE q == Append(d.hosts[e.alias], e.block)
        <4>1. q # <<>> /\ SameBlocks(r.hosts[e.alias], q)
          BY <2>2, <3>1
        <4> HIDE DEF q
        <4> QED BY <4>1, SameSome
      <3>3. ASSUME d.hosts[e.alias] = <<>> PROVE r.hosts[e.alias][1].name = e.block.name
        <4>1. Append(d.hosts[e.alias], e.block) = <<e.block>>
          BY <1>0, <3>3
        <4>2. SameBlocks(r.hosts[e.alias], <<e.block>>)
          BY <2>2, <4>1
        <4> QED BY <1>0, <4>2 DEF SameBlocks
      <3> QED BY <3>2, <3>3
    <2>6. Hosts(r) = Hosts(d) \cup {e.alias}
      BY <2>1, <2>3, <2>5 DEF Hosts
    <2>7. HeadMade(e, d, r)
      BY <1>4, <2>2 DEF HeadMade, SameHead, MainKinds, NewKinds
    <2>8. HostsMade(e, d, r)
      BY <1>4, <2>6 DEF HostsMade, MainKinds, NewKinds, TakeKinds
    <2>9. FirstMade(e, d, r)
      BY <2>1, <2>5 DEF FirstMade, Hosts
    <2> QED BY <2>7, <2>8, <2>9 DEF r, Makes
  <1>5. CASE e.kind \in {"update", "id"}
    <2>1. e.alias \in Alias
      BY <1>0, <1>5 DEF HostKinds
    <2>2. /\ SameHead(d, r)
          /\ \A b \in Alias \ {e.alias} : r.hosts[b] = d.hosts[b]
          /\ r.hosts[e.alias] \in Seq(Blks) /\ Len(r.hosts[e.alias]) = Len(d.hosts[e.alias])
      BY <1>5, <2>1, UpdateChange
    <2>3. d.hosts[e.alias] # <<>>
      <3>1. ASSUME d.hosts[e.alias] = <<>> PROVE r = d
        BY <1>5, <3>1 DEF Change
      <3> QED BY <1>5, <3>1
    <2> HIDE DEF r
    <2>4. d.hosts[e.alias] \in Seq(Blks)
      BY <1>a, <2>1
    <2>5. r.hosts[e.alias] # <<>>
      BY <2>2, <2>3, <2>4
    <2>6. Hosts(r) = Hosts(d) /\ e.alias \in Hosts(d)
      BY <2>1, <2>2, <2>3, <2>5 DEF Hosts
    <2>7. HeadMade(e, d, r)
      BY <1>5, <2>2 DEF HeadMade, SameHead, MainKinds, NewKinds
    <2>8. HostsMade(e, d, r)
      BY <1>5, <2>6 DEF HostsMade, MainKinds, NewKinds, TakeKinds
    <2> QED BY <1>5, <2>7, <2>8 DEF r, Makes, FirstMade
  <1>6. CASE e.kind \in TakeKinds
    <2>1. e.alias \in Alias
      BY <1>0, <1>6 DEF HostKinds, TakeKinds
    <2>2. /\ SameHead(d, r)
          /\ \A b \in Alias \ {e.alias} : r.hosts[b] = d.hosts[b]
          /\ d.hosts[e.alias] = <<>> => r = d
      BY <1>6, <2>1, TakeChange DEF TakeKinds
    <2>3. d.hosts[e.alias] # <<>>
      BY <1>6, <2>2
    <2> HIDE DEF r
    <2>4. e.alias \in Hosts(d) /\ Hosts(r) \subseteq Hosts(d) /\ Hosts(d) \ {e.alias} \subseteq Hosts(r)
      BY <2>1, <2>2, <2>3 DEF Hosts
    <2>5. HeadMade(e, d, r)
      BY <1>6, <2>2 DEF HeadMade, SameHead, MainKinds, NewKinds, TakeKinds
    <2>6. HostsMade(e, d, r)
      BY <1>6, <2>4 DEF HostsMade, MainKinds, NewKinds, TakeKinds
    <2> QED BY <1>6, <2>5, <2>6 DEF r, Makes, FirstMade, TakeKinds
  <1>7. CASE e.kind \in {"label", "options", "plain"}
    <2>1. SameHead(d, r) /\ \A b \in Alias : SameBlocks(r.hosts[b], d.hosts[b])
      BY <1>7, FolderChange
    <2> HIDE DEF r
    <2>2. Hosts(r) = Hosts(d)
      BY <2>1, SameSome DEF Hosts
    <2>3. HeadMade(e, d, r)
      BY <1>7, <2>1 DEF HeadMade, SameHead, MainKinds, NewKinds
    <2>4. HostsMade(e, d, r)
      BY <1>7, <2>2 DEF HostsMade, MainKinds, NewKinds, TakeKinds
    <2> QED BY <1>7, <2>3, <2>4 DEF r, Makes, FirstMade
  <1> QED BY <1>1, <1>2, <1>3, <1>4, <1>5, <1>6, <1>7, <1>0 DEF Kinds, HostKinds, MainKinds, NewKinds, TakeKinds

-----------------------------------------------------------------------------
(* What a step of a thread leaves of the threads.                          *)

\* Nothing that excuses a loss is forgotten.
LEMMA MishapsStay ==
    ASSUME [ConfigNext]_configVars
    PROVE  mishaps \subseteq mishaps'
  <1>1. CASE \E w \in Writers : Step(w)
    BY <1>1 DEF Step, Read, Compare, Replace, Check, GivesUp, Done
  <1>2. CASE Operations
    <2>1. PICK w, todo : Begun(w, todo)
      BY <1>2, OperationCases
    <2> QED BY <2>1 DEF Begun
  <1>3. CASE OthersWrite
    BY <1>3, OthersCases DEF Renamed, TakenAway, AddedBy
  <1>4. CASE Reload \/ Killed \/ UNCHANGED configVars
    BY <1>4 DEF Reload, Killed, configVars
  <1> QED BY <1>1, <1>2, <1>3, <1>4, NextCases

\* A thread that reads on has compared nothing yet.
LEMMA ReadOnWriter ==
    ASSUME ConfigTypes, NEW w \in Writers, ReadOn(w)
    PROVE  /\ writer'[w].todo = writer[w].todo /\ writer'[w].step = "compare"
           /\ writer'[w].text = (IF Anew(Current(w)) THEN NoDoc ELSE files[Current(w).file])
           /\ writer'[w].new = [Change(Current(w), files[Current(w).file]) EXCEPT !.there = TRUE]
           /\ \A v \in Writers \ {w} : writer'[v] = writer[v]
  <1>1. writer \in [Writers -> WriterStates]
    BY DEF ConfigTypes
  <1> DEFINE x == [todo |-> writer[w].todo, step |-> "compare",
                   text |-> IF Anew(Current(w)) THEN NoDoc ELSE files[Current(w).file],
                   new |-> [Change(Current(w), files[Current(w).file]) EXCEPT !.there = TRUE]]
  <1>2. writer' = [writer EXCEPT ![w] = x]
    BY DEF ReadOn
  <1>3. /\ x.todo = writer[w].todo /\ x.step = "compare"
        /\ x.text = (IF Anew(Current(w)) THEN NoDoc ELSE files[Current(w).file])
        /\ x.new = [Change(Current(w), files[Current(w).file]) EXCEPT !.there = TRUE]
    OBVIOUS
  <1> HIDE DEF x
  <1>4. writer'[w] = x /\ \A v \in Writers \ {w} : writer'[v] = writer[v]
    BY <1>1, <1>2
  <1> QED BY <1>3, <1>4

\* A thread that goes on has what it read and wrote down.
LEMMA NextWriter ==
    ASSUME ConfigTypes, NEW w \in Writers, NEW s, writer' = [writer EXCEPT ![w].step = s]
    PROVE  /\ writer'[w].todo = writer[w].todo /\ writer'[w].step = s
           /\ writer'[w].text = writer[w].text /\ writer'[w].new = writer[w].new
           /\ \A v \in Writers \ {w} : writer'[v] = writer[v]
  <1>1. writer \in [Writers -> WriterStates] /\ writer[w] \in WriterStates
    BY DEF ConfigTypes
  <1>2. writer'[w] = [writer[w] EXCEPT !.step = s] /\ \A v \in Writers \ {w} : writer'[v] = writer[v]
    BY <1>1
  <1> QED BY <1>1, <1>2 DEF WriterStates

\* A thread that takes up edits is idle or reads.
Restarts(w) ==
    /\ writer' \in [Writers -> WriterStates]
    /\ writer'[w].step \in {"idle", "read"}
    /\ \A v \in Writers \ {w} : writer'[v] = writer[v]

\* The outcomes after which a thread takes up edits.
LEMMA RestartsIn ==
    ASSUME ConfigBasics, NEW w \in Writers,
           Dropped(w) \/ NothingToDo(w) \/ NothingToDelete(w) \/ OtherText(w) \/ Passes(w) \/ Refused(w)
    PROVE  Restarts(w)
  <1>0. ConfigTypes
    BY DEF ConfigBasics
  <1>1. ~At(w, "idle")
    BY DEF Dropped, NothingToDo, NothingToDelete, OtherText, Passes, Refused, At
  <1>2. writer[w].todo # <<>>
    BY <1>1, BusyCurrent
  <1>3. Tail(writer[w].todo) \in Seq(Edits) /\ Current(w).undo \in Seq(Edits)
    BY <1>0, <1>2, CurrentType
  <1>4. PICK todo, fs, to : todo \in Seq(Edits) /\ TakesUp(w, todo, fs, to)
    BY <1>3 DEF Dropped, NothingToDo, NothingToDelete, OtherText, Passes, Refused
  <1> QED BY <1>0, <1>4, TakesUpWriter DEF Restarts

\* A step is of one that isn't idle.
LEMMA StepBusy ==
    ASSUME NEW w \in Writers, Step(w)
    PROVE  ~At(w, "idle")
  BY DEF Step, Read, Compare, Replace, Check, At

\* An operation, too, leaves a thread that reads.
LEMMA BegunRestarts ==
    ASSUME ConfigTypes, NEW w \in Writers, NEW todo \in Seq(Edits), Begun(w, todo)
    PROVE  Restarts(w) /\ writer'[w].todo = todo /\ writer'[w].step = "read"
  <1> DEFINE x == [Idle EXCEPT !.todo = todo, !.step = "read"]
  <1>1. writer' = [writer EXCEPT ![w] = x]
    BY DEF Begun
  <1>2. x.todo = todo /\ x.step = "read" /\ x \in WriterStates /\ writer \in [Writers -> WriterStates]
    BY NoDocType DEF Idle, WriterStates, ConfigTypes
  <1> HIDE DEF x
  <1>3. writer' \in [Writers -> WriterStates] /\ writer'[w] = x /\ \A v \in Writers \ {w} : writer'[v] = writer[v]
    BY <1>1, <1>2
  <1> QED BY <1>2, <1>3 DEF Restarts

-----------------------------------------------------------------------------
(* What is written down is what the edit makes of what was read.           *)

\* What a thread that reads on writes down.
LEMMA ReadOnMakes ==
    ASSUME ConfigBasics, TodoInv, NEW w \in Writers, ReadOn(w)
    PROVE  Makes(Current(w), writer'[w].text, writer'[w].new)
  <1>0. ConfigTypes
    BY DEF ConfigBasics
  <1>1. ~At(w, "idle")
    BY DEF ReadOn, At
  <1>2. Current(w) \in Edits /\ EditOK(Current(w))
    BY <1>1, CurrentOK
  <1>3. Current(w).kind \in Kinds /\ Current(w).file \in ConfigFile
    BY <1>2 DEF Edits
  <1> DEFINE e == Current(w)
             d == files[e.file]
             c == Change(e, d)
             n == [c EXCEPT !.there = TRUE]
  <1>4. d \in Docs
    BY <1>0, <1>3 DEF ConfigTypes
  <1>5. c \in Docs
    BY <1>0, <1>2, <1>4, ChangeType DEF ReadOn
  <1>6. n.ignore = c.ignore /\ n.include = c.include /\ n.hosts = c.hosts
    BY <1>5 DEF Docs
  <1>7. writer'[w].new = n /\ writer'[w].text = IF Anew(e) THEN NoDoc ELSE d
    BY <1>0, ReadOnWriter
  <1> HIDE DEF n
  <1>8. CASE e.kind \notin NewKinds
    <2>1. ~Anew(e)
      BY <1>8 DEF Anew, NewKinds
    <2>2. c # d
      BY <2>1 DEF ReadOn
    <2>3. Makes(e, d, c)
      BY <1>2, <1>4, <1>8, <2>2, ChangeMakes
    <2> HIDE DEF c, d, e
    <2>4. Makes(e, d, n)
      BY <1>6, <2>3 DEF Makes, HeadMade, HostsMade, FirstMade, Hosts
    <2> QED BY <1>7, <2>1, <2>4 DEF e
  <1>9. CASE e.kind \in NewKinds
    <2>1. Anew(e) /\ e.kind # "drop"
      BY <1>9 DEF Anew, NewKinds, ReadOn
    <2>2. ASSUME e.kind = "create" PROVE Hosts(n) = {}
      <3>1. \A a \in Alias : c.hosts[a] = <<>>
        BY <1>2, <1>4, <2>2, CreateChange
      <3> QED BY <1>6, <3>1 DEF Hosts
    <2> HIDE DEF c, d, e
    <2>3. Makes(e, NoDoc, n)
      BY <1>9, <2>1, <2>2, NoDocHosts DEF Makes, HeadMade, HostsMade, FirstMade, NewKinds, MainKinds, TakeKinds
    <2> QED BY <1>7, <2>1, <2>3 DEF e
  <1> QED BY <1>8, <1>9

\* What is written down stays as it should be.
LEMMA NextMakes ==
    ASSUME ConfigBasics, TodoInv, MakesInv, [ConfigNext]_configVars
    PROVE  MakesInv'
  <1>0. ConfigTypes
    BY DEF ConfigBasics
  <1>1. ASSUME NEW w \in Writers, Restarts(w) PROVE MakesInv'
    BY <1>1 DEF Restarts, MakesInv, At, Current
  <1>2. CASE \E w \in Writers : Step(w)
    <2>1. PICK w \in Writers : Step(w)
      BY <1>2
    <2>2. CASE Dropped(w) \/ NothingToDo(w) \/ NothingToDelete(w) \/ OtherText(w) \/ Passes(w) \/ Refused(w)
      BY <1>1, <2>2, RestartsIn
    <2>3. CASE ReadOn(w)
      <3>1. Makes(Current(w), writer'[w].text, writer'[w].new)
        BY <2>3, ReadOnMakes
      <3>2. writer'[w].todo = writer[w].todo /\ \A v \in Writers \ {w} : writer'[v] = writer[v]
        BY <1>0, <2>3, ReadOnWriter
      <3> QED BY <3>1, <3>2 DEF MakesInv, At, Current
    <2>4. ASSUME NEW s, s \in {"replace", "check"}, writer' = [writer EXCEPT ![w].step = s], ~At(w, "read")
          PROVE  MakesInv'
      <3>1. ~At(w, "idle")
        BY <2>1, StepBusy
      <3>2. /\ writer'[w].todo = writer[w].todo /\ writer'[w].text = writer[w].text /\ writer'[w].new = writer[w].new
            /\ \A v \in Writers \ {w} : writer'[v] = writer[v]
        BY <1>0, <2>4, NextWriter
      <3> QED BY <2>4, <3>1, <3>2 DEF MakesInv, At, Current
    <2>5. CASE SameText(w)
      BY <2>4, <2>5 DEF SameText, At
    <2>6. CASE Replace(w)
      BY <2>4, <2>6 DEF Replace, At
    <2> QED BY <1>0, <2>1, <2>2, <2>3, <2>5, <2>6, StepCases
  <1>3. CASE Operations
    <2>1. PICK w, todo : w \in Writers /\ Begun(w, todo) /\ (WindowBegins(todo) \/ ImportBegins(todo))
      BY <1>3, OperationCases DEF Writers
    <2>2. todo \in Seq(Edits)
      BY <1>0, <2>1, BeginTypes
    <2> QED BY <1>0, <1>1, <2>1, <2>2, BegunRestarts
  <1>4. CASE Killed
    BY <1>4 DEF Killed, Idle, MakesInv, At
  <1>5. CASE Reload \/ OthersWrite \/ UNCHANGED configVars
    <2>1. writer' = writer
      BY <1>5 DEF Reload, OthersWrite, configVars
    <2> QED BY <2>1 DEF MakesInv, At, Current
  <1> QED BY <1>2, <1>3, <1>4, <1>5, NextCases

-----------------------------------------------------------------------------
(* What a thread has compared, and what it has put into a file, is there,  *)
(* but where another wrote it at the same time.                            *)

\* What a thread has compared, or written, is what the file holds.
HeldInv ==
    "raced" \notin mishaps =>
        /\ \A w \in Writers : At(w, "replace") => files[Current(w).file] = writer[w].text
        /\ \A w \in Writers : At(w, "check") => files[Current(w).file] = writer[w].new
        /\ \A w, v \in Writers : w # v /\ At(w, "check") /\ At(v, "check") => Current(w).file # Current(v).file

\* Where none raced, no other thread is writing the file.
LEMMA NoRace ==
    ASSUME NEW w, NEW f, "raced" \notin Mishap("raced", Races(w, f))
    PROVE  \A v \in Writers \ {w} : At(v, "replace") \/ At(v, "check") => Current(v).file # f
  BY DEF Mishap, Races, At

\* A thread that takes up edits holds nothing; the files others hold are as they were.
LEMMA RestartsHeld ==
    ASSUME HeldInv, NEW w \in Writers, Restarts(w), mishaps \subseteq mishaps',
           "raced" \notin mishaps' =>
               \A v \in Writers \ {w} : At(v, "replace") \/ At(v, "check") =>
                   files'[Current(v).file] = files[Current(v).file]
    PROVE  HeldInv'
  <1> SUFFICES ASSUME "raced" \notin mishaps' PROVE HeldInv'
    BY DEF HeldInv
  <1>1. "raced" \notin mishaps
    OBVIOUS
  <1>2. ~At(w, "replace")' /\ ~At(w, "check")'
    BY DEF Restarts, At
  <1>3. \A v \in Writers \ {w} : /\ At(v, "replace")' <=> At(v, "replace")
                                 /\ At(v, "check")' <=> At(v, "check")
                                 /\ Current(v)' = Current(v)
                                 /\ writer'[v].text = writer[v].text /\ writer'[v].new = writer[v].new
    BY DEF Restarts, At, Current
  <1>4. \A v \in Writers : At(v, "replace")' => files'[Current(v)'.file] = writer'[v].text
    BY <1>1, <1>2, <1>3 DEF HeldInv
  <1>5. \A v \in Writers : At(v, "check")' => files'[Current(v)'.file] = writer'[v].new
    BY <1>1, <1>2, <1>3 DEF HeldInv
  <1>6. \A v, u \in Writers : v # u /\ At(v, "check")' /\ At(u, "check")' => Current(v)'.file # Current(u)'.file
    BY <1>1, <1>2, <1>3 DEF HeldInv
  <1> QED BY <1>4, <1>5, <1>6 DEF HeldInv

\* What a thread holds is there after each step of a thread.
LEMMA StepHeld ==
    ASSUME ConfigBasics, TodoInv, HeldInv, NEW w \in Writers, Step(w), mishaps \subseteq mishaps'
    PROVE  HeldInv'
  <1>0. ConfigTypes /\ ~At(w, "idle")
    BY StepBusy DEF ConfigBasics
  <1>1. Current(w) \in Edits /\ EditOK(Current(w)) /\ Current(w).file \in ConfigFile
    BY <1>0, CurrentOK DEF Edits
  <1>2. files \in [ConfigFile -> Docs]
    BY <1>0 DEF ConfigTypes
  <1> DEFINE f == Current(w).file
  <1>3. CASE NothingToDo(w) \/ NothingToDelete(w) \/ OtherText(w) \/ Passes(w)
    <2>1. files' = files
      BY <1>3 DEF NothingToDo, NothingToDelete, OtherText, Passes
    <2> QED BY <1>3, <2>1, RestartsIn, RestartsHeld
  <1>4. CASE Dropped(w)
    <2>1. f = "new" /\ w = "window" /\ dir = "old"
      <3>1. Current(w).kind = "drop"
        BY <1>4 DEF Dropped
      <3>2. w = "window"
        BY <1>0, <3>1, CurrentOK DEF Writers
      <3>3. WindowPlace(Current(w), dir)
        BY <1>0, <3>2, CurrentOK
      <3> QED BY <1>1, <3>1, <3>2, <3>3 DEF EditOK, WindowPlace
    <2>2. \A v \in Writers \ {w} : ~At(v, "idle") => Current(v).file # "new"
      <3>1. \A v \in Writers \ {w} : v = "import"
        BY <2>1 DEF Writers
      <3> QED BY <2>1, <3>1, CurrentOK DEF ImportPlace
    <2>3. files' = [files EXCEPT !["new"] = NoDoc]
      BY <1>4, <2>1 DEF Dropped
    <2>4. \A v \in Writers \ {w} : At(v, "replace") \/ At(v, "check") =>
                   files'[Current(v).file] = files[Current(v).file]
      BY <1>2, <2>2, <2>3 DEF At
    <2> QED BY <1>4, <2>4, RestartsIn, RestartsHeld
  <1>5. CASE Refused(w)
    <2>1. files' = [files EXCEPT ![f] = writer[w].text]
      BY <1>5 DEF Refused
    <2>2. ASSUME "raced" \notin mishaps'
          PROVE \A v \in Writers \ {w} : At(v, "replace") \/ At(v, "check") => files'[Current(v).file] = files[Current(v).file]
      <3>1. "raced" \notin Mishap("raced", Races(w, f))
        BY <1>5, <2>2 DEF Refused
      <3> QED BY <1>2, <2>1, <3>1, NoRace
    <2> QED BY <1>5, <2>2, RestartsIn, RestartsHeld
  <1>6. CASE ReadOn(w)
    <2>1. /\ writer'[w].step = "compare" /\ \A v \in Writers \ {w} : writer'[v] = writer[v]
      BY <1>0, <1>6, ReadOnWriter
    <2>2. files' = files
      BY <1>6 DEF ReadOn
    <2> QED BY <2>1, <2>2 DEF HeldInv, At, Current
  <1>7. CASE SameText(w)
    <2>1. /\ writer'[w].todo = writer[w].todo /\ writer'[w].step = "replace"
          /\ writer'[w].text = writer[w].text /\ writer'[w].new = writer[w].new
          /\ \A v \in Writers \ {w} : writer'[v] = writer[v]
      BY <1>0, <1>7, NextWriter DEF SameText
    <2>2. files' = files /\ files[f] = writer[w].text
      BY <1>7 DEF SameText
    <2> QED BY <2>1, <2>2 DEF HeldInv, At, Current
  <1>8. CASE Replace(w)
    <2>1. /\ writer'[w].todo = writer[w].todo /\ writer'[w].step = "check"
          /\ writer'[w].text = writer[w].text /\ writer'[w].new = writer[w].new
          /\ \A v \in Writers \ {w} : writer'[v] = writer[v]
      BY <1>0, <1>8, NextWriter DEF Replace
    <2>2. files' = [files EXCEPT ![f] = writer[w].new]
      BY <1>8 DEF Replace
    <2> SUFFICES ASSUME "raced" \notin mishaps' PROVE HeldInv'
      BY DEF HeldInv
    <2>3. "raced" \notin Mishap("raced", Races(w, f)) /\ "raced" \notin mishaps
      BY <1>8 DEF Replace
    <2>4. \A v \in Writers \ {w} : At(v, "replace") \/ At(v, "check") => Current(v).file # f
      BY <2>3, NoRace
    <2>5. /\ files'[f] = writer[w].new
          /\ \A v \in Writers \ {w} : At(v, "replace") \/ At(v, "check") => files'[Current(v).file] = files[Current(v).file]
      BY <1>1, <1>2, <2>2, <2>4
    <2>6. \A v \in Writers \ {w} : /\ At(v, "replace")' <=> At(v, "replace")
                                   /\ At(v, "check")' <=> At(v, "check")
                                   /\ Current(v)' = Current(v)
                                   /\ writer'[v].text = writer[v].text /\ writer'[v].new = writer[v].new
      BY <2>1 DEF At, Current
    <2>7. ~At(w, "replace")' /\ Current(w)' = Current(w)
      BY <2>1 DEF At, Current
    <2> HIDE DEF f
    <2>8. \A v \in Writers : At(v, "replace")' => files'[Current(v)'.file] = writer'[v].text
      BY <2>3, <2>5, <2>6, <2>7 DEF HeldInv
    <2>9. \A v \in Writers : At(v, "check")' => files'[Current(v)'.file] = writer'[v].new
      BY <2>1, <2>3, <2>5, <2>6, <2>7 DEF HeldInv, f
    <2>10. \A v, u \in Writers : v # u /\ At(v, "check")' /\ At(u, "check")' => Current(v)'.file # Current(u)'.file
      BY <2>3, <2>4, <2>6, <2>7 DEF HeldInv, f
    <2> QED BY <2>8, <2>9, <2>10 DEF HeldInv
  <1> QED BY <1>0, <1>3, <1>4, <1>5, <1>6, <1>7, <1>8, StepCases

\* What a thread holds is there after every step.
LEMMA NextHeld ==
    ASSUME ConfigBasics, TodoInv, HeldInv, [ConfigNext]_configVars
    PROVE  HeldInv'
  <1>0. ConfigTypes /\ mishaps \subseteq mishaps'
    BY MishapsStay DEF ConfigBasics
  <1>1. CASE \E w \in Writers : Step(w)
    BY <1>0, <1>1, StepHeld
  <1>2. CASE Operations
    <2>1. PICK w, todo : w \in Writers /\ Begun(w, todo) /\ (WindowBegins(todo) \/ ImportBegins(todo))
      BY <1>2, OperationCases DEF Writers
    <2>2. todo \in Seq(Edits)
      BY <1>0, <2>1, BeginTypes
    <2>3. files' = files
      BY <2>1 DEF Begun
    <2> QED BY <1>0, <2>1, <2>2, <2>3, BegunRestarts, RestartsHeld
  <1>3. CASE OthersWrite
    <2>1. /\ UNCHANGED writer
          /\ \E f \in ReadFiles(files), a \in Alias : Renamed(f, a) \/ TakenAway(f, a) \/ AddedBy(f, a)
      BY <1>3, OthersCases
    <2>2. PICK f, a : f \in ReadFiles(files) /\ a \in Alias /\ (Renamed(f, a) \/ TakenAway(f, a) \/ AddedBy(f, a))
      BY <2>1
    <2> SUFFICES ASSUME "raced" \notin mishaps' PROVE HeldInv'
      BY DEF HeldInv
    <2>3. "raced" \notin Mishap("raced", Races("others", f)) /\ "raced" \notin mishaps
      BY <1>0, <2>2 DEF Renamed, TakenAway, AddedBy, OthersMishaps
    <2>4. \A v \in Writers : At(v, "replace") \/ At(v, "check") => Current(v).file # f
      <3>1. \A v \in Writers \ {"others"} : At(v, "replace") \/ At(v, "check") => Current(v).file # f
        BY <2>3, NoRace
      <3> QED BY <3>1 DEF Writers
    <2>5. \A g \in ConfigFile \ {f} : files'[g] = files[g]
      BY <1>0, <2>2 DEF Renamed, TakenAway, AddedBy, ConfigTypes
    <2>6. \A v \in Writers : ~At(v, "idle") => Current(v).file \in ConfigFile
      BY CurrentOK DEF Edits
    <2>7. \A v \in Writers : At(v, "replace") \/ At(v, "check") => files'[Current(v).file] = files[Current(v).file]
      BY <2>4, <2>5, <2>6 DEF At
    <2> QED BY <2>1, <2>3, <2>7 DEF HeldInv, At, Current
  <1>4. CASE Killed
    BY <1>4 DEF Killed, Idle, HeldInv, At
  <1>5. CASE Reload \/ UNCHANGED configVars
    <2>1. writer' = writer /\ files' = files /\ mishaps' = mishaps
      BY <1>5 DEF Reload, configVars
    <2> QED BY <2>1 DEF HeldInv, At, Current
  <1> QED BY <1>1, <1>2, <1>3, <1>4, <1>5, NextCases

\* At first nothing is written down, and nothing held.
LEMMA InitHeld == ConfigInit => MakesInv /\ HeldInv
  BY DEF ConfigInit, Idle, MakesInv, HeldInv, At

-----------------------------------------------------------------------------
(* No host is lost.  A host that is known is held by a file that ssh       *)
(* reads: it is in it, and stays in it where ssh refuses what is being     *)
(* checked.                                                                *)

\* The edits whose result ssh never refuses.
Unchecked(e) ==
    \/ e.kind \in {"header", "ignore"} \/ e.check = "nothing"
    \/ e.kind = "include" /\ e.check = "parse"

\* A file that was written is being checked, and may be put back.
Refusable(w) == At(w, "check") /\ ~Unchecked(Current(w))

\* Include points at the copy of the folders, and that isn't checked yet.
Switching == At("window", "check") /\ Current("window").kind = "include" /\ Current("window").check = "hosts"

\* A file holds a host, and does where it is put back.
Holds(a, f) ==
    /\ a \in Hosts(files[f])
    /\ \A w \in Writers : Refusable(w) /\ Current(w).file = f => a \in Hosts(writer[w].text)

\* The files ssh reads, and those it reads where the copy is refused.
Now == ReadFiles(files)

\* The files ssh would read where the copy of the folders is refused.
Base == IF Switching THEN {"main"} \cup ToSet(writer["window"].text.include) ELSE Now

\* A host is kept, unless it was deleted, or a folder's file was adopted.
Kept(a) ==
    \/ Deleted(a) \/ Adopted
    \/ (\E f \in Now : Holds(a, f)) /\ (\E f \in Base : Holds(a, f))

\* Each host that NativeTerm was given is kept.
KnownInv == \A a \in Alias : known[a] # Gone => Kept(a)

\* There is one folder file.
SingleInv == Len(files["main"].include) <= 1 /\ (Switching => Len(writer["window"].text.include) <= 1)

\* The tree in the window is of files that ssh reads.
TreeInv == At("window", "idle") => \A h \in tree : h.file \in Now

\* ssh ignores NativeTerm keys, and does where it refuses what is checked.
Ignored ==
    /\ files["main"].ignore
    /\ \A w \in Writers : Refusable(w) /\ Current(w).file = "main" => writer[w].text.ignore

\* The copy of the folders is read only once it is there.
NewInv == "new" \in Now => files["new"].there \/ dir = "new"

\* An import adds to a file that ssh reads and will read, and isn't refused for its keys.
ImportInv ==
    /\ ~At("import", "idle") => Current("import").kind = "header" \/ Ignored
    /\ ~At("import", "idle") /\ Current("import").kind = "add" /\ dir = "old" /\ ~Adopted => Current("import").file \in Base

\* What the window has ahead of it.
NewOK(e) == e.kind \in {"add", "label", "options", "plain", "create"} /\ e.file = "new" => dir = "new"

\* A host is deleted from a file that ssh reads.
DeleteOK(e) == e.kind = "delete" => e.file \in Now

\* The window checks whether a host that was moved is gone from its old file.
Removing == At("window", "check") /\ Current("window").kind = "remove"

\* A host is taken out of a file that ssh reads and that has it.
RemoveOK(e) ==
    e.kind = "remove" => /\ e.file \in Now
                         /\ ~Removing => e.alias \in Hosts(files[e.file])

\* A file that is adopted is there.
AdoptOK(e) == e.kind = "include" /\ e.check = "parse" => files["new"].there

\* Until Include points at the copy of the folders, ssh doesn't read it.
FoldersOK(e) == e.kind \in {"clone", "drop"} \/ (e.kind = "include" /\ e.check = "hosts") => "new" \notin Base

\* What an edit that the window has ahead rests on.
Ahead(e) == NewOK(e) /\ DeleteOK(e) /\ RemoveOK(e) /\ AdoptOK(e) /\ FoldersOK(e)

\* All it has ahead can be done.
AheadInv == \A e \in ToSet(writer["window"].todo) : Ahead(e)

\* What it is at: a host that is moved is in one of the two files for good.
CopyNow(e) == e.kind = "copy" => e.file \in Now

\* The other file has the host for good, and the old one is put back whole.
RemoveNow(e) ==
    e.kind = "remove" =>
        /\ e.undo[1].file \in Now
        /\ e.alias \in Hosts(files[e.undo[1].file])
        /\ ~At("window", "check") => Holds(e.alias, e.undo[1].file)
        /\ /\ At("window", "compare") \/ At("window", "replace")
           /\ Refusable("import") /\ Current("import").file = e.file
           /\ e.alias \notin Hosts(writer["import"].text)
           => files[e.file] = writer["window"].text

\* The copy is taken back only while the host is in another file that ssh reads.
WithdrawNow(e) ==
    e.kind = "withdraw" /\ ~At("window", "check") =>
        /\ e.file \in Now
        /\ e.alias \in Hosts(files[e.file])
        /\ \E g \in Now \ {e.file} : Holds(e.alias, g)

\* The copy has the hosts of the folder's file.
CloneNow(e) ==
    e.kind = "clone" /\ ~At("window", "read") => Hosts(files["old"]) \subseteq Hosts(writer["window"].new)

\* The copy has them still when Include comes to point at it.
IncludeNow(e) ==
    e.kind = "include" /\ e.check = "hosts" =>
        /\ files["new"].there
        /\ ~At("window", "check") => Hosts(files["old"]) \subseteq Hosts(files["new"])

\* What the window is at rests on what it should.
NowInv ==
    ~At("window", "idle") =>
        /\ CopyNow(Current("window")) /\ RemoveNow(Current("window")) /\ WithdrawNow(Current("window"))
        /\ CloneNow(Current("window")) /\ IncludeNow(Current("window"))

\* The two threads never give the same HostName.
ApartInv ==
    \A e \in ToSet(writer["window"].todo), f \in ToSet(writer["import"].todo) :
        e.kind \in {"add", "update"} /\ f.kind = "add" => e.block.name # f.block.name

\* What excuses a loss has happened: two wrote a file at once, a name was taken twice, the
\* folders' file was changed while it was copied, or others took away a host being moved.
Lossy == mishaps \cap {"raced", "taken", "staleFolder", "removed"} # {}

\* What holds whatever happens.
Ground == ConfigBasics /\ TodoInv /\ MakesInv /\ HeldInv /\ NamesInv /\ ApartInv

\* What holds while nothing excuses a loss.
Sure == KnownInv /\ SingleInv /\ TreeInv /\ NewInv /\ ImportInv /\ AheadInv /\ NowInv

\* The inductive invariant, on the ground of Ground.
HostsInv == ~Lossy => Sure

-----------------------------------------------------------------------------
(* The threads' edits.                                                     *)

\* What the threads are at.
LEMMA AtEdit ==
    ASSUME Ground, NEW w \in Writers, ~At(w, "idle")
    PROVE  /\ Current(w) \in Edits /\ EditOK(Current(w)) /\ Current(w).file \in ConfigFile
           /\ Current(w).kind \in Kinds /\ Shaped(Current(w)) /\ Current(w).block \in Blks
           /\ Current(w).to \in Folders
           /\ Current(w) \in ToSet(writer[w].todo) /\ writer[w].todo # <<>> /\ writer[w].todo \in Seq(Edits)
           /\ Current(w) = Head(writer[w].todo)
           /\ writer[w].text \in Docs /\ writer[w].new \in Docs /\ files[Current(w).file] \in Docs
           /\ ~At(w, "read") => Makes(Current(w), writer[w].text, writer[w].new)
           /\ w = "import" => /\ Current(w).kind \in {"header", "add"} /\ ImportPlace(Current(w), dir)
                              /\ ImportTodo(writer[w].todo)
           /\ w = "window" => WindowPlace(Current(w), dir) /\ WindowTodo(writer[w].todo)
  <1>1. ConfigBasics /\ TodoInv /\ MakesInv /\ ConfigTypes
    BY DEF Ground, ConfigBasics
  <1>2. /\ writer[w].todo \in Seq(Edits) /\ writer[w].todo # <<>>
        /\ Current(w) = Head(writer[w].todo) /\ Current(w) \in ToSet(writer[w].todo)
        /\ Current(w) \in Edits /\ EditOK(Current(w))
        /\ w = "window" => WindowPlace(Current(w), dir) /\ WindowTodo(writer[w].todo)
        /\ w = "import" => /\ ImportPlace(Current(w), dir) /\ ImportTodo(writer[w].todo)
                           /\ Current(w).kind \in {"header", "add"}
    BY <1>1, CurrentOK
  <1>3. /\ Current(w).kind \in Kinds /\ Current(w).file \in ConfigFile /\ Current(w).block \in Blks
        /\ Current(w).to \in Folders /\ Shaped(Current(w)) /\ files[Current(w).file] \in Docs
        /\ writer[w].text \in Docs /\ writer[w].new \in Docs
    BY <1>1, <1>2, CurrentType
  <1>4. ~At(w, "read") => Makes(Current(w), writer[w].text, writer[w].new)
    BY <1>1 DEF MakesInv
  <1> QED BY <1>2, <1>3, <1>4

\* What a thread has put into its file is there.
LEMMA HeldThere ==
    ASSUME Ground, ~Lossy, NEW w \in Writers
    PROVE  /\ At(w, "replace") => files[Current(w).file] = writer[w].text
           /\ At(w, "check") => files[Current(w).file] = writer[w].new
           /\ \A v \in Writers \ {w} : At(w, "check") /\ At(v, "check") => Current(w).file # Current(v).file
  BY DEF Ground, HeldInv, Lossy

\* The types of the files, and which ssh reads.
LEMMA NowType ==
    ASSUME Ground
    PROVE  /\ files \in [ConfigFile -> Docs] /\ writer \in [Writers -> WriterStates] /\ dir \in Folders
           /\ tree \subseteq [alias : Alias, file : ConfigFile, name : Nat]
           /\ Now = ToSet(files["main"].include) \cup {"main"} /\ Now \subseteq ConfigFile
           /\ "main" \in ConfigFile /\ "old" \in ConfigFile /\ "new" \in ConfigFile
  <1>1. ConfigTypes
    BY DEF Ground, ConfigBasics
  <1>2. files \in [ConfigFile -> Docs]
    BY <1>1 DEF ConfigTypes
  <1>3. Now = ToSet(files["main"].include) \cup {"main"} /\ Now \subseteq ConfigFile
    BY <1>2, ReadsType DEF Now
  <1>4. "main" \in ConfigFile /\ "old" \in ConfigFile /\ "new" \in ConfigFile
    BY DEF ConfigFile, Folders
  <1>5. /\ writer \in [Writers -> WriterStates] /\ dir \in Folders
        /\ tree \subseteq [alias : Alias, file : ConfigFile, name : Nat]
    BY <1>1 DEF ConfigTypes
  <1> QED BY <1>2, <1>3, <1>4, <1>5

\* An import that ssh may refuse adds a host to a folder file.
LEMMA ImportRefusable ==
    ASSUME Ground, Refusable("import")
    PROVE  /\ Current("import").kind = "add" /\ Current("import").check = "name"
           /\ Current("import").file \in Folders /\ Current("import").file # "main"
           /\ Current("import").alias \in Alias
           /\ Current("import").file = "new" => dir = "new"
  <1>1. ~At("import", "idle") /\ "import" \in Writers /\ ~Unchecked(Current("import"))
    BY DEF Refusable, At, Writers
  <1>2. /\ Current("import").kind \in {"header", "add"} /\ EditOK(Current("import"))
        /\ ImportPlace(Current("import"), dir) /\ Shaped(Current("import"))
    BY <1>1, AtEdit
  <1>3. Current("import").kind = "add"
    BY <1>1, <1>2 DEF Unchecked
  <1> QED BY <1>2, <1>3 DEF EditOK, ImportPlace, Folders, Shaped, HostKinds

\* What isn't refused isn't refused.
LEMMA UncheckedPass ==
    ASSUME Ground, ~Lossy, NEW w \in Writers, At(w, "check"), Unchecked(Current(w))
    PROVE  Checks(Current(w))
  <1>1. ~At(w, "idle") /\ ~At(w, "read")
    BY DEF At
  <1>2. /\ EditOK(Current(w)) /\ Shaped(Current(w))
        /\ Makes(Current(w), writer[w].text, writer[w].new)
    BY <1>1, AtEdit
  <1>3. CASE Current(w).check = "nothing"
    BY <1>3 DEF Checks
  <1>4. CASE Current(w).kind \in {"header", "ignore"} \/ (Current(w).kind = "include" /\ Current(w).check = "parse")
    <2>1. Current(w).check = "parse" /\ Current(w).file = "main"
      BY <1>2, <1>4 DEF EditOK, Shaped, MainKinds
    <2>2. files["main"] = writer[w].new
      BY <2>1, HeldThere
    <2>3. writer[w].new.ignore
      BY <1>2, <1>4 DEF Makes, HeadMade, MainKinds
    <2> QED BY <2>1, <2>2, <2>3 DEF Checks, Accepts
  <1> QED BY <1>3, <1>4 DEF Unchecked

\* What is refused may be refused.
LEMMA RefusedIsRefusable ==
    ASSUME Ground, ~Lossy, NEW w \in Writers, Refused(w)
    PROVE  Refusable(w)
  BY UncheckedPass DEF Refused, Refusable

\* Where ssh ignores NativeTerm keys, only pointing Include at the copy could change that.
LEMMA IgnoredNow ==
    ASSUME Ground, ~Lossy, files["main"].ignore, ~Switching
    PROVE  Ignored
  <1> SUFFICES ASSUME NEW w \in Writers, Refusable(w), Current(w).file = "main" PROVE writer[w].text.ignore
    BY DEF Ignored
  <1>1. At(w, "check") /\ ~At(w, "idle") /\ ~At(w, "read") /\ ~Unchecked(Current(w))
    BY DEF At, Refusable
  <1>2. /\ EditOK(Current(w)) /\ Shaped(Current(w)) /\ Current(w).kind \in Kinds
        /\ Makes(Current(w), writer[w].text, writer[w].new)
        /\ w = "import" => Current(w).kind \in {"header", "add"}
    BY <1>1, AtEdit
  <1>3. Current(w).kind \notin NewKinds
    BY <1>2 DEF Shaped, Folders
  <1>4. Current(w).kind # "include"
    <2>1. ASSUME Current(w).kind = "include" PROVE FALSE
      <3>1. w = "window" /\ Current(w).check = "hosts"
        BY <1>1, <1>2, <2>1 DEF Writers, Unchecked, EditOK
      <3> QED BY <1>1, <2>1, <3>1 DEF Switching
    <2> QED BY <2>1
  <1>5. Current(w).kind \notin MainKinds
    BY <1>1, <1>4 DEF Unchecked, MainKinds
  <1>6. writer[w].new.ignore = writer[w].text.ignore
    BY <1>2, <1>3, <1>5 DEF Makes, HeadMade
  <1>7. files["main"] = writer[w].new
    BY <1>1, HeldThere
  <1> QED BY <1>6, <1>7

\* An import of a host that wasn't in its file is accepted where ssh reads the file.
LEMMA ImportPasses ==
    ASSUME Ground, ~Lossy, Sure, Refusable("import"), Current("import").file \in Now,
           Current("import").alias \notin Hosts(writer["import"].text)
    PROVE  Checks(Current("import"))
  <1> DEFINE e == Current("import")
             f == e.file
             a == e.alias
  <1>1. "import" \in Writers /\ At("import", "check") /\ ~At("import", "idle") /\ ~At("import", "read")
    BY DEF Refusable, At, Writers
  <1>2. e.kind = "add" /\ e.check = "name" /\ f \in Folders /\ f # "main" /\ a \in Alias
    BY ImportRefusable
  <1>3. Makes(e, writer["import"].text, writer["import"].new)
    BY <1>1, AtEdit
  <1>4. files[f] = writer["import"].new
    BY <1>1, HeldThere
  <1>5. a \in Hosts(files[f]) /\ files[f].hosts[a][1].name = e.block.name
    BY <1>2, <1>3, <1>4 DEF Makes, HostsMade, FirstMade
  <1>6. Accepts(files)
    <2>1. Ignored
      BY <1>1, <1>2 DEF Sure, ImportInv
    <2> QED BY <2>1 DEF Ignored, Accepts
  <1>7. Effective(files, a) = e.block.name
    <2>1. /\ files \in [ConfigFile -> Docs] /\ Now = ToSet(files["main"].include) \cup {"main"}
      BY NowType
    <2>2. a \in Aliases(files)
      BY <1>5 DEF Aliases, Now
    <2> DEFINE s == files["main"].include
               r == Reads(files)
    <2>3. /\ s \in Seq(Folders) /\ r \in Seq(ConfigFile) /\ Len(r) = Len(s) + 1 /\ r[Len(s) + 1] = "main"
          /\ \A i \in 1 .. Len(s) : r[i] = s[i]
      BY <2>1, ReadsType
    <2>4. Len(s) <= 1
      BY DEF Sure, SingleInv
    <2>5. PICK i \in DOMAIN r :
                               /\ a \in Hosts(files[r[i]])
                               /\ \A j \in 1 .. (i - 1) : a \notin Hosts(files[r[j]])
                               /\ Effective(files, a) = files[r[i]].hosts[a][1].name
      BY <2>1, <2>2, EffectivePlace
    <2>6. f \in ToSet(s)
      BY <1>2, <2>1
    <2> HIDE DEF r, s, e, f, a
    <2>7. PICK k \in DOMAIN s : s[k] = f
      BY <2>6 DEF ToSet
    <2>8. DOMAIN s = 1 .. Len(s) /\ Len(s) \in Nat /\ DOMAIN r = 1 .. Len(r)
      BY <2>3
    <2>9. Len(s) = 1 /\ k = 1 /\ Len(r) = 2
      BY <2>3, <2>4, <2>7, <2>8
    <2>10. r[1] = f /\ i \in 1 .. 2
      BY <2>3, <2>7, <2>8, <2>9
    <2>11. i = 1
      <3>1. ASSUME i = 2 PROVE FALSE
        <4>1. 1 \in 1 .. (i - 1)
          BY <3>1
        <4>2. a \notin Hosts(files[r[1]])
          BY <2>5, <4>1
        <4> QED BY <1>5, <2>10, <4>2
      <3> QED BY <2>10, <3>1
    <2> QED BY <1>5, <2>5, <2>10, <2>11
  <1> QED BY <1>2, <1>6, <1>7 DEF Checks

-----------------------------------------------------------------------------
(* The two threads never give the same HostName.                           *)

\* What undoes an edit: the same host added once more, a copy taken out, or dropped.
LEMMA UndoMembers ==
    ASSUME NEW e \in Edits, EditOK(e), NEW x \in ToSet(e.undo)
    PROVE  /\ x.kind \in {"add", "withdraw", "drop"}
           /\ x.kind = "add" => e.kind = "add" /\ x.block = e.block /\ x.file = e.file
           /\ x.kind = "drop" => e.kind = "include" /\ e.check = "hosts"
           /\ x.kind = "withdraw" => e.kind = "remove" /\ x = e.undo[1] /\ x.alias = e.alias /\ x.file # e.file
  <1>1. e.undo = <<>> => ToSet(e.undo) = {}
    BY DEF ToSet
  <1>2. e.undo # <<>>
    BY <1>1
  <1>3. e.kind \in Kinds
    BY DEF Edits
  <1>4. e.kind \in {"add", "remove", "include"}
    BY <1>2, <1>3 DEF EditOK, Kinds, HostKinds, MainKinds, NewKinds
  <1>5. \A y \in Edits : ToSet(<<y>>) = {y} /\ <<y>>[1] = y
    BY TodoSets
  <1>6. CASE e.kind = "add"
    <2>1. PICK y \in Edits : e.undo = <<y>> /\ y.kind = "add" /\ y.file = e.file /\ y.block = e.block
      BY <1>2, <1>6 DEF EditOK
    <2>2. x = y
      BY <1>5, <2>1
    <2> QED BY <1>6, <2>1, <2>2
  <1>7. CASE e.kind = "remove"
    <2>1. PICK y \in Edits : e.undo = <<y>> /\ y.kind = "withdraw" /\ y.alias = e.alias /\ y.file # e.file
      BY <1>7 DEF EditOK
    <2>2. x = y /\ e.undo[1] = y
      BY <1>5, <2>1
    <2> QED BY <1>7, <2>1, <2>2
  <1>8. CASE e.kind = "include"
    <2>1. PICK y \in Edits : e.undo = <<y>> /\ y.kind = "drop" /\ e.check = "hosts"
      BY <1>2, <1>8 DEF EditOK
    <2>2. x = y
      BY <1>5, <2>1
    <2> QED BY <1>8, <2>1, <2>2
  <1> QED BY <1>4, <1>6, <1>7, <1>8

\* What a thread has to do after a step of its.
LEMMA StepLists ==
    ASSUME ConfigBasics, NEW w \in Writers, Step(w)
    PROVE  /\ writer'[w].todo \in {writer[w].todo, Tail(writer[w].todo), Current(w).undo}
           /\ \A v \in Writers \ {w} : writer'[v] = writer[v]
           /\ fresh' = fresh
  <1>0. ConfigTypes
    BY DEF ConfigBasics
  <1>1. ~At(w, "idle")
    BY StepBusy
  <1>2. writer[w].todo # <<>>
    BY <1>1, BusyCurrent
  <1>3. Tail(writer[w].todo) \in Seq(Edits) /\ Current(w).undo \in Seq(Edits)
    BY <1>0, <1>2, CurrentType
  <1>4. ASSUME NEW todo \in Seq(Edits), todo \in {Tail(writer[w].todo), Current(w).undo}, NEW fs, NEW to,
               TakesUp(w, todo, fs, to)
        PROVE  /\ writer'[w].todo \in {writer[w].todo, Tail(writer[w].todo), Current(w).undo}
               /\ \A v \in Writers \ {w} : writer'[v] = writer[v]
    <2>1. writer'[w].todo = todo /\ \A v \in Writers \ {w} : writer'[v] = writer[v]
      BY <1>0, <1>4, TakesUpWriter
    <2> QED BY <1>4, <2>1
  <1>5. CASE Dropped(w)
    BY <1>3, <1>4, <1>5 DEF Dropped
  <1>6. CASE NothingToDo(w)
    BY <1>3, <1>4, <1>6 DEF NothingToDo
  <1>7. CASE NothingToDelete(w)
    BY <1>3, <1>4, <1>7 DEF NothingToDelete
  <1>8. CASE OtherText(w)
    BY <1>3, <1>4, <1>8 DEF OtherText
  <1>9. CASE Passes(w)
    BY <1>3, <1>4, <1>9 DEF Passes
  <1>10. CASE Refused(w)
    BY <1>3, <1>4, <1>10 DEF Refused
  <1>11. CASE ReadOn(w)
    <2>1. writer'[w].todo = writer[w].todo /\ \A v \in Writers \ {w} : writer'[v] = writer[v]
      BY <1>0, <1>11, ReadOnWriter
    <2> QED BY <1>11, <2>1 DEF ReadOn
  <1>12. CASE SameText(w)
    <2>1. writer'[w].todo = writer[w].todo /\ \A v \in Writers \ {w} : writer'[v] = writer[v]
      BY <1>0, <1>12, NextWriter DEF SameText
    <2> QED BY <1>12, <2>1 DEF SameText
  <1>13. CASE Replace(w)
    <2>1. writer'[w].todo = writer[w].todo /\ \A v \in Writers \ {w} : writer'[v] = writer[v]
      BY <1>0, <1>13, NextWriter DEF Replace
    <2> QED BY <1>13, <2>1 DEF Replace, Bounds
  <1>14. fresh' = fresh
    BY DEF Step, Read, Compare, Replace, Check, Bounds
  <1> QED BY <1>0, <1>5, <1>6, <1>7, <1>8, <1>9, <1>10, <1>11, <1>12, <1>13, <1>14, StepCases

\* After a step, what a thread gives was already ahead of it.
LEMMA StepGives ==
    ASSUME ConfigBasics, TodoInv, NEW w \in Writers, Step(w), NEW v \in Writers,
           NEW e \in ToSet(writer'[v].todo), e.kind \in {"add", "update"}
    PROVE  \E x \in ToSet(writer[v].todo) : x.kind = e.kind /\ x.block = e.block
  <1>1. /\ writer'[w].todo \in {writer[w].todo, Tail(writer[w].todo), Current(w).undo}
        /\ \A u \in Writers \ {w} : writer'[u] = writer[u]
    BY StepLists
  <1>2. ~At(w, "idle")
    BY StepBusy
  <1>3. /\ writer[w].todo \in Seq(Edits) /\ writer[w].todo # <<>>
        /\ Current(w) = Head(writer[w].todo) /\ Current(w) \in ToSet(writer[w].todo)
        /\ Current(w) \in Edits /\ EditOK(Current(w))
    BY <1>2, CurrentOK
  <1>4. CASE v # w \/ writer'[w].todo = writer[w].todo
    BY <1>1, <1>4
  <1>5. CASE v = w /\ writer'[w].todo = Tail(writer[w].todo)
    <2>1. ToSet(Tail(writer[w].todo)) \subseteq ToSet(writer[w].todo)
      BY <1>3, SetOfRest
    <2> QED BY <1>5, <2>1
  <1>6. CASE v = w /\ writer'[w].todo = Current(w).undo
    BY <1>3, <1>6, UndoMembers
  <1> QED BY <1>1, <1>4, <1>5, <1>6

\* A list's names, one by one.
LEMMA TodoNames ==
    ASSUME NEW t \in Seq(Edits), NEW n \in Nat, TodoNamed(t, n), NEW e \in ToSet(t)
    PROVE  e.block.name <= n
  <1>1. DOMAIN t = 1 .. Len(t)
    OBVIOUS
  <1>2. PICK i \in 1 .. Len(t) : e = t[i]
    BY <1>1 DEF ToSet
  <1> QED BY <1>2 DEF TodoNamed, EditNamed

\* What the window begins with gives the next name; so does an import.
LEMMA BeginGives ==
    ASSUME ConfigTypes, NEW todo, WindowBegins(todo) \/ ImportBegins(todo)
    PROVE  \A e \in ToSet(todo) : e.kind \in {"add", "update"} => e.block.name = fresh + 1
  <1>1. NewBlock.name = fresh + 1
    BY DEF NewBlock, Block
  <1>2. Header \in Edits /\ Ignore \in Edits /\ Header.kind = "header" /\ Ignore.kind = "ignore"
    BY HeaderTypes, LastEditsAreEdits
  <1>3. NewBlock \in Blks /\ NoBlock \in Blks /\ dir \in Folders /\ dir \in ConfigFile
    BY BlockTypes DEF ConfigTypes, ConfigFile
  <1>4. ASSUME NEW k \in {"add", "update", "delete", "id"}, NEW f \in ConfigFile, NEW a \in Alias,
               NEW b \in Blks, NEW c \in {"name", "parse"}
        PROVE  /\ Edit(k, f, a, b, c) \in LastEdits /\ Edit(k, f, a, b, c) \in Edits
               /\ Edit(k, f, a, b, c).kind = k /\ Edit(k, f, a, b, c).block = b
    BY <1>3, <1>4, EditType, LastEditsAreEdits DEF Kinds, HostKinds, MainKinds, NewKinds
  <1>5. \A x, y, z \in Edits : ToSet(<<x>>) = {x} /\ ToSet(<<x, y>>) = {x, y} /\ ToSet(<<x, y, z>>) = {x, y, z}
    BY TodoSets
  <1>6. ASSUME NEW h \in tree PROVE h.alias \in Alias /\ h.file \in ConfigFile
    BY DEF ConfigTypes
  <1>7. ASSUME NEW a \in Alias, NEW f \in {"main", dir}, todo = CreateHost(a, f)
        PROVE \A e \in ToSet(todo) : e.kind \in {"add", "update"} => e.block.name = fresh + 1
    <2>1. f \in ConfigFile
      BY <1>3 DEF ConfigFile
    <2> DEFINE y == Edit("add", f, a, NewBlock, "name")
               x == IF f = "main" THEN Ignore ELSE Header
    <2>2. y \in Edits /\ y.block = NewBlock
      BY <1>3, <1>4, <2>1
    <2>3. x \in Edits /\ x.kind \notin {"add", "update"}
      BY <1>2
    <2>4. todo = <<x, y>>
      BY <1>7 DEF CreateHost
    <2> HIDE DEF x, y
    <2>5. ToSet(todo) = {x, y}
      BY <1>5, <2>2, <2>3, <2>4
    <2> QED BY <1>1, <2>2, <2>3, <2>5
  <1>8. ASSUME NEW h \in tree, todo = UpdateHost(h)
        PROVE \A e \in ToSet(todo) : e.kind \in {"add", "update"} => e.block.name = fresh + 1
    <2> DEFINE y == Edit("update", h.file, h.alias, NewBlock, "name")
    <2>1. y \in Edits /\ y.block = NewBlock
      BY <1>3, <1>4, <1>6
    <2>2. todo = <<Ignore, y>>
      BY <1>8 DEF UpdateHost
    <2> HIDE DEF y
    <2>3. ToSet(todo) = {Ignore, y}
      BY <1>2, <1>5, <2>1, <2>2
    <2> QED BY <1>1, <1>2, <2>1, <2>3
  <1>9. ASSUME NEW h \in tree, todo = DeleteHost(h) \/ todo = EnsureId(h)
        PROVE \A e \in ToSet(todo) : e.kind \in {"add", "update"} => e.block.name = fresh + 1
    <2>1. PICK y \in Edits : y.kind \in {"delete", "id"} /\ todo = <<y>>
      BY <1>3, <1>4, <1>6, <1>9 DEF DeleteHost, EnsureId
    <2> QED BY <1>5, <2>1
  <1>10. ASSUME NEW h \in tree, NEW f \in {"main", dir} \ {h.file}, Has(h), todo = MoveHost(h, f)
        PROVE \A e \in ToSet(todo) : e.kind \in {"add", "update"} => e.block.name = fresh + 1
    <2>1. /\ CopyOf(h, f) \in Edits /\ CopyOf(h, f).kind = "copy" /\ Removal(h, f) \in Edits /\ Removal(h, f).kind = "remove"
          /\ MoveHost(h, f) = IF f = "main" THEN <<CopyOf(h, f), Removal(h, f)>>
                              ELSE <<Header, CopyOf(h, f), Removal(h, f)>>
      BY <1>10, MoveTypes, LastEditsAreEdits
    <2> DEFINE c == CopyOf(h, f)
               r == Removal(h, f)
               x == Header
    <2>2. c \in Edits /\ r \in Edits /\ x \in Edits /\ (todo = <<c, r>> \/ todo = <<x, c, r>>)
      BY <1>2, <1>10, <2>1
    <2>3. c.kind = "copy" /\ r.kind = "remove" /\ x.kind = "header"
      BY <1>2, <2>1
    <2> HIDE DEF c, r, x
    <2>4. ToSet(<<c, r>>) = {c, r} /\ ToSet(<<x, c, r>>) = {x, c, r}
      BY DEF ToSet
    <2>5. ToSet(todo) \subseteq {x, c, r}
      BY <2>2, <2>4
    <2> QED BY <2>3, <2>5
  <1>11. ASSUME todo = CreateFolder \/ (\E k \in {"label", "options", "plain"} : todo = SetFolder(k))
        PROVE \A e \in ToSet(todo) : e.kind \in {"add", "update"} => e.block.name = fresh + 1
    <2>1. \A k \in {"create", "label", "options", "plain"} : Plain(k, dir) \in Edits /\ Plain(k, dir).kind = k
      BY <1>3, PlainType, LastEditsAreEdits DEF Kinds, HostKinds, MainKinds, NewKinds
    <2>2. PICK k \in {"create", "label", "options", "plain"} :
             todo \in {<<Plain(k, dir)>>, <<Plain(k, dir), Header>>, <<Ignore, Plain(k, dir)>>}
      BY <1>11 DEF CreateFolder, SetFolder
    <2> DEFINE y == Plain(k, dir)
               x == Header
               z == Ignore
    <2>3. /\ y \in Edits /\ y.kind \notin {"add", "update"} /\ x \in Edits /\ z \in Edits
          /\ todo = <<y>> \/ todo = <<y, x>> \/ todo = <<z, y>>
          /\ x.kind = "header" /\ z.kind = "ignore"
      BY <1>2, <2>1, <2>2
    <2> HIDE DEF x, y, z
    <2>4. ToSet(<<y>>) = {y} /\ ToSet(<<y, x>>) = {y, x} /\ ToSet(<<z, y>>) = {z, y}
      BY <1>5, <2>3
    <2>5. ToSet(todo) \subseteq {x, y, z}
      BY <2>3, <2>4
    <2> QED BY <2>3, <2>5
  <1>12. ASSUME todo = MoveFolders \/ todo = AdoptFolders
        PROVE \A e \in ToSet(todo) : e.kind \in {"add", "update"} => e.block.name = fresh + 1
    <2>1. PICK x \in Edits, y \in Edits : /\ x.kind \in {"clone", "include"} /\ y.kind \in {"clone", "include"}
                                          /\ todo = <<x, y>> \/ todo = <<x>>
      <3>1. MoveFolders[1] \in Edits /\ MoveFolders[2] \in Edits /\ AdoptFolders[1] \in Edits
        BY FoldersTypes, LastEditsAreEdits
      <3>2. /\ MoveFolders[1].kind = "clone" /\ MoveFolders[2].kind = "include" /\ AdoptFolders[1].kind = "include"
            /\ MoveFolders = <<MoveFolders[1], MoveFolders[2]>> /\ AdoptFolders = <<AdoptFolders[1]>>
        BY FoldersTypes
      <3> QED BY <1>12, <3>1, <3>2
    <2>2. ToSet(todo) \subseteq {x, y}
      BY <1>5, <2>1
    <2> QED BY <2>1, <2>2
  <1>13. ASSUME NEW a \in Alias, todo = ImportFolder(a)
        PROVE \A e \in ToSet(todo) : e.kind \in {"add", "update"} => e.block.name = fresh + 1
    <2> DEFINE y == Edit("add", dir, a, NewBlock, "name")
               z == [y EXCEPT !.undo = <<y>>]
    <2>1. y \in LastEdits /\ y.block = NewBlock
      BY <1>3, <1>4
    <2>2. todo = <<Header, z>>
      BY <1>13 DEF ImportFolder
    <2> HIDE DEF y
    <2>3. z \in Edits /\ z.block = NewBlock
      BY <2>1 DEF LastEdits, Edits, Shaped
    <2> HIDE DEF z
    <2>4. ToSet(todo) = {Header, z}
      BY <1>2, <1>5, <2>2, <2>3
    <2> QED BY <1>1, <1>2, <2>3, <2>4
  <1>14. CASE WindowBegins(todo)
    <2>1. CASE \E a \in Alias \ {h.alias : h \in tree}, f \in {"main", dir} : todo = CreateHost(a, f)
      BY <1>7, <2>1
    <2>2. CASE \E h \in tree : todo = UpdateHost(h)
      BY <1>8, <2>2
    <2>3. CASE \E h \in tree : todo = DeleteHost(h) \/ todo = EnsureId(h)
      BY <1>9, <2>3
    <2>4. CASE \E h \in tree : \E f \in {"main", dir} \ {h.file} : Has(h) /\ todo = MoveHost(h, f)
      BY <1>10, <2>4
    <2>5. CASE todo = CreateFolder \/ (\E k \in {"label", "options", "plain"} : todo = SetFolder(k))
      BY <1>11, <2>5
    <2>6. CASE todo = MoveFolders \/ todo = AdoptFolders
      BY <1>12, <2>6
    <2> QED BY <1>14, <2>1, <2>2, <2>3, <2>4, <2>5, <2>6 DEF WindowBegins
  <1>15. CASE ImportBegins(todo)
    BY <1>13, <1>15 DEF ImportBegins
  <1> QED BY <1>14, <1>15

\* The two threads never give the same name.
LEMMA NextApart ==
    ASSUME ConfigBasics, TodoInv, NamesInv, ApartInv, [ConfigNext]_configVars
    PROVE  ApartInv'
  <1>0. ConfigTypes /\ fresh \in Nat /\ "window" \in Writers /\ "import" \in Writers
    BY DEF ConfigBasics, ConfigTypes, Writers
  <1>1. CASE \E w \in Writers : Step(w)
    <2>1. PICK w \in Writers : Step(w)
      BY <1>1
    <2> SUFFICES ASSUME NEW e \in ToSet(writer'["window"].todo), NEW f \in ToSet(writer'["import"].todo),
                        e.kind \in {"add", "update"}, f.kind = "add"
                 PROVE  e.block.name # f.block.name
      BY DEF ApartInv
    <2>2. PICK x \in ToSet(writer["window"].todo) : x.kind = e.kind /\ x.block = e.block
      BY <1>0, <2>1, StepGives
    <2>3. PICK y \in ToSet(writer["import"].todo) : y.kind = f.kind /\ y.block = f.block
      BY <1>0, <2>1, StepGives
    <2>4. x.block.name # y.block.name
      BY <2>2, <2>3 DEF ApartInv
    <2> QED BY <2>2, <2>3, <2>4
  <1>2. CASE Operations
    <2>1. PICK w, todo : w \in Writers /\ Begun(w, todo) /\ (WindowBegins(todo) \/ ImportBegins(todo))
      BY <1>2, OperationCases DEF Writers
    <2>2. todo \in Seq(Edits)
      BY <1>0, <2>1, BeginTypes
    <2>3. writer'[w].todo = todo /\ \A v \in Writers \ {w} : writer'[v] = writer[v]
      BY <1>0, <2>1, <2>2, BegunRestarts DEF Restarts
    <2>4. \A e \in ToSet(todo) : e.kind \in {"add", "update"} => e.block.name = fresh + 1
      BY <1>0, <2>1, BeginGives
    <2>5. ASSUME NEW v \in Writers \ {w}, NEW e \in ToSet(writer'[v].todo) PROVE e.block.name # fresh + 1
      <3>1. writer[v].todo \in Seq(Edits) /\ TodoNamed(writer[v].todo, fresh)
        BY <1>0 DEF ConfigTypes, WriterStates, NamesInv
      <3>2. e \in ToSet(writer[v].todo) /\ ToSet(writer[v].todo) \subseteq Edits
        <4>1. writer[v].todo # <<>>
          BY <2>3, <2>5 DEF ToSet
        <4> QED BY <2>3, <3>1, <4>1, SetOfRest
      <3>3. e.block.name <= fresh
        BY <1>0, <3>1, <3>2, TodoNames
      <3>4. e.block.name \in Nat
        BY <3>2 DEF Edits, Blks
      <3> QED BY <1>0, <3>3, <3>4
    <2>6. CASE w = "window"
      <3> SUFFICES ASSUME NEW e \in ToSet(writer'["window"].todo), NEW f \in ToSet(writer'["import"].todo),
                          e.kind \in {"add", "update"}, f.kind = "add"
                   PROVE  e.block.name # f.block.name
        BY DEF ApartInv
      <3>1. e.block.name = fresh + 1
        BY <2>3, <2>4, <2>6
      <3>2. f.block.name # fresh + 1
        BY <1>0, <2>5, <2>6
      <3> QED BY <3>1, <3>2
    <2>7. CASE w = "import"
      <3> SUFFICES ASSUME NEW e \in ToSet(writer'["window"].todo), NEW f \in ToSet(writer'["import"].todo),
                          e.kind \in {"add", "update"}, f.kind = "add"
                   PROVE  e.block.name # f.block.name
        BY DEF ApartInv
      <3>1. f.block.name = fresh + 1
        BY <2>3, <2>4, <2>7
      <3>2. e.block.name # fresh + 1
        BY <1>0, <2>5, <2>7
      <3> QED BY <3>1, <3>2
    <2> QED BY <2>1, <2>6, <2>7 DEF Writers
  <1>3. CASE Killed
    <2>1. writer'["window"].todo = <<>>
      BY <1>3 DEF Killed, Idle, Writers
    <2>2. ToSet(writer'["window"].todo) = {}
      BY <2>1 DEF ToSet
    <2> QED BY <2>2 DEF ApartInv
  <1>4. CASE Reload \/ OthersWrite \/ UNCHANGED configVars
    <2>1. writer' = writer
      BY <1>4 DEF Reload, OthersWrite, configVars
    <2> QED BY <2>1 DEF ApartInv
  <1> QED BY <1>1, <1>2, <1>3, <1>4, NextCases

-----------------------------------------------------------------------------
(* What a step leaves of which files hold a host.                          *)

\* A thread goes on, and no file changes and nothing is checked by it.
Quiet(w) ==
    /\ UNCHANGED <<files, known>>
    /\ ~At(w, "check") /\ writer'[w].step # "check"
    /\ \A v \in Writers \ {w} : writer'[v] = writer[v]

\* Such a step changes nothing of what is known and held.
LEMMA QuietSame ==
    ASSUME NEW w \in Writers, Quiet(w)
    PROVE  /\ Now' = Now /\ Base' = Base /\ (Switching' <=> Switching) /\ (Adopted' <=> Adopted)
           /\ (Removing' <=> Removing)
           /\ \A a, f : Holds(a, f) => Holds(a, f)'
           /\ Ignored => Ignored'
           /\ KnownInv => KnownInv'
           /\ SingleInv => SingleInv'
  <1>1. \A v \in Writers : /\ At(v, "check")' <=> At(v, "check")
                           /\ At(v, "check") => writer'[v] = writer[v]
    BY DEF Quiet, At
  <1>2. \A v \in Writers : /\ Refusable(v)' <=> Refusable(v)
                           /\ At(v, "check") => Current(v)' = Current(v) /\ writer'[v].text = writer[v].text
    BY <1>1 DEF Refusable, Current
  <1>3. files' = files /\ known' = known
    BY DEF Quiet
  <1>4. Now' = Now
    BY <1>3 DEF Now
  <1>5. "window" \in Writers
    BY DEF Writers
  <1>6. Switching' <=> Switching
    BY <1>1, <1>2, <1>5 DEF Switching
  <1>7. Base' = Base
    BY <1>1, <1>2, <1>4, <1>5, <1>6 DEF Base, Switching
  <1>8. Adopted' <=> Adopted
    BY <1>1, <1>2 DEF Adopted
  <1>9. Removing' <=> Removing
    BY <1>1, <1>2, <1>5 DEF Removing
  <1>10. ASSUME NEW a, NEW f, Holds(a, f) PROVE Holds(a, f)'
    <2>1. \A v \in Writers : Refusable(v)' /\ Current(v)'.file = f => a \in Hosts(writer'[v].text)
      BY <1>2, <1>10 DEF Holds, Refusable
    <2> QED BY <1>3, <1>10, <2>1 DEF Holds
  <1>11. ASSUME Ignored PROVE Ignored'
    <2>1. \A v \in Writers : Refusable(v)' /\ Current(v)'.file = "main" => writer'[v].text.ignore
      BY <1>2, <1>11 DEF Ignored, Refusable
    <2> QED BY <1>3, <1>11, <2>1 DEF Ignored
  <1>12. ASSUME NEW a \in Alias, Deleted(a) PROVE Deleted(a)'
    BY <1>1, <1>2, <1>12 DEF Deleted, Pending
  <1>13. ASSUME NEW a \in Alias, Kept(a) PROVE Kept(a)'
    BY <1>4, <1>7, <1>8, <1>10, <1>12, <1>13 DEF Kept
  <1>14. KnownInv => KnownInv'
    BY <1>3, <1>13 DEF KnownInv
  <1>15. SingleInv => SingleInv'
    BY <1>1, <1>3, <1>5, <1>6 DEF SingleInv, Switching
  <1> QED BY <1>4, <1>6, <1>7, <1>8, <1>9, <1>10, <1>11, <1>14, <1>15

\* After a thread has taken up edits again, less can be refused.
LEMMA HoldsRestarts ==
    ASSUME NEW w \in Writers, Restarts(w), NEW a, NEW f, Holds(a, f), a \in Hosts(files'[f])
    PROVE  Holds(a, f)'
  <1>1. \A v \in Writers \ {w} : /\ Refusable(v)' <=> Refusable(v)
                                 /\ Current(v)' = Current(v) /\ writer'[v].text = writer[v].text
    BY DEF Restarts, Refusable, At, Current
  <1>2. ~Refusable(w)'
    BY DEF Restarts, Refusable, At
  <1> QED BY <1>1, <1>2 DEF Holds

\* Loading keeps to the files that ssh reads.
LEMMA LoadedNow ==
    ASSUME NEW h \in Load(files)
    PROVE  h.file \in Now
  BY DEF Load, Now

\* The hosts the window knows are in files that ssh reads.
LEMMA TakesUpTree ==
    ASSUME ConfigTypes, TreeInv, NEW w \in Writers, NEW todo \in Seq(Edits), NEW to, TakesUp(w, todo, files', to),
           w = "window" \/ Now \subseteq Now'
    PROVE  TreeInv'
  <1> SUFFICES ASSUME At("window", "idle")' PROVE \A h \in tree' : h.file \in Now'
    BY DEF TreeInv
  <1>1. /\ writer'[w].step = IF todo = <<>> THEN "idle" ELSE "read"
        /\ \A v \in Writers \ {w} : writer'[v] = writer[v]
    BY TakesUpWriter
  <1>2. CASE w = "window"
    <2>1. todo = <<>>
      BY <1>1, <1>2 DEF At
    <2>2. tree' = Load(files')
      BY <1>2, <2>1 DEF TakesUp
    <2> QED BY <2>2 DEF Load, Now
  <1>3. CASE w # "window"
    <2>1. "window" \in Writers \ {w}
      BY <1>3 DEF Writers
    <2>2. tree' = tree /\ At("window", "idle")
      BY <1>1, <1>3, <2>1 DEF TakesUp, At
    <2> QED BY <1>3, <2>2 DEF TreeInv
  <1> QED BY <1>2, <1>3

\* Replacing a file leaves what other files hold, and what the new one has of
\* what it held.
LEMMA HoldsReplace ==
    ASSUME Ground, ~Lossy, NEW w \in Writers, Replace(w), ~Lossy', NEW a, NEW f, Holds(a, f),
           ~(Current(w).kind \in TakeKinds /\ Current(w).alias = a /\ Current(w).file = f)
    PROVE  Holds(a, f)'
  <1>1. At(w, "replace") /\ ~At(w, "idle") /\ ~At(w, "read") /\ ~At(w, "check")
    BY DEF Replace, At
  <1>2. /\ Current(w).file \in ConfigFile /\ Current(w).kind \in Kinds /\ files[Current(w).file] = writer[w].text
        /\ Makes(Current(w), writer[w].text, writer[w].new)
    BY <1>1, AtEdit, HeldThere
  <1>3. /\ writer'[w].todo = writer[w].todo /\ writer'[w].step = "check"
        /\ writer'[w].text = writer[w].text /\ writer'[w].new = writer[w].new
        /\ \A v \in Writers \ {w} : writer'[v] = writer[v]
    BY NextWriter DEF Replace, Ground, ConfigBasics
  <1>4. files' = [files EXCEPT ![Current(w).file] = writer[w].new] /\ files \in [ConfigFile -> Docs]
    BY NowType DEF Replace
  <1>5. \A v \in Writers \ {w} : /\ Refusable(v)' <=> Refusable(v)
                                 /\ Current(v)' = Current(v) /\ writer'[v].text = writer[v].text
    BY <1>3 DEF Refusable, At, Current
  <1>6. Current(w)' = Current(w)
    BY <1>3 DEF Current
  <1>7. CASE f # Current(w).file
    <2>1. files'[f] = files[f]
      BY <1>4, <1>7 DEF Holds
    <2> QED BY <1>5, <1>6, <1>7, <2>1 DEF Holds
  <1>8. CASE f = Current(w).file
    <2>1. a \in Hosts(writer[w].text)
      BY <1>2, <1>8 DEF Holds
    <2>2. a \in Hosts(writer[w].new)
      <3> DEFINE k == Current(w).kind
      <3>1. HostsMade(Current(w), writer[w].text, writer[w].new)
        BY <1>2 DEF Makes
      <3>2. k \in Kinds /\ k # "drop"
        BY <1>2, <3>1 DEF HostsMade
      <3>3. k \in TakeKinds => a # Current(w).alias
        BY <1>8
      <3> QED BY <2>1, <3>1, <3>2, <3>3 DEF HostsMade, Kinds, HostKinds, MainKinds, NewKinds, TakeKinds
    <2>3. files'[f] = writer[w].new
      BY <1>2, <1>4, <1>8
    <2> QED BY <1>3, <1>5, <1>6, <1>8, <2>1, <2>2, <2>3 DEF Holds
  <1> QED BY <1>7, <1>8

\* A file that is put back has what it held.
LEMMA HoldsRefused ==
    ASSUME Ground, ~Lossy, NEW w \in Writers, Refused(w), NEW a, NEW f, Holds(a, f)
    PROVE  Holds(a, f)'
  <1>1. Refusable(w) /\ Restarts(w)
    BY RefusedIsRefusable, RestartsIn DEF Ground
  <1>2. files' = [files EXCEPT ![Current(w).file] = writer[w].text] /\ files \in [ConfigFile -> Docs]
    BY NowType DEF Refused
  <1>3. ~At(w, "idle")
    BY <1>1 DEF Refusable, At
  <1>4. Current(w).file \in ConfigFile
    BY <1>3, AtEdit
  <1>5. a \in Hosts(files'[f])
    BY <1>1, <1>2, <1>4 DEF Holds
  <1> QED BY <1>1, <1>5, HoldsRestarts

-----------------------------------------------------------------------------
(* What a step leaves of which files ssh reads.                            *)

\* Which files ssh reads once a file was replaced.
LEMMA NowReplace ==
    ASSUME Ground, ~Lossy, NEW w \in Writers, Replace(w)
    PROVE  /\ Current(w).kind = "header" => Now' = Now \cup {Current(w).to}
           /\ Current(w).kind = "include" => Now' = (Now \ {"old"}) \cup {"new"} /\ w = "window"
           /\ Current(w).kind \notin {"header", "include"} => Now' = Now
  <1>1. At(w, "replace") /\ ~At(w, "idle") /\ ~At(w, "read")
    BY DEF Replace, At
  <1>2. /\ Current(w).file \in ConfigFile /\ Current(w).kind \in Kinds /\ files[Current(w).file] = writer[w].text
        /\ Makes(Current(w), writer[w].text, writer[w].new) /\ writer[w].new \in Docs
        /\ EditOK(Current(w)) /\ Shaped(Current(w)) /\ (w = "import" => Current(w).kind \in {"header", "add"})
    BY <1>1, AtEdit, HeldThere
  <1>3. /\ files \in [ConfigFile -> Docs] /\ Now = ToSet(files["main"].include) \cup {"main"}
        /\ files' = [files EXCEPT ![Current(w).file] = writer[w].new] /\ "main" \in ConfigFile
    BY NowType DEF Replace
  <1>4. files' \in [ConfigFile -> Docs]
    BY <1>2, <1>3
  <1>5. Now' = ToSet(files'["main"].include) \cup {"main"}
    BY <1>4, ReadsType DEF Now
  <1>6. CASE Current(w).kind = "header"
    <2>1. Current(w).file = "main"
      BY <1>2, <1>6 DEF Shaped, MainKinds
    <2>2. ToSet(writer[w].new.include) = ToSet(writer[w].text.include) \cup {Current(w).to}
      BY <1>2, <1>6 DEF Makes, HeadMade
    <2> QED BY <1>2, <1>3, <1>5, <1>6, <2>1, <2>2
  <1>7. CASE Current(w).kind = "include"
    <2>1. Current(w).file = "main" /\ Current(w).from = "old" /\ Current(w).to = "new" /\ w = "window"
      BY <1>2, <1>7 DEF Shaped, MainKinds, EditOK, Writers
    <2>2. ToSet(writer[w].new.include) = (ToSet(writer[w].text.include) \ {"old"}) \cup {"new"}
      BY <1>2, <1>7, <2>1 DEF Makes, HeadMade
    <2> QED BY <1>2, <1>3, <1>5, <1>7, <2>1, <2>2
  <1>8. CASE Current(w).kind \notin {"header", "include"}
    <2>1. CASE Current(w).file # "main"
      <3>1. files'["main"] = files["main"]
        BY <1>3, <2>1
      <3> QED BY <1>3, <1>5, <1>8, <3>1
    <2>2. CASE Current(w).file = "main"
      <3>1. Current(w).kind \notin NewKinds
        BY <1>2, <2>2 DEF Shaped, Folders
      <3>2. writer[w].new.include = writer[w].text.include
        BY <1>2, <1>8, <3>1 DEF Makes, HeadMade
      <3>3. files'["main"] = writer[w].new /\ files["main"] = writer[w].text
        BY <1>2, <1>3, <2>2
      <3> QED BY <1>3, <1>5, <1>8, <3>2, <3>3
    <2> QED BY <2>1, <2>2
  <1> QED BY <1>6, <1>7, <1>8

\* Which files ssh reads once a file was put back.
LEMMA NowRefused ==
    ASSUME Ground, ~Lossy, NEW w \in Writers, Refused(w)
    PROVE  /\ Current(w).kind = "include" => Switching /\ Now' = Base /\ w = "window"
           /\ Current(w).kind # "include" => Now' = Now /\ files'["main"].include = files["main"].include
  <1>1. Refusable(w) /\ At(w, "check") /\ ~At(w, "idle") /\ ~At(w, "read") /\ ~Unchecked(Current(w))
    BY RefusedIsRefusable DEF Refusable, At
  <1>2. /\ Current(w).file \in ConfigFile /\ Current(w).kind \in Kinds /\ files[Current(w).file] = writer[w].new
        /\ Makes(Current(w), writer[w].text, writer[w].new) /\ writer[w].text \in Docs
        /\ EditOK(Current(w)) /\ Shaped(Current(w)) /\ (w = "import" => Current(w).kind \in {"header", "add"})
    BY <1>1, AtEdit, HeldThere
  <1>3. /\ files \in [ConfigFile -> Docs] /\ Now = ToSet(files["main"].include) \cup {"main"}
        /\ files' = [files EXCEPT ![Current(w).file] = writer[w].text] /\ "main" \in ConfigFile
    BY NowType DEF Refused
  <1>4. files' \in [ConfigFile -> Docs]
    BY <1>2, <1>3
  <1>5. Now' = ToSet(files'["main"].include) \cup {"main"}
    BY <1>4, ReadsType DEF Now
  <1>6. CASE Current(w).kind = "include"
    <2>1. Current(w).file = "main" /\ w = "window" /\ Current(w).check = "hosts"
      BY <1>1, <1>2, <1>6 DEF Shaped, MainKinds, EditOK, Writers, Unchecked
    <2>2. Switching
      BY <1>1, <1>6, <2>1 DEF Switching
    <2>3. Base = {"main"} \cup ToSet(writer["window"].text.include)
      BY <2>2 DEF Base
    <2>4. files'["main"] = writer["window"].text
      BY <1>3, <2>1
    <2> QED BY <1>5, <1>6, <2>1, <2>2, <2>3, <2>4
  <1>7. CASE Current(w).kind # "include"
    <2>1. Current(w).kind \notin MainKinds
      BY <1>1, <1>7 DEF Unchecked, MainKinds
    <2>2. CASE Current(w).file # "main"
      <3>1. files'["main"] = files["main"]
        BY <1>3, <2>2
      <3> QED BY <1>3, <1>5, <1>7, <3>1
    <2>3. CASE Current(w).file = "main"
      <3>1. Current(w).kind \notin NewKinds
        BY <1>2, <2>3 DEF Shaped, Folders
      <3>2. writer[w].new.include = writer[w].text.include
        BY <1>2, <2>1, <3>1 DEF Makes, HeadMade, MainKinds
      <3>3. files'["main"] = writer[w].text /\ files["main"] = writer[w].new
        BY <1>2, <1>3, <2>3
      <3> QED BY <1>3, <1>5, <1>7, <3>2, <3>3
    <2> QED BY <2>2, <2>3
  <1> QED BY <1>6, <1>7

\* While Include points at the copy that isn't checked yet, the window isn't at
\* anything else, and the folders' first place is known.
LEMMA SwitchingNow ==
    ASSUME Ground, Switching
    PROVE  /\ At("window", "check") /\ ~At("window", "idle") /\ ~At("window", "read") /\ dir = "old"
           /\ Refusable("window") /\ Current("window").file = "main" /\ Current("window").kind = "include"
           /\ Current("window") \in ToSet(writer["window"].todo) /\ writer["window"].todo # <<>>
           /\ "window" \in Writers
           /\ ~Adopted
  <1>1. /\ "window" \in Writers /\ At("window", "check") /\ ~At("window", "idle") /\ ~At("window", "read")
        /\ Current("window").kind = "include" /\ Current("window").check = "hosts"
    BY DEF Switching, At, Writers
  <1>2. /\ Shaped(Current("window")) /\ WindowPlace(Current("window"), dir)
        /\ Current("window") \in ToSet(writer["window"].todo) /\ writer["window"].todo # <<>>
    BY <1>1, AtEdit
  <1>3. Refusable("window")
    BY <1>1 DEF Refusable, Unchecked
  <1>4. ~Adopted
    <2>1. SUFFICES ASSUME NEW w \in Writers, At(w, "check"), Current(w).kind = "include", Current(w).check = "parse"
                   PROVE  FALSE
      BY DEF Adopted
    <2>2. ~At(w, "idle")
      BY <2>1 DEF At
    <2>3. w = "window"
      BY <2>1, <2>2, AtEdit DEF Writers
    <2> QED BY <1>1, <2>1, <2>3
  <1> QED BY <1>1, <1>2, <1>3, <1>4 DEF Shaped, MainKinds, WindowPlace

-----------------------------------------------------------------------------
(* The steps that change no file and check nothing.                        *)

\* What such a step keeps, where what the window has ahead of it was ahead of it.
LEMMA QuietRest ==
    ASSUME Ground, Sure, NEW w \in Writers, Quiet(w), dir' = dir \/ dir' = "new",
           \A e \in ToSet(writer'["window"].todo) : Ahead(e)
    PROVE  KnownInv' /\ SingleInv' /\ NewInv' /\ AheadInv'
  <1>1. KnownInv' /\ SingleInv'
    BY QuietSame DEF Sure
  <1>2. Now' = Now /\ Base' = Base /\ files' = files /\ (Removing' <=> Removing)
    BY QuietSame DEF Quiet
  <1>3. NewInv'
    BY <1>2 DEF Sure, NewInv
  <1>4. ASSUME NEW e \in ToSet(writer'["window"].todo) PROVE Ahead(e)'
    <2>1. Ahead(e)
      OBVIOUS
    <2>2. NewOK(e)' /\ DeleteOK(e)'
      BY <1>2, <2>1 DEF Ahead, NewOK, DeleteOK
    <2>3. RemoveOK(e)'
      BY <1>2, <2>1 DEF Ahead, RemoveOK
    <2>4. AdoptOK(e)' /\ FoldersOK(e)'
      BY <1>2, <2>1 DEF Ahead, AdoptOK, FoldersOK
    <2> QED BY <2>2, <2>3, <2>4 DEF Ahead
  <1>5. AheadInv'
    BY <1>4 DEF AheadInv
  <1> QED BY <1>1, <1>3, <1>5

\* The window's step leaves what the import needs.
LEMMA QuietImport ==
    ASSUME Ground, ImportInv, Quiet("window"), dir' = dir \/ dir' = "new"
    PROVE  ImportInv'
  <1>1. "window" \in Writers /\ "import" \in Writers \ {"window"}
    BY DEF Writers
  <1>2. Base' = Base /\ (Adopted' <=> Adopted) /\ (Ignored => Ignored')
    BY <1>1, QuietSame
  <1>3. writer'["import"] = writer["import"]
    BY <1>1 DEF Quiet
  <1>4. dir' = "old" => dir = "old"
    OBVIOUS
  <1> QED BY <1>2, <1>3, <1>4 DEF ImportInv, At, Current

\* The import's step leaves what the window needs.
LEMMA QuietNow ==
    ASSUME Ground, NowInv, Quiet("import")
    PROVE  NowInv'
  <1>1. "import" \in Writers /\ "window" \in Writers \ {"import"}
    BY DEF Writers
  <1>2. /\ Now' = Now /\ files' = files /\ \A a, f : Holds(a, f) => Holds(a, f)'
        /\ writer'["window"] = writer["window"]
    BY <1>1, QuietSame DEF Quiet
  <1>3. ~Refusable("import")'
    BY DEF Quiet, Refusable, At
  <1>4. \A s : At("window", s)' <=> At("window", s)
    BY <1>2 DEF At
  <1>5. Current("window")' = Current("window")
    BY <1>2 DEF Current
  <1> SUFFICES ASSUME ~At("window", "idle") PROVE NowInv'
    BY <1>4 DEF NowInv
  <1>6. CopyNow(Current("window"))'
    BY <1>2, <1>5 DEF NowInv, CopyNow
  <1>7. RemoveNow(Current("window"))'
    BY <1>2, <1>3, <1>4, <1>5 DEF NowInv, RemoveNow
  <1>8. WithdrawNow(Current("window"))'
    BY <1>2, <1>4, <1>5 DEF NowInv, WithdrawNow
  <1>9. CloneNow(Current("window"))'
    BY <1>2, <1>4, <1>5 DEF NowInv, CloneNow
  <1>10. IncludeNow(Current("window"))'
    BY <1>2, <1>4, <1>5 DEF NowInv, IncludeNow
  <1> QED BY <1>6, <1>7, <1>8, <1>9, <1>10 DEF NowInv

\* The window at another edit: what it needs of it.
LEMMA NowOf ==
    ASSUME NEW e, Current("window")' = e,
           CopyNow(e)', RemoveNow(e)', WithdrawNow(e)', CloneNow(e)', IncludeNow(e)'
    PROVE  NowInv'
  BY DEF NowInv, CopyNow, RemoveNow, WithdrawNow, CloneNow, IncludeNow

\* The edit a thread is at next.
LEMMA CurrentNext ==
    ASSUME NEW w, NEW r \in Edits, NEW c \in Edits, writer'[w].todo = <<r>> \/ writer'[w].todo = <<r, c>>
    PROVE  Current(w)' = r
  <1>1. Head(<<r>>) = r /\ Head(<<r, c>>) = r
    BY TodoTypes
  <1>2. Head(writer'[w].todo) = r
    BY <1>1
  <1> QED BY <1>2 DEF Current

\* An edit that adds a block changes the file.
LEMMA PutChanges ==
    ASSUME NEW e \in Edits, e.kind \in {"add", "copy"}, NEW d \in Docs
    PROVE  Change(e, d) # d
  <1>1. e.alias \in Alias /\ e.block \in Blks
    BY DEF Edits, Shaped, HostKinds
  <1>2. SameBlocks(Change(e, d).hosts[e.alias], Append(d.hosts[e.alias], e.block))
    BY <1>1, AddChange
  <1>3. d.hosts[e.alias] \in Seq(Blks)
    BY <1>1, DocParts
  <1>4. Len(Append(d.hosts[e.alias], e.block)) = Len(d.hosts[e.alias]) + 1 /\ Len(d.hosts[e.alias]) \in Nat
    BY <1>1, <1>3
  <1>5. Len(Change(e, d).hosts[e.alias]) = Len(d.hosts[e.alias]) + 1
    <2> DEFINE q == Append(d.hosts[e.alias], e.block)
    <2>1. SameBlocks(Change(e, d).hosts[e.alias], q) /\ Len(q) = Len(d.hosts[e.alias]) + 1
      BY <1>2, <1>4
    <2> HIDE DEF q
    <2> QED BY <2>1 DEF SameBlocks
  <1> QED BY <1>4, <1>5

\* The lines at the top are there where there is nothing to do about them.
LEMMA HeaderThere ==
    ASSUME Ground, NEW w \in Writers, NothingToDo(w), Current(w).kind = "header"
    PROVE  files["main"].ignore /\ Current(w).to \in Now
  <1>1. ~At(w, "idle")
    BY DEF NothingToDo, At
  <1>2. Current(w) \in Edits /\ EditOK(Current(w)) /\ Shaped(Current(w))
    BY <1>1, AtEdit
  <1>3. Current(w).file = "main"
    BY <1>2 DEF Shaped, MainKinds
  <1>4. files["main"] \in Docs /\ Change(Current(w), files["main"]) = files["main"]
    BY <1>3, NowType DEF NothingToDo
  <1>5. Makes(Current(w), files["main"], Change(Current(w), files["main"]))
    BY <1>2, <1>4, ChangeMakes DEF NewKinds, TakeKinds
  <1>6. HeadMade(Current(w), files["main"], files["main"])
    BY <1>4, <1>5 DEF Makes
  <1>7. files["main"].ignore /\ Current(w).to \in ToSet(files["main"].include)
    BY <1>6 DEF HeadMade, MainKinds
  <1> QED BY <1>7, NowType

\* While the copy isn't checked, the folder's first place isn't read.
LEMMA OldNotRead ==
    ASSUME Ground, ~Lossy, Switching
    PROVE  "old" \notin Now
  <1>1. /\ At("window", "check") /\ ~At("window", "idle") /\ ~At("window", "read") /\ "window" \in Writers
        /\ Current("window").file = "main" /\ Current("window").kind = "include"
    BY SwitchingNow
  <1>2. /\ Makes(Current("window"), writer["window"].text, writer["window"].new)
        /\ EditOK(Current("window")) /\ files["main"] = writer["window"].new
    BY <1>1, AtEdit, HeldThere
  <1>3. ToSet(files["main"].include) = (ToSet(writer["window"].text.include) \ {"old"}) \cup {"new"}
    BY <1>1, <1>2 DEF Makes, HeadMade, EditOK
  <1> QED BY <1>3, NowType

\* An import goes on once the lines at the top are there.
LEMMA ImportGoesOn ==
    ASSUME Ground, ~Lossy, ~At("import", "idle"), Current("import").kind = "header",
           files["main"].ignore, Current("import").to \in Now
    PROVE  Ignored /\ ~Switching
  <1>1. "import" \in Writers /\ ImportPlace(Current("import"), dir) /\ Current("import").to \in Folders
    BY AtEdit DEF Writers
  <1>2. ~Switching
    <2>1. ASSUME Switching PROVE FALSE
      <3>1. dir = "old" /\ "old" \notin Now
        BY <2>1, SwitchingNow, OldNotRead
      <3> QED BY <1>1, <3>1 DEF ImportPlace, Folders
    <2> QED BY <2>1
  <1> QED BY <1>2, IgnoredNow

\* Where there is nothing to do.
LEMMA NothingSure ==
    ASSUME Ground, ~Lossy, Sure, NEW w \in Writers, NothingToDo(w)
    PROVE  Sure'
  <1>0. ConfigBasics /\ ConfigTypes /\ TreeInv
    BY DEF Ground, ConfigBasics, Sure
  <1>1. At(w, "read") /\ ~At(w, "idle") /\ ~At(w, "check")
    BY DEF NothingToDo, At
  <1>2. /\ Current(w) \in Edits /\ EditOK(Current(w)) /\ Current(w).file \in ConfigFile
        /\ writer[w].todo # <<>> /\ writer[w].todo \in Seq(Edits) /\ Current(w) = Head(writer[w].todo)
        /\ files[Current(w).file] \in Docs
        /\ w = "import" => /\ Current(w).kind \in {"header", "add"} /\ ImportTodo(writer[w].todo)
        /\ w = "window" => WindowTodo(writer[w].todo)
    BY <1>1, AtEdit
  <1> DEFINE t == Tail(writer[w].todo)
  <1>3. t \in Seq(Edits) /\ ToSet(t) \subseteq ToSet(writer[w].todo)
    BY <1>2, SetOfRest
  <1>4. TakesUp(w, t, files, NextDir(w)) /\ files' = files /\ known' = known
    BY DEF NothingToDo
  <1>5. /\ writer'[w].todo = t /\ writer'[w].step = IF t = <<>> THEN "idle" ELSE "read"
        /\ \A v \in Writers \ {w} : writer'[v] = writer[v]
        /\ dir' = NextDir(w)
    BY <1>0, <1>3, <1>4, TakesUpWriter
  <1>6. Quiet(w)
    BY <1>1, <1>4, <1>5 DEF Quiet
  <1>7. dir' = dir \/ dir' = "new"
    BY <1>2, <1>5 DEF NextDir, EditOK
  <1>8. Now' = Now /\ Base' = Base /\ (Ignored => Ignored')
    BY <1>6, QuietSame
  <1>9. TreeInv'
    BY <1>0, <1>3, <1>4, <1>8, TakesUpTree
  <1>10. \A e \in ToSet(writer'["window"].todo) : Ahead(e)
    BY <1>3, <1>5 DEF Sure, AheadInv, Writers
  <1>11. CASE w = "window"
    <2>1. ImportInv'
      BY <1>6, <1>7, <1>11, QuietImport DEF Sure
    <2>2. NowInv'
      <3>1. CASE t = <<>>
        BY <1>5, <1>11, <3>1 DEF NowInv, At
      <3>2. CASE \E r \in Edits : t = <<r>> /\ WindowPair(Current(w), r)
        <4>1. PICK r \in Edits : t = <<r>> /\ WindowPair(Current(w), r)
          BY <3>2
        <4>2. Current("window")' = r
          BY <1>5, <1>11, <4>1, CurrentNext
        <4>3. Current(w).kind \notin {"copy", "clone"}
          BY <1>2, PutChanges DEF NothingToDo, Anew
        <4>4. r.kind \in {"add", "update", "label", "header"}
          BY <4>1, <4>3 DEF WindowPair, MovePair
        <4>5. CopyNow(r)' /\ RemoveNow(r)' /\ WithdrawNow(r)' /\ CloneNow(r)' /\ IncludeNow(r)'
          BY <4>4 DEF CopyNow, RemoveNow, WithdrawNow, CloneNow, IncludeNow
        <4> QED BY <4>2, <4>5, NowOf
      <3>3. CASE \E c, r \in Edits : /\ t = <<c, r>> /\ Current(w).kind = "header"
                                     /\ Current(w).to = c.file /\ MovePair(c, r)
        <4>1. PICK c \in Edits, r \in Edits : /\ t = <<c, r>> /\ Current(w).kind = "header"
                                              /\ Current(w).to = c.file /\ MovePair(c, r)
          BY <3>3
        <4>2. Current("window")' = c
          BY <1>5, <1>11, <4>1, CurrentNext
        <4>3. c.file \in Now'
          BY <1>8, <4>1, HeaderThere
        <4>4. c.kind = "copy"
          BY <4>1 DEF MovePair
        <4>5. CopyNow(c)' /\ RemoveNow(c)' /\ WithdrawNow(c)' /\ CloneNow(c)' /\ IncludeNow(c)'
          BY <4>3, <4>4 DEF CopyNow, RemoveNow, WithdrawNow, CloneNow, IncludeNow
        <4> QED BY <4>2, <4>5, NowOf
      <3> QED BY <1>2, <1>11, <3>1, <3>2, <3>3, WindowTodoParts
    <2> QED BY <1>6, <1>7, <1>9, <1>10, <2>1, <2>2, QuietRest DEF Sure
  <1>12. CASE w = "import"
    <2>1. NowInv'
      BY <1>6, <1>12, QuietNow DEF Sure
    <2>2. ImportInv'
      <3>1. CASE t = <<>>
        BY <1>5, <1>12, <3>1 DEF ImportInv, At
      <3>2. CASE \E y \in Edits : Current(w).kind = "header" /\ t = <<y>> /\ y.kind = "add" /\ Current(w).to = y.file
        <4>1. PICK y \in Edits : Current(w).kind = "header" /\ t = <<y>> /\ y.kind = "add" /\ Current(w).to = y.file
          BY <3>2
        <4>2. Current("import")' = y
          BY <1>5, <1>12, <4>1, CurrentNext
        <4>3. files["main"].ignore /\ y.file \in Now
          BY <4>1, HeaderThere
        <4>4. Ignored /\ ~Switching
          BY <1>1, <1>12, <4>1, <4>3, ImportGoesOn
        <4>5. Ignored' /\ y.file \in Base'
          BY <1>8, <4>3, <4>4 DEF Base
        <4> QED BY <4>2, <4>5 DEF ImportInv
      <3> QED BY <1>2, <1>12, <3>1, <3>2, ImportTodoParts
    <2> QED BY <1>6, <1>7, <1>9, <1>10, <2>1, <2>2, QuietRest DEF Sure
  <1> QED BY <1>11, <1>12 DEF Writers

\* Where there is nothing to delete.
LEMMA NothingDeletedSure ==
    ASSUME Ground, ~Lossy, Sure, NEW w \in Writers, NothingToDelete(w)
    PROVE  Sure'
  <1>0. ConfigBasics /\ ConfigTypes /\ TreeInv
    BY DEF Ground, ConfigBasics, Sure
  <1>1. At(w, "read") /\ ~At(w, "idle") /\ ~At(w, "check") /\ Current(w).kind = "delete"
    BY DEF NothingToDelete, At
  <1>2. EditOK(Current(w)) /\ (w = "import" => Current(w).kind \in {"header", "add"})
    BY <1>1, AtEdit
  <1>3. w = "window" /\ Current(w).undo = <<>>
    BY <1>1, <1>2 DEF Writers, EditOK
  <1> DEFINE t == Current(w).undo
  <1>4. TakesUp(w, t, files, dir) /\ files' = files /\ known' = known
    BY <1>3 DEF NothingToDelete
  <1>b. writer[w].todo # <<>>
    BY <1>1, AtEdit
  <1>a. t \in Seq(Edits) /\ t = <<>>
    BY <1>0, <1>3, <1>b, CurrentType
  <1> HIDE DEF t
  <1>5. /\ writer'[w].todo = t /\ writer'[w].step = "idle" /\ dir' = dir
        /\ \A v \in Writers \ {w} : writer'[v] = writer[v]
    BY <1>0, <1>4, <1>a, TakesUpWriter
  <1>6. Quiet(w) /\ dir' = dir
    BY <1>1, <1>4, <1>5 DEF Quiet, TakesUp
  <1>7. TreeInv'
    BY <1>0, <1>3, <1>4, <1>a, TakesUpTree
  <1>8. \A e \in ToSet(writer'["window"].todo) : Ahead(e)
    BY <1>3, <1>5, <1>a DEF ToSet
  <1>9. ImportInv'
    BY <1>3, <1>6, QuietImport DEF Sure
  <1>10. NowInv'
    BY <1>3, <1>5 DEF NowInv, At
  <1> QED BY <1>6, <1>7, <1>8, <1>9, <1>10, QuietRest DEF Sure

\* Where another text is there than was read, what was done is undone.
LEMMA OtherTextSure ==
    ASSUME Ground, ~Lossy, Sure, NEW w \in Writers, OtherText(w)
    PROVE  Sure'
  <1>0. ConfigBasics /\ ConfigTypes /\ TreeInv
    BY DEF Ground, ConfigBasics, Sure
  <1>1. At(w, "compare") /\ ~At(w, "idle") /\ ~At(w, "check") /\ ~At(w, "read") /\ ~At(w, "replace")
    BY DEF OtherText, At
  <1>2. /\ Current(w) \in Edits /\ EditOK(Current(w)) /\ Current(w).file \in ConfigFile
        /\ writer[w].todo # <<>> /\ Current(w) \in ToSet(writer[w].todo)
        /\ w = "import" => Current(w).kind \in {"header", "add"}
    BY <1>1, AtEdit
  <1> DEFINE t == Current(w).undo
  <1>3. t \in Seq(Edits)
    BY <1>0, <1>2, CurrentType
  <1>4. TakesUp(w, t, files, dir) /\ files' = files /\ known' = known
    BY DEF OtherText
  <1>5. /\ writer'[w].todo = t /\ writer'[w].step = IF t = <<>> THEN "idle" ELSE "read"
        /\ \A v \in Writers \ {w} : writer'[v] = writer[v]
        /\ dir' = dir
    BY <1>0, <1>3, <1>4, TakesUpWriter
  <1>6. Quiet(w)
    BY <1>1, <1>4, <1>5 DEF Quiet
  <1>8. Now' = Now /\ Base' = Base /\ (Ignored => Ignored') /\ \A a, f : Holds(a, f) => Holds(a, f)'
    BY <1>6, QuietSame
  <1>9. TreeInv'
    BY <1>0, <1>3, <1>4, <1>8, TakesUpTree
  <1>a. t = <<>> \/ \E x \in Edits : t = <<x>>
    BY <1>0, <1>2, CurrentType, LastEditsAreEdits
  <1>b. \A x \in Edits : t = <<x>> => x \in ToSet(t)
    BY TodoSets
  <1>10. \A e \in ToSet(writer'["window"].todo) : Ahead(e)
    <2>1. CASE w # "window"
      BY <1>5, <2>1 DEF Sure, AheadInv, Writers
    <2>2. CASE w = "window"
      <3> SUFFICES ASSUME NEW x \in ToSet(t) PROVE Ahead(x)
        BY <1>5, <2>2
      <3>1. /\ x.kind \in {"add", "withdraw", "drop"}
            /\ x.kind = "add" => Current(w).kind = "add" /\ x.file = Current(w).file
            /\ x.kind = "drop" => Current(w).kind = "include" /\ Current(w).check = "hosts"
        BY <1>2, UndoMembers
      <3>2. Ahead(Current(w))
        BY <1>2, <2>2 DEF Sure, AheadInv
      <3> QED BY <3>1, <3>2 DEF Ahead, NewOK, DeleteOK, RemoveOK, AdoptOK, FoldersOK
    <2> QED BY <2>1, <2>2
  <1>11. CASE w = "window"
    <2>1. ImportInv'
      BY <1>5, <1>6, <1>11, QuietImport DEF Sure
    <2>2. NowInv'
      <3>1. CASE t = <<>>
        BY <1>5, <1>11, <3>1 DEF NowInv, At
      <3>2. CASE \E x \in Edits : t = <<x>>
        <4>1. PICK x \in Edits : t = <<x>>
          BY <3>2
        <4>2. Current("window")' = x
          BY <1>5, <1>11, <4>1, CurrentNext
        <4>3. /\ x.kind \in {"add", "withdraw", "drop"}
              /\ x.kind = "withdraw" => /\ Current(w).kind = "remove" /\ x = Current(w).undo[1]
                                        /\ x.alias = Current(w).alias /\ x.file # Current(w).file
          BY <1>2, <1>b, <4>1, UndoMembers
        <4>0. PICK e \in Edits : e = Current(w)
          BY <1>2
        <4>4. ASSUME x.kind = "withdraw"
              PROVE  /\ x.file \in Now' /\ x.alias \in Hosts(files'[x.file])
                     /\ \E g \in Now' \ {x.file} : Holds(x.alias, g)'
          <5>1. RemoveNow(e) /\ RemoveOK(e) /\ e.kind = "remove"
            BY <1>1, <1>2, <1>11, <4>0, <4>3, <4>4 DEF Sure, NowInv, AheadInv, Ahead
          <5>2. x.file \in Now /\ x.alias \in Hosts(files[x.file])
            BY <4>0, <4>3, <4>4, <5>1 DEF RemoveNow
          <5>3. e.file \in Now /\ e.alias \in Hosts(files[e.file])
            BY <1>1, <1>11, <5>1 DEF RemoveOK, Removing
          <5>4. Holds(e.alias, e.file)
            <6>1. SUFFICES ASSUME NEW v \in Writers, Refusable(v), Current(v).file = e.file
                           PROVE  e.alias \in Hosts(writer[v].text)
              BY <5>3 DEF Holds
            <6>2. v = "import"
              BY <1>1, <1>11, <6>1 DEF Refusable, Writers
            <6>3. files[e.file] # writer["window"].text
              BY <1>11, <4>0 DEF OtherText
            <6> QED BY <1>1, <1>11, <5>1, <6>1, <6>2, <6>3 DEF RemoveNow
          <5>5. Holds(e.alias, e.file)'
            BY <1>8, <5>4
          <5> QED BY <1>4, <1>8, <4>0, <4>3, <4>4, <5>2, <5>3, <5>5
        <4>5. CopyNow(x)' /\ RemoveNow(x)' /\ CloneNow(x)' /\ IncludeNow(x)'
          BY <4>3 DEF CopyNow, RemoveNow, CloneNow, IncludeNow
        <4>6. WithdrawNow(x)'
          BY <4>4 DEF WithdrawNow
        <4> QED BY <4>2, <4>5, <4>6, NowOf
      <3> QED BY <1>a, <3>1, <3>2
    <2> QED BY <1>5, <1>6, <1>9, <1>10, <2>1, <2>2, QuietRest DEF Sure
  <1>12. CASE w = "import"
    <2>1. NowInv'
      BY <1>6, <1>12, QuietNow DEF Sure
    <2>2. ImportInv'
      <3>1. CASE t = <<>>
        BY <1>5, <1>12, <3>1 DEF ImportInv, At
      <3>2. CASE \E x \in Edits : t = <<x>>
        <4>1. PICK x \in Edits : t = <<x>>
          BY <3>2
        <4>2. Current("import")' = x
          BY <1>5, <1>12, <4>1, CurrentNext
        <4>3. Current(w).kind = "add" /\ x.kind = "add" /\ x.file = Current(w).file
          BY <1>2, <1>12, <1>b, <4>1, UndoMembers
        <4>4. Ignored /\ (dir = "old" /\ ~Adopted => x.file \in Base)
          BY <1>1, <1>12, <4>3 DEF Sure, ImportInv
        <4>5. Adopted' <=> Adopted
          BY <1>6, QuietSame
        <4> QED BY <1>5, <1>8, <4>2, <4>4, <4>5 DEF ImportInv
      <3> QED BY <1>a, <3>1, <3>2
    <2> QED BY <1>5, <1>6, <1>9, <1>10, <2>1, <2>2, QuietRest DEF Sure
  <1> QED BY <1>11, <1>12 DEF Writers

\* A thread that goes on with its edit without writing a file.
GoingOn(w) ==
    /\ UNCHANGED <<files, known, tree, dir>>
    /\ ~At(w, "idle") /\ ~At(w, "check") /\ writer'[w].step \in {"compare", "replace"}
    /\ writer'[w].todo = writer[w].todo
    /\ \A v \in Writers \ {w} : writer'[v] = writer[v]

\* All but what the window needs of its edit.
LEMMA GoingOnRest ==
    ASSUME Ground, ~Lossy, Sure, NEW w \in Writers, GoingOn(w)
    PROVE  KnownInv' /\ SingleInv' /\ TreeInv' /\ NewInv' /\ ImportInv' /\ AheadInv' /\ (w = "import" => NowInv')
  <1>1. Quiet(w) /\ dir' = dir
    BY DEF GoingOn, Quiet
  <1>2. /\ Now' = Now /\ Base' = Base /\ (Ignored => Ignored') /\ (Adopted' <=> Adopted)
    BY <1>1, QuietSame
  <1>3. \A v \in Writers : /\ writer'[v].todo = writer[v].todo /\ Current(v)' = Current(v)
                           /\ At(v, "idle")' <=> At(v, "idle")
    BY DEF GoingOn, At, Current
  <1>4. TreeInv'
    BY <1>2, <1>3 DEF Sure, TreeInv, GoingOn, Writers
  <1>5. ImportInv'
    BY <1>1, <1>2, <1>3 DEF Sure, ImportInv, Writers
  <1>6. \A e \in ToSet(writer'["window"].todo) : Ahead(e)
    BY <1>3 DEF Sure, AheadInv, Writers
  <1>7. w = "import" => NowInv'
    BY <1>1, QuietNow DEF Sure
  <1> QED BY <1>1, <1>4, <1>5, <1>6, <1>7, QuietRest

\* A file that was read.
LEMMA ReadOnSure ==
    ASSUME Ground, ~Lossy, Sure, NEW w \in Writers, ReadOn(w)
    PROVE  Sure'
  <1>0. ConfigBasics /\ ConfigTypes
    BY DEF Ground, ConfigBasics
  <1>1. At(w, "read") /\ ~At(w, "idle") /\ ~At(w, "check")
    BY DEF ReadOn, At
  <1>2. /\ Current(w) \in Edits /\ EditOK(Current(w)) /\ Current(w).file \in ConfigFile
        /\ files[Current(w).file] \in Docs
    BY <1>1, AtEdit
  <1>3. /\ writer'[w].todo = writer[w].todo /\ writer'[w].step = "compare"
        /\ writer'[w].text = (IF Anew(Current(w)) THEN NoDoc ELSE files[Current(w).file])
        /\ writer'[w].new = [Change(Current(w), files[Current(w).file]) EXCEPT !.there = TRUE]
        /\ \A v \in Writers \ {w} : writer'[v] = writer[v]
    BY <1>0, ReadOnWriter
  <1>4. GoingOn(w)
    BY <1>1, <1>3 DEF GoingOn, ReadOn
  <1>5. KnownInv' /\ SingleInv' /\ TreeInv' /\ NewInv' /\ ImportInv' /\ AheadInv' /\ (w = "import" => NowInv')
    BY <1>4, GoingOnRest
  <1>6. CASE w = "window"
    <2>0. PICK e \in Edits : e = Current(w)
      BY <1>2
    <2>1. Current("window")' = e
      BY <1>3, <1>6, <2>0 DEF Current
    <2>2. Quiet(w)
      BY <1>4 DEF GoingOn, Quiet
    <2>3. Now' = Now /\ files' = files /\ \A a, f : Holds(a, f) => Holds(a, f)'
      BY <2>2, QuietSame DEF Quiet
    <2>4. CopyNow(e) /\ RemoveNow(e) /\ WithdrawNow(e) /\ IncludeNow(e)
      BY <1>1, <1>6, <2>0 DEF Sure, NowInv
    <2>5. ~At("window", "check")
      BY <1>1, <1>6
    <2>a. CopyNow(e)'
      BY <2>3, <2>4 DEF CopyNow
    <2>b. RemoveNow(e)'
      <3>1. ASSUME e.kind = "remove" PROVE writer'["window"].text = files[e.file]
        BY <1>3, <1>6, <2>0, <3>1 DEF Anew
      <3> QED BY <2>3, <2>4, <2>5, <3>1 DEF RemoveNow
    <2>c. WithdrawNow(e)'
      BY <2>3, <2>4, <2>5 DEF WithdrawNow
    <2>d. CloneNow(e)'
      <3>1. ASSUME e.kind = "clone" PROVE Hosts(writer'["window"].new) = Hosts(files["old"])
        <4>1. e.from = "old"
          BY <1>2, <2>0, <3>1 DEF EditOK
        <4>2. Change(e, files[e.file]) = files["old"]
          BY <3>1, <4>1 DEF Change
        <4>3. files["old"] \in Docs
          BY NowType
        <4>4. [files["old"] EXCEPT !.there = TRUE].hosts = files["old"].hosts
          BY <4>3 DEF Docs
        <4>5. writer'["window"].new = [files["old"] EXCEPT !.there = TRUE]
          BY <1>3, <1>6, <2>0, <4>2
        <4> QED BY <4>4, <4>5 DEF Hosts
      <3> QED BY <2>3, <3>1 DEF CloneNow
    <2>e. IncludeNow(e)'
      BY <2>3, <2>4, <2>5 DEF IncludeNow
    <2>6. NowInv'
      BY <2>1, <2>a, <2>b, <2>c, <2>d, <2>e, NowOf
    <2> QED BY <1>5, <2>6 DEF Sure
  <1>7. CASE w = "import"
    BY <1>5, <1>7 DEF Sure
  <1> QED BY <1>6, <1>7 DEF Writers

\* A file that was compared.
LEMMA SameTextSure ==
    ASSUME Ground, ~Lossy, Sure, NEW w \in Writers, SameText(w)
    PROVE  Sure'
  <1>0. ConfigBasics /\ ConfigTypes
    BY DEF Ground, ConfigBasics
  <1>1. At(w, "compare") /\ ~At(w, "idle") /\ ~At(w, "check") /\ ~At(w, "read")
    BY DEF SameText, At
  <1>2. Current(w) \in Edits
    BY <1>1, AtEdit
  <1>3. /\ writer'[w].todo = writer[w].todo /\ writer'[w].step = "replace"
        /\ writer'[w].text = writer[w].text /\ writer'[w].new = writer[w].new
        /\ \A v \in Writers \ {w} : writer'[v] = writer[v]
    BY <1>0, NextWriter DEF SameText
  <1>4. GoingOn(w)
    BY <1>1, <1>3 DEF GoingOn, SameText
  <1>5. KnownInv' /\ SingleInv' /\ TreeInv' /\ NewInv' /\ ImportInv' /\ AheadInv' /\ (w = "import" => NowInv')
    BY <1>4, GoingOnRest
  <1>6. CASE w = "window"
    <2>0. PICK e \in Edits : e = Current(w)
      BY <1>2
    <2>1. Current("window")' = e
      BY <1>3, <1>6, <2>0 DEF Current
    <2>2. Quiet(w)
      BY <1>4 DEF GoingOn, Quiet
    <2>3. Now' = Now /\ files' = files /\ \A a, f : Holds(a, f) => Holds(a, f)'
      BY <2>2, QuietSame DEF Quiet
    <2>4. CopyNow(e) /\ RemoveNow(e) /\ WithdrawNow(e) /\ CloneNow(e) /\ IncludeNow(e)
      BY <1>1, <1>6, <2>0 DEF Sure, NowInv
    <2>5. ~At("window", "check") /\ ~At("window", "read")
      BY <1>1, <1>6
    <2>a. CopyNow(e)'
      BY <2>3, <2>4 DEF CopyNow
    <2>b. RemoveNow(e)'
      <3>1. files[e.file] = writer'["window"].text
        BY <1>3, <1>6, <2>0 DEF SameText
      <3> QED BY <2>3, <2>4, <2>5, <3>1 DEF RemoveNow
    <2>c. WithdrawNow(e)'
      BY <2>3, <2>4, <2>5 DEF WithdrawNow
    <2>d. CloneNow(e)'
      BY <1>3, <1>6, <2>3, <2>4, <2>5 DEF CloneNow
    <2>e. IncludeNow(e)'
      BY <2>3, <2>4, <2>5 DEF IncludeNow
    <2>6. NowInv'
      BY <2>1, <2>a, <2>b, <2>c, <2>d, <2>e, NowOf
    <2> QED BY <1>5, <2>6 DEF Sure
  <1>7. CASE w = "import"
    BY <1>5, <1>7 DEF Sure
  <1> QED BY <1>6, <1>7 DEF Writers

-----------------------------------------------------------------------------
(* Operations and imports begin.                                           *)

\* Edits that need nothing of the files.
LEMMA AheadOfMost ==
    ASSUME NEW e, e.kind \in {"header", "ignore", "update", "id", "copy", "withdraw"}
    PROVE  Ahead(e)
  BY DEF Ahead, NewOK, DeleteOK, RemoveOK, AdoptOK, FoldersOK

\* Edits of the folder's own file.
LEMMA AheadOfNew ==
    ASSUME NEW e, e.kind \in {"add", "label", "options", "plain", "create"}, e.file = "main" \/ e.file = dir
    PROVE  Ahead(e)
  BY DEF Ahead, NewOK, DeleteOK, RemoveOK, AdoptOK, FoldersOK

\* What the window begins with it can do.
BeginsWell(todo) ==
    /\ \A e \in ToSet(todo) : Ahead(e)
    /\ Head(todo).kind \notin {"remove", "withdraw"}
    /\ Head(todo).kind = "copy" => Head(todo).file \in Now
    /\ Head(todo).kind = "include" => Head(todo).check = "parse"

\* One edit, two and three.
LEMMA BeginsWellEach ==
    ASSUME NEW x \in Edits, NEW y \in Edits, NEW z \in Edits, Ahead(x), Ahead(y), Ahead(z),
           x.kind \notin {"remove", "withdraw"}, x.kind = "copy" => x.file \in Now,
           x.kind = "include" => x.check = "parse"
    PROVE  BeginsWell(<<x>>) /\ BeginsWell(<<x, y>>) /\ BeginsWell(<<x, y, z>>)
  <1>1. Head(<<x>>) = x /\ Head(<<x, y>>) = x /\ Head(<<x, y, z>>) = x
    BY TodoTypes
  <1>2. ToSet(<<x>>) = {x} /\ ToSet(<<x, y>>) = {x, y} /\ ToSet(<<x, y, z>>) = {x, y, z}
    BY TodoSets
  <1>3. BeginsWell(<<x>>)
    BY <1>1, <1>2 DEF BeginsWell
  <1>4. BeginsWell(<<x, y>>)
    BY <1>1, <1>2 DEF BeginsWell
  <1>5. BeginsWell(<<x, y, z>>)
    BY <1>1, <1>2 DEF BeginsWell
  <1> QED BY <1>3, <1>4, <1>5

\* What the window begins with it can do.
LEMMA BeginsAhead ==
    ASSUME Ground, Sure, At("window", "idle"), NEW todo, WindowBegins(todo)
    PROVE  BeginsWell(todo)
  <1>0. ConfigTypes
    BY DEF Ground, ConfigBasics
  <1>1. Header \in Edits /\ Ignore \in Edits /\ Header.kind = "header" /\ Ignore.kind = "ignore"
    BY <1>0, HeaderTypes, LastEditsAreEdits
  <1>2. NewBlock \in Blks /\ NoBlock \in Blks /\ dir \in Folders /\ dir \in ConfigFile /\ "main" \in ConfigFile
    BY <1>0, BlockTypes DEF ConfigTypes, ConfigFile
  <1>3. Ahead(Header) /\ Ahead(Ignore)
    BY <1>1, AheadOfMost
  <1>4. ASSUME NEW k \in {"add", "update", "delete", "id"}, NEW f \in ConfigFile, NEW a \in Alias,
               NEW b \in Blks, NEW c \in {"name", "parse"}
        PROVE  /\ Edit(k, f, a, b, c) \in Edits
               /\ Edit(k, f, a, b, c).kind = k /\ Edit(k, f, a, b, c).file = f
    <2>1. /\ k \in Kinds /\ k \notin MainKinds /\ k \notin NewKinds
          /\ c \in {"nothing", "parse", "name", "hosts"} /\ a \in Alias \cup {NoAlias}
      BY DEF Kinds, HostKinds, MainKinds, NewKinds
    <2>2. /\ Edit(k, f, a, b, c) \in LastEdits
          /\ Edit(k, f, a, b, c).kind = k /\ Edit(k, f, a, b, c).file = f
      BY <1>2, <2>1, EditType
    <2> QED BY <2>2, LastEditsAreEdits
  <1>5. ASSUME NEW h \in tree PROVE h.alias \in Alias /\ h.file \in ConfigFile /\ h.file \in Now
    BY <1>0 DEF ConfigTypes, Sure, TreeInv
  <1>6. Base = Now
    BY DEF Base, Switching, At
  <1>7. ASSUME NEW a \in Alias, NEW f \in {"main", dir}, todo = CreateHost(a, f) PROVE BeginsWell(todo)
    <2>1. f \in ConfigFile
      BY <1>2
    <2> DEFINE y == Edit("add", f, a, NewBlock, "name")
               x == IF f = "main" THEN Ignore ELSE Header
    <2>2. y \in Edits /\ y.kind = "add" /\ (y.file = "main" \/ y.file = dir)
      BY <1>2, <1>4, <2>1
    <2>3. x \in Edits /\ x.kind \in {"header", "ignore"}
      BY <1>1
    <2>4. todo = <<x, y>>
      BY <1>7 DEF CreateHost
    <2> HIDE DEF x, y
    <2>5. Ahead(x) /\ Ahead(y)
      BY <2>2, <2>3, AheadOfMost, AheadOfNew
    <2> QED BY <2>2, <2>3, <2>4, <2>5, BeginsWellEach
  <1>8. ASSUME NEW h \in tree, todo = UpdateHost(h) PROVE BeginsWell(todo)
    <2> DEFINE y == Edit("update", h.file, h.alias, NewBlock, "name")
               x == Ignore
    <2>1. y \in Edits /\ y.kind = "update"
      BY <1>2, <1>4, <1>5
    <2>2. todo = <<x, y>> /\ x \in Edits /\ x.kind = "ignore" /\ Ahead(x)
      BY <1>1, <1>3, <1>8 DEF UpdateHost
    <2> HIDE DEF x, y
    <2>3. Ahead(y)
      BY <2>1, AheadOfMost
    <2> QED BY <2>1, <2>2, <2>3, BeginsWellEach
  <1>9. ASSUME NEW h \in tree, todo = DeleteHost(h) \/ todo = EnsureId(h) PROVE BeginsWell(todo)
    <2>1. PICK y \in Edits : y.kind \in {"delete", "id"} /\ y.file = h.file /\ todo = <<y>>
      BY <1>2, <1>4, <1>5, <1>9 DEF DeleteHost, EnsureId
    <2>2. h.file \in Now
      BY <1>5
    <2>3. Ahead(y)
      BY <2>1, <2>2 DEF Ahead, NewOK, DeleteOK, RemoveOK, AdoptOK, FoldersOK
    <2> QED BY <2>1, <2>3, BeginsWellEach
  <1>10. ASSUME NEW h \in tree, NEW f \in {"main", dir} \ {h.file}, Has(h), todo = MoveHost(h, f) PROVE BeginsWell(todo)
    <2> DEFINE c == CopyOf(h, f)
               r == Removal(h, f)
               x == Header
    <2>1. /\ c \in Edits /\ c.kind = "copy" /\ c.file = f
          /\ r \in Edits /\ r.kind = "remove" /\ r.file = h.file /\ r.alias = h.alias
          /\ todo = IF f = "main" THEN <<c, r>> ELSE <<x, c, r>>
      BY <1>0, <1>10, MoveTypes, LastEditsAreEdits
    <2>2. x \in Edits /\ x.kind = "header" /\ Ahead(x)
      BY <1>1, <1>3
    <2> HIDE DEF c, r, x
    <2>3. Ahead(c)
      BY <2>1, AheadOfMost
    <2>4. r.file \in Now /\ r.alias \in Hosts(files[r.file])
      BY <1>5, <1>10, <2>1 DEF Has
    <2>5. Ahead(r)
      BY <2>1, <2>4 DEF Ahead, NewOK, DeleteOK, RemoveOK, AdoptOK, FoldersOK
    <2>6. CASE f = "main"
      <3>1. "main" \in Now
        BY NowType
      <3>2. BeginsWell(<<c, r>>)
        BY <2>1, <2>3, <2>5, <2>6, <3>1, BeginsWellEach
      <3> QED BY <2>1, <2>6, <3>2
    <2>7. CASE f # "main"
      <3>1. BeginsWell(<<x, c, r>>)
        BY <2>1, <2>2, <2>3, <2>5, BeginsWellEach
      <3> QED BY <2>1, <2>7, <3>1
    <2> QED BY <2>6, <2>7
  <1>11. ASSUME todo = CreateFolder \/ (\E k \in {"label", "options", "plain"} : todo = SetFolder(k)) PROVE BeginsWell(todo)
    <2>1. \A k \in {"create", "label", "options", "plain"} :
             Plain(k, dir) \in Edits /\ Plain(k, dir).kind = k /\ Plain(k, dir).file = dir
      BY <1>0, <1>2, PlainType, LastEditsAreEdits DEF Kinds, HostKinds, MainKinds, NewKinds
    <2>2. PICK k \in {"create", "label", "options", "plain"} :
             todo \in {<<Plain(k, dir)>>, <<Plain(k, dir), Header>>, <<Ignore, Plain(k, dir)>>}
      BY <1>11 DEF CreateFolder, SetFolder
    <2> DEFINE y == Plain(k, dir)
               x == Header
               z == Ignore
    <2>3. /\ y \in Edits /\ y.kind \in {"create", "label", "options", "plain"} /\ y.file = dir
          /\ x \in Edits /\ z \in Edits
          /\ todo = <<y>> \/ todo = <<y, x>> \/ todo = <<z, y>>
          /\ x.kind = "header" /\ z.kind = "ignore" /\ Ahead(x) /\ Ahead(z)
      BY <1>1, <1>3, <2>1, <2>2
    <2> HIDE DEF x, y, z
    <2>4. Ahead(y)
      BY <2>3, AheadOfNew
    <2>5. BeginsWell(<<y>>)
      BY <2>3, <2>4, BeginsWellEach
    <2>6. BeginsWell(<<y, x>>)
      BY <2>3, <2>4, BeginsWellEach
    <2>7. BeginsWell(<<z, y>>)
      BY <2>3, <2>4, BeginsWellEach
    <2> QED BY <2>3, <2>5, <2>6, <2>7
  <1>12. ASSUME dir = "old", ~files["new"].there, todo = MoveFolders PROVE BeginsWell(todo)
    <2> DEFINE c == MoveFolders[1]
               i == MoveFolders[2]
    <2>1. /\ c \in Edits /\ c.kind = "clone" /\ i \in Edits /\ i.kind = "include" /\ i.check = "hosts"
          /\ todo = <<c, i>>
      <3>1. MoveFolders[1] \in Edits /\ MoveFolders[2] \in Edits
        BY <1>0, FoldersTypes, LastEditsAreEdits
      <3> QED BY <1>0, <1>12, <3>1, FoldersTypes
    <2>2. "new" \notin Base
      BY <1>6, <1>12 DEF Sure, NewInv
    <2> HIDE DEF c, i
    <2>3. Ahead(c) /\ Ahead(i)
      BY <2>1, <2>2 DEF Ahead, NewOK, DeleteOK, RemoveOK, AdoptOK, FoldersOK
    <2>4. BeginsWell(<<c, i>>)
      BY <2>1, <2>3, BeginsWellEach
    <2> QED BY <2>1, <2>4
  <1>13. ASSUME files["new"].there, todo = AdoptFolders PROVE BeginsWell(todo)
    <2> DEFINE x == AdoptFolders[1]
    <2>1. x \in Edits /\ x.kind = "include" /\ x.check = "parse" /\ todo = <<x>>
      <3>1. AdoptFolders[1] \in Edits
        BY <1>0, FoldersTypes, LastEditsAreEdits
      <3> QED BY <1>0, <1>13, <3>1, FoldersTypes
    <2> HIDE DEF x
    <2>2. Ahead(x)
      BY <1>13, <2>1 DEF Ahead, NewOK, DeleteOK, RemoveOK, AdoptOK, FoldersOK
    <2>3. BeginsWell(<<x>>)
      BY <2>1, <2>2, BeginsWellEach
    <2> QED BY <2>1, <2>3
  <1>14. CASE \E a \in Alias \ {h.alias : h \in tree}, f \in {"main", dir} : todo = CreateHost(a, f)
    BY <1>7, <1>14
  <1>15. CASE \E h \in tree : todo = UpdateHost(h)
    BY <1>8, <1>15
  <1>16. CASE \E h \in tree : todo = DeleteHost(h) \/ todo = EnsureId(h)
    BY <1>9, <1>16
  <1>17. CASE \E h \in tree : \E f \in {"main", dir} \ {h.file} : Has(h) /\ todo = MoveHost(h, f)
    BY <1>10, <1>17
  <1> QED BY <1>11, <1>12, <1>13, <1>14, <1>15, <1>16, <1>17 DEF WindowBegins

\* An operation that begins.
LEMMA BegunSure ==
    ASSUME Ground, ~Lossy, Sure, NEW todo,
           \/ WindowBegins(todo) /\ Begun("window", todo)
           \/ ImportBegins(todo) /\ Begun("import", todo)
    PROVE  Sure'
  <1>0. ConfigBasics /\ ConfigTypes /\ "window" \in Writers /\ "import" \in Writers
    BY DEF Ground, ConfigBasics, Writers
  <1>1. todo \in Seq(Edits) /\ todo # <<>>
    BY <1>0, BeginTypes
  <1>2. CASE WindowBegins(todo) /\ Begun("window", todo)
    <2>1. /\ writer'["window"].todo = todo /\ writer'["window"].step = "read"
          /\ \A v \in Writers \ {"window"} : writer'[v] = writer[v]
      BY <1>0, <1>1, <1>2, BegunRestarts DEF Restarts
    <2>2. At("window", "idle") /\ files' = files /\ known' = known /\ dir' = dir
      BY <1>2 DEF Begun
    <2>3. Quiet("window")
      BY <2>1, <2>2 DEF Quiet, At
    <2>4. BeginsWell(todo)
      BY <1>2, <2>2, BeginsAhead
    <2>5. TreeInv'
      BY <2>1 DEF TreeInv, At
    <2>6. ImportInv'
      BY <2>2, <2>3, QuietImport DEF Sure
    <2>7. NowInv'
      <3>1. PICK e \in Edits : e = Head(todo)
        BY <1>1, SetOfRest
      <3>2. Current("window")' = e
        BY <2>1, <3>1 DEF Current
      <3>3. Now' = Now
        BY <1>0, <2>3, QuietSame
      <3>4. At("window", "read")'
        BY <2>1 DEF At
      <3>5. CopyNow(e)' /\ RemoveNow(e)' /\ WithdrawNow(e)' /\ CloneNow(e)' /\ IncludeNow(e)'
        BY <2>4, <3>1, <3>3, <3>4 DEF BeginsWell, CopyNow, RemoveNow, WithdrawNow, CloneNow, IncludeNow
      <3> QED BY <3>2, <3>5, NowOf
    <2> QED BY <1>0, <2>1, <2>2, <2>3, <2>4, <2>5, <2>6, <2>7, QuietRest DEF BeginsWell, Sure
  <1>3. CASE ImportBegins(todo) /\ Begun("import", todo)
    <2>1. /\ writer'["import"].todo = todo /\ writer'["import"].step = "read"
          /\ writer'["window"] = writer["window"]
          /\ \A v \in Writers \ {"import"} : writer'[v] = writer[v]
      BY <1>0, <1>1, <1>3, BegunRestarts DEF Restarts, Writers
    <2>2. At("import", "idle") /\ files' = files /\ known' = known /\ dir' = dir /\ tree' = tree
      BY <1>3 DEF Begun
    <2>3. Quiet("import")
      BY <2>1, <2>2 DEF Quiet, At
    <2>4. Now' = Now
      BY <1>0, <2>3, QuietSame
    <2>5. TreeInv'
      BY <2>1, <2>2, <2>4 DEF Sure, TreeInv, At
    <2>6. NowInv'
      BY <2>3, QuietNow DEF Sure
    <2>7. ImportInv'
      <3>1. PICK a \in Alias : todo = ImportFolder(a)
        BY <1>3 DEF ImportBegins
      <3>2. Head(todo) = Header /\ Header.kind = "header"
        <4> DEFINE y == [Edit("add", dir, a, NewBlock, "name") EXCEPT !.undo = <<Edit("add", dir, a, NewBlock, "name")>>]
                   x == Header
        <4>1. todo = <<x, y>>
          BY <3>1 DEF ImportFolder
        <4> HIDE DEF x, y
        <4>2. Head(todo) = x
          BY <4>1
        <4> QED BY <1>0, <4>2, HeaderTypes DEF x
      <3>3. Current("import")' = Head(todo)
        BY <2>1 DEF Current
      <3>4. Current("import")'.kind = "header"
        BY <3>2, <3>3
      <3> QED BY <3>4 DEF ImportInv
    <2>8. \A e \in ToSet(writer'["window"].todo) : Ahead(e)
      BY <2>1 DEF Sure, AheadInv
    <2> QED BY <1>0, <2>2, <2>3, <2>5, <2>6, <2>7, <2>8, QuietRest DEF Sure
  <1> QED BY <1>2, <1>3

-----------------------------------------------------------------------------
(* Other steps that change no file.                                        *)

\* Where nothing but what the window knows changes.
LEMMA SameSure ==
    ASSUME Sure, UNCHANGED <<files, writer, known, dir>>, TreeInv'
    PROVE  Sure'
  <1>1. \A w, s : At(w, s)' <=> At(w, s)
    BY DEF At
  <1>2. \A w : Current(w)' = Current(w)
    BY DEF Current
  <1>3. /\ \A w : Refusable(w)' <=> Refusable(w)
        /\ Switching' <=> Switching
        /\ Adopted' <=> Adopted
        /\ Removing' <=> Removing
    BY <1>1, <1>2 DEF Refusable, Switching, Adopted, Removing
  <1>4. Now' = Now
    BY DEF Now
  <1>5. Base' = Base
    BY <1>3, <1>4 DEF Base
  <1>6. \A a, f : Holds(a, f)' <=> Holds(a, f)
    BY <1>2, <1>3 DEF Holds
  <1>7. \A a : Deleted(a)' <=> Deleted(a)
    BY <1>1, <1>2 DEF Deleted, Pending
  <1>8. KnownInv'
    BY <1>3, <1>4, <1>5, <1>6, <1>7 DEF Sure, KnownInv, Kept
  <1>9. SingleInv' /\ NewInv'
    BY <1>3, <1>4 DEF Sure, SingleInv, NewInv
  <1>10. Ignored => Ignored'
    BY <1>2, <1>3 DEF Ignored
  <1>11. ImportInv'
    BY <1>1, <1>2, <1>3, <1>5, <1>10 DEF Sure, ImportInv
  <1>12. AheadInv'
    BY <1>3, <1>4, <1>5 DEF Sure, AheadInv, Ahead, NewOK, DeleteOK, RemoveOK, AdoptOK, FoldersOK
  <1>13. NowInv'
    BY <1>1, <1>2, <1>3, <1>4, <1>6 DEF Sure, NowInv, CopyNow, RemoveNow, WithdrawNow, CloneNow, IncludeNow
  <1> QED BY <1>8, <1>9, <1>11, <1>12, <1>13 DEF Sure

\* Once NativeTerm was killed, the files are as they are.
LEMMA KilledSure ==
    ASSUME Ground, ~Lossy, Sure, Killed
    PROVE  Sure'
  <1>1. /\ files' = files /\ dir' = dir /\ tree' = Load(files)
        /\ known' = [a \in Alias |-> IF Deleted(a) THEN Gone ELSE IF Adopted THEN Effective(files, a) ELSE known[a]]
    BY DEF Killed
  <1>2. \A w \in Writers : writer'[w].step = "idle" /\ writer'[w].todo = <<>>
    BY DEF Killed, Idle
  <1>3. \A w \in Writers : \A s : s # "idle" => ~At(w, s)'
    BY <1>2 DEF At
  <1>4. "window" \in Writers /\ "import" \in Writers
    BY DEF Writers
  <1>5. ~Switching' /\ \A w \in Writers : ~Refusable(w)'
    BY <1>3, <1>4 DEF Switching, Refusable
  <1>6. Now' = Now /\ Base' = Now
    BY <1>1, <1>5 DEF Now, Base
  <1>7. KnownInv'
    <2> SUFFICES ASSUME NEW a \in Alias, known'[a] # Gone PROVE Kept(a)'
      BY DEF KnownInv
    <2>1. \E f \in Now : a \in Hosts(files[f])
      <3>1. ~Deleted(a)
        BY <1>1
      <3>2. CASE Adopted
        <4>1. known'[a] = Effective(files, a)
          BY <1>1, <3>1, <3>2
        <4>2. a \in Aliases(files)
          BY <4>1 DEF Effective
        <4> QED BY <4>2 DEF Aliases, Now
      <3>3. CASE ~Adopted
        <4>1. known[a] # Gone
          BY <1>1, <3>1, <3>3
        <4> QED BY <3>1, <3>3, <4>1 DEF Sure, KnownInv, Kept, Holds
      <3> QED BY <3>2, <3>3
    <2>2. PICK f \in Now : a \in Hosts(files[f])
      BY <2>1
    <2>3. Holds(a, f)'
      BY <1>1, <1>5, <2>2 DEF Holds
    <2> QED BY <1>6, <2>3 DEF Kept
  <1>8. SingleInv' /\ NewInv'
    BY <1>1, <1>5, <1>6 DEF Sure, SingleInv, NewInv
  <1>9. TreeInv'
    BY <1>1, <1>6, LoadedNow DEF TreeInv
  <1>10. ImportInv' /\ NowInv'
    BY <1>2, <1>4 DEF ImportInv, NowInv, At
  <1>11. AheadInv'
    BY <1>2, <1>4 DEF AheadInv, ToSet
  <1> QED BY <1>7, <1>8, <1>9, <1>10, <1>11 DEF Sure

\* Loading again.
LEMMA ReloadSure ==
    ASSUME Sure, Reload
    PROVE  Sure'
  <1>1. UNCHANGED <<files, writer, known, dir>> /\ tree' = Load(files)
    BY DEF Reload
  <1>2. TreeInv'
    BY <1>1, LoadedNow DEF TreeInv, Now
  <1> QED BY <1>1, <1>2, SameSure

-----------------------------------------------------------------------------
(* The steps after which a thread takes up edits.                          *)

\* What such a step leaves of the other thread, and of what is being checked.
LEMMA RestartsSame ==
    ASSUME NEW w \in Writers, Restarts(w)
    PROVE  /\ \A v \in Writers \ {w} : /\ writer'[v] = writer[v] /\ Current(v)' = Current(v)
                                       /\ \A s : At(v, s)' <=> At(v, s)
                                       /\ Refusable(v)' <=> Refusable(v)
           /\ ~At(w, "check")' /\ ~Refusable(w)'
           /\ w = "window" => ~Switching' /\ ~Removing'
           /\ w = "import" => (Switching' <=> Switching) /\ (Removing' <=> Removing)
           /\ \A a : Deleted(a) => Deleted(a)' \/ Pending(w, a, {"delete"})
           /\ Adopted => Adopted' \/ (At(w, "check") /\ Current(w).kind = "include" /\ Current(w).check = "parse")
           /\ Adopted' => Adopted
           /\ Ignored /\ files'["main"].ignore => Ignored'
  <1>1. \A v \in Writers \ {w} : /\ writer'[v] = writer[v] /\ Current(v)' = Current(v)
                                 /\ \A s : At(v, s)' <=> At(v, s)
    BY DEF Restarts, At, Current
  <1>2. \A v \in Writers \ {w} : Refusable(v)' <=> Refusable(v)
    BY <1>1 DEF Refusable
  <1>3. ~At(w, "check")' /\ ~Refusable(w)'
    BY DEF Restarts, At, Refusable
  <1>4. w = "window" => ~Switching' /\ ~Removing'
    BY <1>3 DEF Switching, Removing
  <1>5. w = "import" => (Switching' <=> Switching) /\ (Removing' <=> Removing)
    <2> SUFFICES ASSUME w = "import" PROVE (Switching' <=> Switching) /\ (Removing' <=> Removing)
      OBVIOUS
    <2>1. "window" \in Writers \ {w}
      BY DEF Writers
    <2>2. Current("window")' = Current("window") /\ (At("window", "check")' <=> At("window", "check"))
      BY <1>1, <2>1
    <2> QED BY <2>2 DEF Switching, Removing
  <1>6. ASSUME NEW a, Deleted(a) PROVE Deleted(a)' \/ Pending(w, a, {"delete"})
    <2>1. PICK v \in Writers : Pending(v, a, {"delete"})
      BY <1>6 DEF Deleted
    <2>2. CASE v = w
      BY <2>1, <2>2
    <2>3. CASE v # w
      <3>1. Pending(v, a, {"delete"})'
        BY <1>1, <2>1, <2>3 DEF Pending
      <3> QED BY <3>1 DEF Deleted
    <2> QED BY <2>2, <2>3
  <1>7. ASSUME Adopted
        PROVE  Adopted' \/ (At(w, "check") /\ Current(w).kind = "include" /\ Current(w).check = "parse")
    BY <1>1, <1>7 DEF Adopted
  <1>8. ASSUME Adopted' PROVE Adopted
    BY <1>1, <1>3, <1>8 DEF Adopted
  <1>9. ASSUME Ignored, files'["main"].ignore PROVE Ignored'
    BY <1>1, <1>2, <1>3, <1>9 DEF Ignored
  <1> QED BY <1>1, <1>2, <1>3, <1>4, <1>5, <1>6, <1>7, <1>8, <1>9

\* A copy of the folders that is dropped isn't read.
LEMMA DroppedSure ==
    ASSUME Ground, ~Lossy, Sure, NEW w \in Writers, Dropped(w)
    PROVE  Sure'
  <1>0. ConfigBasics /\ ConfigTypes /\ TreeInv
    BY DEF Ground, ConfigBasics, Sure
  <1>1. At(w, "read") /\ ~At(w, "idle") /\ ~At(w, "check") /\ Current(w).kind = "drop"
    BY DEF Dropped, At
  <1>2. /\ Current(w) \in Edits /\ EditOK(Current(w)) /\ Current(w) \in ToSet(writer[w].todo)
        /\ writer[w].todo # <<>> /\ writer[w].todo \in Seq(Edits) /\ Current(w) = Head(writer[w].todo)
        /\ w = "import" => Current(w).kind \in {"header", "add"}
        /\ w = "window" => WindowTodo(writer[w].todo)
    BY <1>1, AtEdit
  <1>3. w = "window" /\ Current(w).file = "new" /\ Tail(writer[w].todo) = <<>>
    BY <1>1, <1>2, WindowTodoParts DEF Writers, EditOK
  <1> DEFINE t == Tail(writer[w].todo)
  <1>a. t \in Seq(Edits) /\ t = <<>>
    BY <1>2, <1>3, SetOfRest
  <1>4. TakesUp(w, t, files', dir) /\ known' = known /\ files' = [files EXCEPT !["new"] = NoDoc]
    BY <1>3 DEF Dropped
  <1> HIDE DEF t
  <1>5. /\ writer'[w].todo = <<>> /\ writer'[w].step = "idle" /\ dir' = dir
        /\ \A v \in Writers \ {w} : writer'[v] = writer[v]
    BY <1>0, <1>4, <1>a, TakesUpWriter
  <1>6. Restarts(w)
    BY <1>0, RestartsIn
  <1>7. ~Switching /\ ~Switching' /\ (Adopted <=> Adopted')
    BY <1>1, <1>3, <1>6, RestartsSame DEF Switching
  <1>8. files'["main"] = files["main"] /\ \A f \in ConfigFile \ {"new"} : files'[f] = files[f]
    BY <1>4, NowType
  <1>9. Now' = Now /\ Base = Now /\ Base' = Now
    BY <1>7, <1>8 DEF Base, Now, ReadFiles, Reads
  <1>10. "new" \notin Now
    <2>1. Ahead(Current(w))
      BY <1>2, <1>3 DEF Sure, AheadInv
    <2> QED BY <1>1, <1>9, <2>1 DEF Ahead, FoldersOK
  <1>11. KnownInv'
    <2> SUFFICES ASSUME NEW a \in Alias, known'[a] # Gone PROVE Kept(a)'
      BY DEF KnownInv
    <2>1. Kept(a)
      BY <1>4 DEF Sure, KnownInv
    <2>2. CASE Deleted(a) \/ Adopted
      BY <1>1, <1>6, <2>2, RestartsSame DEF Kept, Pending
    <2>3. CASE \E f \in Now : Holds(a, f)
      <3>1. PICK f \in Now : Holds(a, f)
        BY <2>3
      <3>2. a \in Hosts(files'[f])
        BY <1>8, <1>10, <3>1, NowType DEF Holds
      <3>3. Holds(a, f)'
        BY <1>6, <3>1, <3>2, HoldsRestarts
      <3> QED BY <1>9, <3>1, <3>3 DEF Kept
    <2> QED BY <2>1, <2>2, <2>3 DEF Kept
  <1>12. SingleInv' /\ NewInv'
    BY <1>7, <1>8, <1>9, <1>10 DEF Sure, SingleInv, NewInv
  <1>13. TreeInv'
    BY <1>0, <1>3, <1>4, <1>a, TakesUpTree
  <1>14. ImportInv'
    <2>1. "import" \in Writers \ {w}
      BY <1>3 DEF Writers
    <2>2. Ignored => Ignored'
      BY <1>6, <1>8, RestartsSame DEF Ignored
    <2>3. (At("import", "idle")' <=> At("import", "idle")) /\ Current("import")' = Current("import")
      BY <1>6, <2>1, RestartsSame
    <2> QED BY <1>5, <1>7, <1>9, <2>2, <2>3 DEF Sure, ImportInv
  <1>15. AheadInv' /\ NowInv'
    BY <1>3, <1>5 DEF AheadInv, NowInv, At, ToSet
  <1> QED BY <1>11, <1>12, <1>13, <1>14, <1>15 DEF Sure

-----------------------------------------------------------------------------
(* A change that ssh accepts.                                              *)

\* A file that could lose a host again is one to which the host is being added.
LEMMA LosesAdded ==
    ASSUME Ground, ~Lossy, NEW v \in Writers, Refusable(v), NEW a \in Hosts(files[Current(v).file]),
           a \notin Hosts(writer[v].text)
    PROVE  /\ Current(v).kind = "add" /\ Current(v).alias = a /\ Pending(v, a, {"add", "update"})
           /\ files[Current(v).file].hosts[a][1].name = Current(v).block.name
  <1>1. At(v, "check") /\ ~At(v, "idle") /\ ~At(v, "read") /\ ~Unchecked(Current(v))
    BY DEF Refusable, At
  <1>2. /\ EditOK(Current(v)) /\ Current(v).kind \in Kinds
        /\ Makes(Current(v), writer[v].text, writer[v].new)
        /\ files[Current(v).file] = writer[v].new
    BY <1>1, AtEdit, HeldThere
  <1>3. Current(v).kind \notin {"copy", "clone", "withdraw", "drop"}
    BY <1>1, <1>2 DEF EditOK, Unchecked
  <1>4. Current(v).kind = "add" /\ Current(v).alias = a
    BY <1>2, <1>3 DEF Makes, HostsMade, Kinds, HostKinds, MainKinds, NewKinds, TakeKinds
  <1> QED BY <1>1, <1>2, <1>4 DEF Makes, FirstMade, Pending

\* Which files ssh reads, and would read, after a change was accepted.
LEMMA PassesBase ==
    ASSUME Ground, NEW w \in Writers, Passes(w)
    PROVE  /\ Now' = Now /\ (w = "window" => Base' = Now) /\ (w = "import" => Base' = Base)
           /\ Switching' => w = "import" /\ Switching /\ writer'["window"] = writer["window"]
  <1>1. Restarts(w) /\ files' = files
    BY RestartsIn DEF Passes, Ground
  <1>2. /\ w = "window" => ~Switching'
        /\ w = "import" => (Switching' <=> Switching) /\ writer'["window"] = writer["window"]
    BY <1>1, RestartsSame DEF Writers
  <1> QED BY <1>1, <1>2 DEF Now, Base, Writers

\* What is kept stays kept, but what the accepted change itself has excused.
LEMMA PassesKept ==
    ASSUME Ground, NEW w \in Writers, Passes(w), NEW a, Kept(a), ~Pending(w, a, {"delete"}),
           ~(Current(w).kind = "include" /\ Current(w).check = "parse")
    PROVE  Kept(a)'
  <1>1. Restarts(w) /\ files' = files
    BY RestartsIn DEF Passes, Ground
  <1>2. CASE Deleted(a) \/ Adopted
    BY <1>1, <1>2, RestartsSame DEF Kept
  <1>3. CASE (\E f \in Now : Holds(a, f)) /\ (\E f \in Base : Holds(a, f))
    <2>1. \A f : Holds(a, f) => Holds(a, f)'
      BY <1>1, HoldsRestarts DEF Holds
    <2>2. Now' = Now /\ (Base' = Now \/ Base' = Base)
      BY PassesBase DEF Writers
    <2> QED BY <1>3, <2>1, <2>2 DEF Kept
  <1> QED BY <1>2, <1>3 DEF Kept

\* A host that was given a name is held.
LEMMA PassesGiven ==
    ASSUME Ground, ~Lossy, Sure, NEW w \in Writers, Passes(w), Current(w).kind \in {"add", "update"},
           NEW a, a = Current(w).alias
    PROVE  Kept(a)'
  <1>1. At(w, "check") /\ ~At(w, "idle") /\ ~At(w, "read")
    BY DEF Passes, At
  <1>2. /\ EditOK(Current(w)) /\ Current(w).block \in Blks /\ Current(w) \in ToSet(writer[w].todo)
        /\ Makes(Current(w), writer[w].text, writer[w].new) /\ Shaped(Current(w))
        /\ files[Current(w).file] = writer[w].new
        /\ w = "import" => Current(w).kind = "add" /\ ImportPlace(Current(w), dir)
    BY <1>1, AtEdit, HeldThere
  <1>a. PICK n \in Nat : a \in Alias /\ n = Current(w).block.name
    BY <1>2 DEF Shaped, HostKinds, Blks
  <1>b. n # Gone
    BY DEF Gone
  <1>3. Current(w).check = "name" /\ Effective(files, a) = n
    BY <1>2, <1>a DEF EditOK, Passes, Checks
  <1>4. files \in [ConfigFile -> Docs] /\ Now = ReadFiles(files) /\ Now \subseteq ConfigFile
    BY NowType DEF Now
  <1>5. PICK f \in Now : a \in Hosts(files[f]) /\ files[f].hosts[a][1].name = n
    <2>1. a \in Aliases(files)
      BY <1>3, <1>b DEF Effective
    <2> DEFINE r == Reads(files)
    <2>2. PICK i \in DOMAIN r : a \in Hosts(files[r[i]]) /\ Effective(files, a) = files[r[i]].hosts[a][1].name
      BY <1>4, <2>1, EffectivePlace
    <2>3. r[i] \in Now
      BY <1>4, <2>2 DEF ReadFiles, ToSet
    <2> QED BY <1>3, <2>2, <2>3
  <1>6. Restarts(w) /\ files' = files
    BY RestartsIn DEF Passes, Ground
  <1>7. ASSUME NEW v \in Writers \ {w}, Refusable(v), Current(v).file = f PROVE a \in Hosts(writer[v].text)
    <2>1. SUFFICES ASSUME a \notin Hosts(writer[v].text) PROVE FALSE
      OBVIOUS
    <2>2. Current(v).kind = "add" /\ Current(v).block.name = n
      BY <1>5, <1>7, <2>1, LosesAdded
    <2>3. ~At(v, "idle")
      BY <1>7 DEF Refusable, At
    <2>4. Current(v) \in ToSet(writer[v].todo)
      BY <2>3, AtEdit
    <2>5. CASE w = "window"
      <3>1. v = "import"
        BY <2>5 DEF Writers
      <3> QED BY <1>2, <1>a, <2>2, <2>4, <2>5, <3>1 DEF Ground, ApartInv
    <2>6. CASE w = "import"
      <3>1. v = "window"
        BY <2>6 DEF Writers
      <3> QED BY <1>2, <1>a, <2>2, <2>4, <2>6, <3>1 DEF Ground, ApartInv
    <2> QED BY <2>5, <2>6 DEF Writers
  <1>8. Holds(a, f)'
    <2>1. \A v \in Writers : Refusable(v)' => v # w /\ Refusable(v) /\ Current(v)' = Current(v) /\ writer'[v] = writer[v]
      BY <1>6, RestartsSame
    <2> QED BY <1>5, <1>6, <1>7, <2>1 DEF Holds
  <1>9. \E g \in Base' : Holds(a, g)'
    <2>1. CASE ~Switching'
      <3>1. Base' = Now'
        BY <2>1 DEF Base
      <3> QED BY <1>5, <1>8, <3>1, PassesBase
    <2>2. CASE Switching'
      <3>1. w = "import" /\ Switching /\ Base' = Base
        BY <2>2, PassesBase
      <3>2. dir = "old" /\ ~Adopted /\ Current("window").file = "main"
        BY <3>1, SwitchingNow
      <3>3. Current(w).kind = "add" /\ Current(w).file \in Base
        BY <1>1, <1>2, <3>1, <3>2 DEF Sure, ImportInv
      <3>4. a \in Hosts(files[Current(w).file])
        BY <1>2, <1>a, <3>3 DEF Makes, HostsMade
      <3>5. PICK g \in ConfigFile : g = Current(w).file
        BY <1>1, AtEdit
      <3>6. g # "main"
        BY <1>2, <3>1, <3>3, <3>5 DEF ImportPlace, Folders
      <3>7. \A v \in Writers : Refusable(v)' => v = "window" /\ Current(v)' = Current("window")
        BY <1>6, <3>1, RestartsSame DEF Writers
      <3>8. Holds(a, g)'
        BY <1>6, <3>2, <3>4, <3>5, <3>6, <3>7 DEF Holds
      <3> QED BY <3>1, <3>3, <3>5, <3>8
    <2> QED BY <2>1, <2>2
  <1> QED BY <1>5, <1>8, <1>9, PassesBase DEF Kept

\* What ssh uses once Include is checked, it has.
LEMMA PassesRead ==
    ASSUME Ground, ~Lossy, Sure, NEW w \in Writers, Passes(w), NEW a \in Alias, KnownNow[a] # Gone,
           Current(w).kind = "header" \/ (Current(w).kind = "include" /\ Current(w).check = "parse")
    PROVE  Kept(a)'
  <1>1. At(w, "check") /\ ~At(w, "idle") /\ ~At(w, "read")
    BY DEF Passes, At
  <1>2. /\ EditOK(Current(w)) /\ Shaped(Current(w)) /\ Makes(Current(w), writer[w].text, writer[w].new)
        /\ w = "import" => Current(w).kind \in {"header", "add"}
        /\ w = "window" => WindowPlace(Current(w), dir)
    BY <1>1, AtEdit
  <1>3. Current(w).file = "main"
    BY <1>2 DEF Shaped, MainKinds
  <1>4. files["main"] = writer[w].new
    BY <1>1, <1>3, HeldThere
  <1>5. Restarts(w) /\ files' = files
    BY RestartsIn DEF Passes, Ground
  <1>6. ~Switching' /\ Base' = Now /\ Now' = Now
    <2>1. CASE w = "window"
      BY <2>1, PassesBase
    <2>2. CASE w = "import"
      <3>1. ASSUME Switching PROVE FALSE
        <4>1. At("window", "check") /\ Current("window").file = "main" /\ "window" \in Writers
          BY <3>1, SwitchingNow
        <4> QED BY <1>1, <1>3, <2>2, <4>1, HeldThere
      <3>2. Base = Now
        BY <3>1 DEF Base
      <3> QED BY <2>2, <3>1, <3>2, PassesBase
    <2> QED BY <2>1, <2>2 DEF Writers
  <1>7. ASSUME NEW f \in Now, a \in Hosts(files[f]),
               \A v \in Writers : Refusable(v) /\ Current(v).file = f => v = w \/ a \in Hosts(writer[v].text)
        PROVE  Kept(a)'
    <2>1. \A v \in Writers : Refusable(v)' => v # w /\ Refusable(v) /\ Current(v)' = Current(v) /\ writer'[v] = writer[v]
      BY <1>5, RestartsSame
    <2>2. Holds(a, f)'
      BY <1>5, <1>7, <2>1 DEF Holds
    <2> QED BY <1>6, <1>7, <2>2 DEF Kept
  <1>8. CASE ~(a \in Aliases(files) /\ \E v \in Writers : Pending(v, a, {"add", "update"}))
    <2>1. KnownNow[a] = Effective(files, a)
      BY <1>8 DEF KnownNow
    <2>2. a \in Aliases(files)
      BY <2>1 DEF Effective
    <2>3. PICK f \in Now : a \in Hosts(files[f])
      BY <2>2 DEF Aliases, Now
    <2>4. \A v \in Writers : Refusable(v) /\ Current(v).file = f => a \in Hosts(writer[v].text)
      BY <1>8, <2>2, <2>3, LosesAdded
    <2> QED BY <1>7, <2>3, <2>4
  <1>9. CASE a \in Aliases(files) /\ \E v \in Writers : Pending(v, a, {"add", "update"})
    <2>1. known[a] # Gone
      BY <1>9 DEF KnownNow
    <2>2. Kept(a)
      BY <2>1 DEF Sure, KnownInv
    <2>3. CASE ~(Current(w).kind = "include" /\ Current(w).check = "parse")
      <3>1. Current(w).kind # "delete"
        BY <2>3
      <3> QED BY <2>2, <2>3, <3>1, PassesKept DEF Pending
    <2>4. CASE Current(w).kind = "include" /\ Current(w).check = "parse"
      <3>1. w = "window" /\ dir = "old"
        BY <1>2, <2>4 DEF Writers, WindowPlace
      <3>2. ToSet(files["main"].include) = (ToSet(writer[w].text.include) \ {"old"}) \cup {"new"}
        BY <1>2, <1>4, <2>4 DEF Makes, HeadMade, EditOK
      <3>3. "old" \notin Now
        BY <3>2, NowType
      <3>4. PICK f \in Now : a \in Hosts(files[f])
        BY <1>9 DEF Aliases, Now
      <3>5. ASSUME NEW v \in Writers, Refusable(v), Current(v).file = f, v # w PROVE FALSE
        <4>1. v = "import"
          BY <3>1, <3>5 DEF Writers
        <4>2. Current(v).file \in Folders /\ Current(v).file # "new"
          BY <3>1, <3>5, <4>1, ImportRefusable
        <4> QED BY <3>3, <3>4, <3>5, <4>2 DEF Folders
      <3> QED BY <1>7, <3>4, <3>5
    <2> QED BY <2>3, <2>4
  <1> QED BY <1>8, <1>9

\* What was given last, once a change is accepted.
LEMMA PassesKnown ==
    ASSUME Ground, ~Lossy, Sure, NEW w \in Writers, Passes(w)
    PROVE  KnownInv'
  <1>1. At(w, "check") /\ ~At(w, "idle") /\ known' = Knows(Current(w))
    BY DEF Passes, At
  <1>2. known \in [Alias -> {Gone} \cup Nat]
    BY DEF Ground, ConfigBasics, ConfigTypes
  <1> SUFFICES ASSUME NEW a \in Alias, known'[a] # Gone PROVE Kept(a)'
    BY DEF KnownInv
  <1>3. known[a] # Gone => Kept(a)
    BY DEF Sure, KnownInv
  <1>4. CASE Current(w).kind \in {"add", "update"}
    <2>1. CASE a = Current(w).alias
      BY <1>4, <2>1, PassesGiven
    <2>2. CASE a # Current(w).alias
      <3>1. known'[a] = known[a]
        BY <1>1, <1>2, <1>4, <2>2 DEF Knows
      <3> QED BY <1>3, <1>4, <3>1, PassesKept DEF Pending
    <2> QED BY <2>1, <2>2
  <1>5. CASE Current(w).kind = "delete"
    <2>1. known'[a] = (IF a = Current(w).alias THEN Gone ELSE known[a])
      BY <1>1, <1>2, <1>5 DEF Knows
    <2> QED BY <1>3, <1>5, <2>1, PassesKept DEF Pending
  <1>6. CASE Current(w).kind = "header" \/ (Current(w).kind = "include" /\ Current(w).check = "parse")
    <2>1. known'[a] = KnownNow[a]
      BY <1>1, <1>6 DEF Knows
    <2> QED BY <1>6, <2>1, PassesRead
  <1>7. CASE /\ Current(w).kind \notin {"add", "update", "delete", "header"}
             /\ ~(Current(w).kind = "include" /\ Current(w).check = "parse")
    <2>1. known' = known
      BY <1>1, <1>7 DEF Knows
    <2> QED BY <1>3, <1>7, <2>1, PassesKept DEF Pending
  <1> QED BY <1>4, <1>5, <1>6, <1>7

\* What the window needs of the next edit.
LEMMA PassesNow ==
    ASSUME Ground, ~Lossy, Sure, Passes("window")
    PROVE  NowInv'
  <1> DEFINE w == "window"
             t == Tail(writer[w].todo)
  <1>0. ConfigBasics /\ ConfigTypes /\ w \in Writers /\ "import" \in Writers \ {w}
    BY DEF Ground, ConfigBasics, Writers
  <1>1. At(w, "check") /\ ~At(w, "idle") /\ ~At(w, "read") /\ files' = files
    BY DEF Passes, At
  <1>2. /\ EditOK(Current(w)) /\ Shaped(Current(w)) /\ Makes(Current(w), writer[w].text, writer[w].new)
        /\ Current(w) \in Edits /\ WindowTodo(writer[w].todo)
        /\ writer[w].todo # <<>> /\ writer[w].todo \in Seq(Edits) /\ Current(w) = Head(writer[w].todo)
        /\ files[Current(w).file] = writer[w].new
    BY <1>0, <1>1, AtEdit, HeldThere
  <1>3. t \in Seq(Edits)
    BY <1>2, SetOfRest
  <1>4. TakesUp(w, t, files, NextDir(w))
    BY DEF Passes
  <1>5. writer'[w].todo = t /\ writer'[w].step = IF t = <<>> THEN "idle" ELSE "read"
    BY <1>0, <1>3, <1>4, TakesUpWriter
  <1>6. Restarts(w) /\ Now' = Now
    BY <1>0, RestartsIn, PassesBase
  <1>c. PICK e \in Edits : e = Current(w)
    BY <1>2
  <1>d. /\ EditOK(e) /\ Makes(e, writer[w].text, writer[w].new) /\ Shaped(e)
        /\ files[e.file] = writer[w].new
        /\ e.kind = "copy" => e.file \in Now
        /\ e.kind = "clone" => Hosts(files["old"]) \subseteq Hosts(writer[w].new)
    BY <1>1, <1>2, <1>c DEF Sure, NowInv, CopyNow, CloneNow
  <1>7. CASE t = <<>>
    BY <1>5, <1>7 DEF NowInv, At
  <1>8. CASE \E r \in Edits : t = <<r>> /\ WindowPair(Current(w), r)
    <2>1. PICK r \in Edits : t = <<r>> /\ WindowPair(e, r)
      BY <1>8, <1>c
    <2>2. Current("window")' = r
      BY <1>5, <2>1, CurrentNext
    <2>3. CASE r.kind \in {"add", "update", "label", "header"}
      <3>1. CopyNow(r)' /\ RemoveNow(r)' /\ WithdrawNow(r)' /\ CloneNow(r)' /\ IncludeNow(r)'
        BY <2>3 DEF CopyNow, RemoveNow, WithdrawNow, CloneNow, IncludeNow
      <3> QED BY <2>2, <3>1, NowOf
    <2>4. CASE MovePair(e, r)
      <3>1. /\ e.kind = "copy" /\ r.kind = "remove" /\ e.alias = r.alias /\ r.undo[1].file = e.file
        BY <2>4 DEF MovePair
      <3>2. e.file \in Now /\ r.alias \in Hosts(files[e.file])
        BY <1>d, <3>1 DEF Makes, HostsMade
      <3>3. ASSUME NEW v \in Writers, Refusable(v)', Current(v)'.file = e.file PROVE FALSE
        <4>1. v # w /\ Refusable(v) /\ Current(v).file = e.file
          BY <1>0, <1>6, <3>3, RestartsSame
        <4>2. At(v, "check")
          BY <4>1 DEF Refusable
        <4> QED BY <1>0, <1>1, <1>c, <4>1, <4>2, HeldThere
      <3>4. Holds(r.alias, e.file)'
        BY <1>1, <3>2, <3>3 DEF Holds
      <3>5. RemoveNow(r)'
        <4>1. ~At("window", "compare")' /\ ~At("window", "replace")'
          BY <1>5 DEF At
        <4> QED BY <1>1, <1>6, <3>1, <3>2, <3>4, <4>1 DEF RemoveNow
      <3>6. CopyNow(r)' /\ WithdrawNow(r)' /\ CloneNow(r)' /\ IncludeNow(r)'
        BY <3>1 DEF CopyNow, WithdrawNow, CloneNow, IncludeNow
      <3> QED BY <2>2, <3>5, <3>6, NowOf
    <2>5. CASE e.kind = "clone" /\ r.kind = "include" /\ r.check = "hosts"
      <3>1. e.file = "new"
        BY <1>d, <2>5 DEF EditOK
      <3>2. files["new"].there
        <4>1. writer[w].new.there
          BY <1>0, <1>1 DEF ConfigBasics, ThereInv
        <4> QED BY <1>d, <3>1, <4>1
      <3>3. Hosts(files["old"]) \subseteq Hosts(files["new"])
        BY <1>d, <2>5, <3>1
      <3>4. CopyNow(r)' /\ RemoveNow(r)' /\ WithdrawNow(r)' /\ CloneNow(r)' /\ IncludeNow(r)'
        BY <1>1, <2>5, <3>2, <3>3 DEF CopyNow, RemoveNow, WithdrawNow, CloneNow, IncludeNow
      <3> QED BY <2>2, <3>4, NowOf
    <2> QED BY <2>1, <2>3, <2>4, <2>5 DEF WindowPair
  <1>9. CASE \E c, r \in Edits : /\ t = <<c, r>> /\ Current(w).kind = "header"
                                 /\ Current(w).to = c.file /\ MovePair(c, r)
    <2>1. PICK c \in Edits, r \in Edits : /\ t = <<c, r>> /\ e.kind = "header"
                                          /\ e.to = c.file /\ MovePair(c, r)
      BY <1>9, <1>c
    <2>2. Current("window")' = c
      BY <1>5, <2>1, CurrentNext
    <2>3. files["main"] = writer[w].new /\ c.file \in ToSet(writer[w].new.include)
      BY <1>d, <2>1 DEF Shaped, MainKinds, Makes, HeadMade
    <2>4. c.file \in Now /\ c.kind = "copy"
      BY <2>1, <2>3, NowType DEF MovePair
    <2>5. CopyNow(c)' /\ RemoveNow(c)' /\ WithdrawNow(c)' /\ CloneNow(c)' /\ IncludeNow(c)'
      BY <1>6, <2>4 DEF CopyNow, RemoveNow, WithdrawNow, CloneNow, IncludeNow
    <2> QED BY <2>2, <2>5, NowOf
  <1> QED BY <1>2, <1>7, <1>8, <1>9, WindowTodoParts

\* What the other thread needs, where a file didn't change.
LEMMA PassesOther ==
    ASSUME Ground, ~Lossy, Sure, Passes("import")
    PROVE  NowInv' /\ AheadInv'
  <1>1. "import" \in Writers /\ "window" \in Writers \ {"import"}
    BY DEF Writers
  <1>2. /\ Restarts("import") /\ files' = files /\ Now' = Now /\ Base' = Base
    BY <1>1, RestartsIn, PassesBase DEF Ground, Passes
  <1>3. /\ writer'["window"] = writer["window"] /\ Current("window")' = Current("window")
        /\ \A s : At("window", s)' <=> At("window", s)
        /\ ~Refusable("import")' /\ (Removing' <=> Removing)
    BY <1>1, <1>2, RestartsSame
  <1>4. \A a, f : Holds(a, f) => Holds(a, f)'
    BY <1>1, <1>2, HoldsRestarts DEF Holds
  <1>5. dir' = dir
    <2>1. ~At("import", "idle")
      BY DEF Passes, At
    <2>2. Current("import").kind # "include"
      BY <1>1, <2>1, AtEdit
    <2> QED BY <2>2 DEF Passes, TakesUp, NextDir
  <1>6. AheadInv'
    <2> SUFFICES ASSUME NEW e \in ToSet(writer["window"].todo) PROVE Ahead(e)'
      BY <1>3 DEF AheadInv
    <2>1. Ahead(e)
      BY DEF Sure, AheadInv
    <2>2. NewOK(e)' /\ DeleteOK(e)' /\ RemoveOK(e)'
      BY <1>2, <1>3, <1>5, <2>1 DEF Ahead, NewOK, DeleteOK, RemoveOK
    <2>3. AdoptOK(e)' /\ FoldersOK(e)'
      BY <1>2, <2>1 DEF Ahead, AdoptOK, FoldersOK
    <2> QED BY <2>2, <2>3 DEF Ahead
  <1>7. NowInv'
    <2> SUFFICES ASSUME ~At("window", "idle") PROVE NowInv'
      BY <1>3 DEF NowInv
    <2>1. CopyNow(Current("window"))' /\ IncludeNow(Current("window"))' /\ CloneNow(Current("window"))'
      BY <1>2, <1>3 DEF Sure, NowInv, CopyNow, IncludeNow, CloneNow
    <2>2. RemoveNow(Current("window"))'
      BY <1>2, <1>3, <1>4 DEF Sure, NowInv, RemoveNow
    <2>3. WithdrawNow(Current("window"))'
      BY <1>2, <1>3, <1>4 DEF Sure, NowInv, WithdrawNow
    <2> QED BY <2>1, <2>2, <2>3 DEF NowInv
  <1> QED BY <1>6, <1>7

\* What an import needs next, once its edit is accepted.
LEMMA PassesImport ==
    ASSUME Ground, ~Lossy, Sure, Passes("import")
    PROVE  ImportInv'
  <1> DEFINE w == "import"
             t == Tail(writer[w].todo)
  <1>0. ConfigBasics /\ ConfigTypes /\ w \in Writers
    BY DEF Ground, ConfigBasics, Writers
  <1>1. At(w, "check") /\ ~At(w, "idle") /\ ~At(w, "read") /\ files' = files
    BY DEF Passes, At
  <1>2. /\ EditOK(Current(w)) /\ Shaped(Current(w)) /\ Makes(Current(w), writer[w].text, writer[w].new)
        /\ Current(w) \in Edits /\ ImportTodo(writer[w].todo)
        /\ writer[w].todo # <<>> /\ writer[w].todo \in Seq(Edits) /\ Current(w) = Head(writer[w].todo)
        /\ files[Current(w).file] = writer[w].new
    BY <1>0, <1>1, AtEdit, HeldThere
  <1>3. t \in Seq(Edits)
    BY <1>2, SetOfRest
  <1>4. TakesUp(w, t, files, NextDir(w))
    BY DEF Passes
  <1>5. writer'[w].todo = t /\ writer'[w].step = IF t = <<>> THEN "idle" ELSE "read"
    BY <1>0, <1>3, <1>4, TakesUpWriter
  <1>6. Restarts(w) /\ Now' = Now /\ Base' = Base
    BY <1>0, RestartsIn, PassesBase
  <1>7. CASE t = <<>>
    BY <1>5, <1>7 DEF ImportInv, At
  <1>8. CASE \E y \in Edits : Current(w).kind = "header" /\ t = <<y>> /\ y.kind = "add" /\ Current(w).to = y.file
    <2>1. PICK y \in Edits : Current(w).kind = "header" /\ t = <<y>> /\ y.kind = "add" /\ Current(w).to = y.file
      BY <1>8
    <2>2. Current("import")' = y
      BY <1>5, <2>1, CurrentNext
    <2>3. /\ files["main"] = writer[w].new /\ writer[w].new.ignore
          /\ Current(w).to \in ToSet(writer[w].new.include)
      BY <1>2, <2>1 DEF Shaped, MainKinds, Makes, HeadMade
    <2>4. files["main"].ignore /\ Current(w).to \in Now
      BY <2>3, NowType
    <2>5. Ignored /\ ~Switching
      BY <1>1, <2>1, <2>4, ImportGoesOn
    <2>6. Ignored' /\ y.file \in Base'
      <3>1. Ignored'
        BY <1>0, <1>1, <1>6, <2>4, <2>5, RestartsSame
      <3>2. Base = Now
        BY <2>5 DEF Base
      <3> QED BY <1>6, <2>1, <2>4, <3>1, <3>2
    <2> QED BY <2>2, <2>6 DEF ImportInv
  <1> QED BY <1>2, <1>7, <1>8, ImportTodoParts

\* A change that ssh accepts.
LEMMA PassesSure ==
    ASSUME Ground, ~Lossy, Sure, NEW w \in Writers, Passes(w)
    PROVE  Sure'
  <1>0. ConfigBasics /\ ConfigTypes /\ TreeInv
    BY DEF Ground, ConfigBasics, Sure
  <1>1. At(w, "check") /\ ~At(w, "idle") /\ ~At(w, "read") /\ files' = files
    BY DEF Passes, At
  <1>2. /\ EditOK(Current(w)) /\ Current(w) \in Edits
        /\ writer[w].todo # <<>> /\ writer[w].todo \in Seq(Edits) /\ Current(w) = Head(writer[w].todo)
        /\ Current(w) \in ToSet(writer[w].todo)
        /\ w = "window" => WindowTodo(writer[w].todo)
    BY <1>1, AtEdit
  <1> DEFINE t == Tail(writer[w].todo)
  <1>3. t \in Seq(Edits) /\ ToSet(t) \subseteq ToSet(writer[w].todo)
    BY <1>2, SetOfRest
  <1>4. TakesUp(w, t, files, NextDir(w))
    BY DEF Passes
  <1>5. writer'[w].todo = t /\ dir' = NextDir(w)
    BY <1>0, <1>3, <1>4, TakesUpWriter
  <1>6. Restarts(w) /\ Now' = Now
    BY <1>0, RestartsIn, PassesBase
  <1>7. dir' = (IF Current(w).kind = "include" THEN "new" ELSE dir)
    BY <1>2, <1>5 DEF NextDir, EditOK
  <1>8. KnownInv'
    BY PassesKnown
  <1>9. SingleInv'
    BY <1>1, PassesBase DEF Sure, SingleInv
  <1>10. TreeInv'
    BY <1>0, <1>1, <1>3, <1>4, <1>6, TakesUpTree
  <1>11. NewInv'
    BY <1>1, <1>6, <1>7 DEF Sure, NewInv
  <1>12. CASE w = "import"
    <2>1. ImportInv' /\ NowInv' /\ AheadInv'
      BY <1>12, PassesImport, PassesOther
    <2> QED BY <1>8, <1>9, <1>10, <1>11, <2>1 DEF Sure
  <1>13. CASE w = "window"
    <2>1. NowInv'
      BY <1>13, PassesNow
    <2>2. /\ (At("import", "idle")' <=> At("import", "idle")) /\ Current("import")' = Current("import")
          /\ ~Removing'
      BY <1>6, <1>13, RestartsSame DEF Writers
    <2>3. Ignored => Ignored'
      BY <1>1, <1>6, RestartsSame DEF Ignored
    <2>4. Base' = Now
      BY <1>13, PassesBase
    <2>5. Current(w).kind # "include" => Base = Now /\ (Adopted' <=> Adopted)
      BY <1>6, <1>13, RestartsSame DEF Base, Switching
    <2>6. ImportInv'
      <3>1. ~At("import", "idle")' => Current("import")'.kind = "header" \/ Ignored'
        BY <2>2, <2>3 DEF Sure, ImportInv
      <3>2. ASSUME ~At("import", "idle")', Current("import")'.kind = "add", dir' = "old", ~Adopted'
            PROVE  Current("import")'.file \in Base'
        <4>1. Current(w).kind # "include" /\ dir = "old"
          BY <1>7, <3>2
        <4> QED BY <2>2, <2>4, <2>5, <3>2, <4>1 DEF Sure, ImportInv
      <3> QED BY <3>1, <3>2 DEF ImportInv
    <2>7. AheadInv'
      <3>1. SUFFICES ASSUME NEW e \in ToSet(t) PROVE Ahead(e)'
        BY <1>5, <1>13 DEF AheadInv
      <3>2. Ahead(e)
        BY <1>3, <1>13 DEF Sure, AheadInv
      <3>3. Current(w).kind \notin {"include", "remove"}
        <4>1. t # <<>>
          BY <3>1 DEF ToSet
        <4> QED BY <1>2, <1>13, <4>1, WindowTodoParts
      <3>4. ~Removing
        BY <1>13, <3>3 DEF Removing
      <3>5. NewOK(e)' /\ DeleteOK(e)' /\ RemoveOK(e)'
        BY <1>1, <1>6, <1>7, <3>2, <3>3, <3>4 DEF Ahead, NewOK, DeleteOK, RemoveOK
      <3>6. AdoptOK(e)' /\ FoldersOK(e)'
        BY <1>1, <2>4, <2>5, <3>2, <3>3 DEF Ahead, AdoptOK, FoldersOK
      <3> QED BY <3>5, <3>6 DEF Ahead
    <2> QED BY <1>8, <1>9, <1>10, <1>11, <2>1, <2>6, <2>7 DEF Sure
  <1> QED BY <1>12, <1>13 DEF Writers

-----------------------------------------------------------------------------
(* A change that ssh refuses.                                              *)

\* What is refused, and what is put back.
LEMMA RefusedFacts ==
    ASSUME Ground, ~Lossy, NEW w \in Writers, Refused(w)
    PROVE  /\ At(w, "check") /\ Refusable(w) /\ Current(w) \in Edits /\ EditOK(Current(w)) /\ Shaped(Current(w))
           /\ Current(w).file \in ConfigFile /\ Current(w) \in ToSet(writer[w].todo)
           /\ Makes(Current(w), writer[w].text, writer[w].new) /\ files[Current(w).file] = writer[w].new
           /\ Current(w).kind \in {"add", "update", "id", "delete", "remove", "label", "options", "plain", "create", "include"}
           /\ Current(w).kind = "include" => Current(w).check = "hosts" /\ w = "window"
           /\ w = "import" => Current(w).kind = "add" /\ ImportPlace(Current(w), dir)
           /\ files'[Current(w).file] = writer[w].text
           /\ \A g \in ConfigFile \ {Current(w).file} : files'[g] = files[g]
           /\ Restarts(w) /\ known' = known /\ dir' = dir
           /\ \A v \in Writers \ {w} : At(v, "check") => Current(v).file # Current(w).file
  <1>0. ConfigBasics /\ ConfigTypes
    BY DEF Ground, ConfigBasics
  <1>1. Refusable(w) /\ At(w, "check") /\ ~At(w, "idle") /\ ~At(w, "read") /\ ~Unchecked(Current(w))
    BY RefusedIsRefusable DEF Refusable, At
  <1>2. /\ Current(w).file \in ConfigFile /\ Current(w).kind \in Kinds /\ files[Current(w).file] = writer[w].new
        /\ Makes(Current(w), writer[w].text, writer[w].new) /\ writer[w].text \in Docs
        /\ EditOK(Current(w)) /\ Shaped(Current(w))
        /\ Current(w) \in Edits /\ Current(w) \in ToSet(writer[w].todo)
        /\ w = "import" => Current(w).kind \in {"header", "add"} /\ ImportPlace(Current(w), dir)
    BY <1>1, AtEdit, HeldThere
  <1>3. Current(w).kind \notin {"header", "ignore", "copy", "withdraw", "clone", "drop"}
    BY <1>1, <1>2 DEF Unchecked, EditOK
  <1>4. Current(w).kind = "include" => Current(w).check = "hosts" /\ w = "window"
    BY <1>1, <1>2 DEF Unchecked, EditOK, Writers
  <1>5. Current(w).kind \in {"add", "update", "id", "delete", "remove", "label", "options", "plain", "create", "include"}
    BY <1>2, <1>3 DEF Kinds, HostKinds, MainKinds, NewKinds
  <1>6. /\ files'[Current(w).file] = writer[w].text
        /\ \A g \in ConfigFile \ {Current(w).file} : files'[g] = files[g]
    BY <1>2, NowType DEF Refused
  <1>7. Restarts(w) /\ known' = known /\ dir' = dir
    BY <1>0, RestartsIn DEF Refused, TakesUp
  <1>8. \A v \in Writers \ {w} : At(v, "check") => Current(v).file # Current(w).file
    BY <1>1, HeldThere
  <1> QED BY <1>1, <1>2, <1>3, <1>4, <1>5, <1>6, <1>7, <1>8

\* Which files ssh reads, and would read, after a file was put back.
LEMMA RefusedBase ==
    ASSUME Ground, ~Lossy, NEW w \in Writers, Refused(w)
    PROVE  /\ Now' = Now \/ (Now' = Base /\ w = "window" /\ Current(w).kind = "include" /\ Switching)
           /\ Base' = Base
           /\ Switching' => w = "import" /\ Switching /\ writer'["window"] = writer["window"]
           /\ Current(w).kind # "include" => Now' = Now
           /\ Current(w).kind # "include" => files'["main"].include = files["main"].include
  <1>1. Restarts(w)
    BY RefusedFacts
  <1>2. /\ w = "window" => ~Switching'
        /\ w = "import" => (Switching' <=> Switching) /\ writer'["window"] = writer["window"]
    BY <1>1, RestartsSame DEF Writers
  <1>3. /\ Current(w).kind = "include" => Switching /\ Now' = Base /\ w = "window"
        /\ Current(w).kind # "include" => Now' = Now /\ files'["main"].include = files["main"].include
    BY NowRefused
  <1>4. Base' = Base
    <2>1. CASE w = "import"
      <3>1. Now' = Now
        BY <1>3, <2>1
      <3> QED BY <1>2, <2>1, <3>1 DEF Base
    <2>2. CASE w = "window" /\ Current(w).kind = "include"
      BY <1>2, <1>3, <2>2 DEF Base
    <2>3. CASE w = "window" /\ Current(w).kind # "include"
      BY <1>2, <1>3, <2>3 DEF Base, Switching
    <2> QED BY <2>1, <2>2, <2>3 DEF Writers
  <1> QED BY <1>2, <1>3, <1>4 DEF Writers

\* Each host is still held.
LEMMA RefusedKnown ==
    ASSUME Ground, ~Lossy, Sure, NEW w \in Writers, Refused(w)
    PROVE  KnownInv'
  <1>1. /\ At(w, "check") /\ Refusable(w) /\ Restarts(w) /\ known' = known
        /\ Makes(Current(w), writer[w].text, writer[w].new)
        /\ Current(w) \in ToSet(writer[w].todo) /\ Current(w).file \in ConfigFile
        /\ w = "import" => Current(w).kind = "add"
        /\ files'[Current(w).file] = writer[w].text
        /\ Current(w).kind = "include" => Current(w).check = "hosts"
        /\ \A v \in Writers \ {w} : At(v, "check") => Current(v).file # Current(w).file
    BY RefusedFacts
  <1> SUFFICES ASSUME NEW a \in Alias, known'[a] # Gone PROVE Kept(a)'
    BY DEF KnownInv
  <1>2. Kept(a)
    BY <1>1 DEF Sure, KnownInv
  <1>3. CASE Deleted(a)'
    BY <1>3 DEF Kept
  <1>4. CASE Adopted
    <2>1. Adopted'
      BY <1>1, <1>4, RestartsSame
    <2> QED BY <2>1 DEF Kept
  <1>5. CASE Deleted(a) /\ ~Deleted(a)'
    <2>1. Pending(w, a, {"delete"})
      BY <1>1, <1>5, RestartsSame
    <2>2. w = "window" /\ Current(w).kind = "delete" /\ Current(w).alias = a
      BY <1>1, <2>1 DEF Pending, Writers
    <2>3. PICK f \in ConfigFile : f = Current(w).file
      BY <1>1
    <2>4. Ahead(Current(w))
      BY <1>1, <2>2 DEF Sure, AheadInv
    <2>5. f \in Now
      BY <2>2, <2>3, <2>4 DEF Ahead, DeleteOK
    <2>6. a \in Hosts(files'[f])
      BY <1>1, <2>2, <2>3 DEF Makes, HostsMade, TakeKinds
    <2>7. \A v \in Writers : Refusable(v)' => v # w /\ Refusable(v) /\ Current(v)' = Current(v)
      BY <1>1, RestartsSame
    <2>8. Holds(a, f)'
      BY <1>1, <2>3, <2>6, <2>7 DEF Holds, Refusable
    <2>9. Now' = Now /\ Base' = Now
      <3>1. Now' = Now
        BY <2>2, RefusedBase
      <3>2. ~Switching'
        BY <2>2, RefusedBase
      <3> QED BY <3>1, <3>2 DEF Base
    <2> QED BY <2>5, <2>8, <2>9 DEF Kept
  <1>6. CASE (\E f \in Now : Holds(a, f)) /\ (\E f \in Base : Holds(a, f))
    <2>1. \A f : Holds(a, f) => Holds(a, f)'
      BY HoldsRefused
    <2>2. Base' = Base /\ (Now' = Now \/ Now' = Base)
      BY RefusedBase
    <2> QED BY <1>6, <2>1, <2>2 DEF Kept
  <1> QED BY <1>2, <1>3, <1>4, <1>5, <1>6 DEF Kept

\* The files ssh reads are there.
LEMMA RefusedNew ==
    ASSUME Ground, ~Lossy, Sure, NEW w \in Writers, Refused(w)
    PROVE  NewInv'
  <1>1. /\ At(w, "check") /\ Refusable(w) /\ EditOK(Current(w)) /\ dir' = dir
        /\ Makes(Current(w), writer[w].text, writer[w].new)
        /\ Current(w) \in ToSet(writer[w].todo) /\ Current(w).file \in ConfigFile
        /\ w = "import" => Current(w).kind = "add" /\ ImportPlace(Current(w), dir)
        /\ files'[Current(w).file] = writer[w].text
        /\ \A g \in ConfigFile \ {Current(w).file} : files'[g] = files[g]
        /\ Current(w).kind = "include" => Current(w).check = "hosts" /\ w = "window"
        /\ Current(w).kind \in {"add", "update", "id", "delete", "remove", "label", "options", "plain", "create", "include"}
    BY RefusedFacts
  <1>2. w = "window" => Ahead(Current(w))
    BY <1>1 DEF Sure, AheadInv
  <1> SUFFICES ASSUME "new" \in Now', dir = "old" PROVE files'["new"].there
    BY <1>1, NowType DEF NewInv, Folders
  <1>3. Current(w).kind # "include"
    <2>1. ASSUME Current(w).kind = "include" PROVE FALSE
      <3>1. "new" \notin Base
        BY <1>1, <1>2, <2>1 DEF Ahead, FoldersOK
      <3>2. Now' = Base
        BY <2>1, NowRefused
      <3> QED BY <3>1, <3>2
    <2> QED BY <2>1
  <1>4. files["new"].there
    <2>1. Now' = Now
      BY <1>3, RefusedBase
    <2> QED BY <2>1 DEF Sure, NewInv
  <1>5. CASE Current(w).file # "new"
    BY <1>1, <1>4, <1>5, NowType
  <1>6. CASE Current(w).file = "new"
    <2>1. Current(w).kind \in {"update", "id", "delete", "remove"}
      <3>1. CASE w = "import"
        BY <1>1, <1>6, <3>1 DEF ImportPlace
      <3>2. CASE w = "window"
        BY <1>1, <1>2, <1>3, <1>6, <3>2 DEF Ahead, NewOK
      <3> QED BY <3>1, <3>2 DEF Writers
    <2>2. Hosts(writer[w].text) # {}
      BY <1>1, <2>1 DEF Makes, HostsMade, TakeKinds
    <2>3. SoundDoc(writer[w].text)
      BY <1>1 DEF Ground, ConfigBasics, ThereInv, At
    <2>4. writer[w].text.there
      BY <2>2, <2>3, NoDocHosts DEF SoundDoc
    <2> QED BY <1>1, <1>6, <2>4
  <1> QED BY <1>5, <1>6

\* ssh still ignores NativeTerm keys.
LEMMA RefusedIgnored ==
    ASSUME Ground, ~Lossy, NEW w \in Writers, Refused(w), Ignored
    PROVE  Ignored'
  <1>1. /\ Refusable(w) /\ Restarts(w) /\ files'[Current(w).file] = writer[w].text
        /\ \A g \in ConfigFile \ {Current(w).file} : files'[g] = files[g]
    BY RefusedFacts
  <1>2. files'["main"].ignore
    BY <1>1, NowType DEF Ignored
  <1> QED BY <1>1, <1>2, RestartsSame

\* The import's change is put back, and the hosts the window needs are where they were.
LEMMA RefusedOther ==
    ASSUME Ground, ~Lossy, Sure, Refused("import")
    PROVE  AheadInv' /\ NowInv'
  <1> DEFINE i == Current("import")
  <1>0. "import" \in Writers /\ "window" \in Writers \ {"import"}
    BY DEF Writers
  <1>1. /\ Refusable("import") /\ Restarts("import") /\ dir' = dir
        /\ Makes(i, writer["import"].text, writer["import"].new)
        /\ i.kind = "add" /\ ImportPlace(i, dir) /\ i.file \in ConfigFile
        /\ files[i.file] = writer["import"].new
        /\ files'[i.file] = writer["import"].text
        /\ \A g \in ConfigFile \ {i.file} : files'[g] = files[g]
    BY <1>0, RefusedFacts
  <1>2. Now' = Now /\ Base' = Base
    BY <1>0, <1>1, RefusedBase
  <1>3. /\ writer'["window"] = writer["window"] /\ Current("window")' = Current("window")
        /\ \A s : At("window", s)' <=> At("window", s)
        /\ ~Refusable("import")' /\ (Removing' <=> Removing)
    BY <1>0, <1>1, RestartsSame
  <1>4. \A a, f : Holds(a, f) => Holds(a, f)'
    BY <1>0, HoldsRefused
  <1>5. ASSUME NEW f \in Now, NEW a \in Hosts(files[f]) PROVE a \in Hosts(files'[f])
    <2>1. f \in ConfigFile
      BY NowType
    <2>2. CASE f # i.file
      BY <1>1, <1>5, <2>1, <2>2
    <2>3. CASE f = i.file
      <3>1. CASE a = i.alias
        <4>1. SUFFICES ASSUME a \notin Hosts(writer["import"].text) PROVE FALSE
          BY <1>1, <2>3
        <4>2. Checks(Current("import"))
          BY <1>1, <1>5, <2>3, <3>1, <4>1, ImportPasses
        <4> QED BY <4>2 DEF Refused
      <3>2. CASE a # i.alias
        BY <1>1, <1>5, <2>3, <3>2 DEF Makes, HostsMade
      <3> QED BY <3>1, <3>2
    <2> QED BY <2>2, <2>3
  <1>6. \A f \in ConfigFile : Hosts(files'[f]) \subseteq Hosts(files[f])
    <2> SUFFICES ASSUME NEW f \in ConfigFile PROVE Hosts(files'[f]) \subseteq Hosts(files[f])
      OBVIOUS
    <2>1. CASE f # i.file
      BY <1>1, <2>1
    <2>2. CASE f = i.file
      BY <1>1, <2>2 DEF Makes, HostsMade
    <2> QED BY <2>1, <2>2
  <1>7. dir = "old" => files'["new"] = files["new"]
    <2> SUFFICES ASSUME dir = "old" PROVE files'["new"] = files["new"]
      OBVIOUS
    <2>1. i.file # "new"
      BY <1>1 DEF ImportPlace
    <2> HIDE DEF i
    <2> QED BY <1>1, <2>1, NowType
  <1>8. \A e \in ToSet(writer["window"].todo) : WindowPlace(e, dir)
    BY <1>0 DEF Ground, TodoInv, TodoOK
  <1>9. AheadInv'
    <2> SUFFICES ASSUME NEW e \in ToSet(writer["window"].todo) PROVE Ahead(e)'
      BY <1>3 DEF AheadInv
    <2>1. Ahead(e)
      BY DEF Sure, AheadInv
    <2>2. NewOK(e)' /\ DeleteOK(e)'
      BY <1>1, <1>2, <2>1 DEF Ahead, NewOK, DeleteOK
    <2>3. RemoveOK(e)'
      BY <1>2, <1>3, <1>5, <2>1 DEF Ahead, RemoveOK
    <2>4. AdoptOK(e)'
      BY <1>7, <1>8, <2>1 DEF Ahead, AdoptOK, WindowPlace
    <2>5. FoldersOK(e)'
      BY <1>2, <2>1 DEF Ahead, FoldersOK
    <2> QED BY <2>2, <2>3, <2>4, <2>5 DEF Ahead
  <1>10. NowInv'
    <2> SUFFICES ASSUME ~At("window", "idle") PROVE NowInv'
      BY <1>3 DEF NowInv
    <2>1. Current("window") \in Edits /\ WindowPlace(Current("window"), dir)
      BY <1>0, AtEdit
    <2>2. PICK e \in Edits : e = Current("window")
      BY <2>1
    <2>3. CopyNow(e) /\ RemoveNow(e) /\ WithdrawNow(e) /\ CloneNow(e) /\ IncludeNow(e)
      BY <2>2 DEF Sure, NowInv
    <2>4. CopyNow(e)'
      BY <1>2, <2>3 DEF CopyNow
    <2>5. RemoveNow(e)'
      BY <1>2, <1>3, <1>4, <1>5, <2>3 DEF RemoveNow
    <2>6. WithdrawNow(e)'
      BY <1>2, <1>3, <1>4, <1>5, <2>3 DEF WithdrawNow
    <2>7. CloneNow(e)'
      BY <1>3, <1>6, <2>3, NowType DEF CloneNow
    <2>8. IncludeNow(e)'
      BY <1>3, <1>6, <1>7, <2>1, <2>2, <2>3, NowType DEF IncludeNow, WindowPlace
    <2> QED BY <1>3, <2>2, <2>4, <2>5, <2>6, <2>7, <2>8, NowOf
  <1> QED BY <1>9, <1>10

\* The window's change is put back, and what it did before is undone.
LEMMA RefusedOwn ==
    ASSUME Ground, ~Lossy, Sure, Refused("window")
    PROVE  AheadInv' /\ NowInv'
  <1> DEFINE w == "window"
  <1>0. ConfigBasics /\ ConfigTypes /\ w \in Writers
    BY DEF Ground, ConfigBasics, Writers
  <1>1. /\ At(w, "check") /\ Restarts(w) /\ dir' = dir /\ EditOK(Current(w)) /\ Current(w) \in Edits
        /\ Makes(Current(w), writer[w].text, writer[w].new)
        /\ Current(w).file \in ConfigFile /\ Current(w) \in ToSet(writer[w].todo)
        /\ files'[Current(w).file] = writer[w].text
        /\ \A g \in ConfigFile \ {Current(w).file} : files'[g] = files[g]
        /\ Current(w).kind = "include" => Current(w).check = "hosts"
        /\ \A v \in Writers \ {w} : At(v, "check") => Current(v).file # Current(w).file
    BY <1>0, RefusedFacts
  <1>2. writer[w].todo # <<>> /\ ~At(w, "idle")
    BY <1>0, <1>1, AtEdit DEF At
  <1> DEFINE t == Current(w).undo
  <1>3. t \in Seq(Edits)
    BY <1>0, <1>2, CurrentType
  <1>4. TakesUp(w, t, files', dir)
    BY DEF Refused
  <1>5. writer'[w].todo = t /\ writer'[w].step = IF t = <<>> THEN "idle" ELSE "read"
    BY <1>0, <1>3, <1>4, TakesUpWriter
  <1>6. t = <<>> \/ \E x \in Edits : t = <<x>>
    BY <1>0, <1>2, CurrentType, LastEditsAreEdits
  <1>7. \A x \in Edits : t = <<x>> => x \in ToSet(t)
    BY TodoSets
  <1>8. Base' = Base /\ ~Removing'
    BY <1>0, <1>1, RefusedBase, RestartsSame
  <1>9. PICK e \in Edits : e = Current(w)
    BY <1>1
  <1>10. Ahead(e) /\ RemoveNow(e)
    BY <1>1, <1>2, <1>9 DEF Sure, AheadInv, NowInv
  <1>11. ASSUME NEW x \in ToSet(t)
         PROVE  /\ x.kind \in {"add", "withdraw", "drop"}
                /\ x.kind = "add" => e.kind = "add" /\ x.file = e.file
                /\ x.kind = "drop" => e.kind = "include" /\ e.check = "hosts"
                /\ x.kind = "withdraw" => e.kind = "remove" /\ x = e.undo[1] /\ x.alias = e.alias /\ x.file # e.file
    BY <1>1, <1>9, UndoMembers
  <1>12. AheadInv'
    <2> SUFFICES ASSUME NEW x \in ToSet(t) PROVE Ahead(x)'
      BY <1>5 DEF AheadInv
    <2>1. NewOK(x)' /\ DeleteOK(x)' /\ RemoveOK(x)' /\ AdoptOK(x)'
      BY <1>1, <1>10, <1>11 DEF Ahead, NewOK, DeleteOK, RemoveOK, AdoptOK
    <2>2. FoldersOK(x)'
      BY <1>8, <1>10, <1>11 DEF Ahead, FoldersOK
    <2> QED BY <2>1, <2>2 DEF Ahead
  <1>13. NowInv'
    <2>1. CASE t = <<>>
      BY <1>5, <2>1 DEF NowInv, At
    <2>2. CASE \E x \in Edits : t = <<x>>
      <3>1. PICK x \in Edits : t = <<x>>
        BY <2>2
      <3>2. Current("window")' = x
        BY <1>5, <3>1, CurrentNext
      <3>3. /\ x.kind \in {"add", "withdraw", "drop"}
            /\ x.kind = "withdraw" => e.kind = "remove" /\ x = e.undo[1] /\ x.alias = e.alias /\ x.file # e.file
        BY <1>7, <1>11, <3>1
      <3>4. ASSUME x.kind = "withdraw"
            PROVE  /\ x.file \in Now' /\ x.alias \in Hosts(files'[x.file])
                   /\ \E g \in Now' \ {x.file} : Holds(x.alias, g)'
        <4>1. e.kind = "remove" /\ x = e.undo[1] /\ x.alias = e.alias /\ x.file # e.file
          BY <3>3, <3>4
        <4>2. Now' = Now
          BY <1>0, <1>9, <4>1, RefusedBase
        <4>3. x.file \in Now /\ x.alias \in Hosts(files[x.file])
          BY <1>10, <4>1 DEF RemoveNow
        <4>4. x.alias \in Hosts(files'[x.file])
          BY <1>1, <1>9, <4>1, <4>3, NowType
        <4>5. e.file \in Now
          BY <1>10, <4>1 DEF Ahead, RemoveOK
        <4>6. e.alias \in Hosts(files'[e.file])
          BY <1>1, <1>9, <4>1 DEF Makes, HostsMade, TakeKinds
        <4>7. \A v \in Writers : Refusable(v)' => v # w /\ Refusable(v) /\ Current(v)' = Current(v)
          BY <1>0, <1>1, RestartsSame
        <4>8. Holds(e.alias, e.file)'
          BY <1>1, <1>9, <4>6, <4>7 DEF Holds, Refusable
        <4> QED BY <4>1, <4>2, <4>3, <4>4, <4>5, <4>8
      <3>5. CopyNow(x)' /\ RemoveNow(x)' /\ CloneNow(x)' /\ IncludeNow(x)'
        BY <3>3 DEF CopyNow, RemoveNow, CloneNow, IncludeNow
      <3>6. WithdrawNow(x)'
        BY <3>4 DEF WithdrawNow
      <3> QED BY <3>2, <3>5, <3>6, NowOf
    <2> QED BY <1>6, <2>1, <2>2
  <1> QED BY <1>12, <1>13

\* A change that ssh refuses.
LEMMA RefusedSure ==
    ASSUME Ground, ~Lossy, Sure, NEW w \in Writers, Refused(w)
    PROVE  Sure'
  <1>0. ConfigBasics /\ ConfigTypes /\ TreeInv
    BY DEF Ground, ConfigBasics, Sure
  <1>1. /\ At(w, "check") /\ Restarts(w) /\ dir' = dir /\ EditOK(Current(w)) /\ Current(w) \in Edits
        /\ Current(w).file \in ConfigFile /\ Shaped(Current(w))
        /\ files'[Current(w).file] = writer[w].text
        /\ Current(w).kind = "include" => Current(w).check = "hosts"
        /\ w = "import" => Current(w).kind = "add"
    BY RefusedFacts
  <1>2. writer[w].todo # <<>> /\ ~At(w, "idle")
    BY <1>1, AtEdit DEF At
  <1> DEFINE t == Current(w).undo
  <1>3. t \in Seq(Edits) /\ (t = <<>> \/ \E x \in Edits : t = <<x>>)
    BY <1>0, <1>2, CurrentType, LastEditsAreEdits
  <1>4. TakesUp(w, t, files', dir)
    BY DEF Refused
  <1>5. writer'[w].todo = t /\ writer'[w].step = IF t = <<>> THEN "idle" ELSE "read"
    BY <1>0, <1>3, <1>4, TakesUpWriter
  <1>6. KnownInv' /\ NewInv'
    BY RefusedKnown, RefusedNew
  <1>7. AheadInv' /\ NowInv'
    BY RefusedOther, RefusedOwn DEF Writers
  <1>8. TreeInv'
    <2>1. w = "window" \/ Now \subseteq Now'
      BY RefusedBase DEF Writers
    <2> QED BY <1>0, <1>3, <1>4, <2>1, TakesUpTree
  <1>9. SingleInv'
    <2>1. Len(files'["main"].include) <= 1
      <3>1. CASE Current(w).kind # "include"
        BY <3>1, RefusedBase DEF Sure, SingleInv
      <3>2. CASE Current(w).kind = "include"
        <4>1. Switching /\ w = "window"
          BY <3>2, NowRefused
        <4>2. Current(w).file = "main"
          BY <1>1, <3>2 DEF Shaped, MainKinds
        <4> QED BY <1>1, <4>1, <4>2 DEF Sure, SingleInv
      <3> QED BY <3>1, <3>2
    <2>2. Switching' => Len(writer'["window"].text.include) <= 1
      BY RefusedBase DEF Sure, SingleInv
    <2> QED BY <2>1, <2>2 DEF SingleInv
  <1>10. ImportInv'
    <2>1. Base' = Base /\ (Ignored => Ignored') /\ (Adopted => Adopted')
      BY <1>1, RefusedBase, RefusedIgnored, RestartsSame
    <2>2. CASE w = "window"
      <3>1. "import" \in Writers \ {w}
        BY <2>2 DEF Writers
      <3>2. (At("import", "idle")' <=> At("import", "idle")) /\ Current("import")' = Current("import")
        BY <1>1, <3>1, RestartsSame
      <3> QED BY <1>1, <2>1, <3>2 DEF Sure, ImportInv
    <2>3. CASE w = "import"
      <3>1. CASE t = <<>>
        BY <1>5, <2>3, <3>1 DEF ImportInv, At
      <3>2. CASE \E x \in Edits : t = <<x>>
        <4>1. PICK x \in Edits : t = <<x>>
          BY <3>2
        <4>2. Current("import")' = x
          BY <1>5, <2>3, <4>1, CurrentNext
        <4>3. x \in ToSet(t)
          BY <4>1, TodoSets
        <4>4. Current(w).kind = "add" /\ x.file = Current(w).file
          <5>1. x.kind = "add" => x.file = Current(w).file
            BY <1>1, <4>3, UndoMembers
          <5>2. x.kind = "add"
            BY <1>1, <2>3, <4>3, UndoMembers
          <5> QED BY <1>1, <2>3, <5>1, <5>2
        <4>5. Ignored /\ (dir = "old" /\ ~Adopted => x.file \in Base)
          BY <1>2, <2>3, <4>4 DEF Sure, ImportInv
        <4> QED BY <1>1, <2>1, <4>2, <4>5 DEF ImportInv
      <3> QED BY <1>3, <3>1, <3>2
    <2> QED BY <2>2, <2>3 DEF Writers
  <1> QED BY <1>6, <1>7, <1>8, <1>9, <1>10 DEF Sure

-----------------------------------------------------------------------------
(* A file that is replaced.                                                *)

\* What a thread puts into a file, and what that leaves.
LEMMA ReplaceFacts ==
    ASSUME Ground, ~Lossy, NEW w \in Writers, Replace(w), ~Lossy'
    PROVE  /\ At(w, "replace") /\ ~At(w, "check") /\ Current(w) \in Edits /\ EditOK(Current(w)) /\ Shaped(Current(w))
           /\ Current(w).file \in ConfigFile /\ Current(w) \in ToSet(writer[w].todo) /\ Current(w).kind \in Kinds
           /\ Makes(Current(w), writer[w].text, writer[w].new)
           /\ w = "window" => WindowPlace(Current(w), dir)
           /\ w = "import" => Current(w).kind \in {"header", "add"} /\ ImportPlace(Current(w), dir)
           /\ files[Current(w).file] = writer[w].text /\ files'[Current(w).file] = writer[w].new
           /\ \A g \in ConfigFile \ {Current(w).file} : files'[g] = files[g]
           /\ writer[w].new.there
           /\ UNCHANGED <<known, tree, dir>>
           /\ \A v \in Writers \ {w} : At(v, "replace") \/ At(v, "check") => Current(v).file # Current(w).file
           /\ w = "import" => Current(w).file = "main" \/ ~FoldersMoving
           /\ Len(files'["main"].include) <= 1
  <1>0. ConfigBasics /\ ConfigTypes
    BY DEF Ground, ConfigBasics
  <1>1. At(w, "replace") /\ ~At(w, "check") /\ ~At(w, "idle") /\ ~At(w, "read")
    BY DEF Replace, At
  <1>2. /\ Current(w) \in Edits /\ EditOK(Current(w)) /\ Shaped(Current(w))
        /\ Current(w).file \in ConfigFile /\ Current(w) \in ToSet(writer[w].todo) /\ Current(w).kind \in Kinds
        /\ Makes(Current(w), writer[w].text, writer[w].new)
        /\ w = "window" => WindowPlace(Current(w), dir)
        /\ w = "import" => Current(w).kind \in {"header", "add"} /\ ImportPlace(Current(w), dir)
        /\ files[Current(w).file] = writer[w].text
    BY <1>1, AtEdit, HeldThere
  <1>3. files' = [files EXCEPT ![Current(w).file] = writer[w].new] /\ UNCHANGED <<known, tree, dir>>
    BY DEF Replace
  <1>4. files'[Current(w).file] = writer[w].new /\ \A g \in ConfigFile \ {Current(w).file} : files'[g] = files[g]
    BY <1>2, <1>3, NowType
  <1>5. writer[w].new.there
    BY <1>0, <1>1 DEF ConfigBasics, ThereInv
  <1>6. /\ "raced" \notin Mishap("raced", Races(w, Current(w).file))
        /\ w = "import" => "staleFolder" \notin Mishap("staleFolder", FoldersMoving /\ Current(w).file # "main")
        /\ "taken" \notin Mishap("taken", \/ Current(w).kind # "copy" /\ ~(Doubled(files') \subseteq Doubled(files))
                                          \/ Len(files'["main"].include) > 1)
    BY DEF Replace, Lossy, Stale
  <1>7. \A v \in Writers \ {w} : At(v, "replace") \/ At(v, "check") => Current(v).file # Current(w).file
    BY <1>6, NoRace
  <1>8. w = "import" => Current(w).file = "main" \/ ~FoldersMoving
    BY <1>6 DEF Mishap
  <1>9. Len(files'["main"].include) <= 1
    <2>1. ~(Len(files'["main"].include) > 1)
      BY <1>6 DEF Mishap
    <2>2. files' \in [ConfigFile -> Docs]
      <3>1. writer[w].new \in Docs
        BY <1>1, AtEdit
      <3> QED BY <1>2, <1>3, <3>1, NowType
    <2>3. Len(files'["main"].include) \in Nat
      BY <2>2, NowType DEF Docs
    <2> QED BY <2>1, <2>3
  <1> QED BY <1>1, <1>2, <1>3, <1>4, <1>5, <1>7, <1>8, <1>9

\* What the threads are at, then.
LEMMA ReplaceWriters ==
    ASSUME ConfigTypes, NEW w \in Writers, Replace(w)
    PROVE  /\ writer'[w].todo = writer[w].todo /\ writer'[w].step = "check"
           /\ writer'[w].text = writer[w].text /\ writer'[w].new = writer[w].new
           /\ \A v \in Writers : Current(v)' = Current(v) /\ writer'[v].todo = writer[v].todo
           /\ \A v \in Writers : writer'[v].text = writer[v].text /\ writer'[v].new = writer[v].new
           /\ \A v \in Writers \ {w} : /\ writer'[v] = writer[v] /\ (Refusable(v)' <=> Refusable(v))
                                       /\ \A s : At(v, s)' <=> At(v, s)
           /\ At(w, "check")' /\ ~At(w, "idle")' /\ ~At(w, "read")' /\ ~At(w, "compare")' /\ ~At(w, "replace")'
           /\ \A a : Deleted(a) => Deleted(a)'
           /\ Adopted => Adopted'
           /\ w = "window" => ~Switching /\ (Switching' <=> Current(w).kind = "include" /\ Current(w).check = "hosts")
           /\ w = "import" => (Switching' <=> Switching) /\ (Removing' <=> Removing)
  <1>1. /\ writer'[w].todo = writer[w].todo /\ writer'[w].step = "check"
        /\ writer'[w].text = writer[w].text /\ writer'[w].new = writer[w].new
        /\ \A v \in Writers \ {w} : writer'[v] = writer[v]
    BY NextWriter DEF Replace
  <1>2. \A v \in Writers : /\ Current(v)' = Current(v) /\ writer'[v].todo = writer[v].todo
                           /\ writer'[v].text = writer[v].text /\ writer'[v].new = writer[v].new
    BY <1>1 DEF Current
  <1>3. \A v \in Writers \ {w} : /\ writer'[v] = writer[v] /\ (Refusable(v)' <=> Refusable(v))
                                 /\ \A s : At(v, s)' <=> At(v, s)
    BY <1>1, <1>2 DEF Refusable, At
  <1>4. At(w, "check")' /\ ~At(w, "idle")' /\ ~At(w, "read")' /\ ~At(w, "compare")' /\ ~At(w, "replace")'
    BY <1>1 DEF At
  <1>5. ~At(w, "check")
    BY DEF Replace, At
  <1>6. \A a : Deleted(a) => Deleted(a)'
    BY <1>2, <1>3, <1>5 DEF Deleted, Pending
  <1>7. Adopted => Adopted'
    BY <1>2, <1>3, <1>5 DEF Adopted
  <1>8. w = "window" => ~Switching /\ (Switching' <=> Current(w).kind = "include" /\ Current(w).check = "hosts")
    BY <1>2, <1>4, <1>5 DEF Switching
  <1>9. w = "import" => (Switching' <=> Switching) /\ (Removing' <=> Removing)
    <2> SUFFICES ASSUME w = "import" PROVE (Switching' <=> Switching) /\ (Removing' <=> Removing)
      OBVIOUS
    <2>1. "window" \in Writers \ {w}
      BY DEF Writers
    <2>2. Current("window")' = Current("window") /\ (At("window", "check")' <=> At("window", "check"))
      BY <1>2, <1>3, <2>1
    <2> QED BY <2>2 DEF Switching, Removing
  <1> QED BY <1>1, <1>2, <1>3, <1>4, <1>6, <1>7, <1>8, <1>9

\* Which files ssh reads, and would read, once a file was replaced.
LEMMA ReplaceBase ==
    ASSUME Ground, ~Lossy, NEW w \in Writers, Replace(w), ~Lossy'
    PROVE  /\ Current(w).kind # "include" => Now \subseteq Now' /\ Base \subseteq Base'
           /\ Current(w).kind \notin {"include", "header"} => Now' = Now
           /\ Current(w).kind \notin {"include", "header"} => Base' = Base
           /\ Current(w).kind = "header" => Now' = Now \cup {Current(w).to} /\ Base' = Base \cup {Current(w).to}
           /\ Current(w).kind = "include" => /\ w = "window" /\ Now' = (Now \ {"old"}) \cup {"new"}
                                             /\ Base = Now
                                             /\ Current(w).check = "hosts" => Base' = Base
                                             /\ Current(w).check = "parse" => Adopted'
           /\ Switching' => \/ w = "import" /\ Switching /\ writer'["window"] = writer["window"]
                            \/ /\ w = "window" /\ Current(w).kind = "include"
                               /\ writer'["window"].text = files["main"]
  <1>0. ConfigTypes
    BY DEF Ground, ConfigBasics
  <1>1. /\ Current(w).kind = "header" => Now' = Now \cup {Current(w).to}
        /\ Current(w).kind = "include" => Now' = (Now \ {"old"}) \cup {"new"} /\ w = "window"
        /\ Current(w).kind \notin {"header", "include"} => Now' = Now
    BY NowReplace
  <1>2. /\ At(w, "replace") /\ EditOK(Current(w)) /\ Shaped(Current(w)) /\ files[Current(w).file] = writer[w].text
        /\ \A v \in Writers \ {w} : At(v, "replace") \/ At(v, "check") => Current(v).file # Current(w).file
    BY ReplaceFacts
  <1>3. /\ writer'[w].text = writer[w].text /\ Current(w)' = Current(w) /\ At(w, "check")'
        /\ \A v \in Writers \ {w} : writer'[v] = writer[v]
        /\ w = "window" => ~Switching /\ (Switching' <=> Current(w).kind = "include" /\ Current(w).check = "hosts")
        /\ w = "import" => (Switching' <=> Switching)
    BY <1>0, ReplaceWriters
  <1>4. Current(w).kind \in {"header", "include"} => Current(w).file = "main"
    BY <1>2 DEF Shaped, MainKinds
  <1>5. w = "import" => writer'["window"] = writer["window"]
    BY <1>3 DEF Writers
  <1>6. Current(w).kind \notin {"include", "header"} => Now' = Now /\ Base' = Base
    BY <1>1, <1>3, <1>5 DEF Base, Writers
  <1>7. ASSUME Current(w).kind = "header"
        PROVE  Now' = Now \cup {Current(w).to} /\ Base' = Base \cup {Current(w).to}
    <2>1. ~Switching
      <3>1. ASSUME Switching PROVE FALSE
        <4>1. At("window", "check") /\ Current("window").file = "main" /\ "window" \in Writers /\ w # "window"
          BY <1>3, <3>1, SwitchingNow
        <4> QED BY <1>2, <1>4, <1>7, <4>1
      <3> QED BY <3>1
    <2>2. ~Switching'
      BY <1>3, <1>7, <2>1 DEF Writers
    <2> QED BY <1>1, <1>7, <2>1, <2>2 DEF Base
  <1>8. ASSUME Current(w).kind = "include"
        PROVE  /\ w = "window" /\ Now' = (Now \ {"old"}) \cup {"new"}
               /\ Base = Now
               /\ Current(w).check = "hosts" => Base' = Base
               /\ Current(w).check = "parse" => Adopted'
    <2>1. w = "window" /\ ~Switching /\ Base = Now
      BY <1>1, <1>3, <1>8 DEF Base
    <2>2. ASSUME Current(w).check = "hosts" PROVE Base' = Base
      <3>1. Switching' /\ writer'["window"].text = files["main"]
        BY <1>2, <1>3, <1>4, <1>8, <2>1, <2>2
      <3>2. Base' = {"main"} \cup ToSet(files["main"].include)
        BY <3>1 DEF Base
      <3> QED BY <2>1, <3>2, NowType
    <2>3. Current(w).check = "parse" => Adopted'
      BY <1>3, <1>8 DEF Adopted
    <2> QED BY <1>1, <1>8, <2>1, <2>2, <2>3
  <1>9. Switching' => \/ w = "import" /\ Switching /\ writer'["window"] = writer["window"]
                      \/ /\ w = "window" /\ Current(w).kind = "include"
                         /\ writer'["window"].text = files["main"]
    BY <1>2, <1>3, <1>4, <1>5 DEF Writers
  <1> QED BY <1>6, <1>7, <1>8, <1>9

\* Each host is still held.
LEMMA ReplaceKnown ==
    ASSUME Ground, ~Lossy, Sure, NEW w \in Writers, Replace(w), ~Lossy'
    PROVE  KnownInv'
  <1>0. ConfigTypes
    BY DEF Ground, ConfigBasics
  <1>1. /\ At(w, "replace") /\ ~At(w, "check") /\ EditOK(Current(w)) /\ Shaped(Current(w)) /\ Current(w) \in Edits
        /\ w = "window" => WindowPlace(Current(w), dir)
        /\ w = "import" => Current(w).kind \in {"header", "add"}
        /\ \A g \in ConfigFile \ {Current(w).file} : files'[g] = files[g]
        /\ UNCHANGED <<known, tree, dir>>
    BY ReplaceFacts
  <1>2. /\ \A a : Deleted(a) => Deleted(a)'
        /\ Adopted => Adopted'
        /\ At(w, "check")' /\ Current(w)' = Current(w)
        /\ \A v \in Writers : Current(v)' = Current(v)
        /\ \A v \in Writers \ {w} : Refusable(v)' <=> Refusable(v)
    BY <1>0, ReplaceWriters
  <1> SUFFICES ASSUME NEW a \in Alias, known'[a] # Gone PROVE Kept(a)'
    BY DEF KnownInv
  <1>3. Kept(a)
    BY <1>1 DEF Sure, KnownInv
  <1>4. CASE Deleted(a) \/ Adopted
    BY <1>2, <1>4 DEF Kept
  <1>5. CASE ~Deleted(a) /\ ~Adopted
    <2>1. PICK f \in Now : Holds(a, f)
      BY <1>3, <1>5 DEF Kept
    <2>2. PICK g \in Base : Holds(a, g)
      BY <1>3, <1>5 DEF Kept
    <2>3. ~At(w, "idle")
      BY <1>1 DEF At
    <2>4. CASE Current(w).kind \in TakeKinds /\ Current(w).alias = a
      <3>1. w = "window"
        BY <1>1, <2>4 DEF TakeKinds, Writers
      <3>2. CASE Current(w).kind = "delete"
        <4>1. Deleted(a)'
          BY <1>2, <2>4, <3>2 DEF Deleted, Pending
        <4> QED BY <4>1 DEF Kept
      <3>3. CASE Current(w).kind \in {"remove", "withdraw"}
        <4>0. PICK e \in Edits : e = Current(w)
          BY <1>1
        <4>1. RemoveNow(e) /\ WithdrawNow(e) /\ ~At("window", "check") /\ EditOK(e)
          BY <1>1, <2>3, <3>1, <4>0 DEF Sure, NowInv
        <4>2. PICK h \in Now : h # e.file /\ Holds(a, h)
          <5>1. CASE e.kind = "withdraw"
            BY <2>4, <4>0, <4>1, <5>1 DEF WithdrawNow
          <5>2. CASE e.kind = "remove"
            <6>1. PICK x \in Edits : e.undo = <<x>> /\ x.file # e.file
              BY <4>1, <5>2 DEF EditOK
            <6>2. e.undo[1] = x
              BY <6>1
            <6>3. x.file \in Now /\ Holds(a, x.file)
              BY <2>4, <4>0, <4>1, <5>2, <6>2 DEF RemoveNow
            <6> QED BY <6>1, <6>3
          <5> QED BY <3>3, <4>0, <5>1, <5>2
        <4>3. Holds(a, h)'
          BY <4>0, <4>2, HoldsReplace
        <4>4. Now' = Now
          BY <3>3, ReplaceBase
        <4>5. Base' = Now'
          <5>1. ~Switching /\ ~Switching'
            BY <1>0, <3>1, <3>3, ReplaceWriters
          <5> QED BY <5>1 DEF Base
        <4> QED BY <4>2, <4>3, <4>4, <4>5 DEF Kept
      <3> QED BY <2>4, <3>2, <3>3 DEF TakeKinds
    <2>5. CASE ~(Current(w).kind \in TakeKinds /\ Current(w).alias = a)
      <3>1. Holds(a, f)' /\ Holds(a, g)'
        BY <2>1, <2>2, <2>5, HoldsReplace
      <3>2. CASE Current(w).kind # "include"
        BY <2>1, <2>2, <3>1, <3>2, ReplaceBase DEF Kept
      <3>3. CASE Current(w).kind = "include" /\ Current(w).check = "parse"
        BY <3>3, ReplaceBase DEF Kept
      <3>4. CASE Current(w).kind = "include" /\ Current(w).check # "parse"
        <4>1. w = "window" /\ Current(w).check = "hosts" /\ Current(w).file = "main" /\ dir = "old"
          BY <1>1, <3>4, ReplaceBase DEF EditOK, Shaped, MainKinds, WindowPlace
        <4>2. g \in Base'
          BY <2>2, <3>4, <4>1, ReplaceBase
        <4>3. Now' = (Now \ {"old"}) \cup {"new"}
          BY <3>4, ReplaceBase
        <4>4. CASE f # "old"
          BY <2>1, <3>1, <4>2, <4>3, <4>4 DEF Kept
        <4>5. CASE f = "old"
          <5>1. IncludeNow(Current(w))
            BY <2>3, <4>1 DEF Sure, NowInv
          <5>2. Hosts(files["old"]) \subseteq Hosts(files["new"])
            BY <1>1, <3>4, <4>1, <5>1 DEF IncludeNow
          <5>3. a \in Hosts(files'["new"])
            BY <1>1, <2>1, <4>1, <4>5, <5>2, NowType DEF Holds
          <5>4. ASSUME NEW v \in Writers, Refusable(v)', Current(v)'.file = "new" PROVE FALSE
            <6>1. v # w
              BY <1>2, <4>1, <5>4
            <6>2. v = "import" /\ Refusable(v) /\ Current(v).file = "new"
              BY <1>2, <4>1, <5>4, <6>1 DEF Writers
            <6> QED BY <4>1, <6>2, ImportRefusable
          <5>5. Holds(a, "new")'
            BY <5>3, <5>4 DEF Holds
          <5> QED BY <3>1, <4>2, <4>3, <5>5 DEF Kept
        <4> QED BY <4>4, <4>5
      <3> QED BY <3>2, <3>3, <3>4
    <2> QED BY <2>4, <2>5
  <1> QED BY <1>4, <1>5

\* What ssh reads is there, and is one folder file.
LEMMA ReplaceFolders ==
    ASSUME Ground, ~Lossy, Sure, NEW w \in Writers, Replace(w), ~Lossy'
    PROVE  SingleInv' /\ TreeInv' /\ NewInv'
  <1>0. ConfigTypes
    BY DEF Ground, ConfigBasics
  <1>1. /\ At(w, "replace") /\ ~At(w, "check") /\ EditOK(Current(w)) /\ Shaped(Current(w))
        /\ Current(w).file \in ConfigFile /\ Current(w) \in ToSet(writer[w].todo)
        /\ w = "window" => WindowPlace(Current(w), dir)
        /\ w = "import" => Current(w).kind \in {"header", "add"} /\ ImportPlace(Current(w), dir)
        /\ files'[Current(w).file] = writer[w].new
        /\ \A g \in ConfigFile \ {Current(w).file} : files'[g] = files[g]
        /\ writer[w].new.there
        /\ UNCHANGED <<known, tree, dir>>
        /\ Len(files'["main"].include) <= 1
    BY ReplaceFacts
  <1>2. SingleInv'
    BY <1>1, ReplaceBase DEF Sure, SingleInv
  <1>3. TreeInv'
    <2>1. CASE w = "window"
      <3>1. ~At("window", "idle")'
        BY <1>0, <2>1, ReplaceWriters
      <3> QED BY <3>1 DEF TreeInv
    <2>2. CASE w = "import"
      <3>1. "window" \in Writers \ {w}
        BY <2>2 DEF Writers
      <3>2. At("window", "idle")' <=> At("window", "idle")
        BY <1>0, <3>1, ReplaceWriters
      <3>3. Now \subseteq Now'
        BY <1>1, <2>2, ReplaceBase
      <3> QED BY <1>1, <3>2, <3>3 DEF Sure, TreeInv
    <2> QED BY <2>1, <2>2 DEF Writers
  <1>4. NewInv'
    <2> SUFFICES ASSUME "new" \in Now', dir # "new" PROVE files'["new"].there
      BY <1>1 DEF NewInv
    <2>1. files["new"].there => files'["new"].there
      BY <1>1, NowType
    <2>2. CASE "new" \in Now
      BY <2>1, <2>2 DEF Sure, NewInv
    <2>3. CASE "new" \notin Now
      <3>1. CASE Current(w).kind = "include"
        <4>1. w = "window"
          BY <3>1, ReplaceBase
        <4>2. Ahead(Current(w)) /\ IncludeNow(Current(w))
          <5>1. ~At("window", "idle")
            BY <1>1, <4>1 DEF At
          <5> QED BY <1>1, <4>1, <5>1 DEF Sure, AheadInv, NowInv
        <4>3. files["new"].there
          BY <1>1, <3>1, <4>2 DEF Ahead, AdoptOK, IncludeNow, EditOK
        <4> QED BY <2>1, <4>3
      <3>2. CASE Current(w).kind = "header"
        <4>1. Current(w).to = "new"
          BY <2>3, <3>2, ReplaceBase
        <4> QED BY <1>1, <3>2, <4>1 DEF WindowPlace, ImportPlace, Writers
      <3>3. CASE Current(w).kind \notin {"include", "header"}
        BY <2>3, <3>3, ReplaceBase
      <3> QED BY <3>1, <3>2, <3>3
    <2> QED BY <2>2, <2>3
  <1> QED BY <1>2, <1>3, <1>4

\* What an import needs.
LEMMA ReplaceImport ==
    ASSUME Ground, ~Lossy, Sure, NEW w \in Writers, Replace(w), ~Lossy'
    PROVE  ImportInv'
  <1>0. ConfigTypes
    BY DEF Ground, ConfigBasics
  <1>1. /\ At(w, "replace") /\ Shaped(Current(w)) /\ Current(w).kind \in Kinds
        /\ Makes(Current(w), writer[w].text, writer[w].new) /\ EditOK(Current(w))
        /\ files[Current(w).file] = writer[w].text /\ files'[Current(w).file] = writer[w].new
        /\ \A g \in ConfigFile \ {Current(w).file} : files'[g] = files[g]
        /\ UNCHANGED <<known, tree, dir>>
    BY ReplaceFacts
  <1>2. /\ \A v \in Writers : Current(v)' = Current(v) /\ writer'[v].text = writer[v].text
        /\ \A v \in Writers \ {w} : /\ (Refusable(v)' <=> Refusable(v))
                                    /\ \A s : At(v, s)' <=> At(v, s)
        /\ ~At(w, "idle")' /\ ~At(w, "idle")
        /\ Adopted => Adopted'
    BY <1>0, <1>1, ReplaceWriters DEF At
  <1>3. "import" \in Writers
    BY DEF Writers
  <1>4. (At("import", "idle")' <=> At("import", "idle")) /\ Current("import")' = Current("import")
    BY <1>2, <1>3
  <1>5. ASSUME Ignored PROVE Ignored'
    <2>1. files'["main"].ignore
      <3>1. CASE Current(w).file # "main"
        BY <1>1, <1>5, <3>1, NowType DEF Ignored
      <3>2. CASE Current(w).file = "main"
        <4>1. Current(w).kind \notin NewKinds
          BY <1>1, <3>2 DEF Shaped, Folders
        <4>2. writer[w].new.ignore
          BY <1>1, <1>5, <3>2, <4>1 DEF Makes, HeadMade, Ignored
        <4> QED BY <1>1, <3>2, <4>2
      <3> QED BY <3>1, <3>2
    <2>2. ASSUME NEW v \in Writers, Refusable(v)', Current(v)'.file = "main" PROVE writer'[v].text.ignore
      <3>1. CASE v = w
        BY <1>1, <1>2, <1>5, <2>2, <3>1 DEF Ignored
      <3>2. CASE v # w
        BY <1>2, <1>5, <2>2, <3>2 DEF Ignored
      <3> QED BY <3>1, <3>2
    <2> QED BY <2>1, <2>2 DEF Ignored
  <1>6. ASSUME ~Adopted' PROVE Base \subseteq Base' /\ ~Adopted
    <2>1. CASE Current(w).kind # "include"
      BY <1>2, <1>6, <2>1, ReplaceBase
    <2>2. CASE Current(w).kind = "include"
      <3>1. Current(w).check = "hosts"
        BY <1>1, <1>6, <2>2, ReplaceBase DEF EditOK
      <3> QED BY <1>2, <1>6, <2>2, <3>1, ReplaceBase
    <2> QED BY <2>1, <2>2
  <1> QED BY <1>1, <1>4, <1>5, <1>6 DEF Sure, ImportInv

\* Only what takes a host out takes a host out.
LEMMA ReplaceMore ==
    ASSUME Ground, ~Lossy, NEW w \in Writers, Replace(w), ~Lossy', Current(w).kind \notin TakeKinds,
           NEW f \in ConfigFile
    PROVE  Hosts(files[f]) \subseteq Hosts(files'[f])
  <1>1. /\ Makes(Current(w), writer[w].text, writer[w].new) /\ Current(w).kind \in Kinds
        /\ files[Current(w).file] = writer[w].text /\ files'[Current(w).file] = writer[w].new
        /\ \A g \in ConfigFile \ {Current(w).file} : files'[g] = files[g]
    BY ReplaceFacts
  <1>2. CASE f # Current(w).file
    BY <1>1, <1>2
  <1>3. CASE f = Current(w).file
    <2>1. Hosts(writer[w].text) \subseteq Hosts(writer[w].new)
      BY <1>1 DEF Makes, HostsMade, Kinds, HostKinds, MainKinds, NewKinds, TakeKinds
    <2> QED BY <1>1, <1>3, <2>1
  <1> QED BY <1>2, <1>3

\* What the window has ahead of it.
LEMMA ReplaceAhead ==
    ASSUME Ground, ~Lossy, Sure, NEW w \in Writers, Replace(w), ~Lossy'
    PROVE  AheadInv'
  <1>0. ConfigTypes /\ "window" \in Writers
    BY DEF Ground, ConfigBasics, Writers
  <1>1. /\ At(w, "replace") /\ EditOK(Current(w)) /\ Shaped(Current(w)) /\ Current(w) \in Edits
        /\ w = "window" => WindowPlace(Current(w), dir)
        /\ w = "import" => Current(w).kind \in {"header", "add"} /\ ImportPlace(Current(w), dir)
        /\ files'[Current(w).file] = writer[w].new
        /\ \A g \in ConfigFile \ {Current(w).file} : files'[g] = files[g]
        /\ writer[w].new.there
        /\ UNCHANGED <<known, tree, dir>>
    BY ReplaceFacts
  <1>2. writer'["window"].todo = writer["window"].todo /\ Current("window")' = Current("window")
    BY <1>0, ReplaceWriters
  <1> SUFFICES ASSUME NEW e \in ToSet(writer["window"].todo) PROVE Ahead(e)'
    BY <1>2 DEF AheadInv
  <1>3. Ahead(e) /\ WindowPlace(e, dir)
    BY <1>0 DEF Sure, AheadInv, Ground, TodoInv, TodoOK
  <1>4. ASSUME w = "window", Current(w).kind \in TakeKinds \cup {"include"} PROVE e = Current(w)
    <2>1. ~At(w, "idle")
      BY <1>1 DEF At
    <2>2. /\ writer[w].todo # <<>> /\ writer[w].todo \in Seq(Edits) /\ Current(w) = Head(writer[w].todo)
          /\ WindowTodo(writer[w].todo)
      BY <1>4, <2>1, AtEdit
    <2>3. Tail(writer[w].todo) = <<>>
      BY <1>4, <2>2, WindowTodoParts DEF TakeKinds
    <2>4. ToSet(writer[w].todo) = {Current(w)} \cup ToSet(Tail(writer[w].todo))
      BY <2>2, SetOfRest
    <2>5. e = Current(w) \/ e \in ToSet(Tail(writer[w].todo))
      BY <1>4, <2>4
    <2> QED BY <2>3, <2>5 DEF ToSet
  <1>5. Current(w).kind \in TakeKinds \cup {"include"} => w = "window"
    BY <1>1 DEF TakeKinds, Writers
  <1>6. NewOK(e)'
    BY <1>1, <1>3 DEF Ahead, NewOK
  <1>7. DeleteOK(e)'
    <2>1. Current(w).kind # "include" => Now \subseteq Now'
      BY ReplaceBase
    <2> QED BY <1>3, <1>4, <1>5, <2>1 DEF Ahead, DeleteOK
  <1>8. RemoveOK(e)'
    <2> SUFFICES ASSUME e.kind = "remove" PROVE RemoveOK(e)'
      BY DEF RemoveOK
    <2>1. Current(w).kind # "include"
      BY <1>4, <1>5
    <2>2. e.file \in Now'
      BY <1>3, <2>1, ReplaceBase DEF Ahead, RemoveOK
    <2>3. CASE w = "window" /\ Current(w).kind = "remove"
      <3>1. Removing'
        BY <1>0, <2>3, ReplaceWriters DEF Removing
      <3> QED BY <2>2, <3>1 DEF RemoveOK
    <2>4. CASE ~(w = "window" /\ Current(w).kind = "remove")
      <3>1. Current(w).kind \notin TakeKinds
        BY <1>4, <1>5, <2>4
      <3>2. ~Removing' => ~Removing
        <4>1. CASE w = "import"
          BY <1>0, <4>1, ReplaceWriters
        <4>2. CASE w = "window"
          BY <2>4, <4>2 DEF Removing
        <4> QED BY <4>1, <4>2 DEF Writers
      <3>3. e.file \in ConfigFile
        BY <1>3, NowType DEF Ahead, RemoveOK
      <3>4. Hosts(files[e.file]) \subseteq Hosts(files'[e.file])
        BY <3>1, <3>3, ReplaceMore
      <3> QED BY <1>3, <2>2, <3>2, <3>4 DEF Ahead, RemoveOK
    <2> QED BY <2>3, <2>4
  <1>9. AdoptOK(e)'
    <2>1. files["new"].there => files'["new"].there
      BY <1>1, NowType
    <2> QED BY <1>3, <2>1 DEF Ahead, AdoptOK
  <1>10. FoldersOK(e)'
    <2> SUFFICES ASSUME e.kind \in {"clone", "drop"} \/ (e.kind = "include" /\ e.check = "hosts")
                 PROVE  "new" \notin Base'
      BY DEF FoldersOK
    <2>1. "new" \notin Base /\ dir = "old"
      BY <1>3 DEF Ahead, FoldersOK, WindowPlace
    <2>2. CASE Current(w).kind = "header"
      <3>1. Current(w).to # "new"
        BY <1>1, <2>1, <2>2 DEF WindowPlace, ImportPlace, Writers
      <3>2. Base' = Base \cup {Current(w).to}
        BY <2>2, ReplaceBase
      <3> QED BY <2>1, <3>1, <3>2
    <2>3. CASE Current(w).kind = "include"
      <3>1. e = Current(w)
        BY <1>4, <1>5, <2>3
      <3>2. Base' = Base
        BY <2>3, <3>1, ReplaceBase
      <3> QED BY <2>1, <3>2
    <2>4. CASE Current(w).kind \notin {"include", "header"}
      BY <2>1, <2>4, ReplaceBase
    <2> QED BY <2>2, <2>3, <2>4
  <1> QED BY <1>6, <1>7, <1>8, <1>9, <1>10 DEF Ahead

\* The window has replaced its file.
LEMMA ReplaceOwnNow ==
    ASSUME Ground, ~Lossy, Sure, Replace("window"), ~Lossy'
    PROVE  NowInv'
  <1> DEFINE w == "window"
  <1>0. ConfigTypes /\ w \in Writers
    BY DEF Ground, ConfigBasics, Writers
  <1>1. /\ At(w, "replace") /\ EditOK(Current(w)) /\ Current(w) \in Edits /\ Shaped(Current(w))
        /\ \A g \in ConfigFile \ {Current(w).file} : files'[g] = files[g]
    BY <1>0, ReplaceFacts
  <1>2. /\ At(w, "check")' /\ ~At(w, "compare")' /\ ~At(w, "replace")' /\ Current(w)' = Current(w)
        /\ writer'[w].new = writer[w].new
    BY <1>0, ReplaceWriters
  <1>3. PICK e \in Edits : e = Current(w)
    BY <1>1
  <1>4. ~At(w, "idle") /\ ~At(w, "read") /\ ~At(w, "check")
    BY <1>1 DEF At
  <1>5. CopyNow(e) /\ RemoveNow(e) /\ WithdrawNow(e) /\ CloneNow(e) /\ IncludeNow(e)
    BY <1>3, <1>4 DEF Sure, NowInv
  <1>6. e.kind \in {"copy", "remove"} => Now' = Now
    BY <1>0, <1>3, ReplaceBase
  <1>7. CopyNow(e)'
    BY <1>5, <1>6 DEF CopyNow
  <1>8. RemoveNow(e)'
    <2> SUFFICES ASSUME e.kind = "remove" PROVE RemoveNow(e)'
      BY DEF RemoveNow
    <2>1. PICK x \in Edits : e.undo = <<x>> /\ x.file # e.file
      BY <1>1, <1>3 DEF EditOK
    <2>2. e.undo[1] = x
      BY <2>1
    <2>3. x.file \in Now /\ e.alias \in Hosts(files[x.file])
      BY <1>5, <2>2 DEF RemoveNow
    <2>4. files'[x.file] = files[x.file]
      BY <1>1, <1>3, <2>1, <2>3, NowType
    <2> QED BY <1>2, <1>6, <2>2, <2>3, <2>4 DEF RemoveNow
  <1>9. WithdrawNow(e)'
    BY <1>2 DEF WithdrawNow
  <1>10. CloneNow(e)'
    <2> SUFFICES ASSUME e.kind = "clone" PROVE CloneNow(e)'
      BY DEF CloneNow
    <2>1. e.file = "new"
      BY <1>1, <1>3 DEF EditOK
    <2>2. files'["old"] = files["old"]
      BY <1>1, <1>3, <2>1, NowType
    <2> QED BY <1>2, <1>4, <1>5, <2>2 DEF CloneNow
  <1>11. IncludeNow(e)'
    <2> SUFFICES ASSUME e.kind = "include" PROVE IncludeNow(e)'
      BY DEF IncludeNow
    <2>1. e.file = "main"
      BY <1>1, <1>3 DEF Shaped, MainKinds
    <2>2. files'["new"] = files["new"]
      BY <1>1, <1>3, <2>1, NowType
    <2> QED BY <1>2, <1>5, <2>2 DEF IncludeNow
  <1> QED BY <1>2, <1>3, <1>7, <1>8, <1>9, <1>10, <1>11, NowOf

\* The import has replaced its file.
LEMMA ReplaceOtherNow ==
    ASSUME Ground, ~Lossy, Sure, Replace("import"), ~Lossy'
    PROVE  NowInv'
  <1> DEFINE w == "import"
  <1>0. ConfigTypes /\ w \in Writers /\ "window" \in Writers \ {w}
    BY DEF Ground, ConfigBasics, Writers
  <1>1. /\ Current(w).kind \in {"header", "add"} /\ files[Current(w).file] = writer[w].text
        /\ \A g \in ConfigFile \ {Current(w).file} : files'[g] = files[g]
        /\ Current(w).file = "main" \/ ~FoldersMoving
    BY <1>0, ReplaceFacts
  <1>2. /\ Current("window")' = Current("window") /\ writer'["window"] = writer["window"]
        /\ \A s : At("window", s)' <=> At("window", s)
        /\ Current(w)' = Current(w) /\ writer'[w].text = writer[w].text
    BY <1>0, ReplaceWriters
  <1> SUFFICES ASSUME ~At("window", "idle") PROVE NowInv'
    BY <1>2 DEF NowInv
  <1>3. /\ Current("window") \in Edits /\ Current("window") \in ToSet(writer["window"].todo)
        /\ writer["window"].todo # <<>> /\ writer["window"].todo \in Seq(Edits)
        /\ Current("window") = Head(writer["window"].todo) /\ WindowTodo(writer["window"].todo)
    BY <1>0, AtEdit
  <1>4. PICK e \in Edits : e = Current("window")
    BY <1>3
  <1>5. CopyNow(e) /\ RemoveNow(e) /\ WithdrawNow(e) /\ CloneNow(e) /\ IncludeNow(e) /\ Ahead(e)
    BY <1>3, <1>4 DEF Sure, NowInv, AheadInv
  <1>6. Now \subseteq Now' /\ Now \subseteq ConfigFile
    BY <1>0, <1>1, ReplaceBase, NowType
  <1>7. \A f \in ConfigFile : Hosts(files[f]) \subseteq Hosts(files'[f])
    BY <1>0, <1>1, ReplaceMore DEF TakeKinds
  <1>8. \A a, f : Holds(a, f) => Holds(a, f)'
    BY <1>0, <1>1, HoldsReplace DEF TakeKinds
  <1>9. CopyNow(e)'
    BY <1>5, <1>6 DEF CopyNow
  <1>10. RemoveNow(e)'
    <2> SUFFICES ASSUME e.kind = "remove" PROVE RemoveNow(e)'
      BY DEF RemoveNow
    <2>1. e.undo[1].file \in Now /\ e.alias \in Hosts(files[e.undo[1].file])
      BY <1>5 DEF RemoveNow
    <2>2. e.undo[1].file \in Now' /\ e.alias \in Hosts(files'[e.undo[1].file])
      BY <1>6, <1>7, <2>1
    <2>3. ~At("window", "check")' => Holds(e.alias, e.undo[1].file)'
      BY <1>2, <1>5, <1>8 DEF RemoveNow
    <2>4. ASSUME At("window", "compare")' \/ At("window", "replace")',
                 Current("import")'.file = e.file, e.alias \notin Hosts(writer'["import"].text)
          PROVE  FALSE
      <3>1. ~Removing
        BY <1>2, <2>4 DEF Removing, At
      <3>2. e.alias \in Hosts(files[e.file])
        BY <1>5, <3>1 DEF Ahead, RemoveOK
      <3> QED BY <1>1, <1>2, <2>4, <3>2
    <2> QED BY <2>2, <2>3, <2>4 DEF RemoveNow
  <1>11. WithdrawNow(e)'
    BY <1>2, <1>5, <1>6, <1>7, <1>8 DEF WithdrawNow
  <1>12. ASSUME e.kind = "clone" \/ (e.kind = "include" /\ e.check = "hosts")
         PROVE  files'["old"] = files["old"] /\ files'["new"] = files["new"]
    <2>1. FoldersMoving
      <3>1. CASE e.kind = "include"
        BY <1>3, <1>4, <1>12, <3>1 DEF FoldersMoving
      <3>2. CASE e.kind = "clone"
        <4>1. PICK r \in Edits : Tail(writer["window"].todo) = <<r>> /\ r.kind = "include" /\ r.check = "hosts"
          BY <1>3, <1>4, <3>2, WindowTodoParts
        <4>2. r \in ToSet(Tail(writer["window"].todo))
          BY <4>1, TodoSets
        <4>3. r \in ToSet(writer["window"].todo)
          BY <1>3, <4>2, SetOfRest
        <4> QED BY <4>1, <4>3 DEF FoldersMoving
      <3> QED BY <1>12, <3>1, <3>2
    <2>2. Current(w).file = "main"
      BY <1>1, <2>1
    <2> QED BY <1>1, <2>2, NowType
  <1>13. CloneNow(e)'
    BY <1>2, <1>5, <1>12 DEF CloneNow
  <1>14. IncludeNow(e)'
    BY <1>2, <1>5, <1>12 DEF IncludeNow
  <1> QED BY <1>2, <1>4, <1>9, <1>10, <1>11, <1>13, <1>14, NowOf

\* A file that is replaced.
LEMMA ReplaceSure ==
    ASSUME Ground, ~Lossy, Sure, NEW w \in Writers, Replace(w), ~Lossy'
    PROVE  Sure'
  <1>1. KnownInv' /\ SingleInv' /\ TreeInv' /\ NewInv' /\ ImportInv' /\ AheadInv'
    BY ReplaceKnown, ReplaceFolders, ReplaceImport, ReplaceAhead
  <1>2. NowInv'
    BY ReplaceOwnNow, ReplaceOtherNow DEF Writers
  <1> QED BY <1>1, <1>2 DEF Sure

-----------------------------------------------------------------------------
(* What others write.                                                      *)

\* Others change a host in a file that ssh reads and no thread is writing, or
\* take it away.
OthersChange(f, a, d, gone) ==
    /\ files'[f] = d /\ \A g \in ConfigFile \ {f} : files'[g] = files[g]
    /\ SameHead(files[f], d) /\ d.there
    /\ \A b \in Alias \ {a} : b \in Hosts(d) <=> b \in Hosts(files[f])
    /\ gone => known'[a] = Gone /\ ~Moving(a)
    /\ ~gone => a \in Hosts(d)
    /\ \A b \in Alias \ {a} : known'[b] = known[b]
    /\ \A v \in Writers : At(v, "replace") \/ At(v, "check") => Current(v).file # f
    /\ a \notin Doubled(files)
    /\ f = "main" \/ ~FoldersMoving

\* It is such a change, where it excuses no loss.
LEMMA OthersFacts ==
    ASSUME Ground, OthersWrite, ~Lossy'
    PROVE  /\ UNCHANGED <<tree, dir, writer>>
           /\ \E f \in Now, a \in Alias, d \in Docs, gone \in BOOLEAN : OthersChange(f, a, d, gone)
  <1>0. ConfigBasics
    BY DEF Ground
  <1>1. UNCHANGED <<tree, dir, writer>>
    BY OthersCases
  <1>2. PICK f \in Now, a \in Alias : Renamed(f, a) \/ TakenAway(f, a) \/ AddedBy(f, a)
    BY OthersCases DEF Now
  <1>3. f \in ConfigFile /\ files \in [ConfigFile -> Docs]
    BY NowType
  <1>4. OthersMishaps(f, a) \subseteq mishaps'
    BY <1>2 DEF Renamed, TakenAway, AddedBy
  <1>5. /\ "raced" \notin Mishap("raced", Races("others", f))
        /\ "taken" \notin Mishap("taken", a \in Doubled(files))
        /\ "staleFolder" \notin Mishap("staleFolder", FoldersMoving /\ f # "main")
    BY <1>4 DEF OthersMishaps, Stale, Lossy
  <1>6. /\ \A v \in Writers : At(v, "replace") \/ At(v, "check") => Current(v).file # f
        /\ a \notin Doubled(files)
        /\ f = "main" \/ ~FoldersMoving
    <2>1. Writers \ {"others"} = Writers
      BY DEF Writers
    <2>2. \A v \in Writers \ {"others"} : At(v, "replace") \/ At(v, "check") => Current(v).file # f
      BY <1>5, NoRace
    <2> QED BY <1>5, <2>1, <2>2 DEF Mishap
  <1>7. known \in [Alias -> {Gone} \cup Nat]
    BY <1>0 DEF ConfigBasics, ConfigTypes
  <1>8. \A b \in Alias \ {a} : known'[b] = known[b]
    BY <1>2, <1>7 DEF Renamed, TakenAway, AddedBy
  <1>9. ASSUME NEW d \in Docs, files' = [files EXCEPT ![f] = d], SameHead(files[f], d), d.there,
               \A b \in Alias \ {a} : d.hosts[b] = files[f].hosts[b],
               NEW gone \in BOOLEAN, gone => known'[a] = Gone /\ ~Moving(a), ~gone => a \in Hosts(d)
        PROVE  OthersChange(f, a, d, gone)
    <2>1. files'[f] = d /\ \A g \in ConfigFile \ {f} : files'[g] = files[g]
      BY <1>3, <1>9
    <2>2. \A b \in Alias \ {a} : b \in Hosts(d) <=> b \in Hosts(files[f])
      BY <1>9 DEF Hosts
    <2> QED BY <1>6, <1>8, <1>9, <2>1, <2>2 DEF OthersChange
  <1>10. CASE Renamed(f, a)
    <2>1. PICK d \in Docs :
                              /\ files' = [files EXCEPT ![f] = d]
                              /\ SameHead(files[f], d) /\ d.there
                              /\ \A b \in Alias \ {a} : d.hosts[b] = files[f].hosts[b]
                              /\ Len(d.hosts[a]) > 0
      BY <1>0, <1>3, <1>10, RenamedDoc
    <2>2. d.hosts[a] # <<>>
      BY <2>1
    <2>3. a \in Hosts(d)
      BY <2>2 DEF Hosts
    <2>4. OthersChange(f, a, d, FALSE)
      BY <1>9, <2>1, <2>3
    <2> QED BY <1>1, <2>4
  <1>11. CASE TakenAway(f, a)
    <2>1. PICK d \in Docs :
                              /\ files' = [files EXCEPT ![f] = d]
                              /\ SameHead(files[f], d) /\ d.there
                              /\ \A b \in Alias \ {a} : d.hosts[b] = files[f].hosts[b]
      BY <1>0, <1>3, <1>11, TakenAwayDoc
    <2>2. known'[a] = Gone
      BY <1>7, <1>11 DEF TakenAway
    <2>3. ~Moving(a)
      BY <1>11 DEF TakenAway, Lossy, Mishap
    <2>4. OthersChange(f, a, d, TRUE)
      BY <1>9, <2>1, <2>2, <2>3
    <2> QED BY <1>1, <2>4
  <1>12. CASE AddedBy(f, a)
    <2>1. PICK d \in Docs :
                              /\ files' = [files EXCEPT ![f] = d]
                              /\ SameHead(files[f], d) /\ d.there
                              /\ \A b \in Alias \ {a} : d.hosts[b] = files[f].hosts[b]
                              /\ d.hosts[a] = <<Block(fresh + 1, FALSE, "none")>>
      BY <1>0, <1>3, <1>12, AddedByDoc
    <2>2. a \in Hosts(d)
      BY <2>1 DEF Hosts
    <2>3. OthersChange(f, a, d, FALSE)
      BY <1>9, <2>1, <2>2
    <2> QED BY <1>1, <2>3
  <1> QED BY <1>2, <1>10, <1>11, <1>12

\* What stays as it was where only files have changed.
LEMMA OnlyFiles ==
    ASSUME UNCHANGED <<tree, dir, writer>>
    PROVE  /\ \A w, s : At(w, s)' <=> At(w, s)
           /\ \A w : Current(w)' = Current(w)
           /\ \A w : Refusable(w)' <=> Refusable(w)
           /\ Switching' <=> Switching
           /\ Adopted' <=> Adopted
           /\ Removing' <=> Removing
           /\ \A a : Deleted(a)' <=> Deleted(a)
  <1>1. \A w, s : At(w, s)' <=> At(w, s)
    BY DEF At
  <1>2. \A w : Current(w)' = Current(w)
    BY DEF Current
  <1> QED BY <1>1, <1>2 DEF Refusable, Switching, Adopted, Removing, Deleted, Pending

\* A host in two files that ssh reads is defined twice.
LEMMA TwiceDoubled ==
    ASSUME Ground, NEW f \in Now, NEW g \in Now \ {f}, NEW a \in Hosts(files[f]), a \in Hosts(files[g])
    PROVE  a \in Doubled(files)
  <1>1. Now = ToSet(Reads(files))
    BY DEF Now, ReadFiles
  <1>2. PICK i \in DOMAIN Reads(files) : Reads(files)[i] = f
    BY <1>1 DEF ToSet
  <1>3. PICK j \in DOMAIN Reads(files) : Reads(files)[j] = g
    BY <1>1 DEF ToSet
  <1>4. i # j /\ a \in Alias
    BY <1>2, <1>3 DEF Hosts
  <1>5. {a} \subseteq Hosts(files[Reads(files)[i]]) \cap Hosts(files[Reads(files)[j]])
    BY <1>2, <1>3
  <1> QED BY <1>2, <1>3, <1>4, <1>5 DEF Doubled

\* What the window needs of where its host is.
LEMMA OthersNow ==
    ASSUME Ground, ~Lossy, Sure, UNCHANGED <<tree, dir, writer>>, NEW f \in Now, NEW a \in Alias, NEW d \in Docs,
           NEW gone \in BOOLEAN, OthersChange(f, a, d, gone), Now' = Now, Base' = Base,
           \A b \in Alias, g \in Now : b \in Hosts(files[g]) /\ ~(gone /\ b = a /\ g = f) => b \in Hosts(files'[g]),
           \A b \in Alias, g \in ConfigFile : Holds(b, g) /\ ~(gone /\ b = a /\ g = f) => Holds(b, g)'
    PROVE  AheadInv' /\ NowInv'
  <1>1. /\ \A w, s : At(w, s)' <=> At(w, s)
        /\ \A w : Current(w)' = Current(w)
        /\ \A w : Refusable(w)' <=> Refusable(w)
        /\ Removing' <=> Removing
    BY OnlyFiles
  <1>2. /\ "window" \in Writers /\ "import" \in Writers /\ f \in ConfigFile /\ Now \subseteq ConfigFile
        /\ ConfigTypes /\ "main" \in ConfigFile /\ "old" \in ConfigFile /\ "new" \in ConfigFile
    BY NowType DEF Writers, Ground, ConfigBasics
  <1>3. files["new"].there => files'["new"].there
    BY <1>2 DEF OthersChange
  <1>4. ASSUME NEW e \in ToSet(writer["window"].todo), e.kind = "remove" PROVE ~(gone /\ e.alias = a)
    BY <1>4 DEF OthersChange, Moving
  <1>5. ASSUME NEW e \in ToSet(writer["window"].todo) PROVE Ahead(e)'
    <2>1. Ahead(e)
      BY <1>5 DEF Sure, AheadInv
    <2>2. NewOK(e)' /\ DeleteOK(e)' /\ AdoptOK(e)' /\ FoldersOK(e)'
      BY <1>3, <2>1 DEF Ahead, NewOK, DeleteOK, AdoptOK, FoldersOK
    <2>3. RemoveOK(e)'
      <3>1. ASSUME e.kind = "remove", ~Removing PROVE e.alias \in Hosts(files'[e.file])
        <4>1. e.file \in Now /\ e.alias \in Hosts(files[e.file]) /\ ~(gone /\ e.alias = a)
          BY <1>4, <2>1, <3>1 DEF Ahead, RemoveOK
        <4>2. e.alias \in Alias
          BY <4>1 DEF Hosts
        <4> QED BY <4>1, <4>2
      <3> QED BY <1>1, <2>1, <3>1 DEF Ahead, RemoveOK
    <2> QED BY <2>2, <2>3 DEF Ahead
  <1>6. AheadInv'
    BY <1>5 DEF AheadInv
  <1>7. NowInv'
    <2> SUFFICES ASSUME ~At("window", "idle") PROVE NowInv'
      BY <1>1 DEF NowInv
    <2>1. /\ Current("window") \in Edits /\ Current("window") \in ToSet(writer["window"].todo)
          /\ writer["window"].todo # <<>> /\ writer["window"].todo \in Seq(Edits) /\ EditOK(Current("window"))
          /\ Current("window") = Head(writer["window"].todo) /\ WindowTodo(writer["window"].todo)
      BY <1>2, AtEdit
    <2>2. PICK e \in Edits : e = Current("window")
      BY <2>1
    <2>3. CopyNow(e) /\ RemoveNow(e) /\ WithdrawNow(e) /\ CloneNow(e) /\ IncludeNow(e)
      BY <2>2 DEF Sure, NowInv
    <2>4. CopyNow(e)'
      BY <2>3 DEF CopyNow
    <2>5. RemoveNow(e)'
      <3> SUFFICES ASSUME e.kind = "remove" PROVE RemoveNow(e)'
        BY DEF RemoveNow
      <3>1. PICK x \in Edits : e.undo = <<x>>
        BY <2>1, <2>2 DEF EditOK
      <3>2. e.undo[1] = x
        BY <3>1
      <3>3. ~(gone /\ e.alias = a)
        BY <1>4, <2>1, <2>2
      <3>4. x.file \in Now /\ e.alias \in Hosts(files[x.file]) /\ e.alias \in Alias
        BY <2>3, <3>2 DEF RemoveNow, Hosts
      <3>5. e.alias \in Hosts(files'[x.file])
        BY <3>3, <3>4
      <3>6. ~At("window", "check") => Holds(e.alias, x.file)'
        BY <1>2, <2>3, <3>2, <3>3, <3>4 DEF RemoveNow
      <3>7. ASSUME Refusable("import"), Current("import").file = e.file PROVE files'[e.file] = files[e.file]
        <4>1. At("import", "check")
          BY <3>7 DEF Refusable
        <4>2. e.file # f /\ e.file \in ConfigFile
          BY <1>2, <3>7, <4>1, AtEdit DEF OthersChange, At
        <4> QED BY <4>2 DEF OthersChange
      <3>8. /\ At("window", "compare")' \/ At("window", "replace")'
            /\ Refusable("import")' /\ Current("import")'.file = e.file
            /\ e.alias \notin Hosts(writer'["import"].text)
            => files'[e.file] = writer'["window"].text
        BY <1>1, <2>3, <3>7 DEF RemoveNow
      <3> QED BY <1>1, <3>2, <3>4, <3>5, <3>6, <3>8 DEF RemoveNow
    <2>6. WithdrawNow(e)'
      <3> SUFFICES ASSUME e.kind = "withdraw", ~At("window", "check") PROVE WithdrawNow(e)'
        BY <1>1 DEF WithdrawNow
      <3>1. e.file \in Now /\ e.alias \in Hosts(files[e.file]) /\ \E g \in Now \ {e.file} : Holds(e.alias, g)
        BY <2>3 DEF WithdrawNow
      <3>2. PICK g \in Now \ {e.file} : Holds(e.alias, g)
        BY <3>1
      <3>3. e.alias \in Doubled(files) /\ e.alias \in Alias
        BY <3>1, <3>2, TwiceDoubled DEF Holds, Hosts
      <3>4. e.alias # a
        BY <3>3 DEF OthersChange
      <3>5. e.alias \in Hosts(files'[e.file]) /\ Holds(e.alias, g)'
        BY <1>2, <3>1, <3>2, <3>3, <3>4
      <3> QED BY <3>1, <3>5 DEF WithdrawNow
    <2>7. ASSUME e.kind = "clone" \/ (e.kind = "include" /\ e.check = "hosts")
           PROVE  files'["old"] = files["old"] /\ files'["new"] = files["new"]
      <3>1. FoldersMoving
        <4>1. CASE e.kind = "include"
          BY <2>1, <2>2, <2>7, <4>1 DEF FoldersMoving
        <4>2. CASE e.kind = "clone"
          <5>1. PICK r \in Edits : Tail(writer["window"].todo) = <<r>> /\ r.kind = "include" /\ r.check = "hosts"
            BY <2>1, <2>2, <4>2, WindowTodoParts
          <5>2. r \in ToSet(Tail(writer["window"].todo))
            BY <5>1, TodoSets
          <5>3. r \in ToSet(writer["window"].todo)
            BY <2>1, <5>2, SetOfRest
          <5> QED BY <5>1, <5>3 DEF FoldersMoving
        <4> QED BY <2>7, <4>1, <4>2
      <3>2. f = "main"
        BY <3>1 DEF OthersChange
      <3> QED BY <1>2, <3>2 DEF OthersChange
    <2>8. CloneNow(e)'
      BY <1>1, <2>3, <2>7 DEF CloneNow
    <2>9. IncludeNow(e)'
      BY <1>1, <2>3, <2>7 DEF IncludeNow
    <2> QED BY <1>1, <2>2, <2>4, <2>5, <2>6, <2>8, <2>9, NowOf
  <1> QED BY <1>6, <1>7

\* What others write loses no host but the one they take away.
LEMMA OthersSure ==
    ASSUME Ground, ~Lossy, Sure, OthersWrite, ~Lossy'
    PROVE  Sure'
  <1>1. UNCHANGED <<tree, dir, writer>>
    BY OthersFacts
  <1>2. PICK f \in Now, a \in Alias, d \in Docs, gone \in BOOLEAN : OthersChange(f, a, d, gone)
    BY OthersFacts
  <1>3. /\ \A w, s : At(w, s)' <=> At(w, s)
        /\ \A w : Current(w)' = Current(w)
        /\ \A w : Refusable(w)' <=> Refusable(w)
        /\ Switching' <=> Switching
        /\ Adopted' <=> Adopted
        /\ \A b : Deleted(b)' <=> Deleted(b)
    BY <1>1, OnlyFiles
  <1>4. Now \subseteq ConfigFile /\ "main" \in ConfigFile /\ "new" \in ConfigFile
    BY NowType
  <1>5. files'["main"].include = files["main"].include /\ files'["main"].ignore = files["main"].ignore
    BY <1>2, <1>4 DEF OthersChange, SameHead
  <1>6. Now' = Now /\ Base' = Base
    <2>1. Now' = Now
      BY <1>5 DEF Now, ReadFiles, Reads
    <2> QED BY <1>1, <1>3, <2>1 DEF Base
  <1>7. \A b \in Alias, g \in Now : b \in Hosts(files[g]) /\ ~(gone /\ b = a /\ g = f) => b \in Hosts(files'[g])
    BY <1>2, <1>4 DEF OthersChange
  <1>8. \A b \in Alias, g \in ConfigFile : Holds(b, g) /\ ~(gone /\ b = a /\ g = f) => Holds(b, g)'
    <2> SUFFICES ASSUME NEW b \in Alias, NEW g \in ConfigFile, Holds(b, g), ~(gone /\ b = a /\ g = f)
                 PROVE  Holds(b, g)'
      OBVIOUS
    <2>1. b \in Hosts(files'[g])
      BY <1>2 DEF OthersChange, Holds
    <2> QED BY <1>1, <1>3, <2>1 DEF Holds
  <1>9. KnownInv'
    <2> SUFFICES ASSUME NEW b \in Alias, known'[b] # Gone PROVE Kept(b)'
      BY DEF KnownInv
    <2>1. CASE b = a
      <3>1. ~gone /\ a \in Hosts(files'[f])
        BY <1>2, <2>1 DEF OthersChange
      <3>2. Holds(a, f)'
        BY <1>2, <1>3, <3>1 DEF Holds, Refusable, OthersChange
      <3>3. ~Switching
        <4>1. ASSUME Switching PROVE FALSE
          <5>1. At("window", "check") /\ Current("window").file = "main" /\ "window" \in Writers
                /\ Current("window").kind = "include" /\ Current("window") \in ToSet(writer["window"].todo)
            BY <4>1, SwitchingNow
          <5>2. f # "main"
            BY <1>2, <5>1 DEF OthersChange
          <5>3. FoldersMoving
            BY <4>1, <5>1 DEF FoldersMoving, Switching
          <5> QED BY <1>2, <5>2, <5>3 DEF OthersChange
        <4> QED BY <4>1
      <3>4. Base = Now
        BY <3>3 DEF Base
      <3> QED BY <1>6, <2>1, <3>2, <3>4 DEF Kept
    <2>2. CASE b # a
      <3>1. known[b] # Gone
        BY <1>2, <2>2 DEF OthersChange
      <3>2. Kept(b)
        BY <3>1 DEF Sure, KnownInv
      <3>3. CASE Deleted(b) \/ Adopted
        BY <1>3, <3>3 DEF Kept
      <3>4. CASE (\E g \in Now : Holds(b, g)) /\ (\E g \in Base : Holds(b, g))
        <4>1. PICK g \in Now : Holds(b, g)
          BY <3>4
        <4>2. PICK h \in Base : Holds(b, h)
          BY <3>4
        <4>3. h \in ConfigFile
          <5>1. CASE Switching
            <6>1. writer["window"].text \in Docs
              BY <5>1, SwitchingNow, AtEdit
            <6>2. writer["window"].text.include \in Seq(Folders)
              BY <6>1 DEF Docs
            <6>3. ToSet(writer["window"].text.include) \subseteq Folders
              BY <6>2 DEF ToSet
            <6> QED BY <4>2, <5>1, <6>3 DEF Base, ConfigFile
          <5>2. CASE ~Switching
            BY <1>4, <4>2, <5>2 DEF Base
          <5> QED BY <5>1, <5>2
        <4>4. Holds(b, g)' /\ Holds(b, h)'
          BY <1>4, <1>8, <2>2, <4>1, <4>2, <4>3
        <4> QED BY <1>6, <4>1, <4>2, <4>4 DEF Kept
      <3> QED BY <3>2, <3>3, <3>4 DEF Kept
    <2> QED BY <2>1, <2>2
  <1>10. SingleInv' /\ TreeInv'
    BY <1>1, <1>3, <1>5, <1>6 DEF Sure, SingleInv, TreeInv
  <1>11. NewInv'
    <2>1. files["new"].there => files'["new"].there
      BY <1>2, <1>4 DEF OthersChange
    <2> QED BY <1>1, <1>6, <2>1 DEF Sure, NewInv
  <1>12. ImportInv'
    <2>1. Ignored => Ignored'
      BY <1>1, <1>3, <1>5 DEF Ignored
    <2> QED BY <1>1, <1>3, <1>6, <2>1 DEF Sure, ImportInv
  <1>13. AheadInv' /\ NowInv'
    BY <1>1, <1>2, <1>6, <1>7, <1>8, OthersNow
  <1> QED BY <1>9, <1>10, <1>11, <1>12, <1>13 DEF Sure

-----------------------------------------------------------------------------
(* No host is lost, whatever the steps.                                    *)

\* Every step keeps what the window, the import and ssh need of the files.
LEMMA NextHosts ==
    ASSUME Ground, HostsInv, [ConfigNext]_configVars
    PROVE  HostsInv'
  <1>0. ConfigBasics /\ ConfigTypes
    BY DEF Ground, ConfigBasics
  <1> SUFFICES ASSUME ~Lossy' PROVE Sure'
    BY DEF HostsInv
  <1>1. ~Lossy
    <2>1. mishaps \subseteq mishaps'
      BY MishapsStay
    <2> QED BY <2>1 DEF Lossy
  <1>2. Sure
    BY <1>1 DEF HostsInv
  <1>3. ASSUME NEW w \in Writers, Step(w) PROVE Sure'
    <2>1. CASE Dropped(w) \/ NothingToDo(w) \/ NothingToDelete(w) \/ ReadOn(w)
      BY <1>1, <1>2, <2>1, DroppedSure, NothingSure, NothingDeletedSure, ReadOnSure
    <2>2. CASE OtherText(w) \/ SameText(w) \/ Replace(w)
      BY <1>1, <1>2, <2>2, OtherTextSure, SameTextSure, ReplaceSure
    <2>3. CASE Passes(w) \/ Refused(w)
      BY <1>1, <1>2, <2>3, PassesSure, RefusedSure
    <2> QED BY <1>0, <1>3, <2>1, <2>2, <2>3, StepCases
  <1>4. ASSUME Operations PROVE Sure'
    BY <1>1, <1>2, <1>4, OperationCases, BegunSure
  <1>5. ASSUME Reload \/ Killed \/ OthersWrite PROVE Sure'
    BY <1>1, <1>2, <1>5, ReloadSure, KilledSure, OthersSure
  <1>6. ASSUME UNCHANGED configVars PROVE Sure'
    <2>1. UNCHANGED <<files, tree, dir, writer, known>>
      BY <1>6 DEF configVars
    <2>2. TreeInv'
      BY <1>2, <2>1 DEF Sure, TreeInv, At, Now
    <2> QED BY <1>2, <2>1, <2>2, SameSure
  <1> QED BY <1>3, <1>4, <1>5, <1>6, NextCases

\* At first each host is where it was loaded from, and no thread has begun.
LEMMA InitHosts ==
    ASSUME ConfigInit, ConfigBasics
    PROVE  ApartInv /\ Sure
  <1>1. \A w \in Writers : writer[w].todo = <<>> /\ writer[w].step = "idle"
    BY DEF ConfigInit, Idle
  <1>2. tree = Load(files) /\ dir = "old" /\ known = [a \in Alias |-> Effective(files, a)]
    BY DEF ConfigInit
  <1>3. "window" \in Writers /\ "import" \in Writers
    BY DEF Writers
  <1>4. ApartInv
    BY <1>1, <1>3 DEF ApartInv, ToSet
  <1>5. \A w \in Writers : ~Refusable(w) /\ ~At(w, "check") /\ At(w, "idle")
    BY <1>1 DEF Refusable, At
  <1>6. Base = Now
    BY <1>3, <1>5 DEF Base, Switching
  <1>7. PICK ignore \in BOOLEAN, keys \in BOOLEAN, include \in {<<>>, <<"old">>}, a \in Alias,
             m \in Docs, o \in Docs : FirstDocs(ignore, keys, include, a, m, o)
    BY InitDocs
  <1>8. files["main"].include \in {<<>>, <<"old">>} /\ files["main"] = m
    BY <1>7 DEF FirstDocs, ConfigFile, Folders
  <1>9. Len(files["main"].include) <= 1 /\ "new" \notin ToSet(files["main"].include)
    <2>1. ASSUME NEW i, i = <<>> PROVE Len(i) <= 1 /\ "new" \notin ToSet(i)
      BY <2>1 DEF ToSet
    <2>2. ASSUME NEW i, NEW x, i = <<x>> PROVE Len(i) <= 1
      BY <2>2
    <2>3. ASSUME NEW i, i = <<"old">> PROVE "new" \notin ToSet(i)
      BY <2>3 DEF ToSet
    <2> QED BY <1>8, <2>1, <2>2, <2>3
  <1>10. Now = ToSet(files["main"].include) \cup {"main"}
    <2>1. files \in [ConfigFile -> Docs]
      BY DEF ConfigBasics, ConfigTypes
    <2> QED BY <2>1, ReadsType DEF Now
  <1>11. KnownInv
    <2> SUFFICES ASSUME NEW b \in Alias, known[b] # Gone PROVE Kept(b)
      BY DEF KnownInv
    <2>1. b \in Aliases(files)
      BY <1>2 DEF Effective
    <2>2. PICK f \in Now : b \in Hosts(files[f])
      BY <2>1 DEF Aliases, Now
    <2>3. Holds(b, f)
      BY <1>5, <2>2 DEF Holds
    <2> QED BY <1>6, <2>3 DEF Kept
  <1>12. SingleInv /\ NewInv
    BY <1>3, <1>5, <1>9, <1>10 DEF SingleInv, NewInv, Switching
  <1>13. TreeInv
    BY <1>2, LoadedNow DEF TreeInv
  <1>14. ImportInv /\ NowInv
    BY <1>3, <1>5 DEF ImportInv, NowInv
  <1>15. AheadInv
    BY <1>1, <1>3 DEF AheadInv, ToSet
  <1> QED BY <1>4, <1>11, <1>12, <1>13, <1>14, <1>15 DEF Sure

\* What is held is in a file that ssh reads.
LEMMA SureKept ==
    ASSUME HostsInv
    PROVE  HostsAreKept
  <1> SUFFICES ASSUME ~Lossy, NEW a \in Alias, known[a] # Gone
               PROVE  a \in Aliases(files) \/ Deleted(a) \/ Adopted
    BY DEF HostsAreKept, Lossy
  <1>1. Kept(a)
    BY DEF HostsInv, Sure, KnownInv
  <1>2. ASSUME NEW f \in Now, Holds(a, f) PROVE a \in Aliases(files)
    BY <1>2 DEF Now, Holds, Aliases
  <1> QED BY <1>1, <1>2 DEF Kept

\* What holds whatever happens does at first, and after every step.
LEMMA GroundInit == ConfigInit => Ground
  <1> SUFFICES ASSUME ConfigInit PROVE Ground
    OBVIOUS
  <1>1. ConfigBasics
    BY InitBasics
  <1>2. TodoInv /\ MakesInv /\ HeldInv /\ NamesInv
    BY InitTodo, InitHeld, InitNames
  <1>3. ApartInv
    BY <1>1, InitHosts
  <1> QED BY <1>1, <1>2, <1>3 DEF Ground

\* Every step keeps it.
LEMMA GroundNext ==
    ASSUME Ground, [ConfigNext]_configVars
    PROVE  Ground'
  <1>0. ConfigBasics /\ TodoInv /\ MakesInv /\ HeldInv /\ NamesInv /\ ApartInv
    BY DEF Ground
  <1>1. ConfigBasics' /\ TodoInv' /\ MakesInv'
    BY <1>0, NextBasics, NextTodo, NextMakes
  <1>2. HeldInv' /\ NamesInv' /\ ApartInv'
    BY <1>0, NextHeld, NextNames, NextApart
  <1> QED BY <1>1, <1>2 DEF Ground

\* A host that was there is never lost: whatever step NativeTerm is killed at,
\* whatever ssh refuses and others write, it stays in a file that ssh reads, but
\* for the losses that are excused (ops.rs, write.rs).
THEOREM HostsKeptEver == ConfigSpec => []HostsAreKept
  <1>1. ConfigInit => Ground /\ HostsInv
    BY GroundInit, InitHosts DEF Ground, HostsInv
  <1>2. Ground /\ HostsInv /\ [ConfigNext]_configVars => (Ground /\ HostsInv)'
    BY GroundNext, NextHosts
  <1>3. HostsInv => HostsAreKept
    BY SureKept
  <1> QED BY <1>1, <1>2, <1>3, PTL DEF ConfigSpec

-----------------------------------------------------------------------------
(* ssh accepts the files whenever no change is being checked.  Either it   *)
(* ignores NativeTerm keys, or no file that it reads has any.              *)

\* Nothing has happened for which ssh may be left with files it refuses.
Calm == mishaps \cap {"raced", "crashed"} = {}

\* A copy without NativeTerm keys.
KeylessCopy(e) == e.kind = "copy" => ~e.block.keys

\* A file as it is put back where ssh refuses what the window has written.
AsPutBack(f) ==
    IF Refusable("window") /\ Current("window").file = f THEN writer["window"].text ELSE files[f]

\* No file that ssh reads, or reads where Include is put back, has NativeTerm keys.
PlainFiles ==
    /\ Base \subseteq {"main", "old"}
    /\ \A f \in Base : Keyless(AsPutBack(f))
    /\ \A e \in ToSet(writer["window"].todo) : KeylessCopy(e)

\* An import adds its host once ssh ignores NativeTerm keys.
ImportWaits == ~At("import", "idle") => Current("import").kind = "header" \/ Ignored

\* What ssh rests on.
Acceptable == TreeInv /\ ImportWaits /\ (Ignored \/ PlainFiles)

\* The inductive invariant, on the ground of Ground and KeysInv.
AcceptInv == Calm => Acceptable

\* What a copy and its withdrawal make of a file has NativeTerm keys only where
\* the file, or the copy, has.
KeylessMade(e, d, n) == e.kind \in {"copy", "withdraw"} /\ Keyless(d) /\ KeylessCopy(e) => Keyless(n)

\* A thread has written down such a file.
KeysInv == \A w \in Writers : ~At(w, "idle") /\ ~At(w, "read") => KeylessMade(Current(w), writer[w].text, writer[w].new)

\* Blocks without NativeTerm keys.
KeylessBlocks(s) == \A i \in DOMAIN s : ~s[i].keys

\* A document without keys has hosts without keys.
LEMMA KeylessParts ==
    ASSUME NEW d
    PROVE  Keyless(d) <=> ~d.keys /\ \A a \in Alias : KeylessBlocks(d.hosts[a])
  BY DEF Keyless, KeylessBlocks

\* Tags make no keys.
LEMMA KeylessSame ==
    ASSUME NEW s, NEW t, SameBlocks(s, t), KeylessBlocks(t)
    PROVE  KeylessBlocks(s)
  <1>1. DOMAIN s = 1 .. Len(s) /\ DOMAIN t = 1 .. Len(t) /\ Len(s) = Len(t)
    BY DEF SameBlocks
  <1> QED BY <1>1 DEF SameBlocks, KeylessBlocks

\* A copy and its withdrawal.
LEMMA KeylessChange ==
    ASSUME NEW e \in Edits, e.kind \in {"copy", "withdraw"}, NEW d \in Docs, Keyless(d), KeylessCopy(e)
    PROVE  Keyless(Change(e, d))
  <1>0. e.alias \in Alias /\ e.block \in Blks
    BY DEF Edits, Shaped, HostKinds
  <1>1. ~d.keys /\ \A a \in Alias : KeylessBlocks(d.hosts[a]) /\ d.hosts[a] \in Seq(Blks)
    BY KeylessParts, DocParts
  <1> DEFINE r == Change(e, d)
             s == d.hosts[e.alias]
  <1>2. CASE e.kind = "copy"
    <2>1. r.keys = d.keys /\ OthersSame(d, r, e.alias) /\ SameBlocks(r.hosts[e.alias], Append(s, e.block))
      BY <1>0, <1>2, AddChange
    <2> DEFINE t == Append(s, e.block)
    <2>2. KeylessBlocks(t)
      <3>1. s \in Seq(Blks) /\ KeylessBlocks(s) /\ ~e.block.keys
        BY <1>0, <1>1, <1>2 DEF KeylessCopy
      <3> HIDE DEF s
      <3>2. DOMAIN t = 1 .. (Len(s) + 1) /\ Len(s) \in Nat /\ t[Len(s) + 1] = e.block /\ DOMAIN s = 1 .. Len(s)
        BY <1>0, <3>1
      <3>3. \A i \in 1 .. Len(s) : t[i] = s[i]
        BY <1>0, <3>1
      <3> HIDE DEF t
      <3> QED BY <3>1, <3>2, <3>3 DEF KeylessBlocks
    <2> HIDE DEF r, s, t
    <2>3. SameBlocks(r.hosts[e.alias], t)
      BY <2>1 DEF t
    <2>4. KeylessBlocks(r.hosts[e.alias])
      BY <2>2, <2>3, KeylessSame
    <2>5. \A a \in Alias \ {e.alias} : KeylessBlocks(r.hosts[a])
      BY <1>1, <2>1, KeylessSame DEF OthersSame
    <2>6. Keyless(r)
      BY <1>1, <2>1, <2>4, <2>5, KeylessParts
    <2> QED BY <2>6 DEF r
  <1>3. CASE e.kind = "withdraw"
    <2>1. /\ r.keys = d.keys
          /\ \A b \in Alias \ {e.alias} : r.hosts[b] = d.hosts[b]
          /\ s = <<>> => r = d
          /\ s # <<>> => r.hosts[e.alias] = Front(s)
      BY <1>0, <1>3, TakeChange
    <2>2. CASE s = <<>>
      BY <2>1, <2>2
    <2>3. CASE s # <<>>
      <3> DEFINE t == Front(s)
      <3>1. s \in Seq(Blks) /\ KeylessBlocks(s)
        BY <1>0, <1>1
      <3> HIDE DEF s
      <3>2. /\ Len(s) \in Nat /\ Len(s) > 0 /\ t \in Seq(Blks) /\ Len(t) = Len(s) - 1
            /\ \A i \in 1 .. Len(s) - 1 : t[i] = s[i]
        BY <2>3, <3>1, TailLen
      <3> HIDE DEF t
      <3>3. DOMAIN t = 1 .. Len(s) - 1 /\ DOMAIN s = 1 .. Len(s)
        BY <3>1, <3>2
      <3>4. KeylessBlocks(t)
        BY <3>1, <3>2, <3>3 DEF KeylessBlocks
      <3>5. r.hosts[e.alias] = t
        BY <2>1, <2>3 DEF t
      <3> HIDE DEF r
      <3>6. Keyless(r)
        BY <1>1, <2>1, <3>4, <3>5, KeylessParts
      <3> QED BY <3>6 DEF r
    <2> QED BY <2>2, <2>3
  <1> QED BY <1>2, <1>3

\* What a thread that reads on writes down.
LEMMA ReadOnKeys ==
    ASSUME ConfigBasics, TodoInv, NEW w \in Writers, ReadOn(w)
    PROVE  KeylessMade(Current(w), writer'[w].text, writer'[w].new)
  <1>0. ConfigTypes
    BY DEF ConfigBasics
  <1>1. ~At(w, "idle")
    BY DEF ReadOn, At
  <1>2. Current(w) \in Edits
    BY <1>1, CurrentOK
  <1>3. Current(w).file \in ConfigFile
    BY <1>2 DEF Edits
  <1> DEFINE e == Current(w)
             d == files[e.file]
             c == Change(e, d)
             n == [c EXCEPT !.there = TRUE]
  <1>4. d \in Docs
    BY <1>0, <1>3 DEF ConfigTypes
  <1>5. c \in Docs
    BY <1>0, <1>2, <1>4, ChangeType DEF ReadOn
  <1>6. n.keys = c.keys /\ n.hosts = c.hosts
    BY <1>5 DEF Docs
  <1>7. writer'[w].new = n /\ writer'[w].text = IF Anew(e) THEN NoDoc ELSE d
    BY <1>0, ReadOnWriter
  <1> SUFFICES ASSUME e.kind \in {"copy", "withdraw"}, Keyless(writer'[w].text), KeylessCopy(e)
               PROVE  Keyless(writer'[w].new)
    BY DEF KeylessMade
  <1>8. writer'[w].text = d
    BY <1>7 DEF Anew
  <1>9. Keyless(c)
    BY <1>2, <1>4, <1>8, KeylessChange
  <1> HIDE DEF n, c
  <1>10. Keyless(n)
    BY <1>6, <1>9 DEF Keyless
  <1> QED BY <1>7, <1>10

\* What is written down stays as it should be.
LEMMA NextKeys ==
    ASSUME ConfigBasics, TodoInv, KeysInv, [ConfigNext]_configVars
    PROVE  KeysInv'
  <1>0. ConfigTypes
    BY DEF ConfigBasics
  <1>1. ASSUME NEW w \in Writers, Restarts(w) PROVE KeysInv'
    BY <1>1 DEF Restarts, KeysInv, At, Current
  <1>2. CASE \E w \in Writers : Step(w)
    <2>1. PICK w \in Writers : Step(w)
      BY <1>2
    <2>2. CASE Dropped(w) \/ NothingToDo(w) \/ NothingToDelete(w) \/ OtherText(w) \/ Passes(w) \/ Refused(w)
      BY <1>1, <2>2, RestartsIn
    <2>3. CASE ReadOn(w)
      <3>1. KeylessMade(Current(w), writer'[w].text, writer'[w].new)
        BY <2>3, ReadOnKeys
      <3>2. writer'[w].todo = writer[w].todo /\ \A v \in Writers \ {w} : writer'[v] = writer[v]
        BY <1>0, <2>3, ReadOnWriter
      <3> QED BY <3>1, <3>2 DEF KeysInv, At, Current
    <2>4. ASSUME NEW s, s \in {"replace", "check"}, writer' = [writer EXCEPT ![w].step = s], ~At(w, "read")
          PROVE  KeysInv'
      <3>1. ~At(w, "idle")
        BY <2>1, StepBusy
      <3>2. /\ writer'[w].todo = writer[w].todo /\ writer'[w].text = writer[w].text /\ writer'[w].new = writer[w].new
            /\ \A v \in Writers \ {w} : writer'[v] = writer[v]
        BY <1>0, <2>4, NextWriter
      <3> QED BY <2>4, <3>1, <3>2 DEF KeysInv, At, Current
    <2>5. CASE SameText(w)
      BY <2>4, <2>5 DEF SameText, At
    <2>6. CASE Replace(w)
      BY <2>4, <2>6 DEF Replace, At
    <2> QED BY <1>0, <2>1, <2>2, <2>3, <2>5, <2>6, StepCases
  <1>3. CASE Operations
    <2>1. PICK w, todo : w \in Writers /\ Begun(w, todo) /\ (WindowBegins(todo) \/ ImportBegins(todo))
      BY <1>3, OperationCases DEF Writers
    <2>2. todo \in Seq(Edits)
      BY <1>0, <2>1, BeginTypes
    <2> QED BY <1>0, <1>1, <2>1, <2>2, BegunRestarts
  <1>4. CASE Killed
    BY <1>4 DEF Killed, Idle, KeysInv, At
  <1>5. CASE Reload \/ OthersWrite \/ UNCHANGED configVars
    <2>1. writer' = writer
      BY <1>5 DEF Reload, OthersWrite, configVars
    <2> QED BY <2>1 DEF KeysInv, At, Current
  <1> QED BY <1>2, <1>3, <1>4, <1>5, NextCases

\* What a thread has put into its file is there.
LEMMA CalmHeld ==
    ASSUME Ground, Calm, NEW w \in Writers
    PROVE  /\ At(w, "replace") => files[Current(w).file] = writer[w].text
           /\ At(w, "check") => files[Current(w).file] = writer[w].new
           /\ \A v \in Writers \ {w} : At(w, "check") /\ At(v, "check") => Current(w).file # Current(v).file
  BY DEF Ground, HeldInv, Calm

\* What isn't refused isn't refused, then.
LEMMA CalmUnchecked ==
    ASSUME Ground, Calm, NEW w \in Writers, At(w, "check"), Unchecked(Current(w))
    PROVE  /\ Checks(Current(w))
           /\ Current(w).check = "nothing" \/ (Current(w).file = "main" /\ files["main"].ignore)
  <1>1. ~At(w, "idle") /\ ~At(w, "read")
    BY DEF At
  <1>2. /\ EditOK(Current(w)) /\ Shaped(Current(w))
        /\ Makes(Current(w), writer[w].text, writer[w].new)
    BY <1>1, AtEdit
  <1>3. CASE Current(w).check = "nothing"
    BY <1>3 DEF Checks
  <1>4. CASE Current(w).kind \in {"header", "ignore"} \/ (Current(w).kind = "include" /\ Current(w).check = "parse")
    <2>1. Current(w).check = "parse" /\ Current(w).file = "main"
      BY <1>2, <1>4 DEF EditOK, Shaped, MainKinds
    <2>2. files["main"] = writer[w].new
      BY <2>1, CalmHeld
    <2>3. writer[w].new.ignore
      BY <1>2, <1>4 DEF Makes, HeadMade, MainKinds
    <2> QED BY <2>1, <2>2, <2>3 DEF Checks, Accepts
  <1> QED BY <1>3, <1>4 DEF Unchecked

\* Where Include points at the copy that isn't checked yet, ssh ignores the keys now.
LEMMA CalmSwitching ==
    ASSUME Ground, Calm, Switching
    PROVE  /\ files["main"].ignore /\ "old" \notin Now
           /\ ~At("import", "check") \/ Current("import").file # "main"
  <1>1. /\ At("window", "check") /\ ~At("window", "idle") /\ ~At("window", "read") /\ "window" \in Writers
        /\ Current("window").file = "main" /\ Current("window").kind = "include"
    BY SwitchingNow
  <1>2. /\ Makes(Current("window"), writer["window"].text, writer["window"].new)
        /\ EditOK(Current("window")) /\ files["main"] = writer["window"].new
    BY <1>1, AtEdit, CalmHeld
  <1>3. ToSet(files["main"].include) = (ToSet(writer["window"].text.include) \ {"old"}) \cup {"new"}
    BY <1>1, <1>2 DEF Makes, HeadMade, EditOK
  <1>4. files["main"].ignore
    BY <1>1, <1>2 DEF Makes, HeadMade, MainKinds
  <1>5. "import" \in Writers \ {"window"}
    BY DEF Writers
  <1> QED BY <1>1, <1>3, <1>4, <1>5, NowType, CalmHeld

\* Where ssh ignores NativeTerm keys, only pointing Include at the copy could change that.
LEMMA CalmIgnored ==
    ASSUME Ground, Calm, files["main"].ignore, ~Switching
    PROVE  Ignored
  <1> SUFFICES ASSUME NEW w \in Writers, Refusable(w), Current(w).file = "main" PROVE writer[w].text.ignore
    BY DEF Ignored
  <1>1. At(w, "check") /\ ~At(w, "idle") /\ ~At(w, "read") /\ ~Unchecked(Current(w))
    BY DEF At, Refusable
  <1>2. /\ EditOK(Current(w)) /\ Shaped(Current(w)) /\ Current(w).kind \in Kinds
        /\ Makes(Current(w), writer[w].text, writer[w].new)
        /\ w = "import" => Current(w).kind \in {"header", "add"}
    BY <1>1, AtEdit
  <1>3. Current(w).kind \notin NewKinds
    BY <1>2 DEF Shaped, Folders
  <1>4. Current(w).kind # "include"
    <2>1. ASSUME Current(w).kind = "include" PROVE FALSE
      <3>1. w = "window" /\ Current(w).check = "hosts"
        BY <1>1, <1>2, <2>1 DEF Writers, Unchecked, EditOK
      <3> QED BY <1>1, <2>1, <3>1 DEF Switching
    <2> QED BY <2>1
  <1>5. Current(w).kind \notin MainKinds
    BY <1>1, <1>4 DEF Unchecked, MainKinds
  <1>6. writer[w].new.ignore = writer[w].text.ignore
    BY <1>2, <1>3, <1>5 DEF Makes, HeadMade
  <1>7. files["main"] = writer[w].new
    BY <1>1, CalmHeld
  <1> QED BY <1>6, <1>7

\* An import that isn't at its head, or whose head is there, knows that ssh ignores the keys.
LEMMA CalmHeader ==
    ASSUME Ground, Calm, ~At("import", "idle"), Current("import").kind = "header",
           \/ At("import", "check")
           \/ files["main"].ignore /\ Current("import").to \in Now
    PROVE  Ignored
  <1>1. /\ "import" \in Writers /\ ImportPlace(Current("import"), dir) /\ Current("import").to \in Folders
        /\ Shaped(Current("import"))
    BY AtEdit DEF Writers
  <1>2. CASE At("import", "check")
    <2>1. Unchecked(Current("import")) /\ Current("import").file = "main"
      BY <1>1 DEF Unchecked, Shaped, MainKinds
    <2>2. ~Switching
      BY <1>2, <2>1, CalmSwitching
    <2>3. files["main"] = writer["import"].new /\ ~At("import", "read")
      BY <1>1, <1>2, <2>1, CalmHeld DEF At
    <2>4. files["main"].ignore
      BY <1>1, <2>3, AtEdit DEF Makes, HeadMade, MainKinds
    <2> QED BY <2>2, <2>4, CalmIgnored
  <1>3. CASE files["main"].ignore /\ Current("import").to \in Now
    <2>1. ASSUME Switching PROVE FALSE
      <3>1. dir = "old" /\ "old" \notin Now
        BY <2>1, SwitchingNow, CalmSwitching
      <3> QED BY <1>1, <1>3, <3>1 DEF ImportPlace, Folders
    <2> QED BY <1>3, <2>1, CalmIgnored
  <1> QED BY <1>2, <1>3

\* What is refused may be refused, and what is put back.
LEMMA CalmRefused ==
    ASSUME Ground, Calm, NEW w \in Writers, Refused(w)
    PROVE  /\ At(w, "check") /\ Refusable(w) /\ Current(w).file \in ConfigFile /\ EditOK(Current(w))
           /\ Makes(Current(w), writer[w].text, writer[w].new) /\ files[Current(w).file] = writer[w].new
           /\ files'[Current(w).file] = writer[w].text
           /\ \A g \in ConfigFile \ {Current(w).file} : files'[g] = files[g]
           /\ w = "import" => Current(w).kind = "add" /\ Current(w).file # "main"
           /\ Restarts(w)
  <1>0. ConfigBasics
    BY DEF Ground
  <1>1. At(w, "check") /\ Refusable(w) /\ ~At(w, "idle") /\ ~At(w, "read")
    BY CalmUnchecked DEF Refused, Refusable, At
  <1>2. /\ Current(w).file \in ConfigFile /\ EditOK(Current(w))
        /\ Makes(Current(w), writer[w].text, writer[w].new)
    BY <1>1, AtEdit
  <1>3. files' = [files EXCEPT ![Current(w).file] = writer[w].text]
    BY DEF Refused
  <1>4. /\ files'[Current(w).file] = writer[w].text
        /\ \A g \in ConfigFile \ {Current(w).file} : files'[g] = files[g]
    BY <1>2, <1>3, NowType
  <1>5. Restarts(w)
    BY <1>0, RestartsIn
  <1>6. files[Current(w).file] = writer[w].new
    BY <1>1, CalmHeld
  <1>7. w = "import" => Current(w).kind = "add" /\ Current(w).file # "main"
    BY <1>1, ImportRefusable
  <1> QED BY <1>1, <1>2, <1>4, <1>5, <1>6, <1>7

\* What a thread puts into a file.
LEMMA CalmReplace ==
    ASSUME Ground, Calm, NEW w \in Writers, Replace(w)
    PROVE  /\ At(w, "replace") /\ Current(w).file \in ConfigFile /\ Current(w).kind \in Kinds
           /\ EditOK(Current(w)) /\ Shaped(Current(w)) /\ Current(w) \in ToSet(writer[w].todo)
           /\ Makes(Current(w), writer[w].text, writer[w].new)
           /\ files[Current(w).file] = writer[w].text /\ files'[Current(w).file] = writer[w].new
           /\ \A g \in ConfigFile \ {Current(w).file} : files'[g] = files[g]
           /\ w = "import" => Current(w).kind \in {"header", "add"}
           /\ tree' = tree
           /\ files["main"].ignore => files'["main"].ignore
           /\ Current(w).kind \in MainKinds => files'["main"].ignore
           /\ Current(w).kind \notin {"header", "include"} => files'["main"].include = files["main"].include
           /\ Current(w).kind = "header" => ToSet(files["main"].include) \subseteq ToSet(files'["main"].include)
  <1>1. At(w, "replace") /\ ~At(w, "check") /\ ~At(w, "idle") /\ ~At(w, "read")
    BY DEF Replace, At
  <1>2. /\ Current(w) \in Edits /\ EditOK(Current(w)) /\ Shaped(Current(w))
        /\ Current(w).file \in ConfigFile /\ Current(w) \in ToSet(writer[w].todo) /\ Current(w).kind \in Kinds
        /\ Makes(Current(w), writer[w].text, writer[w].new)
        /\ w = "import" => Current(w).kind \in {"header", "add"}
        /\ files[Current(w).file] = writer[w].text
    BY <1>1, AtEdit, CalmHeld
  <1>3. files' = [files EXCEPT ![Current(w).file] = writer[w].new] /\ tree' = tree
    BY DEF Replace
  <1>4. files'[Current(w).file] = writer[w].new /\ \A g \in ConfigFile \ {Current(w).file} : files'[g] = files[g]
    BY <1>2, <1>3, NowType
  <1>5. Current(w).kind \in MainKinds => Current(w).file = "main"
    BY <1>2 DEF Shaped
  <1>6. Current(w).file = "main" => Current(w).kind \notin NewKinds
    BY <1>2 DEF Shaped, Folders
  <1>7. HeadMade(Current(w), writer[w].text, writer[w].new)
    BY <1>2 DEF Makes
  <1>8. CASE Current(w).file = "main"
    <2>1. files'["main"] = writer[w].new /\ files["main"] = writer[w].text
      BY <1>2, <1>4, <1>8
    <2>2. /\ files["main"].ignore => files'["main"].ignore
          /\ Current(w).kind \in MainKinds => files'["main"].ignore
      BY <1>6, <1>7, <1>8, <2>1 DEF HeadMade
    <2>3. Current(w).kind \notin {"header", "include"} => files'["main"].include = files["main"].include
      BY <1>6, <1>7, <1>8, <2>1 DEF HeadMade
    <2>4. Current(w).kind = "header" => ToSet(files["main"].include) \subseteq ToSet(files'["main"].include)
      BY <1>7, <2>1 DEF HeadMade
    <2> QED BY <1>1, <1>2, <1>3, <1>4, <2>2, <2>3, <2>4
  <1>9. CASE Current(w).file # "main"
    <2>1. files'["main"] = files["main"]
      BY <1>4, <1>9 DEF ConfigFile
    <2>2. Current(w).kind \notin MainKinds /\ Current(w).kind # "header"
      BY <1>5, <1>9 DEF MainKinds
    <2> QED BY <1>1, <1>2, <1>3, <1>4, <2>1, <2>2
  <1> QED BY <1>8, <1>9

\* Others leave the head of the files alone, write no keys, and write no file that is being written.
LEMMA CalmOthers ==
    ASSUME Ground, OthersWrite, Calm'
    PROVE  /\ UNCHANGED <<tree, dir, writer>>
           /\ files'["main"].ignore = files["main"].ignore /\ files'["main"].include = files["main"].include
           /\ \A g \in ConfigFile : Keyless(files[g]) => Keyless(files'[g])
           /\ Now' = Now
  <1>0. ConfigBasics
    BY DEF Ground
  <1>1. UNCHANGED <<tree, dir, writer>>
    BY OthersCases
  <1>2. PICK f \in Now, a \in Alias : Renamed(f, a) \/ TakenAway(f, a) \/ AddedBy(f, a)
    BY OthersCases DEF Now
  <1>3. f \in ConfigFile /\ files \in [ConfigFile -> Docs] /\ "main" \in ConfigFile
    BY NowType
  <1>4. files[f].hosts[a] \in Seq(Blks)
    BY <1>3, DocParts
  <1>5. ASSUME NEW d \in Docs, files' = [files EXCEPT ![f] = d], SameHead(files[f], d), d.keys = files[f].keys,
               \A b \in Alias \ {a} : d.hosts[b] = files[f].hosts[b],
               KeylessBlocks(files[f].hosts[a]) => KeylessBlocks(d.hosts[a])
        PROVE  /\ files'["main"].ignore = files["main"].ignore /\ files'["main"].include = files["main"].include
               /\ \A g \in ConfigFile : Keyless(files[g]) => Keyless(files'[g])
               /\ Now' = Now
    <2>1. files'[f] = d /\ \A g \in ConfigFile \ {f} : files'[g] = files[g]
      BY <1>3, <1>5
    <2>2. files'["main"].ignore = files["main"].ignore /\ files'["main"].include = files["main"].include
      BY <1>3, <1>5, <2>1 DEF SameHead
    <2>3. Keyless(files[f]) => Keyless(d)
      BY <1>5, KeylessParts
    <2>4. \A g \in ConfigFile : Keyless(files[g]) => Keyless(files'[g])
      BY <2>1, <2>3
    <2>5. Now' = Now
      BY <2>2 DEF Now, ReadFiles, Reads
    <2> QED BY <2>2, <2>4, <2>5
  <1>6. CASE Renamed(f, a)
    <2>1. PICK d \in Docs :
                              /\ files' = [files EXCEPT ![f] = d]
                              /\ SameHead(files[f], d) /\ d.keys = files[f].keys
                              /\ \A b \in Alias \ {a} : d.hosts[b] = files[f].hosts[b]
                              /\ Len(d.hosts[a]) = Len(files[f].hosts[a])
                              /\ \A i \in 1 .. Len(d.hosts[a]) : d.hosts[a][i].keys = files[f].hosts[a][i].keys
      BY <1>0, <1>3, <1>6, RenamedDoc
    <2>2. d.hosts[a] \in Seq(Blks)
      BY DocParts
    <2>3. KeylessBlocks(files[f].hosts[a]) => KeylessBlocks(d.hosts[a])
      <3> DEFINE s == files[f].hosts[a]
                 t == d.hosts[a]
      <3>1. s \in Seq(Blks) /\ t \in Seq(Blks) /\ Len(t) = Len(s)
        BY <1>4, <2>1, <2>2
      <3>2. \A i \in 1 .. Len(t) : t[i].keys = s[i].keys
        BY <2>1
      <3> HIDE DEF s, t
      <3>3. DOMAIN t = 1 .. Len(t) /\ DOMAIN s = 1 .. Len(t)
        BY <3>1
      <3>4. KeylessBlocks(s) => KeylessBlocks(t)
        BY <3>2, <3>3 DEF KeylessBlocks
      <3> QED BY <3>4 DEF s, t
    <2> QED BY <1>1, <1>5, <2>1, <2>3
  <1>7. CASE TakenAway(f, a)
    <2>1. PICK d \in Docs :
                              /\ files' = [files EXCEPT ![f] = d]
                              /\ SameHead(files[f], d) /\ d.keys = files[f].keys
                              /\ \A b \in Alias \ {a} : d.hosts[b] = files[f].hosts[b]
                              /\ d.hosts[a] = Tail(files[f].hosts[a])
      BY <1>0, <1>3, <1>7, TakenAwayDoc
    <2>2. KeylessBlocks(files[f].hosts[a]) => KeylessBlocks(d.hosts[a])
      <3> DEFINE s == files[f].hosts[a]
                 t == Tail(s)
      <3>1. s \in Seq(Blks) /\ s # <<>>
        BY <1>4, <1>7 DEF TakenAway, Hosts
      <3> HIDE DEF s
      <3>2. /\ Len(s) \in Nat /\ Len(s) > 0 /\ t \in Seq(Blks) /\ Len(t) = Len(s) - 1
            /\ \A i \in 1 .. Len(s) - 1 : t[i] = s[i + 1]
        BY <3>1, TailLen
      <3> HIDE DEF t
      <3>3. DOMAIN t = 1 .. Len(s) - 1 /\ DOMAIN s = 1 .. Len(s)
        BY <3>1, <3>2
      <3>4. \A i \in 1 .. Len(s) - 1 : i + 1 \in 1 .. Len(s)
        BY <3>2
      <3>5. KeylessBlocks(s) => KeylessBlocks(t)
        BY <3>2, <3>3, <3>4 DEF KeylessBlocks
      <3> QED BY <2>1, <3>5 DEF s, t
    <2> QED BY <1>1, <1>5, <2>1, <2>2
  <1>8. CASE AddedBy(f, a)
    <2>1. PICK d \in Docs :
                              /\ files' = [files EXCEPT ![f] = d]
                              /\ SameHead(files[f], d) /\ d.keys = files[f].keys
                              /\ \A b \in Alias \ {a} : d.hosts[b] = files[f].hosts[b]
                              /\ d.hosts[a] = <<Block(fresh + 1, FALSE, "none")>>
      BY <1>0, <1>3, <1>8, AddedByDoc
    <2>2. KeylessBlocks(d.hosts[a])
      <3> DEFINE x == Block(fresh + 1, FALSE, "none")
      <3>1. ~x.keys
        BY DEF Block
      <3>2. d.hosts[a] = <<x>>
        BY <2>1
      <3> HIDE DEF x
      <3>3. \A i \in DOMAIN <<x>> : <<x>>[i] = x
        OBVIOUS
      <3> QED BY <3>1, <3>2, <3>3 DEF KeylessBlocks
    <2> QED BY <1>1, <1>5, <2>1, <2>2
  <1> QED BY <1>2, <1>6, <1>7, <1>8

\* The copies the window has ahead of it.
CopiesKeyless == \A e \in ToSet(writer["window"].todo) : KeylessCopy(e)

\* A step of a thread leaves it no other copies.
LEMMA CopiesStay ==
    ASSUME Ground, NEW w \in Writers, Step(w), CopiesKeyless
    PROVE  CopiesKeyless'
  <1>0. ConfigBasics
    BY DEF Ground
  <1>1. /\ writer'[w].todo \in {writer[w].todo, Tail(writer[w].todo), Current(w).undo}
        /\ \A v \in Writers \ {w} : writer'[v] = writer[v]
    BY <1>0, StepLists
  <1>2. ~At(w, "idle")
    BY StepBusy
  <1>3. Current(w) \in Edits /\ EditOK(Current(w)) /\ writer[w].todo \in Seq(Edits) /\ writer[w].todo # <<>>
    BY <1>2, AtEdit
  <1>4. CASE w # "window"
    <2>1. writer'["window"] = writer["window"]
      BY <1>1, <1>4 DEF Writers
    <2> QED BY <2>1 DEF CopiesKeyless
  <1>5. CASE w = "window"
    <2>1. ToSet(Tail(writer["window"].todo)) \subseteq ToSet(writer["window"].todo)
      BY <1>3, <1>5, SetOfRest
    <2>2. \A e \in ToSet(Current("window").undo) : KeylessCopy(e)
      BY <1>3, <1>5, UndoMembers DEF KeylessCopy
    <2>3. writer'["window"].todo \in {writer["window"].todo, Tail(writer["window"].todo), Current("window").undo}
      BY <1>1, <1>5
    <2> QED BY <2>1, <2>2, <2>3 DEF CopiesKeyless
  <1> QED BY <1>4, <1>5

\* A step that changes no file and neither begins nor ends a check.
LEMMA QuietAccept ==
    ASSUME Ground, Acceptable, NEW w \in Writers, Quiet(w), TreeInv', ImportWaits',
           CopiesKeyless => CopiesKeyless'
    PROVE  Acceptable'
  <1>1. Now' = Now /\ Base' = Base /\ (Ignored => Ignored') /\ files' = files
    BY QuietSame DEF Quiet
  <1>2. \A f : AsPutBack(f)' = AsPutBack(f)
    <2>1. CASE w = "window"
      <3>1. ~Refusable("window") /\ ~Refusable("window")'
        BY <2>1 DEF Quiet, Refusable, At
      <3> QED BY <1>1, <3>1 DEF AsPutBack
    <2>2. CASE w # "window"
      <3>1. writer'["window"] = writer["window"]
        BY <2>2 DEF Quiet, Writers
      <3> QED BY <1>1, <3>1 DEF AsPutBack, Refusable, At, Current
    <2> QED BY <2>1, <2>2
  <1>3. PlainFiles => PlainFiles'
    <2> SUFFICES ASSUME PlainFiles PROVE PlainFiles'
      OBVIOUS
    <2>1. CopiesKeyless'
      BY DEF PlainFiles, CopiesKeyless
    <2>2. \A f \in Base' : Keyless(AsPutBack(f)')
      BY <1>1, <1>2 DEF PlainFiles
    <2>3. Base' \subseteq {"main", "old"}
      BY <1>1 DEF PlainFiles
    <2> QED BY <2>1, <2>2, <2>3 DEF PlainFiles, CopiesKeyless, Keyless
  <1> QED BY <1>1, <1>3 DEF Acceptable

\* An import that isn't adding its host yet, or knows that ssh ignores the keys.
LEMMA ImportKnows ==
    ASSUME Ground, Acceptable, ~At("import", "idle"), Current("import").kind # "header"
    PROVE  Ignored
  BY DEF Acceptable, ImportWaits

\* The other thread's step leaves the import waiting.
LEMMA WindowWaits ==
    ASSUME Acceptable, writer'["import"] = writer["import"], Ignored => Ignored'
    PROVE  ImportWaits'
  BY DEF Acceptable, ImportWaits, At, Current

\* Where there is nothing to do, or another text is there.
LEMMA NothingAccept ==
    ASSUME Ground, Calm, Acceptable, NEW w \in Writers, Step(w),
           NothingToDo(w) \/ NothingToDelete(w) \/ OtherText(w)
    PROVE  Acceptable'
  <1>0. ConfigBasics /\ ConfigTypes /\ ~At(w, "idle") /\ ~At(w, "check")
    BY DEF Ground, ConfigBasics, NothingToDo, NothingToDelete, OtherText, At
  <1>1. /\ Current(w) \in Edits /\ EditOK(Current(w)) /\ writer[w].todo \in Seq(Edits) /\ writer[w].todo # <<>>
        /\ Tail(writer[w].todo) \in Seq(Edits) /\ Current(w).undo \in Seq(Edits)
        /\ w = "import" => Current(w).kind \in {"header", "add"}
    BY <1>0, AtEdit, CurrentType
  <1>2. Restarts(w) /\ UNCHANGED <<files, known>>
    BY <1>0, RestartsIn DEF NothingToDo, NothingToDelete, OtherText
  <1>3. Quiet(w)
    BY <1>0, <1>2 DEF Quiet, Restarts
  <1>4. Now' = Now /\ (Ignored => Ignored')
    BY <1>3, QuietSame
  <1>5. TreeInv'
    <2>1. PICK todo \in Seq(Edits), to \in {dir, NextDir(w)} : TakesUp(w, todo, files', to)
      BY <1>1, <1>2 DEF NothingToDo, NothingToDelete, OtherText
    <2> QED BY <1>0, <1>4, <2>1, TakesUpTree DEF Acceptable
  <1>6. ImportWaits'
    <2>1. CASE w = "window"
      <3>1. writer'["import"] = writer["import"]
        BY <1>2, <2>1 DEF Restarts, Writers
      <3> QED BY <1>4, <3>1, WindowWaits
    <2>2. CASE w = "import"
      <3>1. CASE Current(w).kind = "add"
        <4>1. Ignored
          BY <1>0, <2>2, <3>1, ImportKnows
        <4> QED BY <1>4, <4>1 DEF ImportWaits
      <3>2. CASE Current(w).kind = "header" /\ NothingToDo(w)
        <4>1. files["main"].ignore /\ Current(w).to \in Now
          BY <3>2, HeaderThere
        <4>2. Ignored
          BY <1>0, <2>2, <3>2, <4>1, CalmHeader
        <4> QED BY <1>4, <4>2 DEF ImportWaits
      <3>3. CASE Current(w).kind = "header" /\ OtherText(w)
        <4>1. Current(w).undo = <<>>
          BY <1>1, <3>3 DEF EditOK
        <4>2. writer'[w].step = "idle"
          BY <1>0, <1>1, <3>3, <4>1, TakesUpWriter DEF OtherText
        <4> QED BY <2>2, <4>2 DEF ImportWaits, At
      <3>4. ~NothingToDelete(w)
        BY <1>1, <2>2 DEF NothingToDelete
      <3> QED BY <1>1, <2>2, <3>1, <3>2, <3>3, <3>4
    <2> QED BY <2>1, <2>2 DEF Writers
  <1>7. CopiesKeyless => CopiesKeyless'
    BY CopiesStay
  <1> QED BY <1>3, <1>5, <1>6, <1>7, QuietAccept

\* A thread goes on with its edit.
LEMMA GoingAccept ==
    ASSUME Ground, Acceptable, NEW w \in Writers, Step(w), ReadOn(w) \/ SameText(w)
    PROVE  Acceptable'
  <1>0. ConfigBasics /\ ConfigTypes /\ ~At(w, "idle") /\ ~At(w, "check")
    BY DEF Ground, ConfigBasics, ReadOn, SameText, At
  <1>1. /\ writer'[w].todo = writer[w].todo /\ writer'[w].step \in {"compare", "replace"}
        /\ \A v \in Writers \ {w} : writer'[v] = writer[v]
        /\ UNCHANGED <<files, known, tree>>
    <2>1. CASE ReadOn(w)
      BY <1>0, <2>1, ReadOnWriter DEF ReadOn
    <2>2. CASE SameText(w)
      BY <1>0, <2>2, NextWriter DEF SameText
    <2> QED BY <2>1, <2>2
  <1>2. Quiet(w)
    BY <1>0, <1>1 DEF Quiet
  <1>3. Now' = Now /\ (Ignored => Ignored')
    BY <1>2, QuietSame
  <1>4. TreeInv'
    <2>1. At("window", "idle")' => At("window", "idle")
      BY <1>1 DEF At, Writers
    <2> QED BY <1>1, <1>3, <2>1 DEF TreeInv, Acceptable
  <1>5. ImportWaits'
    <2>1. Current("import")' = Current("import") /\ (~At("import", "idle")' => ~At("import", "idle"))
      BY <1>0, <1>1 DEF Current, At, Writers
    <2> QED BY <1>3, <2>1 DEF Acceptable, ImportWaits
  <1>6. CopiesKeyless => CopiesKeyless'
    BY CopiesStay
  <1> QED BY <1>2, <1>4, <1>5, <1>6, QuietAccept

\* The copy of the folders is dropped.
LEMMA DroppedAccept ==
    ASSUME Ground, Acceptable, NEW w \in Writers, Step(w), Dropped(w)
    PROVE  Acceptable'
  <1>0. ConfigBasics /\ ConfigTypes /\ ~At(w, "idle") /\ ~At(w, "check")
    BY DEF Ground, ConfigBasics, Dropped, At
  <1>1. Current(w).kind = "drop" /\ Current(w).file = "new" /\ w = "window" /\ Tail(writer[w].todo) \in Seq(Edits)
    BY <1>0, AtEdit, CurrentType DEF Dropped, EditOK, Writers
  <1>2. Restarts(w)
    BY <1>0, RestartsIn
  <1>3. files' = [files EXCEPT !["new"] = NoDoc]
    BY <1>1 DEF Dropped
  <1>4. files'["main"] = files["main"] /\ files'["old"] = files["old"]
    BY <1>3, NowType
  <1>5. Now' = Now
    BY <1>4 DEF Now, ReadFiles, Reads
  <1>6. ~Switching /\ ~Switching' /\ ~Refusable("window") /\ ~Refusable("window")' /\ (Ignored => Ignored')
    <2>1. Ignored => files'["main"].ignore
      BY <1>4 DEF Ignored
    <2> QED BY <1>0, <1>1, <1>2, <2>1, RestartsSame DEF Switching, Refusable
  <1>7. TreeInv'
    BY <1>0, <1>1, TakesUpTree DEF Acceptable, Dropped
  <1>8. ImportWaits'
    <2>1. writer'["import"] = writer["import"]
      BY <1>1, <1>2 DEF Restarts, Writers
    <2> QED BY <1>6, <2>1, WindowWaits
  <1>9. ASSUME PlainFiles PROVE PlainFiles'
    <2>1. CopiesKeyless'
      BY <1>9, CopiesStay DEF PlainFiles, CopiesKeyless
    <2>2. Base' = Base /\ Base \subseteq {"main", "old"}
      BY <1>5, <1>6, <1>9 DEF Base, PlainFiles
    <2>3. \A f \in Base : AsPutBack(f)' = AsPutBack(f)
      BY <1>4, <1>6, <2>2 DEF AsPutBack
    <2>4. \A f \in Base' : Keyless(AsPutBack(f)')
      BY <1>9, <2>2, <2>3 DEF PlainFiles
    <2> QED BY <2>1, <2>2, <2>4 DEF PlainFiles, CopiesKeyless, Keyless
  <1> QED BY <1>6, <1>7, <1>8, <1>9 DEF Acceptable

\* Where nothing is written that the window may have to put back.
LEMMA PlainAsRead ==
    ASSUME ~Refusable("window")', ~Switching', CopiesKeyless', Now' \subseteq {"main", "old"},
           \A f \in Now' : Keyless(files'[f])
    PROVE  PlainFiles'
  <1>1. Base' = Now'
    BY DEF Base
  <1>2. \A f : AsPutBack(f)' = files'[f]
    BY DEF AsPutBack
  <1>3. \A f \in Base' : Keyless(AsPutBack(f)')
    BY <1>1, <1>2
  <1> QED BY <1>1, <1>3 DEF PlainFiles, CopiesKeyless, Keyless

\* ssh ignores the keys once no thread may put back a main config without it.
LEMMA IgnoredAsWritten ==
    ASSUME files'["main"].ignore, ~Refusable("window")' \/ ~(Current("window").file = "main")',
           ~Refusable("import")' \/ ~(Current("import").file = "main")'
    PROVE  Ignored'
  BY DEF Ignored, Writers

\* A change that ssh accepts.
LEMMA PassesAccept ==
    ASSUME Ground, Calm, Acceptable, NEW w \in Writers, Step(w), Passes(w)
    PROVE  Acceptable'
  <1>0. ConfigBasics /\ ConfigTypes /\ ~At(w, "idle") /\ At(w, "check")
    BY DEF Ground, ConfigBasics, Passes, At
  <1>1. Restarts(w) /\ files' = files
    BY <1>0, RestartsIn DEF Passes
  <1>2. Now' = Now
    BY <1>1 DEF Now, ReadFiles, Reads
  <1>3. TreeInv'
    <2>1. Tail(writer[w].todo) \in Seq(Edits)
      BY <1>0, AtEdit, CurrentType
    <2> QED BY <1>0, <1>1, <1>2, <2>1, TakesUpTree DEF Acceptable, Passes
  <1>4. Ignored => Ignored'
    <2>1. Ignored => files'["main"].ignore
      BY <1>1 DEF Ignored
    <2> QED BY <1>1, <2>1, RestartsSame
  <1>5. CASE Ignored
    BY <1>3, <1>4, <1>5 DEF Acceptable, ImportWaits
  <1>6. CASE ~Ignored /\ w = "import"
    <2>1. Current("import").kind = "header"
      BY <1>0, <1>6, ImportKnows
    <2>2. Ignored
      BY <1>0, <1>6, <2>1, CalmHeader
    <2> QED BY <1>6, <2>2
  <1>7. CASE ~Ignored /\ w = "window"
    <2>1. writer'["import"] = writer["import"] /\ ~Refusable("window")' /\ ~Switching'
          /\ (Refusable("import")' <=> Refusable("import")) /\ Current("import")' = Current("import")
      BY <1>1, <1>7, RestartsSame DEF Writers
    <2>2. ImportWaits'
      BY <1>4, <2>1, WindowWaits
    <2>3. CASE files["main"].ignore
      <3>1. ~Refusable("import")' \/ ~(Current("import").file = "main")'
        BY <2>1, ImportRefusable
      <3>2. Ignored'
        BY <1>1, <2>1, <2>3, <3>1, IgnoredAsWritten
      <3> QED BY <1>3, <2>2, <3>2 DEF Acceptable
    <2>4. CASE ~files["main"].ignore
      <3>1. PlainFiles
        BY <1>7 DEF Acceptable
      <3>2. CopiesKeyless'
        BY <3>1, CopiesStay DEF PlainFiles, CopiesKeyless
      <3>3. ~Switching
        BY <2>4, CalmSwitching
      <3>4. Base = Now
        BY <3>3 DEF Base
      <3>5. \A f \in Now : Keyless(files[f])
        <4>1. CASE Current("window").check = "nothing"
          <5>1. ~Refusable("window")
            BY <4>1 DEF Refusable, Unchecked
          <5> QED BY <3>1, <3>4, <5>1 DEF PlainFiles, AsPutBack
        <4>2. CASE Current("window").check # "nothing"
          BY <1>7, <2>4, <4>2 DEF Passes, Checks, Accepts, Now
        <4> QED BY <4>1, <4>2
      <3>6. PlainFiles'
        <4>1. Now' \subseteq {"main", "old"}
          BY <1>2, <3>1, <3>4 DEF PlainFiles
        <4>2. \A f \in Now' : Keyless(files'[f])
          BY <1>1, <1>2, <3>5
        <4> QED BY <2>1, <3>2, <4>1, <4>2, PlainAsRead
      <3> QED BY <1>3, <2>2, <3>6 DEF Acceptable
    <2> QED BY <2>3, <2>4
  <1> QED BY <1>5, <1>6, <1>7 DEF Writers

\* A change that ssh refuses.
LEMMA RefusedAccept ==
    ASSUME Ground, Calm, Acceptable, NEW w \in Writers, Step(w), Refused(w)
    PROVE  Acceptable'
  <1>0. ConfigBasics /\ ConfigTypes /\ ~At(w, "idle") /\ ~At(w, "read")
    BY DEF Ground, ConfigBasics, Refused, At
  <1>1. /\ At(w, "check") /\ Refusable(w) /\ Current(w).file \in ConfigFile /\ EditOK(Current(w))
        /\ Makes(Current(w), writer[w].text, writer[w].new) /\ files[Current(w).file] = writer[w].new
        /\ files'[Current(w).file] = writer[w].text
        /\ \A g \in ConfigFile \ {Current(w).file} : files'[g] = files[g]
        /\ w = "import" => Current(w).kind = "add" /\ Current(w).file # "main"
        /\ Restarts(w)
    BY CalmRefused
  <1>2. Ignored => Ignored'
    <2>1. Ignored => files'["main"].ignore
      <3>1. CASE Current(w).file = "main"
        BY <1>1, <3>1 DEF Ignored
      <3>2. CASE Current(w).file # "main"
        BY <1>1, <3>2 DEF Ignored, ConfigFile
      <3> QED BY <3>1, <3>2
    <2> QED BY <1>1, <2>1, RestartsSame
  <1>3. TreeInv'
    <2>1. Current(w).undo \in Seq(Edits)
      BY <1>0, AtEdit, CurrentType
    <2>2. w = "window" \/ Now' = Now
      <3>1. CASE w # "window"
        <4>1. files'["main"] = files["main"]
          BY <1>1, <3>1 DEF Writers, ConfigFile
        <4> QED BY <4>1 DEF Now, ReadFiles, Reads
      <3> QED BY <3>1
    <2> QED BY <1>0, <2>1, <2>2, TakesUpTree DEF Acceptable, Refused
  <1>4. CASE Ignored
    BY <1>2, <1>3, <1>4 DEF Acceptable, ImportWaits
  <1>5. CASE ~Ignored /\ w = "import"
    <2>1. Ignored
      BY <1>0, <1>1, <1>5, ImportKnows
    <2> QED BY <1>5, <2>1
  <1>6. CASE ~Ignored /\ w = "window"
    <2>1. writer'["import"] = writer["import"] /\ ~Refusable("window")' /\ ~Switching'
      BY <1>1, <1>6, RestartsSame DEF Writers
    <2>2. ImportWaits'
      BY <1>2, <2>1, WindowWaits
    <2>3. PlainFiles
      BY <1>6 DEF Acceptable
    <2>4. CopiesKeyless'
      BY <2>3, CopiesStay DEF PlainFiles, CopiesKeyless
    <2>5. files' \in [ConfigFile -> Docs]
      <3>1. ConfigBasics'
        BY <1>0, NextBasics DEF ConfigNext
      <3> QED BY <3>1 DEF ConfigBasics, ConfigTypes
    <2>6. Now' = ToSet(files'["main"].include) \cup {"main"}
      BY <2>5, ReadsType DEF Now
    <2>7. Now' = Base
      <3>1. CASE Switching
        <4>1. Current(w).file = "main"
          BY <1>6, <3>1, SwitchingNow
        <4>2. files'["main"] = writer["window"].text
          BY <1>1, <1>6, <4>1
        <4> QED BY <2>6, <3>1, <4>2 DEF Base
      <3>2. CASE ~Switching
        <4>1. files'["main"].include = files["main"].include
          <5>1. CASE Current(w).file # "main"
            BY <1>1, <5>1 DEF ConfigFile
          <5>2. CASE Current(w).file = "main"
            <6>1. Current(w).kind \notin NewKinds
              BY <1>0, <5>2, AtEdit DEF Shaped, Folders
            <6>2. Current(w).kind \notin {"header", "include"}
              BY <1>1, <1>6, <3>2 DEF Refusable, Unchecked, Switching, EditOK
            <6>3. writer[w].new.include = writer[w].text.include
              BY <1>1, <6>1, <6>2 DEF Makes, HeadMade
            <6> QED BY <1>1, <5>2, <6>3
          <5> QED BY <5>1, <5>2
        <4> QED BY <2>6, <3>2, <4>1, NowType DEF Base
      <3> QED BY <3>1, <3>2
    <2>8. \A f \in Base : files'[f] = AsPutBack(f)
      <3> SUFFICES ASSUME NEW f \in Base PROVE files'[f] = AsPutBack(f)
        OBVIOUS
      <3>1. f \in ConfigFile
        BY <2>3 DEF PlainFiles, ConfigFile, Folders
      <3> QED BY <1>1, <1>6, <3>1 DEF AsPutBack
    <2>9. PlainFiles'
      <3>1. Now' \subseteq {"main", "old"}
        BY <2>3, <2>7 DEF PlainFiles
      <3>2. \A f \in Now' : Keyless(files'[f])
        BY <2>3, <2>7, <2>8 DEF PlainFiles
      <3> QED BY <2>1, <2>4, <3>1, <3>2, PlainAsRead
    <2> QED BY <1>3, <2>2, <2>9 DEF Acceptable
  <1> QED BY <1>4, <1>5, <1>6 DEF Writers

\* A thread that replaces a file where ssh refuses keys and none was there: the window's
\* own edits.
LEMMA ReplacePlain ==
    ASSUME Ground, KeysInv, Calm, Acceptable, ~Ignored, Step("window"), Replace("window")
    PROVE  Ignored' \/ PlainFiles'
  <1> DEFINE e == Current("window")
  <1>0. ConfigBasics /\ ConfigTypes /\ "window" \in Writers
    BY DEF Ground, ConfigBasics, Writers
  <1>1. /\ At("window", "replace") /\ e.file \in ConfigFile /\ e.kind \in Kinds
        /\ EditOK(e) /\ Shaped(e) /\ e \in ToSet(writer["window"].todo)
        /\ Makes(e, writer["window"].text, writer["window"].new)
        /\ files[e.file] = writer["window"].text /\ files'[e.file] = writer["window"].new
        /\ \A g \in ConfigFile \ {e.file} : files'[g] = files[g]
        /\ e.kind \in MainKinds => files'["main"].ignore
        /\ e.kind \notin {"header", "include"} => files'["main"].include = files["main"].include
    BY <1>0, CalmReplace
  <1>2. /\ writer'["window"].text = writer["window"].text /\ writer'["window"].todo = writer["window"].todo
        /\ Current("window")' = e /\ At("window", "check")' /\ ~Switching
        /\ (Switching' <=> e.kind = "include" /\ e.check = "hosts")
        /\ writer'["import"] = writer["import"]
    BY <1>0, ReplaceWriters DEF Writers
  <1>3. ~Refusable("window") /\ ~At("window", "idle") /\ ~At("window", "read")
    BY <1>1 DEF Refusable, At
  <1>4. Refusable("window")' <=> ~Unchecked(e)
    BY <1>2 DEF Refusable, Unchecked
  <1>5. PlainFiles
    BY DEF Acceptable
  <1>6. Base = Now /\ Base \subseteq {"main", "old"} /\ \A f \in Base : Keyless(files[f])
    BY <1>2, <1>3, <1>5 DEF Base, PlainFiles, AsPutBack
  <1>7. CopiesKeyless /\ CopiesKeyless'
    BY <1>2, <1>5 DEF PlainFiles, CopiesKeyless
  <1>8. KeylessMade(e, writer["window"].text, writer["window"].new) /\ KeylessCopy(e)
    BY <1>0, <1>1, <1>3, <1>7 DEF KeysInv, CopiesKeyless
  <1>9. ~(Refusable("import")' /\ (Current("import").file = "main")')
    <2>1. (Refusable("import")' <=> Refusable("import")) /\ Current("import")' = Current("import")
      BY <1>2 DEF Refusable, At, Current
    <2> QED BY <2>1, ImportRefusable
  <1>10. files' \in [ConfigFile -> Docs]
    <2>1. ConfigBasics'
      BY <1>0, NextBasics DEF ConfigNext
    <2> QED BY <2>1 DEF ConfigBasics, ConfigTypes
  <1> HIDE DEF e
  <1>11. CASE e.kind \in {"header", "ignore"} \/ (e.kind = "include" /\ e.check = "parse")
    <2>1. Unchecked(e) /\ e.kind \in MainKinds
      BY <1>11 DEF Unchecked, MainKinds
    <2>2. Ignored'
      BY <1>1, <1>4, <1>9, <2>1, IgnoredAsWritten
    <2> QED BY <2>2
  <1>12. CASE e.kind = "include" /\ e.check = "hosts"
    <2>1. Switching' /\ e.file = "main" /\ Refusable("window")'
      BY <1>1, <1>2, <1>4, <1>12 DEF Shaped, MainKinds, Unchecked
    <2>2. Base' = Base
      <3>1. Base' = {"main"} \cup ToSet(writer'["window"].text.include)
        BY <2>1 DEF Base
      <3>2. writer'["window"].text = files["main"]
        BY <1>1, <1>2, <2>1
      <3> QED BY <1>6, <3>1, <3>2, NowType
    <2>3. \A f \in Base : AsPutBack(f)' = files[f]
      <3> SUFFICES ASSUME NEW f \in Base PROVE AsPutBack(f)' = files[f]
        OBVIOUS
      <3>1. CASE f = "main"
        BY <1>1, <1>2, <2>1, <3>1 DEF AsPutBack
      <3>2. CASE f # "main"
        <4>1. f \in ConfigFile
          BY <1>6 DEF ConfigFile, Folders
        <4>2. AsPutBack(f)' = files'[f]
          BY <1>2, <2>1, <3>2 DEF AsPutBack
        <4> QED BY <1>1, <2>1, <3>2, <4>1, <4>2
      <3> QED BY <3>1, <3>2
    <2>4. \A f \in Base' : Keyless(AsPutBack(f)')
      BY <1>6, <2>2, <2>3
    <2>5. Base' \subseteq {"main", "old"}
      BY <1>6, <2>2
    <2> QED BY <1>7, <2>4, <2>5 DEF PlainFiles, CopiesKeyless, Keyless
  <1>13. CASE e.kind \notin {"header", "ignore", "include"}
    <2>1. ~Switching' /\ files'["main"].include = files["main"].include
      BY <1>1, <1>2, <1>13
    <2>2. Base' = Base
      BY <1>6, <2>1 DEF Base, Now, ReadFiles, Reads
    <2>3. \A f \in Base : Keyless(AsPutBack(f)')
      <3> SUFFICES ASSUME NEW f \in Base PROVE Keyless(AsPutBack(f)')
        OBVIOUS
      <3>0. f \in ConfigFile /\ Keyless(files[f]) /\ f # "new"
        BY <1>6 DEF ConfigFile, Folders
      <3>1. CASE f # e.file
        <4>1. AsPutBack(f)' = files'[f]
          BY <1>2, <3>1 DEF AsPutBack
        <4> QED BY <1>1, <3>0, <3>1, <4>1
      <3>2. CASE f = e.file /\ ~Unchecked(e)
        <4>1. AsPutBack(f)' = writer'["window"].text
          BY <1>2, <1>4, <3>2 DEF AsPutBack
        <4> QED BY <1>1, <1>2, <3>0, <3>2, <4>1
      <3>3. CASE f = e.file /\ Unchecked(e)
        <4>1. e.kind \in {"copy", "withdraw", "clone", "drop"}
          BY <1>1, <1>13, <3>3 DEF Unchecked, EditOK, Kinds, HostKinds, MainKinds, NewKinds
        <4>2. e.kind \in {"copy", "withdraw"}
          BY <1>1, <3>0, <3>3, <4>1 DEF EditOK
        <4>3. Keyless(writer["window"].new)
          BY <1>1, <1>8, <3>0, <3>3, <4>2 DEF KeylessMade
        <4>4. AsPutBack(f)' = files'[f]
          BY <1>4, <3>3 DEF AsPutBack
        <4> QED BY <1>1, <3>3, <4>3, <4>4
      <3> QED BY <3>1, <3>2, <3>3
    <2>4. \A f \in Base' : Keyless(AsPutBack(f)')
      BY <2>2, <2>3
    <2>5. Base' \subseteq {"main", "old"}
      BY <1>6, <2>2
    <2> QED BY <1>7, <2>4, <2>5 DEF PlainFiles, CopiesKeyless, Keyless
  <1>14. e.kind = "include" => e.check = "parse" \/ e.check = "hosts"
    BY <1>1 DEF EditOK
  <1> QED BY <1>11, <1>12, <1>13, <1>14

\* A file is replaced.
LEMMA ReplaceAccept ==
    ASSUME Ground, KeysInv, Calm, Acceptable, NEW w \in Writers, Step(w), Replace(w), Calm'
    PROVE  Acceptable'
  <1>0. ConfigBasics /\ ConfigTypes
    BY DEF Ground, ConfigBasics
  <1>1. /\ At(w, "replace") /\ Current(w).file \in ConfigFile
        /\ files[Current(w).file] = writer[w].text
        /\ w = "import" => Current(w).kind \in {"header", "add"}
        /\ tree' = tree
        /\ files["main"].ignore => files'["main"].ignore
        /\ Current(w).kind \in MainKinds => files'["main"].ignore
        /\ Current(w).kind \notin {"header", "include"} => files'["main"].include = files["main"].include
        /\ Current(w).kind = "header" => ToSet(files["main"].include) \subseteq ToSet(files'["main"].include)
    BY CalmReplace
  <1>2. /\ \A v \in Writers : Current(v)' = Current(v) /\ writer'[v].text = writer[v].text
        /\ \A v \in Writers \ {w} : /\ writer'[v] = writer[v] /\ (Refusable(v)' <=> Refusable(v))
                                    /\ \A s : At(v, s)' <=> At(v, s)
        /\ ~At(w, "idle")'
    BY <1>0, ReplaceWriters
  <1>3. ~At(w, "idle")
    BY <1>1 DEF At
  <1>4. Ignored => Ignored'
    <2> SUFFICES ASSUME Ignored PROVE Ignored'
      OBVIOUS
    <2>1. files["main"].ignore /\ files'["main"].ignore
      BY <1>1 DEF Ignored
    <2>2. ASSUME NEW v \in Writers, Refusable(v)', Current(v).file = "main" PROVE writer[v].text.ignore
      <3>1. CASE v = w
        BY <1>1, <2>1, <2>2, <3>1
      <3>2. CASE v # w
        <4>1. Refusable(v)
          BY <1>2, <2>2, <3>2
        <4> QED BY <2>2, <4>1 DEF Ignored
      <3> QED BY <3>1, <3>2
    <2> QED BY <1>2, <2>1, <2>2 DEF Ignored
  <1>5. TreeInv'
    <2> SUFFICES ASSUME At("window", "idle")' PROVE \A h \in tree' : h.file \in Now'
      BY DEF TreeInv
    <2>1. w = "import" /\ At("window", "idle")
      BY <1>2 DEF Writers
    <2>2. Now \subseteq Now'
      <3>1. ToSet(files["main"].include) \subseteq ToSet(files'["main"].include)
        BY <1>1, <2>1
      <3>2. ConfigBasics'
        BY <1>0, NextBasics DEF ConfigNext
      <3>3. Now' = ToSet(files'["main"].include) \cup {"main"}
        BY <3>2, ReadsType DEF ConfigBasics, ConfigTypes, Now
      <3> QED BY <3>1, <3>3, NowType
    <2> QED BY <1>1, <2>1, <2>2 DEF Acceptable, TreeInv
  <1>6. ImportWaits'
    <2>1. Current("import")' = Current("import")
      BY <1>2 DEF Writers
    <2>2. ~At("import", "idle")' => ~At("import", "idle")
      BY <1>2, <1>3 DEF Writers
    <2> QED BY <1>4, <2>1, <2>2 DEF Acceptable, ImportWaits
  <1>7. CASE Ignored
    BY <1>4, <1>5, <1>6, <1>7 DEF Acceptable
  <1>8. CASE ~Ignored /\ w = "import"
    <2>1. Current("import").kind = "header"
      BY <1>3, <1>8, ImportKnows
    <2>2. files'["main"].ignore
      BY <1>1, <1>8, <2>1 DEF MainKinds
    <2>3. Current(w).file = "main"
      BY <1>3, <1>8, <2>1, AtEdit DEF Shaped, MainKinds
    <2>4. ~Refusable("import")'
      <3>1. Current("import")' = Current("import")
        BY <1>2 DEF Writers
      <3> QED BY <2>1, <3>1 DEF Refusable, Unchecked
    <2>5. ~Refusable("window")' \/ ~(Current("window").file = "main")'
      <3>1. "raced" \notin Mishap("raced", Races(w, Current(w).file))
        BY DEF Replace, Calm
      <3>2. "window" \in Writers \ {w}
        BY <1>8 DEF Writers
      <3>3. ~At("window", "check") \/ Current("window").file # "main"
        BY <2>3, <3>1, <3>2, NoRace
      <3>4. (Refusable("window")' <=> Refusable("window")) /\ Current("window")' = Current("window")
        BY <1>2, <3>2
      <3> QED BY <3>3, <3>4 DEF Refusable
    <2>6. Ignored'
      BY <2>2, <2>4, <2>5, IgnoredAsWritten
    <2> QED BY <1>5, <1>6, <2>6 DEF Acceptable
  <1>9. CASE ~Ignored /\ w = "window"
    <2>1. Ignored' \/ PlainFiles'
      BY <1>9, ReplacePlain
    <2> QED BY <1>5, <1>6, <2>1 DEF Acceptable
  <1> QED BY <1>7, <1>8, <1>9 DEF Writers

\* The edits of an operation that copies nothing.
LEMMA NoCopies ==
    ASSUME NEW x, NEW y, x.kind # "copy", y.kind # "copy"
    PROVE  /\ \A e \in ToSet(<<x>>) : KeylessCopy(e)
           /\ \A e \in ToSet(<<x, y>>) : KeylessCopy(e)
  <1>1. ToSet(<<x>>) = {x}
    BY DEF ToSet
  <1>2. ToSet(<<x, y>>) = {x, y}
    BY DEF ToSet
  <1> QED BY <1>1, <1>2 DEF KeylessCopy

\* A host that the window moves has no NativeTerm keys where no file has.
LEMMA BeginsKeyless ==
    ASSUME Ground, TreeInv, PlainFiles, At("window", "idle"), NEW todo, WindowBegins(todo)
    PROVE  \A e \in ToSet(todo) : KeylessCopy(e)
  <1>0. ConfigTypes
    BY DEF Ground, ConfigBasics
  <1>1. Header.kind = "header" /\ Ignore.kind = "ignore"
    BY <1>0, HeaderTypes
  <1>2. CASE \E a \in Alias \ {h.alias : h \in tree}, f \in {"main", dir} : todo = CreateHost(a, f)
    <2>1. PICK a, f : todo = CreateHost(a, f)
      BY <1>2
    <2> DEFINE x == IF f = "main" THEN Ignore ELSE Header
               y == Edit("add", f, a, NewBlock, "name")
    <2>2. x.kind # "copy" /\ y.kind # "copy" /\ todo = <<x, y>>
      BY <1>1, <2>1 DEF CreateHost, Edit
    <2> HIDE DEF x, y
    <2> QED BY <2>2, NoCopies
  <1>3. CASE \E h \in tree : todo = UpdateHost(h)
    <2>1. PICK h \in tree : todo = UpdateHost(h)
      BY <1>3
    <2> DEFINE x == Ignore
               y == Edit("update", h.file, h.alias, NewBlock, "name")
    <2>2. x.kind # "copy" /\ y.kind # "copy" /\ todo = <<x, y>>
      BY <1>1, <2>1 DEF UpdateHost, Edit
    <2> HIDE DEF x, y
    <2> QED BY <2>2, NoCopies
  <1>4. CASE \E h \in tree : todo = DeleteHost(h) \/ todo = EnsureId(h)
    <2>1. PICK x : x.kind # "copy" /\ todo = <<x>>
      BY <1>4 DEF DeleteHost, EnsureId, Edit
    <2> QED BY <2>1, NoCopies
  <1>5. CASE \E h \in tree : \E f \in {"main", dir} \ {h.file} : Has(h) /\ todo = MoveHost(h, f)
    <2>1. PICK h \in tree : \E f \in {"main", dir} \ {h.file} : Has(h) /\ todo = MoveHost(h, f)
      BY <1>5
    <2>2. PICK f \in {"main", dir} \ {h.file} : Has(h) /\ todo = MoveHost(h, f)
      BY <2>1
    <2> DEFINE x == Header
               c == CopyOf(h, f)
               r == Removal(h, f)
    <2>3. /\ c.kind = "copy" /\ c.block = BlockOf(h) /\ r.kind = "remove" /\ x.kind = "header"
          /\ todo = IF f = "main" THEN <<c, r>> ELSE <<x, c, r>>
      BY <1>0, <1>1, <2>2, MoveTypes
    <2>4. ~BlockOf(h).keys
      <3>1. h.file \in Now
        BY DEF TreeInv
      <3>2. ~Switching /\ ~Refusable("window")
        BY DEF Switching, Refusable, At
      <3>3. Keyless(files[h.file])
        BY <3>1, <3>2 DEF PlainFiles, Base, AsPutBack
      <3>4. h.alias \in Alias /\ files[h.file] \in Docs /\ Len(files[h.file].hosts[h.alias]) > 0
        BY <1>0, <2>2, BlockOfType
      <3>5. files[h.file].hosts[h.alias] \in Seq(Blks)
        BY <3>4, DocParts
      <3>6. 1 \in DOMAIN files[h.file].hosts[h.alias]
        BY <3>4, <3>5
      <3>7. ~files[h.file].hosts[h.alias][1].keys
        BY <3>3, <3>4, <3>6 DEF Keyless
      <3> QED BY <1>0, <2>2, <3>7, BlockOfType
    <2> HIDE DEF x, c, r
    <2>5. KeylessCopy(c) /\ KeylessCopy(r) /\ KeylessCopy(x)
      BY <2>3, <2>4 DEF KeylessCopy
    <2>6. ToSet(<<c, r>>) = {c, r} /\ ToSet(<<x, c, r>>) = {x, c, r}
      BY DEF ToSet
    <2>7. ToSet(todo) \subseteq {x, c, r}
      BY <2>3, <2>6
    <2> QED BY <2>5, <2>7
  <1>6. CASE todo = CreateFolder \/ (\E k \in {"label", "options", "plain"} : todo = SetFolder(k))
    <2>1. PICK k \in {"create", "label", "options", "plain"} :
             todo \in {<<Plain(k, dir)>>, <<Plain(k, dir), Header>>, <<Ignore, Plain(k, dir)>>}
      BY <1>6 DEF CreateFolder, SetFolder
    <2> DEFINE y == Plain(k, dir)
               x == Header
               z == Ignore
    <2>2. y.kind # "copy" /\ x.kind # "copy" /\ z.kind # "copy"
      BY <1>1, <2>1 DEF Plain, Edit
    <2>3. todo = <<y>> \/ todo = <<y, x>> \/ todo = <<z, y>>
      BY <2>1
    <2> HIDE DEF x, y, z
    <2>4. \A e \in ToSet(<<y>>) : KeylessCopy(e)
      BY <2>2, NoCopies
    <2>5. \A e \in ToSet(<<y, x>>) : KeylessCopy(e)
      BY <2>2, NoCopies
    <2>6. \A e \in ToSet(<<z, y>>) : KeylessCopy(e)
      BY <2>2, NoCopies
    <2> QED BY <2>3, <2>4, <2>5, <2>6
  <1>7. CASE todo = MoveFolders \/ todo = AdoptFolders
    <2> DEFINE c == MoveFolders[1]
               i == MoveFolders[2]
               x == AdoptFolders[1]
    <2>1. /\ MoveFolders = <<c, i>> /\ AdoptFolders = <<x>>
          /\ c.kind = "clone" /\ i.kind = "include" /\ x.kind = "include"
      BY <1>0, FoldersTypes
    <2>2. todo = <<c, i>> \/ todo = <<x>>
      BY <1>7, <2>1
    <2> HIDE DEF c, i, x
    <2>3. \A e \in ToSet(<<c, i>>) : KeylessCopy(e)
      BY <2>1, NoCopies
    <2>4. \A e \in ToSet(<<x>>) : KeylessCopy(e)
      BY <2>1, NoCopies
    <2> QED BY <2>2, <2>3, <2>4
  <1> QED BY <1>2, <1>3, <1>4, <1>5, <1>6, <1>7 DEF WindowBegins

\* An operation, or an import, begins.
LEMMA BegunAccept ==
    ASSUME Ground, Acceptable, NEW todo,
           \/ WindowBegins(todo) /\ Begun("window", todo)
           \/ ImportBegins(todo) /\ Begun("import", todo)
    PROVE  Acceptable'
  <1>0. ConfigBasics /\ ConfigTypes /\ todo \in Seq(Edits)
    BY BeginTypes DEF Ground, ConfigBasics
  <1>1. ASSUME NEW w \in Writers, Begun(w, todo)
        PROVE  /\ Quiet(w) /\ TreeInv' /\ writer'[w].todo = todo
               /\ \A v \in Writers \ {w} : writer'[v] = writer[v]
               /\ Ignored => Ignored'
    <2>1. Restarts(w) /\ writer'[w].todo = todo /\ writer'[w].step = "read"
      BY <1>0, <1>1, BegunRestarts
    <2>2. UNCHANGED <<files, known, tree>> /\ ~At(w, "check")
      BY <1>1 DEF Begun, At
    <2>3. Quiet(w)
      BY <2>1, <2>2 DEF Quiet, Restarts
    <2>4. Now' = Now /\ (Ignored => Ignored')
      BY <2>3, QuietSame
    <2>5. At("window", "idle")' => At("window", "idle")
      BY <2>1 DEF At, Writers, Restarts
    <2>6. TreeInv'
      BY <2>2, <2>4, <2>5 DEF TreeInv, Acceptable
    <2> QED BY <2>1, <2>3, <2>4, <2>6 DEF Restarts
  <1>2. CASE WindowBegins(todo) /\ Begun("window", todo)
    <2>1. /\ Quiet("window") /\ TreeInv' /\ writer'["window"].todo = todo
          /\ writer'["import"] = writer["import"] /\ (Ignored => Ignored')
      BY <1>1, <1>2 DEF Writers
    <2>2. ImportWaits'
      BY <2>1, WindowWaits
    <2>3. CASE Ignored
      BY <2>1, <2>2, <2>3 DEF Acceptable
    <2>4. CASE ~Ignored
      <3>1. CopiesKeyless'
        <4>1. At("window", "idle")
          BY <1>2 DEF Begun
        <4>2. \A e \in ToSet(todo) : KeylessCopy(e)
          BY <1>2, <2>4, <4>1, BeginsKeyless DEF Acceptable
        <4> QED BY <2>1, <4>2 DEF CopiesKeyless
      <3> QED BY <2>1, <2>2, <3>1, QuietAccept DEF Writers
    <2> QED BY <2>3, <2>4
  <1>3. CASE ImportBegins(todo) /\ Begun("import", todo)
    <2>1. /\ Quiet("import") /\ TreeInv' /\ writer'["import"].todo = todo
          /\ writer'["window"] = writer["window"]
      BY <1>1, <1>3 DEF Writers
    <2>2. ImportWaits'
      <3>1. PICK y : todo = <<Header, y>>
        BY <1>3 DEF ImportBegins, ImportFolder
      <3>2. Header.kind = "header"
        BY <1>0, HeaderTypes
      <3>3. Current("import")' = Header
        BY <2>1, <3>1 DEF Current
      <3>4. (Current("import").kind = "header")'
        BY <3>2, <3>3
      <3> QED BY <3>4 DEF ImportWaits
    <2>3. CopiesKeyless => CopiesKeyless'
      BY <2>1 DEF CopiesKeyless
    <2> QED BY <2>1, <2>2, <2>3, QuietAccept DEF Writers
  <1> QED BY <1>2, <1>3

\* Others write.
LEMMA OthersAccept ==
    ASSUME Ground, Acceptable, OthersWrite, Calm'
    PROVE  Acceptable'
  <1>1. /\ UNCHANGED <<tree, dir, writer>>
        /\ files'["main"].ignore = files["main"].ignore
        /\ \A g \in ConfigFile : Keyless(files[g]) => Keyless(files'[g])
        /\ Now' = Now
    BY CalmOthers
  <1>2. /\ \A w : Current(w)' = Current(w) /\ (Refusable(w)' <=> Refusable(w))
        /\ \A w, s : At(w, s)' <=> At(w, s)
        /\ Switching' <=> Switching
    BY <1>1, OnlyFiles
  <1>3. Base' = Base
    BY <1>1, <1>2 DEF Base
  <1>4. Ignored => Ignored'
    BY <1>1, <1>2 DEF Ignored
  <1>5. TreeInv'
    BY <1>1, <1>2 DEF TreeInv, Acceptable
  <1>6. ImportWaits'
    BY <1>1, <1>4, WindowWaits
  <1>7. ASSUME PlainFiles PROVE PlainFiles'
    <2>1. Base' \subseteq {"main", "old"}
      BY <1>3, <1>7 DEF PlainFiles
    <2>2. \A f \in Base : Keyless(AsPutBack(f)')
      <3> SUFFICES ASSUME NEW f \in Base PROVE Keyless(AsPutBack(f)')
        OBVIOUS
      <3>1. f \in ConfigFile
        BY <1>7 DEF PlainFiles, ConfigFile, Folders
      <3>2. Keyless(AsPutBack(f))
        BY <1>7 DEF PlainFiles
      <3>3. CASE Refusable("window") /\ Current("window").file = f
        BY <1>1, <1>2, <3>2, <3>3 DEF AsPutBack
      <3>4. CASE ~(Refusable("window") /\ Current("window").file = f)
        <4>1. AsPutBack(f) = files[f] /\ AsPutBack(f)' = files'[f]
          BY <1>2, <3>4 DEF AsPutBack
        <4> QED BY <1>1, <3>1, <3>2, <4>1
      <3> QED BY <3>3, <3>4
    <2>3. \A f \in Base' : Keyless(AsPutBack(f)')
      BY <1>3, <2>2
    <2>4. CopiesKeyless'
      BY <1>1, <1>7 DEF PlainFiles, CopiesKeyless
    <2> QED BY <2>1, <2>3, <2>4 DEF PlainFiles, CopiesKeyless, Keyless
  <1> QED BY <1>4, <1>5, <1>6, <1>7 DEF Acceptable

\* Only what the window knows changes.
LEMMA ReloadAccept ==
    ASSUME Acceptable, UNCHANGED <<files, writer>>, TreeInv'
    PROVE  Acceptable'
  <1>1. Ignored' <=> Ignored
    BY DEF Ignored, Refusable, At, Current
  <1>2. ImportWaits'
    BY <1>1, WindowWaits
  <1>3. \A f : AsPutBack(f)' = AsPutBack(f)
    BY DEF AsPutBack, Refusable, At, Current
  <1>4. Base' = Base
    BY DEF Base, Switching, At, Current, Now
  <1>5. PlainFiles => PlainFiles'
    BY <1>3, <1>4 DEF PlainFiles, Keyless, KeylessCopy
  <1> QED BY <1>1, <1>2, <1>5 DEF Acceptable

\* Every step leaves ssh what it rests on.
LEMMA NextAccept ==
    ASSUME Ground, KeysInv, AcceptInv, [ConfigNext]_configVars
    PROVE  AcceptInv'
  <1>0. ConfigBasics /\ ConfigTypes
    BY DEF Ground, ConfigBasics
  <1> SUFFICES ASSUME Calm' PROVE Acceptable'
    BY DEF AcceptInv
  <1>1. Calm
    <2>1. mishaps \subseteq mishaps'
      BY MishapsStay
    <2> QED BY <2>1 DEF Calm
  <1>2. Acceptable
    BY <1>1 DEF AcceptInv
  <1>3. ASSUME NEW w \in Writers, Step(w) PROVE Acceptable'
    <2>1. CASE Dropped(w) \/ ReadOn(w) \/ SameText(w)
      BY <1>2, <1>3, <2>1, DroppedAccept, GoingAccept
    <2>2. CASE NothingToDo(w) \/ NothingToDelete(w) \/ OtherText(w)
      BY <1>1, <1>2, <1>3, <2>2, NothingAccept
    <2>3. CASE Passes(w) \/ Refused(w)
      BY <1>1, <1>2, <1>3, <2>3, PassesAccept, RefusedAccept
    <2>4. CASE Replace(w)
      BY <1>1, <1>2, <1>3, <2>4, ReplaceAccept
    <2> QED BY <1>0, <1>3, <2>1, <2>2, <2>3, <2>4, StepCases
  <1>4. ASSUME Operations PROVE Acceptable'
    BY <1>2, <1>4, OperationCases, BegunAccept
  <1>5. ASSUME Reload PROVE Acceptable'
    <2>1. UNCHANGED <<files, writer>> /\ tree' = Load(files)
      BY <1>5 DEF Reload
    <2>2. TreeInv'
      BY <2>1, LoadedNow DEF TreeInv, Now
    <2> QED BY <1>2, <2>1, <2>2, ReloadAccept
  <1>6. ASSUME OthersWrite PROVE Acceptable'
    BY <1>2, <1>6, OthersAccept
  <1>7. ~Killed
    BY DEF Killed, Calm
  <1>8. ASSUME UNCHANGED configVars PROVE Acceptable'
    <2>1. UNCHANGED <<files, tree, writer>>
      BY <1>8 DEF configVars
    <2>2. TreeInv'
      BY <1>2, <2>1 DEF Acceptable, TreeInv, At, Now
    <2> QED BY <1>2, <2>1, <2>2, ReloadAccept
  <1> QED BY <1>3, <1>4, <1>5, <1>6, <1>7, <1>8, NextCases

\* At first ssh ignores NativeTerm keys, or there are none.
LEMMA InitAccept ==
    ASSUME ConfigInit, ConfigBasics
    PROVE  KeysInv /\ Acceptable
  <1>1. \A w \in Writers : writer[w].todo = <<>> /\ writer[w].step = "idle"
    BY DEF ConfigInit, Idle
  <1>2. "window" \in Writers /\ "import" \in Writers
    BY DEF Writers
  <1>3. \A w \in Writers : ~Refusable(w) /\ ~At(w, "check") /\ At(w, "idle")
    BY <1>1 DEF Refusable, At
  <1>4. KeysInv /\ ImportWaits
    BY <1>2, <1>3 DEF KeysInv, ImportWaits
  <1>5. TreeInv
    BY LoadedNow DEF TreeInv, ConfigInit
  <1>6. Base = Now
    BY <1>2, <1>3 DEF Base, Switching
  <1>7. \A f : AsPutBack(f) = files[f]
    BY <1>2, <1>3 DEF AsPutBack
  <1>8. PICK ignore \in BOOLEAN, keys \in BOOLEAN, include \in {<<>>, <<"old">>}, a \in Alias,
             m \in Docs, o \in Docs : FirstDocs(ignore, keys, include, a, m, o)
    BY InitDocs
  <1>9. files["main"] = m /\ files["old"] = o /\ m.ignore = ignore /\ m.include = include
    BY <1>8 DEF FirstDocs, ConfigFile, Folders
  <1>10. CASE ignore
    <2>1. Ignored
      BY <1>3, <1>9, <1>10 DEF Ignored
    <2> QED BY <1>4, <1>5, <2>1 DEF Acceptable
  <1>11. CASE ~ignore
    <2>1. Now \subseteq {"main", "old"}
      <3>1. files \in [ConfigFile -> Docs]
        BY DEF ConfigBasics, ConfigTypes
      <3>2. Now = ToSet(include) \cup {"main"}
        BY <1>9, <3>1, ReadsType DEF Now
      <3>3. ToSet(include) \subseteq {"old"}
        <4>1. ASSUME NEW i, i = <<>> \/ i = <<"old">> PROVE ToSet(i) \subseteq {"old"}
          BY <4>1 DEF ToSet
        <4> QED BY <4>1
      <3> QED BY <3>2, <3>3
    <2>2. ~keys /\ m.keys = FALSE /\ o.keys = FALSE
      BY <1>8, <1>11 DEF FirstDocs
    <2> DEFINE x == Block(0, keys, "none")
    <2>3. ~x.keys
      BY <2>2 DEF Block
    <2> HIDE DEF x
    <2>4. KeylessBlocks(<<x>>)
      <3>1. \A i \in DOMAIN <<x>> : <<x>>[i] = x
        OBVIOUS
      <3> QED BY <2>3, <3>1 DEF KeylessBlocks
    <2>5. KeylessBlocks(<<>>)
      BY DEF KeylessBlocks
    <2>6. \A b \in Alias : NoDoc.hosts[b] = <<>>
      BY DEF NoDoc
    <2>7. KeylessBlocks(m.hosts[a]) /\ KeylessBlocks(o.hosts[a])
      <3>1. CASE m.hosts[a] = <<>> /\ SameBlocks(o.hosts[a], <<x>>)
        BY <2>4, <2>5, <3>1, KeylessSame
      <3>2. CASE o = NoDoc /\ m.hosts[a] = <<x>>
        BY <2>4, <2>5, <2>6, <3>2
      <3> QED BY <1>8, <3>1, <3>2 DEF FirstDocs, x
    <2>8. \A b \in Alias \ {a} : m.hosts[b] = <<>> /\ o.hosts[b] = <<>>
      BY <1>8 DEF FirstDocs
    <2>9. Keyless(m) /\ Keyless(o)
      BY <2>2, <2>5, <2>7, <2>8, KeylessParts
    <2>10. \A f \in Base : Keyless(AsPutBack(f))
      BY <1>6, <1>7, <1>9, <2>1, <2>9
    <2>11. CopiesKeyless
      BY <1>1, <1>2 DEF CopiesKeyless, ToSet
    <2> QED BY <1>4, <1>5, <1>6, <2>1, <2>10, <2>11 DEF Acceptable, PlainFiles, CopiesKeyless
  <1> QED BY <1>10, <1>11

\* Where no change is waiting to be checked, ssh accepts what there is.
LEMMA RestAccepted ==
    ASSUME Ground, AcceptInv
    PROVE  FilesAreAccepted
  <1> SUFFICES ASSUME AtRest, Calm PROVE Accepts(files)
    BY DEF FilesAreAccepted, Calm
  <1>1. Ignored \/ PlainFiles
    BY DEF AcceptInv, Acceptable
  <1>2. ~At("window", "check")
    BY DEF AtRest, Writers
  <1>3. Base = Now /\ \A f : AsPutBack(f) = files[f]
    BY <1>2 DEF Base, Switching, AsPutBack, Refusable
  <1> QED BY <1>1, <1>3 DEF Ignored, PlainFiles, Accepts, Now

\* ssh is never left with a file it refuses: whenever no change is waiting to be
\* checked it ignores NativeTerm keys, or no file that it reads has any, whatever
\* was written, put back or undone (write.rs, header.rs, ops.rs), unless two wrote
\* a file at the same time or NativeTerm was killed.
THEOREM AcceptedEver == ConfigSpec => []FilesAreAccepted
  <1>1. ConfigInit => Ground /\ KeysInv /\ AcceptInv
    BY GroundInit, InitAccept DEF Ground, AcceptInv
  <1>2. Ground /\ KeysInv /\ AcceptInv /\ [ConfigNext]_configVars => (Ground /\ KeysInv /\ AcceptInv)'
    BY GroundNext, NextKeys, NextAccept DEF Ground
  <1>3. Ground /\ AcceptInv => FilesAreAccepted
    BY RestAccepted
  <1> QED BY <1>1, <1>2, <1>3, PTL DEF ConfigSpec
===============================================================================
