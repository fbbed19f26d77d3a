------------------------------ MODULE WholeFiles ------------------------------
(***************************************************************************)
(* What a reader of a directory is promised by everything that replaces a  *)
(* file through a copy beside it: whenever he looks, a name is a file of   *)
(* one version, complete, or was never there; once there it stays there,   *)
(* until the next version takes its place in one step.                     *)
(***************************************************************************)
CONSTANTS
    Name,       \* the files
    Version,    \* complete contents a file may have
    Absent      \* what a name is that is no file

VARIABLE content

Init == content \in [Name -> Version \cup {Absent}]

Replace(n) == \E v \in Version : content' = [content EXCEPT ![n] = v]

Next == \E n \in Name : Replace(n)

Spec == Init /\ [][Next]_content
=============================================================================
