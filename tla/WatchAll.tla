------------------------------ MODULE WatchAll ------------------------------
(***************************************************************************)
(* What FileWatcher::initialization promises to the FileWatcher object,    *)
(* with no threads, no queue and no counter: every entry of the watched    *)
(* folder is put into paths_, a folder before what it contains, and the    *)
(* function returns only when nothing is left out.                         *)
(***************************************************************************)

CONSTANTS
    Entry,      \* the files and folders below (and including) the watched path
    Root,       \* the watched path
    Children    \* Children[d]: what is directly inside folder d

VARIABLES
    watched,    \* entries recorded in paths_
    returned    \* initialization() has returned to its caller

vars == <<watched, returned>>

Init ==
    /\ watched = {}
    /\ returned = FALSE

Watch(e) ==
    /\ ~returned
    /\ e \notin watched
    /\ e = Root \/ \E d \in watched \cap DOMAIN Children : e \in Children[d]
    /\ watched' = watched \cup {e}
    /\ UNCHANGED returned

Return ==
    /\ ~returned
    /\ watched = Entry
    /\ returned' = TRUE
    /\ UNCHANGED watched

Next == Return \/ \E e \in Entry : Watch(e)

Spec == Init /\ [][Next]_vars

=============================================================================
