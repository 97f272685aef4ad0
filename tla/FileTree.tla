------------------------------ MODULE FileTree ------------------------------
(***************************************************************************)
(* A directory tree as both programs see it through std::filesystem: a     *)
(* function that gives every path what is there.  The user's folder on the *)
(* client and the user's backup folder on the server are two such trees    *)
(* over the same relative paths.                                           *)
(***************************************************************************)
EXTENDS Naturals

CONSTANTS
    Path,       \* relative paths, Root (the empty one) included
    Root,
    Parent,     \* Parent[p]: the folder p is in
    Within,     \* Within[p]: p and everything that would be below it
    Content,    \* what a regular file can hold
    Absent,     \* there is nothing at the path
    Folder      \* there is a folder at the path

Node == Content \cup {Absent, Folder}

ASSUME NodeAssumption == Absent # Folder /\ Absent \notin Content /\ Folder \notin Content

ASSUME ParentAssumption ==
    /\ Root \in Path
    /\ Parent \in [Path \ {Root} -> Path]
    /\ Within \in [Path -> SUBSET Path]
    /\ Within[Root] = Path
    /\ \A p, q \in Path : q \in Within[p] <=> (q = p \/ (q # Root /\ Parent[q] \in Within[p]))
    /\ \A p \in Path \ {Root} : Parent[p] \notin Within[p]

\* Every path is reached from the root by going from folders to what is in them.
ASSUME ReachableAssumption ==
    \A S \in SUBSET Path :
        (Root \in S /\ \A p \in Path \ {Root} : Parent[p] \in S => p \in S) => S = Path

\* Whatever exists is in a folder that exists.
IsTree(t) ==
    /\ t \in [Path -> Node]
    /\ t[Root] = Folder
    /\ \A p \in Path \ {Root} : t[p] # Absent => t[Parent[p]] = Folder

\* fs::is_regular_file
IsFile(t, p) == t[p] \in Content

\* What a directory_iterator over p returns.
Entries(t, p) == {q \in Path \ {Root} : Parent[q] = p /\ t[q] # Absent}

Kind(t, p) == IF t[p] = Folder THEN "folder" ELSE "file"

\* The same with the type each directory_entry remembers from the reading.
Listing(t, p) == {<<q, Kind(t, q)>> : q \in Entries(t, p)}

\* Something can be created at p: its parent exists and is a folder.
HasPlace(t, p) == p # Root /\ t[Parent[p]] = Folder

\* fs::remove_all of every path in S.
RemoveAll(t, S) == [q \in Path |-> IF \E p \in S : q \in Within[p] THEN Absent ELSE t[q]]

=============================================================================
