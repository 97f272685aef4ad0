-------------------------- MODULE MCDirectoryWalk --------------------------
(***************************************************************************)
(* A tree of four folders and two files for TLC:                           *)
(*     root: a, b, f        a: c, g        b and c are empty               *)
(* root makes a second branch, a has one sub-folder only, and a thread can *)
(* close the branch of b while root is still being read.                   *)
(***************************************************************************)
EXTENDS DirectoryWalk

MCDir == {"root", "a", "b", "c"}

MCFile == {"f", "g"}

MCChildren ==
    [d \in MCDir |-> CASE d = "root" -> {"a", "b", "f"}
                       [] d = "a" -> {"c", "g"}
                       [] OTHER -> {}]

FaultyB == {"b", "g"}
=============================================================================
