--------------------------- MODULE MCBackupSystem ---------------------------
(***************************************************************************)
(* Watched folders for TLC.  The larger one is                             *)
(*     root: d, f        d: e, g        e is empty                         *)
(* with the folders d and e and the files f and g; the smaller ones leave  *)
(* some of it out.                                                         *)
(***************************************************************************)
EXTENDS BackupSystem

MCPath == {"root", "d", "e", "f", "g"}

NoNestedFolder == MCPath \ {"e"}

OnlyFolders == {"root", "d", "e"}

OnlyD == {"root", "d"}

DAndG == {"root", "d", "g"}

MCParent == [p \in Path \ {"root"} |-> IF p \in {"e", "g"} THEN "d" ELSE "root"]

MCWithin ==
    [p \in Path |-> CASE p = "root" -> Path
                      [] p = "d" -> {"d", "e", "g"} \cap Path
                      [] OTHER -> {p}]

MCContent == 0 .. MaxVersion

Files == {"f", "g"} \cap Path

Folders == {"root", "d", "e"} \cap Path

MovingFolders == {"d", "e"} \cap Path

NameD == {"d"}

NamesDAndG == {"d", "g"}

Nowhere == {}

DuringWalk == WalkPC

DuringWalkAndCheck == WalkPC \cup CheckPC
=============================================================================
