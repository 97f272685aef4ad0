------------------------ MODULE MCConcurrentStorage ------------------------
(***************************************************************************)
(*     root: d        d: e, g                                              *)
(***************************************************************************)
EXTENDS ConcurrentStorage

CONSTANTS h1, h2

MCPath == {"root", "d", "e", "g"}

MCParent == [p \in MCPath \ {"root"} |-> IF p = "d" THEN "root" ELSE "d"]

MCWithin ==
    [p \in MCPath |-> CASE p = "root" -> MCPath [] p = "d" -> {"d", "e", "g"} [] OTHER -> {p}]

AnyTwo(a, b) == TRUE
=============================================================================
