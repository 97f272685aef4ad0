------------------------------ MODULE MCServer ------------------------------
(***************************************************************************)
(* A folder d, a file g in it, the watched folder itself, and a file that   *)
(* no request reaches because of its name.                                 *)
(***************************************************************************)
EXTENDS Server, TLC

MCPath == {"root", "d", "g", "a..b"}

MCParent == [p \in {"d", "g", "a..b"} |-> IF p = "g" THEN "d" ELSE "root"]

MCWithin == 
    [p \in MCPath |-> CASE p = "root" -> MCPath [] p = "d" -> {"d", "g"} [] OTHER -> {p}]

\* The tokens of the row are alike.
MCSymmetry == Permutations(Token \ {NoToken})

=============================================================================
