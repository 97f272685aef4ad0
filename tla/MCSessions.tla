----------------------------- MODULE MCSessions -----------------------------
(* Three requests; the second one makes handle_request throw.               *)
EXTENDS Sessions

CONSTANTS r1, r2, r3

Second == {r2}
=============================================================================
