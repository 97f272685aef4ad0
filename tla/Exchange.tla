------------------------------ MODULE Exchange ------------------------------
(***************************************************************************)
(* What requests over connections of their own amount to, for those who    *)
(* make them: each is executed at most once; who gets an answer knows that *)
(* it has been; who fails before anything was written knows that it has    *)
(* not been and never will be; who fails later knows nothing, and the      *)
(* request may still be executed afterwards.                               *)
(***************************************************************************)

CONSTANT Request

VARIABLES
    executed,   \* executed[r]: the server has executed the request
    outcome     \* outcome[r]: "pending", "answer", "unsent" or "uncertain"

vars == <<executed, outcome>>

Init ==
    /\ executed = [r \in Request |-> FALSE]
    /\ outcome = [r \in Request |-> "pending"]

Execute(r) ==
    /\ ~executed[r]
    /\ outcome[r] # "unsent"
    /\ executed' = [executed EXCEPT ![r] = TRUE]
    /\ UNCHANGED outcome

Ends(r, how) ==
    /\ outcome[r] = "pending"
    /\ how = "answer" => executed[r]
    /\ how = "unsent" => ~executed[r]
    /\ outcome' = [outcome EXCEPT ![r] = how]
    /\ UNCHANGED executed

Next == \E r \in Request : Execute(r) \/ \E how \in {"answer", "unsent", "uncertain"} : Ends(r, how)

Spec == Init /\ [][Next]_vars

=============================================================================
