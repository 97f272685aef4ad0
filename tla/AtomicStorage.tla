--------------------------- MODULE AtomicStorage ---------------------------
(***************************************************************************)
(* What the handlers of one user's requests promise together: each request *)
(* is done at one moment between its begin and its answer, as the          *)
(* operators of Storage.tla say.  This is how BackupSystem.tla and Api.tla *)
(* use them.                                                               *)
(***************************************************************************)
EXTENDS Storage

CONSTANTS
    Handler,    \* the threads of the server
    Nothing     \* no request, or no answer yet

VARIABLES
    tree,       \* the user's folder
    request,    \* what each handler is working on
    answer      \* its status and digest, once the request is done

vars == <<tree, request, answer>>

Init ==
    /\ tree \in {t \in [Path -> Node] : IsTree(t)}
    /\ request = [h \in Handler |-> Nothing]
    /\ answer = [h \in Handler |-> Nothing]

Up == \A h \in Handler : answer[h] # Nothing => answer[h].status # "terminated"

Begin(h, req) ==
    /\ request[h] = Nothing
    /\ request' = [request EXCEPT ![h] = req]
    /\ UNCHANGED <<tree, answer>>

Execute(h) ==
    /\ request[h] # Nothing /\ answer[h] = Nothing
    /\ LET result == HandleRequest(tree, request[h])
       IN /\ tree' = result.tree
          /\ answer' = [answer EXCEPT ![h] = [status |-> result.status, digest |-> result.digest]]
    /\ UNCHANGED request

Reply(h) ==
    /\ answer[h] # Nothing
    /\ request' = [request EXCEPT ![h] = Nothing]
    /\ answer' = [answer EXCEPT ![h] = Nothing]
    /\ UNCHANGED tree

Next ==
    /\ Up
    /\ \E h \in Handler : Execute(h) \/ Reply(h) \/ \E req \in Request : Begin(h, req)

Spec == Init /\ [][Next]_vars

=============================================================================
