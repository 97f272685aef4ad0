------------------------ MODULE ClientProcessProofs ------------------------
(***************************************************************************)
(* Proofs about ClientProcess, for any number of threads of the walk, any  *)
(* moment of a signal and any behaviour of the server.                     *)
(***************************************************************************)
EXTENDS ClientProcess, TLAPS

LEMMA InitTyped == Init => TypeOK
BY DEF Init, TypeOK, Thread

LEMMA NextTyped == TypeOK /\ [Next]_vars => TypeOK'
<1> SUFFICES ASSUME TypeOK, [Next]_vars PROVE TypeOK'
  OBVIOUS
<1> USE DEF TypeOK, signalVars, Runs, Alive, Thread, End, Goto, GiveUp, Handle, Become, StartWalk
<1>1. CASE UNCHANGED vars \/ Ended
  BY <1>1 DEF vars, Ended
<1>2. CASE MainStep
  <2>1. CASE LoadConfigFile \/ BackupPathExists \/ TypePassword
    BY <2>1 DEF LoadConfigFile, BackupPathExists, TypePassword
  <2>2. CASE LoggedIn
    BY <2>2 DEF LoggedIn
  <2>3. CASE Joined \/ PollFails
    BY <2>3 DEF Joined, PollFails
  <2> QED
    BY <1>2, <2>1, <2>2, <2>3 DEF MainStep
<1>3. ASSUME NEW w \in Worker, Send(w) \/ Response(w) \/ Leave(w) PROVE TypeOK'
  BY <1>3 DEF Send, Response, Leave
<1>4. ASSUME NEW t \in Thread, EnterHeap(t) \/ LeaveHeap(t) PROVE TypeOK'
  BY <1>4 DEF EnterHeap, LeaveHeap
<1>5. CASE ServerLogsIn \/ ServerLogsOut
  BY <1>5 DEF ServerLogsIn, ServerLogsOut
<1>6. CASE Signal
  BY <1>6 DEF Signal
<1>7. CASE Announce \/ LogoutEnds \/ Exit
  BY <1>7 DEF Announce, LogoutEnds, Exit
<1> QED
  BY <1>1, <1>2, <1>3, <1>4, <1>5, <1>6, <1>7 DEF Next

\* The variables keep their types; threads of the walk exist only while main()
\* waits for them.
THEOREM TypeCorrect == Spec => []TypeOK
BY InitTyped, NextTyped, PTL DEF Spec

(***************************************************************************)
(* The token in the table is one the client knows, or is about to be told; *)
(* the handler runs on a thread that exists, so main() goes nowhere under  *)
(* it except during a walk; and it goes on to exit() without a failed      *)
(* logout only when the token is gone or a login was under way.            *)
(***************************************************************************)
TokenInv ==
    /\ row => token \/ main = "login"
    /\ handler # "none" => victim \in Alive
    /\ handler = "exit" => ~row \/ main = "login"
    /\ process = "exit_signal" => handler \in {"exit", "failed"}

LEMMA NextToken == TypeOK /\ TokenInv /\ [Next]_vars => TokenInv'
<1> SUFFICES ASSUME TypeOK, TokenInv, [Next]_vars PROVE TokenInv'
  OBVIOUS
<1> USE DEF TypeOK, TokenInv, signalVars, Runs, Alive, Thread, End, Goto, GiveUp, Handle, Become,
            StartWalk
<1>0. main # "walk" /\ handler # "none" => victim = Main
  OBVIOUS
<1>1. CASE UNCHANGED vars \/ Ended
  BY <1>1 DEF vars, Ended
<1>2. CASE MainStep
  <2>1. CASE LoadConfigFile \/ BackupPathExists \/ TypePassword
    BY <1>0, <2>1 DEF LoadConfigFile, BackupPathExists, TypePassword
  <2>2. CASE LoggedIn
    BY <1>0, <2>2 DEF LoggedIn
  <2>3. CASE Joined \/ PollFails
    BY <1>0, <2>3 DEF Joined, PollFails
  <2> QED
    BY <1>2, <2>1, <2>2, <2>3 DEF MainStep
<1>3. ASSUME NEW w \in Worker, Send(w) \/ Response(w) \/ Leave(w) PROVE TokenInv'
  BY <1>3, ProcessAssumption DEF Send, Response, Leave
<1>4. ASSUME NEW t \in Thread, EnterHeap(t) \/ LeaveHeap(t) PROVE TokenInv'
  BY <1>4 DEF EnterHeap, LeaveHeap
<1>5. CASE ServerLogsIn \/ ServerLogsOut
  BY <1>5 DEF ServerLogsIn, ServerLogsOut
<1>6. CASE Signal
  BY <1>6 DEF Signal
<1>7. CASE Announce \/ LogoutEnds \/ Exit
  BY <1>7 DEF Announce, LogoutEnds, Exit
<1> QED
  BY <1>1, <1>2, <1>3, <1>4, <1>5, <1>6, <1>7 DEF Next

\* A client that a signal has ended leaves no token behind that is still good,
\* unless the logout has failed or the answer to a login was still to come.
THEOREM TokenIsRevoked == Spec => []TokenRevoked
<1>1. Init => TokenInv
  BY DEF Init, TokenInv
<1>2. TokenInv => TokenRevoked
  BY DEF TokenInv, TokenRevoked
<1> QED
  BY <1>1, <1>2, InitTyped, NextTyped, NextToken, PTL DEF Spec
=============================================================================
