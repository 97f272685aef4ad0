--------------------------- MODULE ClientProcess ---------------------------
(***************************************************************************)
(* The client as a process: main() (client/main.cpp) from the              *)
(* configuration file to the endless watch, the threads of the walk, and   *)
(* the handler of SIGINT and SIGTERM, which runs on a thread it has        *)
(* interrupted anywhere, beside all the others.  The requests of walk and  *)
(* poll are FileWatcher.tla's: here they are accepted, or are not.         *)
(*                                                                         *)
(* The heap has one lock (malloc's), which a thread holds for a while.     *)
(***************************************************************************)
EXTENDS Naturals

CONSTANTS
    Worker,         \* the threads of initialization()
    Main,           \* the first thread
    Nobody,
    ServerFails     \* requests may fail with a token that is valid

ASSUME ProcessAssumption ==
    /\ Main \notin Worker /\ Nobody \notin Worker \cup {Main}
    /\ ServerFails \in BOOLEAN

Thread == Worker \cup {Main}

VARIABLES
    main,       \* where main() is
    worker,     \* where each thread of the walk is
    token,      \* configuration::token is not empty
    row,        \* the user's row on the server has the token
    heap,       \* who has the lock of the heap
    handler,    \* where signalHandler is
    victim,     \* the thread it runs on
    process     \* "runs", or how it has ended

vars == <<main, worker, token, row, heap, handler, victim, process>>

signalVars == <<handler, victim>>

Init ==
    /\ main = "config"
    /\ worker = [w \in Worker |-> "out"]
    /\ token = FALSE /\ row = FALSE
    /\ heap = Nobody
    /\ handler = "none" /\ victim = Nobody
    /\ process = "runs"

\* t executes code of its own: not the handler's, and not malloc's.
Runs(t) == process = "runs" /\ victim # t /\ heap # t

Alive == {Main} \cup {w \in Worker : worker[w] # "out"}

\* exit_failure: main returns it; aborted: std::terminate.
End(how) == process' = how

-----------------------------------------------------------------------------
(* main()                                                                  *)

Goto(at) == main' = at /\ UNCHANGED process

GiveUp == End("exit_failure") /\ UNCHANGED main

\* load_config_file: false for a file that is not there or lacks an option; an
\* option it does not know throws, to the same end.
LoadConfigFile ==
    /\ Runs(Main) /\ main = "config"
    /\ Goto("exists") \/ GiveUp
    /\ UNCHANGED <<worker, token, row, heap, signalVars>>

\* fs::exists(backup_path)
BackupPathExists ==
    /\ Runs(Main) /\ main = "exists"
    /\ Goto("password") \/ GiveUp
    /\ UNCHANGED <<worker, token, row, heap, signalVars>>

\* The user types the password.
TypePassword ==
    /\ Runs(Main) /\ main = "password"
    /\ Goto("login")
    /\ UNCHANGED <<worker, token, row, heap, signalVars>>

\* The server accepts it and saves a token, whatever the client is doing then.
ServerLogsIn ==
    /\ process = "runs" /\ main = "login" /\ ~row
    /\ row' = TRUE
    /\ UNCHANGED <<main, worker, token, heap, signalVars, process>>

StartWalk ==
    /\ Goto("walk")
    /\ worker' = [w \in Worker |-> "work"]

\* authenticateToServer returns or throws; then the constructor of FileWatcher.
LoggedIn ==
    /\ Runs(Main) /\ main = "login"
    /\ \/ row /\ token' = TRUE /\ StartWalk
       \/ GiveUp /\ UNCHANGED <<token, worker>>
    /\ UNCHANGED <<row, heap, signalVars>>

\* Mutant: one thread is joined, the others are left to themselves.
JoinedFirst ==
    /\ Runs(Main) /\ main = "walk"
    /\ \E w \in Worker : worker[w] = "out"
    /\ Goto("poll")
    /\ UNCHANGED <<worker, token, row, heap, signalVars>>

\* initialization() has joined its threads.
Joined ==
    /\ Runs(Main) /\ main = "walk"
    /\ \A w \in Worker : worker[w] = "out"
    /\ Goto("poll")
    /\ UNCHANGED <<worker, token, row, heap, signalVars>>

\* start(): a request that fails leads to another walk.
PollFails ==
    /\ Runs(Main) /\ main = "poll"
    /\ ServerFails \/ ~row
    /\ StartWalk
    /\ UNCHANGED <<token, row, heap, signalVars>>

MainStep == LoadConfigFile \/ BackupPathExists \/ TypePassword \/ LoggedIn \/ Joined \/ PollFails

-----------------------------------------------------------------------------
(* The threads of the walk                                                 *)

Become(w, at) == worker' = [worker EXCEPT ![w] = at] /\ UNCHANGED process

Send(w) ==
    /\ Runs(w) /\ worker[w] = "work"
    /\ Become(w, "sent")
    /\ UNCHANGED <<main, token, row, heap, signalVars>>

\* What is not accepted throws out of the thread.
Response(w) ==
    /\ Runs(w) /\ worker[w] = "sent"
    /\ \/ row /\ Become(w, "work")
       \/ (ServerFails \/ ~row) /\ End("aborted") /\ UNCHANGED worker
    /\ UNCHANGED <<main, token, row, heap, signalVars>>

Leave(w) ==
    /\ Runs(w) /\ worker[w] = "work"
    /\ Become(w, "out")
    /\ UNCHANGED <<main, token, row, heap, signalVars>>

-----------------------------------------------------------------------------
(* The heap                                                                *)

EnterHeap(t) ==
    /\ Runs(t) /\ t \in Alive
    /\ heap = Nobody
    /\ heap' = t
    /\ UNCHANGED <<main, worker, token, row, signalVars, process>>

LeaveHeap(t) ==
    /\ process = "runs" /\ victim # t /\ heap = t
    /\ heap' = Nobody
    /\ UNCHANGED <<main, worker, token, row, signalVars, process>>

-----------------------------------------------------------------------------
(* signalHandler                                                           *)

Handle(at) == handler' = at /\ UNCHANGED <<main, worker, heap, victim>>

\* On any thread, also on one that holds the heap.
Signal ==
    /\ process = "runs" /\ handler = "none"
    /\ victim' \in Alive
    /\ handler' = "print"
    /\ UNCHANGED <<main, worker, token, row, heap, process>>

\* The stringstream, then the look at the token; logout() makes its request. The
\* stringstream needs the heap, which nobody gives back if the victim has it.
Announce ==
    /\ process = "runs" /\ handler = "print"
    /\ heap = Nobody
    /\ Handle(IF token THEN "logout" ELSE "exit")
    /\ UNCHANGED <<token, row, process>>

\* The server's part of the logout.
ServerLogsOut ==
    /\ process = "runs" /\ handler = "logout" /\ row
    /\ row' = FALSE
    /\ UNCHANGED <<main, worker, token, heap, signalVars, process>>

\* Mutant: the answer is not waited for.
LogoutSent ==
    /\ process = "runs" /\ handler = "logout"
    /\ token' = FALSE
    /\ Handle("exit")
    /\ UNCHANGED <<row, process>>

\* logout() returns, or throws an ExceptionBackup that the handler catches.
LogoutEnds ==
    /\ process = "runs" /\ handler = "logout"
    /\ \/ ~row /\ token' = FALSE /\ Handle("exit")
       \/ ServerFails /\ UNCHANGED token /\ Handle("failed")
    /\ UNCHANGED <<row, process>>

\* Mutant: the handler returns to what it has interrupted.
ReturnFromHandler ==
    /\ process = "runs" /\ handler \in {"exit", "failed"}
    /\ handler' = "none" /\ victim' = Nobody
    /\ UNCHANGED <<main, worker, token, row, heap, process>>

\* exit(signum)
Exit ==
    /\ process = "runs" /\ handler \in {"exit", "failed"}
    /\ End("exit_signal")
    /\ Handle(handler)
    /\ UNCHANGED <<token, row>>

-----------------------------------------------------------------------------

Ended == process # "runs" /\ UNCHANGED vars

Next ==
    \/ MainStep \/ \E w \in Worker : Send(w) \/ Response(w) \/ Leave(w)
    \/ \E t \in Thread : EnterHeap(t) \/ LeaveHeap(t)
    \/ ServerLogsIn \/ ServerLogsOut
    \/ Signal \/ Announce \/ LogoutEnds \/ Exit
    \/ Ended

(***************************************************************************)
(* The threads are scheduled; a lock that is released again and again is   *)
(* got in the end; the server answers, or the session of the logout ends   *)
(* by its timer (Sessions.tla: RequestEnds).  The user need not type.      *)
(***************************************************************************)
Spec ==
    /\ Init /\ [][Next]_vars
    /\ \A t \in Thread : WF_vars(LeaveHeap(t))
    /\ SF_vars(Announce) /\ WF_vars(ServerLogsOut \/ LogoutEnds) /\ WF_vars(Exit)

-----------------------------------------------------------------------------
(* Properties.                                                             *)

\* Types; threads of the walk exist only while main() waits for them.
TypeOK ==
    /\ main \in {"config", "exists", "password", "login", "walk", "poll"}
    /\ worker \in [Worker -> {"out", "work", "sent"}]
    /\ token \in BOOLEAN /\ row \in BOOLEAN
    /\ heap \in Thread \cup {Nobody}
    /\ handler \in {"none", "print", "logout", "exit", "failed"}
    /\ victim \in Thread \cup {Nobody}
    /\ process \in {"runs", "exit_failure", "exit_signal", "aborted"}
    /\ main # "walk" => \A w \in Worker : worker[w] = "out"

\* A signal ends the client, whatever the other threads and the server are doing,
\* unless it has interrupted a thread that holds the heap.
SignalEnds == (handler # "none" /\ heap # victim) ~> process # "runs"

\* Every signal does: not so, the handler waits for the thread it runs on.
EverySignalEnds == handler # "none" ~> process # "runs"

\* "if the client was authenticated, send logout request to server before exit"
\* (main.cpp:14): after a signal the token is good no more, unless the logout has
\* failed or a login was still waiting for its answer.
TokenRevoked ==
    (process = "exit_signal" /\ handler # "failed" /\ main # "login") => ~row

\* The same with no exception for the login.
LogsOutBeforeExit == (process = "exit_signal" /\ handler # "failed") => ~row

\* "Exit after signal with code" (main.cpp:11): a client that has announced it
\* and whose logout has been confirmed does exit with that code.
ExitsWithCode == handler = "exit" => process # "aborted"

=============================================================================
