------------------------------ MODULE Sessions ------------------------------
(***************************************************************************)
(* The connections: client/Session.cpp and server/Session.cpp, the chains  *)
(* of callbacks of the two ends, and server/Listener.cpp, which accepts.   *)
(* A client opens a connection for each request; the server reads one      *)
(* request, hands it to handle_request, answers and closes.  Both ends     *)
(* bound their waiting with a timer of 60 seconds (expires_after).         *)
(*                                                                         *)
(* A step is one handler, or one thing the network or the kernel does.     *)
(* The server runs handlers on nthreads threads; handle_request keeps its  *)
(* thread for several steps.  What a request does is Storage.tla's and     *)
(* Authorization.tla's: here it is executed, or not.                       *)
(***************************************************************************)
EXTENDS Naturals, FiniteSets

CONSTANTS
    Request,        \* the requests, each with its connection
    nthreads,       \* configuration::nthreads of the server
    MaxOpen,        \* the sockets the server process can have open
    MayNotListen,   \* the constructor of Listener may fail to open, bind or listen
    Throwing        \* the requests that make handle_request throw

ASSUME SessionsAssumption ==
    /\ IsFiniteSet(Request)
    /\ nthreads \in Nat \ {0} /\ MaxOpen \in Nat \ {0}
    /\ MayNotListen \in BOOLEAN
    /\ Throwing \subseteq Request

VARIABLES
    client,     \* where the client's Session is, or how it has ended
    wire,       \* how much of the request the network has taken from the client
    session,    \* the server's end of the connection
    executed,   \* handle_request has done what the request asks for
    accept,     \* the outstanding async_accept: "waiting" until it completes
    listening,  \* the acceptor is open, bound and listening
    server      \* "up", "down" (killed), or "terminated" by an exception

vars == <<client, wire, session, executed, accept, listening, server>>

ClientPC == {"resolve", "connect", "write", "read"}

\* ErrorType of the ExceptionBackup that leaves ioc.run().
ErrorType == {"async_resolver_error", "async_connection_error", "async_write_error",
              "async_read_error", "async_shutdown_error"}

\* A socket of the server process; before, it is in the kernel's backlog.
OpenSession == {"accepted", "read", "handle", "write"}

Init ==
    /\ client = [r \in Request |-> "resolve"]
    /\ wire = [r \in Request |-> "nothing"]
    /\ session = [r \in Request |-> "none"]
    /\ executed = [r \in Request |-> FALSE]
    /\ accept = "waiting"
    /\ listening \in {TRUE, ~MayNotListen}
    /\ server = "up"

Running == {r \in Request : session[r] = "handle"}

\* Some thread of the server is in ioc.run() with nothing to do.
ThreadFree == server = "up" /\ Cardinality(Running) < nthreads

Open == {r \in Request : session[r] \in OpenSession}

-----------------------------------------------------------------------------
(* client/Session.cpp                                                      *)

Goto(r, at) == client' = [client EXCEPT ![r] = at]

Meet(r, at) == session' = [session EXCEPT ![r] = at]

serverVars == <<session, executed, accept, listening, server>>

\* on_resolve: throws, or goes on to async_connect.
OnResolve(r) ==
    /\ client[r] = "resolve"
    /\ Goto(r, "connect") \/ Goto(r, "async_resolver_error")
    /\ UNCHANGED <<wire, serverVars>>

\* on_connect without an error; the kernel of the server has made the connection.
OnConnect(r) ==
    /\ client[r] = "connect"
    /\ server = "up" /\ listening
    /\ Goto(r, "write")
    /\ Meet(r, "backlog")
    /\ UNCHANGED <<wire, executed, accept, listening, server>>

\* Refused or timed out; the server may have a connection all the same.
ConnectFails(r) ==
    /\ client[r] = "connect"
    /\ Goto(r, "async_connection_error")
    /\ \/ server = "up" /\ listening /\ Meet(r, "backlog")
       \/ UNCHANGED session
    /\ UNCHANGED <<wire, executed, accept, listening, server>>

\* on_write without an error.
OnWritten(r) ==
    /\ client[r] = "write"
    /\ wire' = [wire EXCEPT ![r] = "whole"]
    /\ Goto(r, "read")
    /\ UNCHANGED serverVars

\* on_write with an error.  When the timer wins against the completion of the
\* last write, all of the request has been written.
WriteFails(r) ==
    /\ client[r] = "write"
    /\ wire' \in {[wire EXCEPT ![r] = sent] : sent \in {"part", "whole"}}
    /\ Goto(r, "async_write_error")
    /\ UNCHANGED serverVars

\* on_read with the response, then the shutdown of the socket.
OnResponse(r) ==
    /\ client[r] = "read"
    /\ session[r] = "answered"
    /\ Goto(r, "answered") \/ Goto(r, "async_shutdown_error")
    /\ UNCHANGED <<wire, serverVars>>

\* Mutant: there is no timer, only a server that lives and closes the connection.
ReadFailsIfClosed(r) ==
    /\ client[r] = "read"
    /\ session[r] = "closed" /\ server = "up"
    /\ Goto(r, "async_read_error")
    /\ UNCHANGED <<wire, serverVars>>

\* on_read with an error: the end of the file, a reset, or the timer.
ReadFails(r) ==
    /\ client[r] = "read"
    /\ Goto(r, "async_read_error")
    /\ UNCHANGED <<wire, serverVars>>

ClientStep(r) ==
    \/ OnResolve(r) \/ OnConnect(r) \/ ConnectFails(r)
    \/ OnWritten(r) \/ WriteFails(r) \/ OnResponse(r) \/ ReadFails(r)

-----------------------------------------------------------------------------
(* server/Listener.cpp                                                     *)

\* The kernel completes async_accept: with a connection, or with an error when no
\* descriptor is left or the acceptor does not listen.
AcceptCompletes ==
    /\ server = "up"
    /\ accept = "waiting"
    /\ \/ /\ listening /\ Cardinality(Open) < MaxOpen
          /\ \E r \in Request : session[r] = "backlog" /\ Meet(r, "accepted")
          /\ accept' = "socket"
       \/ /\ ~listening \/ Cardinality(Open) >= MaxOpen
          /\ accept' = "error"
          /\ UNCHANGED session
    /\ UNCHANGED <<client, wire, executed, listening, server>>

\* on_accept: a session for a socket, do_accept in any case.
OnAccept ==
    /\ ThreadFree
    /\ accept \in {"socket", "error"}
    /\ accept' = "waiting"
    /\ session' = [r \in Request |-> IF session[r] = "accepted" THEN "read" ELSE session[r]]
    /\ UNCHANGED <<client, wire, executed, listening, server>>

-----------------------------------------------------------------------------
(* server/Session.cpp                                                      *)

connVars == <<client, wire, accept, listening>>

\* Mutant: on_read does not look at the error code.
OnReadAnything(r) ==
    /\ ThreadFree
    /\ session[r] = "read"
    /\ wire[r] = "whole" \/ client[r] \in ErrorType
    /\ Meet(r, "handle")
    /\ UNCHANGED <<connVars, executed, server>>

\* Mutant: the handler runs beside those that have all the threads.
OnReadAtOnce(r) ==
    /\ server = "up"
    /\ session[r] = "read"
    /\ wire[r] = "whole"
    /\ Meet(r, "handle")
    /\ UNCHANGED <<connVars, executed, server>>

\* on_read with a whole request: handle_request begins.
OnRead(r) ==
    /\ ThreadFree
    /\ session[r] = "read"
    /\ wire[r] = "whole"
    /\ Meet(r, "handle")
    /\ UNCHANGED <<connVars, executed, server>>

\* on_read with an error: the client has closed before the end of the request.
OnReadClosed(r) ==
    /\ ThreadFree
    /\ session[r] = "read"
    /\ client[r] \in ErrorType /\ wire[r] # "whole"
    /\ Meet(r, "closed")
    /\ UNCHANGED <<connVars, executed, server>>

\* handle_request calls send, which starts async_write.
Handle(r) ==
    /\ server = "up"
    /\ session[r] = "handle"
    /\ r \notin Throwing
    /\ executed' = [executed EXCEPT ![r] = TRUE]
    /\ Meet(r, "write")
    /\ UNCHANGED <<connVars, server>>

\* The sockets go with the process; what has never been connected still may be.
AllClosed ==
    session' = [s \in Request |-> IF session[s] \in {"none", "answered"} THEN session[s] ELSE "closed"]

\* handle_request throws: nothing catches it above io_context::run().
HandleThrows(r) ==
    /\ server = "up"
    /\ session[r] = "handle"
    /\ r \in Throwing
    /\ server' = "terminated"
    /\ AllClosed
    /\ UNCHANGED <<connVars, executed>>

\* on_write: the session is destroyed, and with it the connection.
OnWrite(r) ==
    /\ ThreadFree
    /\ session[r] = "write"
    /\ Meet(r, "answered") \/ Meet(r, "closed")
    /\ UNCHANGED <<connVars, executed, server>>

\* Mutant: the timer is only started for the answer.
SessionExpiresWriting(r) ==
    /\ ThreadFree
    /\ session[r] = "write"
    /\ Meet(r, "closed")
    /\ UNCHANGED <<connVars, executed, server>>

\* The timer do_read has set ends the read, or the write after it.
SessionExpires(r) ==
    /\ ThreadFree
    /\ session[r] \in {"read", "write"}
    /\ Meet(r, "closed")
    /\ UNCHANGED <<connVars, executed, server>>

\* The process is killed, or its machine lost, without a word to the clients.
Kill ==
    /\ server = "up"
    /\ server' = "down"
    /\ AllClosed
    /\ UNCHANGED <<connVars, executed>>

\* main() once more: a new Listener.
Start ==
    /\ server # "up"
    /\ server' = "up"
    /\ listening' \in {TRUE, ~MayNotListen}
    /\ accept' = "waiting"
    /\ UNCHANGED <<client, wire, session, executed>>

SessionStep(r) == OnRead(r) \/ Handle(r) \/ HandleThrows(r) \/ OnWrite(r)

-----------------------------------------------------------------------------

\* Every request has ended, and the server has nothing more to do for any.
Idle ==
    /\ \A r \in Request : client[r] \notin ClientPC
    /\ Open = {} /\ \A r \in Request : session[r] # "backlog"
    /\ UNCHANGED vars

Next ==
    \/ \E r \in Request : ClientStep(r) \/ SessionStep(r) \/ OnReadClosed(r) \/ SessionExpires(r)
    \/ AcceptCompletes \/ OnAccept \/ Kill \/ Start \/ Idle

(***************************************************************************)
(* Threads are scheduled, timers expire, name look-ups end, and a kernel   *)
(* that has a connection gives it to the acceptor.  A closed connection    *)
(* need not be noticed by the other end.                                   *)
(***************************************************************************)
Spec ==
    /\ Init /\ [][Next]_vars
    /\ \A r \in Request : /\ WF_vars(ClientStep(r))
                          /\ WF_vars(SessionStep(r))
                          /\ WF_vars(SessionExpires(r))
    /\ WF_vars(AcceptCompletes) /\ WF_vars(OnAccept)

-----------------------------------------------------------------------------
(* Properties.                                                             *)

\* Types; handle_request runs on at most nthreads threads, and the process has no
\* more sockets than it may have.
TypeOK ==
    /\ client \in [Request -> ClientPC \cup {"answered"} \cup ErrorType]
    /\ wire \in [Request -> {"nothing", "part", "whole"}]
    /\ session \in [Request -> {"none", "backlog", "answered", "closed"} \cup OpenSession]
    /\ executed \in [Request -> BOOLEAN]
    /\ accept \in {"waiting", "socket", "error"}
    /\ listening \in BOOLEAN
    /\ server \in {"up", "down", "terminated"}
    /\ Cardinality(Running) <= nthreads
    /\ Cardinality(Open) <= MaxOpen

\* Both chains of callbacks, the network and the threads amount to exchanges: a
\* request is never executed twice, nor after the client has been told that there
\* was no connection, and there is no answer without execution.
Outcome(r) ==
    CASE client[r] \in ClientPC -> "pending"
      [] client[r] = "answered" -> "answer"
      [] client[r] \in {"async_resolver_error", "async_connection_error"} -> "unsent"
      [] OTHER -> "uncertain"

Exchanges == INSTANCE Exchange WITH outcome <- [r \in Request |-> Outcome(r)]

IsExchange == Exchanges!Spec

\* The client never waits for ever, whatever becomes of the server: ioc.run()
\* returns or throws.
RequestEnds == \A r \in Request : <>(client[r] \notin ClientPC)

\* The server keeps no session for ever, not even for a client that has gone
\* without a word, and a connection made while all descriptors are in use is
\* accepted in the end.
SessionsEnd ==
    \A r \in Request : session[r] \in {"backlog"} \cup OpenSession ~> session[r] \in {"answered", "closed"}

\* "used as callback, when the socket receive a new connection"
\* (Listener.cpp:59-60): on_accept is called for connections only.
CalledForConnection == accept # "error"

=============================================================================
