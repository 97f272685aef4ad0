---------------------------- MODULE Authorization ----------------------------
(***************************************************************************)
(* Who may do what: the tokens the server gives out (server/               *)
(* authorization.cpp, the table "users" behind server/dao.cpp), the part   *)
(* of handle_request (server/server.h) that logs in, checks and logs out,  *)
(* and the server process that starts and stops (server/main.cpp).         *)
(*                                                                         *)
(* A client opens a connection for each request; one of the nthreads of    *)
(* the server takes it and runs handle_request to its end.  Every call to  *)
(* the database is a step: sqlite serialises the calls, not the handlers.  *)
(* What an authorised request does to the user's folder is Storage.tla's.  *)
(***************************************************************************)
EXTENDS Naturals, FiniteSets

CONSTANTS
    User,       \* the rows of the table
    Client,     \* the client programs
    UserOf,     \* UserOf[k]: the user in the configuration of client k
    Connection, \* bound: the connections that are open at the same time
    nthreads,   \* configuration::nthreads of the server
    DbErrors,   \* may a call to sqlite fail?
    MaxToken    \* bound: the number of tokens created

ASSUME UserAssumption == User # {} /\ UserOf \in [Client -> User]

\* load_config_file takes the maximum of 1 and the value in the file.
ASSUME ThreadAssumption == nthreads \in Nat \ {0} /\ IsFiniteSet(Connection)

ASSUME BoundAssumption == DbErrors \in BOOLEAN /\ MaxToken \in Nat

VARIABLES
    tokens,     \* the column "token"; NoToken is the empty string
    token,      \* configuration::token of each client
    conn,       \* what is on each connection
    created,    \* the tokens created so far: createToken never repeats one
    server      \* "running", "stopped" (ioc.stop()), "draining", or "off"

vars == <<tokens, token, conn, created, server>>

NoToken == 0
Token == 0 .. MaxToken
NoUser == "no user"

Free == [stage |-> "free"]

\* A request and its handler: the token is the one of the authorization header,
\* or the one a login has created; user is the one verifyToken has returned.
Open ==
    [stage  : {"sent", "check", "save", "auth", "act", "clear", "answered"},
     client : Client,
     kind   : {"login", "guess", "backup", "logout"},
     token  : Token,
     user   : User \cup {NoUser},
     status : {"none", "ok", "unauthorized", "server_error"}]

Init ==
    /\ tokens = [u \in User |-> NoToken]
    /\ token = [k \in Client |-> NoToken]
    /\ conn = [c \in Connection |-> Free]
    /\ created = 0
    /\ server = "running"

-----------------------------------------------------------------------------
(* The clients.                                                            *)

OpenOf(k) == {c \in Connection : conn[c] # Free /\ conn[c].client = k}

Request(c, k, kind) ==
    /\ conn[c] = Free
    /\ server = "running"
    /\ conn' = [conn EXCEPT ![c] = [stage |-> "sent", client |-> k, kind |-> kind,
                                    token |-> token[k], user |-> NoUser, status |-> "none"]]
    /\ UNCHANGED <<tokens, token, created, server>>

\* authenticateToServer, with the right password or another one.
Login(c, k) ==
    /\ token[k] = NoToken
    /\ OpenOf(k) = {}
    /\ \E kind \in {"login", "guess"} : Request(c, k, kind)

\* Any other request: also one without a token, as a program that has not
\* logged in could make it.  The worker threads make several at a time.
Backup(c, k) == Request(c, k, "backup")

\* signalHandler: while the other threads of the client go on.
Logout(c, k) == token[k] # NoToken /\ Request(c, k, "logout")

\* The client reads the answer, or never gets it; after a logout it ends.
Read(c) ==
    /\ conn[c] # Free
    /\ conn[c].stage = "answered"
    /\ LET k == conn[c].client
       IN \/ /\ conn[c].kind = "login" /\ conn[c].status = "ok"
             /\ token' = [token EXCEPT ![k] = conn[c].token]
          \/ conn[c].kind = "logout" /\ token' = [token EXCEPT ![k] = NoToken]
          \/ conn[c].kind # "logout" /\ UNCHANGED token
    /\ conn' = [conn EXCEPT ![c] = Free]
    /\ UNCHANGED <<tokens, created, server>>

\* The client ends without a logout: after a failed request, or killed.
ClientExit(k) ==
    /\ token[k] # NoToken
    /\ token' = [token EXCEPT ![k] = NoToken]
    /\ UNCHANGED <<tokens, conn, created, server>>

-----------------------------------------------------------------------------
(* handle_request.                                                         *)

Handling == {c \in Connection : conn[c] # Free /\ conn[c].stage \notin {"sent", "answered"}}

Answer(c, status) == conn' = [conn EXCEPT ![c].stage = "answered", ![c].status = status]

At(c, stage) == conn[c] # Free /\ conn[c].stage = stage

\* The first lines of handle_request, on a thread that has nothing to do.
TakeWith(c, guarded) ==
    /\ At(c, "sent")
    /\ server = "running"
    /\ Cardinality(Handling) < nthreads
    /\ \/ /\ conn[c].kind \in {"login", "guess"}
          /\ conn' = [conn EXCEPT ![c].stage = "check"]
       \/ /\ conn[c].kind \notin {"login", "guess"}
          /\ IF guarded /\ conn[c].token = NoToken
             THEN Answer(c, "unauthorized")
             ELSE conn' = [conn EXCEPT ![c].stage = "auth"]
    /\ UNCHANGED <<tokens, token, created, server>>

\* Mutant: no check for an empty token.
TakeUnguarded(c) == TakeWith(c, FALSE)

Take(c) == TakeWith(c, TRUE)

\* Mutant: the same token again and again.
VerifyPasswordSameToken(c) ==
    /\ At(c, "check")
    /\ conn[c].kind = "login"
    /\ MaxToken > 0
    /\ conn' = [conn EXCEPT ![c].stage = "save", ![c].token = 1]
    /\ UNCHANGED <<tokens, token, created, server>>

\* verifyUserPassword; a login that passes creates a token.
VerifyPassword(c) ==
    /\ At(c, "check")
    /\ \/ /\ conn[c].kind = "login"
          /\ created < MaxToken
          /\ created' = created + 1
          /\ conn' = [conn EXCEPT ![c].stage = "save", ![c].token = created + 1]
       \/ /\ conn[c].kind = "guess" \/ DbErrors \/ created = MaxToken
          /\ Answer(c, "unauthorized")
          /\ UNCHANGED created
    /\ UNCHANGED <<tokens, token, server>>

\* saveTokenToUser, then the token is sent.
SaveToken(c) ==
    /\ At(c, "save")
    /\ \/ /\ tokens' = [tokens EXCEPT ![UserOf[conn[c].client]] = conn[c].token]
          /\ Answer(c, "ok")
       \/ DbErrors /\ Answer(c, "server_error") /\ UNCHANGED tokens
    /\ UNCHANGED <<token, created, server>>

\* Mutant: the optional that verifyToken returns is not looked at.
VerifyTokenUnchecked(c) ==
    /\ At(c, "auth")
    /\ conn' = [conn EXCEPT ![c].stage = IF conn[c].kind = "logout" THEN "clear" ELSE "act",
                            ![c].user = IF \E u \in User : tokens[u] = conn[c].token
                                        THEN CHOOSE u \in User : tokens[u] = conn[c].token
                                        ELSE NoUser]
    /\ UNCHANGED <<tokens, token, created, server>>

\* verifyToken: the user of a row with that token.
VerifyToken(c) ==
    /\ At(c, "auth")
    /\ \/ \E u \in User :
            /\ tokens[u] = conn[c].token
            /\ conn' = [conn EXCEPT ![c].stage = IF conn[c].kind = "logout" THEN "clear" ELSE "act",
                                    ![c].user = u]
       \/ /\ DbErrors \/ \A u \in User : tokens[u] # conn[c].token
          /\ Answer(c, "unauthorized")
    /\ UNCHANGED <<tokens, token, created, server>>

\* Mutant: the token is saved again, to note when it was last used.
ActRefreshes(c) ==
    /\ At(c, "act")
    /\ Answer(c, "ok")
    /\ tokens' = [tokens EXCEPT ![conn[c].user] = conn[c].token]
    /\ UNCHANGED <<token, created, server>>

\* The operation on the backup folder of conn[c].user, whatever its result.
Act(c) ==
    /\ At(c, "act")
    /\ Answer(c, "ok")
    /\ UNCHANGED <<tokens, token, created, server>>

\* Mutant: the answer of a logout does not depend on the database.
LogoutUserAnyway(c) ==
    /\ At(c, "clear")
    /\ \/ tokens' = [tokens EXCEPT ![conn[c].user] = NoToken]
       \/ DbErrors /\ UNCHANGED tokens
    /\ Answer(c, "ok")
    /\ UNCHANGED <<token, created, server>>

\* logoutUser: by the name of the user, not by the token.
LogoutUser(c) ==
    /\ At(c, "clear")
    /\ \/ /\ tokens' = [tokens EXCEPT ![conn[c].user] = NoToken]
          /\ Answer(c, "ok")
       \/ DbErrors /\ Answer(c, "server_error") /\ UNCHANGED tokens
    /\ UNCHANGED <<token, created, server>>

-----------------------------------------------------------------------------
(* The server process.                                                     *)

\* The signal handler runs on one of the threads: ioc.stop(), ...
Stop ==
    /\ server = "running"
    /\ Cardinality(Handling) < nthreads
    /\ server' = "stopped"
    /\ UNCHANGED <<tokens, token, conn, created>>

\* ... then deleteAllTokens().
DeleteAllTokens ==
    /\ server = "stopped"
    /\ \/ tokens' = [u \in User |-> NoToken]
       \/ DbErrors /\ UNCHANGED tokens
    /\ server' = "draining"
    /\ UNCHANGED <<token, conn, created>>

\* Every run() has returned and the threads are joined; what had not been taken
\* is closed with the io_context.
Exit ==
    /\ server = "draining"
    /\ Handling = {}
    /\ server' = "off"
    /\ conn' = [c \in Connection |-> Free]
    /\ UNCHANGED <<tokens, token, created>>

\* The process is killed, or ends because of an exception in a handler.
Kill ==
    /\ server # "off"
    /\ server' = "off"
    /\ conn' = [c \in Connection |-> Free]
    /\ UNCHANGED <<tokens, token, created>>

\* main() again: the database is as it was.
Start ==
    /\ server = "off"
    /\ server' = "running"
    /\ UNCHANGED <<tokens, token, conn, created>>

-----------------------------------------------------------------------------

Next ==
    \/ \E c \in Connection, k \in Client : Login(c, k) \/ Backup(c, k) \/ Logout(c, k)
    \/ \E k \in Client : ClientExit(k)
    \/ \E c \in Connection :
        \/ Read(c) \/ Take(c) \/ VerifyPassword(c) \/ SaveToken(c)
        \/ VerifyToken(c) \/ Act(c) \/ LogoutUser(c)
    \/ Stop \/ DeleteAllTokens \/ Exit \/ Kill \/ Start

Spec == Init /\ [][Next]_vars

-----------------------------------------------------------------------------
(* Properties.                                                             *)

\* The variables have their types; a handler that acts has a user: user.value()
\* does not throw.
TypeOK ==
    /\ \A c \in Connection : (At(c, "act") \/ At(c, "clear")) => conn[c].user \in User
    /\ tokens \in [User -> Token]
    /\ token \in [Client -> Token]
    /\ conn \in [Connection -> Open \cup {Free}]
    /\ created \in Token
    /\ server \in {"running", "stopped", "draining", "off"}

\* The user a token is with: it is in the user's row, in a client that runs for
\* the user, or on a connection of such a client.
HolderOf(t, u) ==
    \/ tokens[u] = t
    \/ \E k \in Client : token[k] = t /\ UserOf[k] = u
    \/ \E c \in Connection :
        conn[c] # Free /\ conn[c].token = t /\ UserOf[conn[c].client] = u

\* A token never gets from one user to another: not from the table to the client
\* of somebody else, not by a login that another one overtakes.  The column
\* "token" is not unique in the table, so nothing but this makes a row the only
\* one that verifyToken can find.
TokenOfOneUser ==
    \A t \in Token \ {NoToken} :
        \A u, v \in User : HolderOf(t, u) /\ HolderOf(t, v) => u = v

\* A request is executed for the user who sent it, however logins, logouts and
\* other requests interleave: never for another one whose row has, or had, the
\* same token.
ActsAsOwner ==
    \A c \in Connection :
        (At(c, "act") \/ At(c, "clear")) => conn[c].user = UserOf[conn[c].client]

\* "token of the user deleted from the database: 200 OK" (README.md:42): a token
\* that was sent with a logout is not in the database when the answer is OK, and
\* no request that was under way puts it back.
LogoutFinal ==
    \A c \in Connection :
        (At(c, "answered") /\ conn[c].kind = "logout" /\ conn[c].status = "ok")
            => \A u \in User : tokens[u] # conn[c].token

\* The tokens that clients have been given: those they hold, and those that have
\* come back with a request, also of a client that has ended since.
Given ==
    {token[k] : k \in Client}
      \cup {conn[c].token : c \in {d \in Connection :
                                    conn[d] # Free /\ conn[d].kind \in {"backup", "logout"}}}

\* A token that a client has been given and that is not in the database any more,
\* because of a logout, another login of the user, or a shutdown of the server, is
\* never in it again: no login, request or logout that was under way on another
\* thread puts it back, and no start of the server either.
RevokedForGood ==
    [][\A t \in Given \ {NoToken} :
        (\A u \in User : tokens[u] # t) => (\A u \in User : tokens'[u] # t)]_vars

\* "delete tokens of all users" (main.cpp:39): after a shutdown by a signal no
\* token is left in the database. With a second thread a login that was under way
\* saves one after they have been deleted (MCShutdown.cfg).
StopRevokesAll ==
    (server = "draining" /\ Handling = {}) => \A u \in User : tokens[u] = NoToken

=============================================================================
