-------------------------------- MODULE Api --------------------------------
(***************************************************************************)
(* handle_request (server/server.h) as a whole, for any message: what the  *)
(* requests of client/client.cpp look like on the wire, and all that may   *)
(* come instead of them.  A body is a JSON object, given by its keys, or   *)
(* NoJson.  Storage.tla has the operations themselves, Authorization.tla   *)
(* the interleaving of handlers: here one request is treated at a time.    *)
(*                                                                         *)
(* The client spells a path as it is.  A message may also spell it with a  *)
(* slash at the end, or with a last component ".".                         *)
(***************************************************************************)
EXTENDS Storage

CONSTANTS
    User, Password,     \* the row of the user in the table, but for the token
    Token, NoToken,     \* what the column "token" may hold; NoToken is empty
    NoJson,             \* a body that json::parse does not accept
    AnyName, AnyWord,   \* the users and passwords that are tried
    OtherMethod,        \* a method that is not GET, POST or DELETE
    Dotted              \* the paths with ".." in a name, as in a..b

ASSUME ApiAssumption ==
    /\ NoToken \in Token
    /\ User \in AnyName /\ Password \in AnyWord
    /\ OtherMethod \notin {"GET", "POST", "DELETE"}
    /\ Dotted \subseteq Path \ {Root} /\ \A p \in Dotted : Within[p] \subseteq Dotted
    /\ NoJson \notin [children : SUBSET Path] \cup [type : {"folder"}]
                        \cup [type : {"file"}, encodedfile : Content]

VARIABLES
    tree,       \* the user's backup folder, or NoFolder
    token,      \* the token of the user's row
    message,    \* what a session has read and hands to handle_request
    status      \* how the last message was answered

vars == <<tree, token, message, status>>

JsonObject ==
    [{} -> {}]
      \cup [username : AnyName, password : AnyWord] \cup [username : AnyName]
      \cup [type : {"file"}, encodedfile : Content] \cup [type : {"file", "folder", "link"}]
      \cup [children : {Entries(tree, p) : p \in Path} \cup {{}}]

AnyMessage ==
    [method : {"GET", "POST", "DELETE", OtherMethod},
     target : {"login", "logout", "backup", "probefile", "probefolder", "unknown"},
     path : Path,                           \* of the targets that end with one
     ending : {"plain", "slash", "dot"},    \* how it is spelled
     dots : BOOLEAN,                        \* there is a ".." in the target
     authorization : Token,                 \* the header; NoToken if there is none
     body : JsonObject \cup {NoJson}]

\* A path or a body that nobody looks at is left out.
Message ==
    {m \in AnyMessage :
        /\ m.target \in {"login", "logout", "unknown"} => m.path = Root /\ m.ending = "plain"
        /\ m.path \in Dotted => m.dots
        /\ (m.method # "POST" \/ m.target \notin {"login", "backup", "probefolder"})
                => m.body = NoJson}

Has(m, keys) == keys \subseteq DOMAIN m.body

-----------------------------------------------------------------------------
(* server/backup.cpp, for the spellings of a path.                         *)

\* The folder is gone.
NoFolder == [p \in Path |-> Absent]

IsStored(t) == IsTree(t) /\ \A p \in Dotted : t[p] = Absent

\* open(2) makes or takes no file of another spelling.
SaveFileAs(p, ending, content) ==
    IF ending = "plain" THEN SaveFile(tree, p, content) ELSE Done(tree, "server_error")

\* mkdir(2) takes a slash at the end, and the user's folder has a place always.
NewDirectoryAs(p, ending) ==
    IF tree[p] = Absent /\ ending = "dot" THEN Done(tree, "terminated")
    ELSE IF tree[p] = Absent /\ p = Root THEN Done([tree EXCEPT ![Root] = Folder], "ok")
    ELSE NewDirectory(tree, p)

\* stat(2) finds only folders.
GetFileDigestAs(p, ending) ==
    IF ending = "plain" THEN GetFileDigest(tree, p) ELSE Done(tree, "not_found")

\* path.empty() finds the root in one spelling only. fs::remove_all empties the
\* folder and then removes it; as "." it cannot be removed, which throws.
BackupDeleteAs(p, ending) ==
    IF ending = "plain" THEN BackupDelete(tree, p)
    ELSE IF tree[p] # Folder THEN Done(tree, "not_found")
    ELSE IF ending = "slash" THEN Done(RemoveAll(tree, {p}), "ok")
    ELSE Done(RemoveAll(tree, Entries(tree, p)), "terminated")

-----------------------------------------------------------------------------
(* handle_request: the new folder, the new token and the status.           *)

Refuse(how) == [tree |-> tree, token |-> token, status |-> how, digest |-> Absent]

Set(t) == [Refuse("ok") EXCEPT !.token = t]

Stored(result) == [tree |-> result.tree, token |-> token,
                   status |-> result.status, digest |-> result.digest]

\* Mutant: the token is created and saved before the password is looked at.
PostLoginSaves(m, new, found, saved) ==
    IF m.body = NoJson THEN Refuse("terminated")
    ELSE IF ~Has(m, {"username", "password"}) THEN Refuse("bad_request")
    ELSE IF ~saved THEN Refuse("server_error")
    ELSE IF ~found \/ m.body.username # User \/ m.body.password # Password
    THEN [Set(new) EXCEPT !.status = "unauthorized"]
    ELSE Set(new)

\* POST /login; found: the select gives the row; saved: saveTokenToUser returns true.
PostLogin(m, new, found, saved) ==
    IF m.body = NoJson THEN Refuse("terminated")
    ELSE IF ~Has(m, {"username", "password"}) THEN Refuse("bad_request")
    ELSE IF ~found \/ m.body.username # User \/ m.body.password # Password THEN Refuse("unauthorized")
    ELSE IF ~saved THEN Refuse("server_error")
    ELSE Set(new)

PostBackup(m) ==
    IF m.body = NoJson THEN Refuse("terminated")
    ELSE IF ~Has(m, {"type"}) THEN Refuse("bad_request")
    ELSE IF m.body.type = "folder" THEN Stored(NewDirectoryAs(m.path, m.ending))
    ELSE IF m.body.type = "file" /\ Has(m, {"encodedfile"})
    THEN Stored(SaveFileAs(m.path, m.ending, m.body.encodedfile))
    ELSE Refuse("bad_request")

PostProbeFolder(m) ==
    IF m.body = NoJson THEN Refuse("terminated")
    ELSE IF ~Has(m, {"children"}) THEN Refuse("bad_request")
    ELSE Stored(ProbeDirectory(tree, m.path, m.body.children))

PostLogout(saved) == IF saved THEN Set(NoToken) ELSE Refuse("server_error")

\* What an authorised user may do.
Authorised(m, saved) ==
    CASE m.method = "POST" /\ m.target = "backup"       -> PostBackup(m)
      [] m.method = "POST" /\ m.target = "probefolder"  -> PostProbeFolder(m)
      [] m.method = "POST" /\ m.target = "logout"       -> PostLogout(saved)
      [] m.method = "GET" /\ m.target = "probefile"     -> Stored(GetFileDigestAs(m.path, m.ending))
      [] m.method = "DELETE" /\ m.target = "backup"     -> Stored(BackupDeleteAs(m.path, m.ending))
      [] OTHER                                          -> Refuse("not_found")

\* Mutant: a token is compared with the row before it is known to be one.
RespondToEmpty(m, new, found, saved) ==
    IF m.method = OtherMethod \/ m.dots THEN Refuse("bad_request")
    ELSE IF m.method = "POST" /\ m.target = "login" THEN PostLogin(m, new, found, saved)
    ELSE IF ~found \/ m.authorization # token THEN Refuse("unauthorized")
    ELSE Authorised(m, saved)

\* The order of the checks; found: the select of verifyToken finds the row, if any.
Respond(m, new, found, saved) ==
    IF m.method = OtherMethod \/ m.dots THEN Refuse("bad_request")
    ELSE IF m.method = "POST" /\ m.target = "login" THEN PostLogin(m, new, found, saved)
    ELSE IF m.authorization = NoToken THEN Refuse("unauthorized")
    ELSE IF ~found \/ m.authorization # token THEN Refuse("unauthorized")
    ELSE Authorised(m, saved)

-----------------------------------------------------------------------------
(* client/client.cpp: the messages that send_request, probe_file,          *)
(* authenticateToServer and logout make.                                   *)

Wire(method, target, path, body) ==
    [method |-> method, target |-> target, path |-> path, ending |-> "plain",
     dots |-> path \in Dotted, authorization |-> token, body |-> body]

\* Mutant: the switch has backupfolder next to probefolder.
ClientMessageSwitched(req) ==
    CASE req.op = "save"        -> Wire("POST", "backup", req.path,
                                        [type |-> "file", encodedfile |-> req.content])
      [] req.op = "mkdir"       -> Wire("POST", "probefolder", req.path, [type |-> "folder"])
      [] req.op = "probefolder" -> Wire("POST", "probefolder", req.path, [children |-> req.children])
      [] req.op = "probefile"   -> Wire("GET", "probefile", req.path, NoJson)
      [] req.op = "delete"      -> Wire("DELETE", "backup", req.path, NoJson)

ClientMessage(req) ==
    CASE req.op = "save"        -> Wire("POST", "backup", req.path,
                                        [type |-> "file", encodedfile |-> req.content])
      [] req.op = "mkdir"       -> Wire("POST", "backup", req.path, [type |-> "folder"])
      [] req.op = "probefolder" -> Wire("POST", "probefolder", req.path, [children |-> req.children])
      [] req.op = "probefile"   -> Wire("GET", "probefile", req.path, NoJson)
      [] req.op = "delete"      -> Wire("DELETE", "backup", req.path, NoJson)

-----------------------------------------------------------------------------

NoMessage == NoJson

\* A session has read a message.
Receive ==
    /\ message = NoMessage
    /\ message' \in Message
    /\ status' = "none"
    /\ UNCHANGED <<tree, token>>

\* handle_request treats it; hasRow: the user is in the table.
Handle(hasRow) ==
    /\ message # NoMessage
    /\ \E new \in Token \ {NoToken, token}, found \in {FALSE, hasRow}, saved \in BOOLEAN :
        LET result == Respond(message, new, found, saved)
        IN /\ tree' = result.tree
           /\ token' = result.token
           /\ status' = result.status
    /\ message' = NoMessage

-----------------------------------------------------------------------------
(* Properties.                                                             *)

\* The two programs agree on the wire format: a message the client makes is, to
\* the server, the operation the client means, as long as there is a folder.
\* BackupSystem relies on it.  What has ".." in a name the server refuses.
ClientIsUnderstood ==
    \A req \in Request :
        (token # NoToken /\ tree[Root] = Folder) =>
            Respond(ClientMessage(req), token, TRUE, TRUE) =
                IF req.path \in Dotted THEN Refuse("bad_request")
                ELSE Stored(HandleRequest(tree, req))

\* A message that is answered with a refusal has done nothing, whichever check it
\* has failed.  One that ends the process is not answered, and may have removed
\* the content of a folder.
RefusedChangesNothing ==
    [][(message # NoMessage /\ status' \notin {"ok", "terminated"}) => UNCHANGED <<tree, token>>]_vars

\* "All the APIs require authorization with a token" (README.md:22): the folder
\* only changes for the token in the row, which is not the empty one of a user
\* who is logged out; the token only for it or for the right password.
ChangesAreAuthorised ==
    [][message # NoMessage =>
       LET known == token # NoToken /\ message.authorization = token
       IN /\ tree' # tree => known
          /\ token' # token => known \/ (message.target = "login" /\ message.body.password = Password)]_vars

\* "error otherwise (BAD REQUEST or SERVER ERROR)" (README.md:40): what is not a
\* good POST /backup is answered with an error.
BadBodyAnswered ==
    [][message # NoMessage /\ message.target = "backup" /\ message.body = NoJson
        => status' # "terminated"]_vars

\* "Without a valid token -> 403 FORBIDDEN" (README.md:23).
ForbiddenWithoutToken ==
    [][message # NoMessage /\ message.target = "backup" /\ message.authorization = NoToken
        => status' \in {"forbidden", "bad_request"}]_vars

=============================================================================
