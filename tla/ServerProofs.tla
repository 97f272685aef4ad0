---------------------------- MODULE ServerProofs ----------------------------
(***************************************************************************)
(* Proofs about Api and Server, for every set of paths, contents, users,   *)
(* tokens and messages; and about PathNames, the way of the path in their  *)
(* targets, for names of every length.                                     *)
(***************************************************************************)
EXTENDS Server, PathNames, StorageProofs, SequenceTheorems

-----------------------------------------------------------------------------
(* One message.                                                            *)

\* The user's folder with a tree in it, or no folder.
Sane(t) == IsTree(t) \/ t = NoFolder

\* What an operation on the folder leaves behind.  The operation that ends the
\* process has not removed the folder itself.
SaneStored(result) ==
    /\ Sane(result.tree)
    /\ result.status \in Status
    /\ result.status = "terminated" => result.tree[Root] = tree[Root]

\* What a message leaves behind.
SoundResult(result) ==
    /\ Sane(result.tree)
    /\ result.token \in Token
    /\ result.status \in Status \cup {"unauthorized"}
    /\ result.status = "terminated" => result.tree[Root] = tree[Root]

\* What a session can have read.
LEMMA MessageFields ==
    ASSUME NEW m \in Message
    PROVE  /\ m.path \in Path
           /\ m.authorization \in Token
           /\ (m.body # NoJson /\ Has(m, {"encodedfile"})) => m.body.encodedfile \in Content
BY DEF Message, AnyMessage, JsonObject, Has

LEMMA DoneSane ==
    ASSUME Sane(tree), NEW how \in Status
    PROVE  SaneStored(Done(tree, how))
BY DEF SaneStored, Done

LEMMA NoFolderEmpty == \A p \in Path : NoFolder[p] = Absent /\ NoFolder[p] # Folder
BY NodeAssumption DEF NoFolder

\* A folder that is made anew is a tree with nothing in it.
LEMMA NewRootTree == IsTree([NoFolder EXCEPT ![Root] = Folder])
BY ParentAssumption, NodeAssumption DEF IsTree, NoFolder, Node

\* Without the root there is nothing.
LEMMA RemoveRoot == RemoveAll(tree, {Root}) = NoFolder
BY ParentAssumption DEF RemoveAll, NoFolder

\* On a tree, the operations of Storage do what StorageProofs says.
LEMMA SoundIsSane ==
    ASSUME IsTree(tree), NEW result, Sound(tree, result)
    PROVE  SaneStored(result)
BY DEF Sound, SaneStored, Sane

LEMMA SaveFileSane ==
    ASSUME Sane(tree), NEW p \in Path, NEW ending, NEW content \in Content
    PROVE  SaneStored(SaveFileAs(p, ending, content))
<1>1. CASE ending = "plain" /\ IsTree(tree)
  BY <1>1, SaveFileSound, SoundIsSane DEF SaveFileAs
<1>2. CASE ending # "plain" \/ tree = NoFolder
  <2>1. tree = NoFolder => ~HasPlace(tree, p)
    BY NoFolderEmpty, ParentAssumption DEF HasPlace
  <2>2. SaveFileAs(p, ending, content) = Done(tree, "server_error")
    BY <1>2, <2>1 DEF SaveFileAs, SaveFile
  <2> QED
    BY <2>2, DoneSane DEF Status
<1> QED
  BY <1>1, <1>2 DEF Sane

LEMMA NewDirectorySane ==
    ASSUME Sane(tree), NEW p \in Path, NEW ending
    PROVE  SaneStored(NewDirectoryAs(p, ending))
<1>1. CASE tree[p] = Absent /\ ending = "dot"
  BY <1>1, DoneSane DEF NewDirectoryAs, Status
<1>2. CASE tree[p] = Absent /\ ending # "dot" /\ p = Root
  <2>1. tree = NoFolder
    BY <1>2, NodeAssumption DEF Sane, IsTree
  <2>2. NewDirectoryAs(p, ending) = Done([NoFolder EXCEPT ![Root] = Folder], "ok")
    BY <1>2, <2>1 DEF NewDirectoryAs
  <2> QED
    BY <2>2, NewRootTree DEF SaneStored, Sane, Done, Status
<1>3. CASE ~(tree[p] = Absent /\ (ending = "dot" \/ p = Root))
  <2>1. NewDirectoryAs(p, ending) = NewDirectory(tree, p)
    BY <1>3 DEF NewDirectoryAs
  <2>2. CASE IsTree(tree)
    BY <2>1, <2>2, NewDirectorySound, SoundIsSane
  <2>3. CASE tree = NoFolder
    <3>1. tree[p] # Folder /\ ~HasPlace(tree, p)
      BY <2>3, NoFolderEmpty, ParentAssumption DEF HasPlace
    <3>2. NewDirectory(tree, p) = Done(tree, "terminated")
      BY <3>1 DEF NewDirectory
    <3> QED
      BY <2>1, <3>2, DoneSane DEF Status
  <2> QED
    BY <2>2, <2>3 DEF Sane
<1> QED
  BY <1>1, <1>2, <1>3

LEMMA ProbeDirectorySane ==
    ASSUME Sane(tree), NEW p \in Path, NEW children
    PROVE  SaneStored(ProbeDirectory(tree, p, children))
<1>1. CASE IsTree(tree)
  BY <1>1, ProbeDirectorySound, SoundIsSane
<1>2. CASE tree = NoFolder
  <2>1. tree[p] # Folder
    BY <1>2, NoFolderEmpty
  <2>2. ProbeDirectory(tree, p, children) = Done(tree, "not_found")
    BY <2>1 DEF ProbeDirectory
  <2> QED
    BY <2>2, DoneSane DEF Status
<1> QED
  BY <1>1, <1>2 DEF Sane

LEMMA GetFileDigestSane ==
    ASSUME Sane(tree), NEW p \in Path, NEW ending
    PROVE  SaneStored(GetFileDigestAs(p, ending))
<1>1. \/ GetFileDigestAs(p, ending) = Done(tree, "not_found")
      \/ /\ GetFileDigestAs(p, ending).tree = tree
         /\ GetFileDigestAs(p, ending).status = "ok"
  BY DEF GetFileDigestAs, GetFileDigest, Done
<1> QED
  BY <1>1, DoneSane DEF SaneStored, Status

LEMMA BackupDeleteSane ==
    ASSUME Sane(tree), NEW p \in Path, NEW ending
    PROVE  SaneStored(BackupDeleteAs(p, ending))
<1>1. CASE tree = NoFolder
  <2>1. tree[p] = Absent /\ tree[p] # Folder
    BY <1>1, NoFolderEmpty
  <2>2. PICK how \in Status : BackupDeleteAs(p, ending) = Done(tree, how)
    BY <2>1 DEF BackupDeleteAs, BackupDelete, Status
  <2> QED
    BY <2>2, DoneSane
<1>2. CASE IsTree(tree) /\ ending = "plain"
  BY <1>2, BackupDeleteSound, SoundIsSane DEF BackupDeleteAs
<1>3. CASE IsTree(tree) /\ ending # "plain" /\ tree[p] # Folder
  <2>1. BackupDeleteAs(p, ending) = Done(tree, "not_found")
    BY <1>3 DEF BackupDeleteAs
  <2> QED
    BY <2>1, DoneSane DEF Status
<1>4. CASE IsTree(tree) /\ ending = "slash" /\ tree[p] = Folder
  <2>1. BackupDeleteAs(p, ending) = Done(RemoveAll(tree, {p}), "ok")
    BY <1>4 DEF BackupDeleteAs
  <2>2. Sane(RemoveAll(tree, {p}))
    BY <1>4, RemoveRoot, RemoveAllTree DEF Sane
  <2> QED
    BY <2>1, <2>2 DEF SaneStored, Done, Status
<1>5. CASE IsTree(tree) /\ ending \notin {"plain", "slash"} /\ tree[p] = Folder
  <2>1. BackupDeleteAs(p, ending) = Done(RemoveAll(tree, Entries(tree, p)), "terminated")
    BY <1>5 DEF BackupDeleteAs
  <2>2. IsTree(RemoveAll(tree, Entries(tree, p)))
    BY <1>5, RemoveAllTree DEF Entries
  <2> QED
    BY <1>5, <2>1, <2>2 DEF SaneStored, Sane, Done, Status, IsTree
<1> QED
  BY <1>1, <1>2, <1>3, <1>4, <1>5 DEF Sane

LEMMA RefuseSound ==
    ASSUME Sane(tree), token \in Token, NEW how \in Status \cup {"unauthorized"}
    PROVE  SoundResult(Refuse(how))
BY DEF SoundResult, Refuse

LEMMA StoredSound ==
    ASSUME token \in Token, NEW result, SaneStored(result)
    PROVE  SoundResult(Stored(result))
BY DEF SaneStored, SoundResult, Stored

LEMMA SetSound ==
    ASSUME Sane(tree), NEW t \in Token
    PROVE  SoundResult(Set(t))
BY DEF SoundResult, Set, Refuse, Status

LEMMA AuthorisedSound ==
    ASSUME Sane(tree), token \in Token, NEW m \in Message, NEW saved \in BOOLEAN
    PROVE  SoundResult(Authorised(m, saved))
<1> USE MessageFields
<1>1. SoundResult(PostBackup(m))
  <2>1. CASE m.body = NoJson \/ ~Has(m, {"type"})
    <3>1. PostBackup(m) = Refuse("terminated") \/ PostBackup(m) = Refuse("bad_request")
      BY <2>1 DEF PostBackup, Has
    <3> QED
      BY <3>1, RefuseSound DEF Status
  <2>2. CASE m.body # NoJson /\ Has(m, {"type"}) /\ m.body.type = "folder"
    BY <2>2, StoredSound, NewDirectorySane DEF PostBackup
  <2>3. CASE m.body # NoJson /\ Has(m, {"type"}) /\ m.body.type # "folder"
    <3>1. CASE m.body.type = "file" /\ Has(m, {"encodedfile"})
      BY <2>3, <3>1, StoredSound, SaveFileSane DEF PostBackup
    <3>2. CASE ~(m.body.type = "file" /\ Has(m, {"encodedfile"}))
      BY <2>3, <3>2, RefuseSound DEF PostBackup, Status
    <3> QED
      BY <3>1, <3>2
  <2> QED
    BY <2>1, <2>2, <2>3
<1>2. SoundResult(PostProbeFolder(m))
  BY RefuseSound, StoredSound, ProbeDirectorySane DEF PostProbeFolder, Status
<1>3. SoundResult(PostLogout(saved))
  BY RefuseSound, SetSound, ApiAssumption DEF PostLogout, Status
<1>4. /\ SoundResult(Stored(GetFileDigestAs(m.path, m.ending)))
      /\ SoundResult(Stored(BackupDeleteAs(m.path, m.ending)))
  BY StoredSound, GetFileDigestSane, BackupDeleteSane
<1>5. SoundResult(Refuse("not_found"))
  BY RefuseSound DEF Status
<1> QED
  BY <1>1, <1>2, <1>3, <1>4, <1>5 DEF Authorised

LEMMA RespondSound ==
    ASSUME Sane(tree), token \in Token, NEW m \in Message, NEW new \in Token,
           NEW found \in BOOLEAN, NEW saved \in BOOLEAN
    PROVE  SoundResult(Respond(m, new, found, saved))
<1>1. SoundResult(PostLogin(m, new, found, saved))
  BY RefuseSound, SetSound DEF PostLogin, Status
<1>2. SoundResult(Refuse("bad_request")) /\ SoundResult(Refuse("unauthorized"))
  BY RefuseSound DEF Status
<1> QED
  BY <1>1, <1>2, AuthorisedSound DEF Respond

\* Folder and token change only for those who may change them.
LEMMA RespondAuthorised ==
    ASSUME NEW m \in Message, NEW new, NEW found \in BOOLEAN, NEW saved \in BOOLEAN
    PROVE  LET result == Respond(m, new, found, saved)
               known == token # NoToken /\ m.authorization = token
           IN /\ result.tree # tree => known
              /\ result.token # token
                    => known \/ (m.target = "login" /\ m.body.password = Password)
<1>1. CASE m.method = "POST" /\ m.target = "login"
  BY <1>1 DEF Respond, PostLogin, Refuse, Set
<1>2. CASE ~(m.method = "POST" /\ m.target = "login")
  BY <1>2 DEF Respond, Refuse
<1> QED
  BY <1>1, <1>2

\* A message that is refused changes nothing, whatever state the folder is in.
LEMMA RespondRefused ==
    ASSUME NEW m \in Message, NEW new, NEW found \in BOOLEAN, NEW saved \in BOOLEAN,
           LET result == Respond(m, new, found, saved) IN result.status \notin {"ok", "terminated"}
    PROVE  LET result == Respond(m, new, found, saved)
           IN result.tree = tree /\ result.token = token
<1> DEFINE Quiet(result) == /\ result.tree = tree /\ result.token = token
                            \/ result.status \in {"ok", "terminated"}
<1>1. \A how : Quiet(Refuse(how))
  BY DEF Refuse
<1>2. Quiet(PostLogin(m, new, found, saved)) /\ Quiet(PostLogout(saved))
  BY <1>1 DEF PostLogin, PostLogout, Set, Refuse
<1>3. Quiet(PostProbeFolder(m))
  BY <1>1 DEF PostProbeFolder, Stored, ProbeDirectory, Done
<1>4. \A p, ending, content :
        /\ Quiet(Stored(SaveFileAs(p, ending, content)))
        /\ Quiet(Stored(NewDirectoryAs(p, ending)))
        /\ Quiet(Stored(GetFileDigestAs(p, ending)))
  BY DEF SaveFileAs, NewDirectoryAs, GetFileDigestAs, SaveFile, NewDirectory, GetFileDigest,
         Stored, Done
<1>5. \A p, ending : Quiet(Stored(BackupDeleteAs(p, ending)))
  BY DEF BackupDeleteAs, BackupDelete, Stored, Done
<1>6. Quiet(PostBackup(m))
  BY <1>1, <1>4 DEF PostBackup
<1>7. Quiet(Authorised(m, saved))
  BY <1>1, <1>2, <1>3, <1>4, <1>5, <1>6 DEF Authorised
<1>8. Quiet(Respond(m, new, found, saved))
  BY <1>1, <1>2, <1>7 DEF Respond
<1> QED
  BY <1>8

\* Every message a client makes is, to the server, the operation the client means,
\* as long as there is a folder and no ".." in the name.
LEMMA RequestUnderstood ==
    ASSUME NEW req \in Request, token # NoToken, tree[Root] = Folder
    PROVE  Respond(ClientMessage(req), token, TRUE, TRUE) =
             IF req.path \in Dotted THEN Refuse("bad_request")
             ELSE Stored(HandleRequest(tree, req))
<1> DEFINE m == ClientMessage(req)
<1>1. req.op \in {"save", "mkdir", "probefolder", "probefile", "delete"}
  BY DEF Request
<1>2. CASE req.path \in Dotted
  <2>1. m.dots = TRUE
    BY <1>1, <1>2 DEF ClientMessage, Wire
  <2> QED
    BY <1>2, <2>1 DEF Respond
<1>3. CASE req.path \notin Dotted
  <2>1. SUFFICES Respond(m, token, TRUE, TRUE) = Stored(HandleRequest(tree, req))
    BY <1>3
  <2>2. ~m.dots /\ m.path = req.path /\ m.ending = "plain" /\ m.authorization = token
    BY <1>1, <1>3 DEF ClientMessage, Wire
  <2>3. m.method \in {"GET", "POST", "DELETE"} /\ m.target # "login"
    BY <1>1 DEF ClientMessage, Wire
  <2> HIDE DEF m
  <2>4. Respond(m, token, TRUE, TRUE) = Authorised(m, TRUE)
    BY <2>2, <2>3, ApiAssumption DEF Respond
  <2>5. CASE req.op = "save"
    <3>1. /\ m.method = "POST" /\ m.target = "backup"
          /\ m.body = [type |-> "file", encodedfile |-> req.content]
          /\ req.content \in Content
      BY <2>5 DEF m, ClientMessage, Wire, Request
    <3>2. m.body # NoJson
      BY <3>1, ApiAssumption
    <3>3. Has(m, {"type"}) /\ Has(m, {"encodedfile"}) /\ m.body.type = "file"
      BY <3>1 DEF Has
    <3>4. m.body.encodedfile = req.content
      BY <3>1
    <3>5. PostBackup(m) = Stored(SaveFile(tree, req.path, req.content))
      BY <2>2, <3>2, <3>3, <3>4 DEF PostBackup, SaveFileAs
    <3>6. Authorised(m, TRUE) = PostBackup(m)
      BY <3>1 DEF Authorised
    <3> QED
      BY <2>4, <2>5, <3>5, <3>6 DEF HandleRequest
  <2>6. CASE req.op = "mkdir"
    <3>1. m.method = "POST" /\ m.target = "backup" /\ m.body = [type |-> "folder"]
      BY <2>6 DEF m, ClientMessage, Wire
    <3>2. m.body # NoJson
      BY <3>1, ApiAssumption
    <3>3. NewDirectoryAs(req.path, "plain") = NewDirectory(tree, req.path)
      BY NodeAssumption DEF NewDirectoryAs
    <3>4. Has(m, {"type"}) /\ m.body.type = "folder"
      BY <3>1 DEF Has
    <3>5. PostBackup(m) = Stored(NewDirectory(tree, req.path))
      BY <2>2, <3>2, <3>3, <3>4 DEF PostBackup
    <3>6. Authorised(m, TRUE) = PostBackup(m)
      BY <3>1 DEF Authorised
    <3> QED
      BY <2>4, <2>6, <3>5, <3>6 DEF HandleRequest
  <2>7. CASE req.op = "probefolder"
    <3>1. /\ m.method = "POST" /\ m.target = "probefolder"
          /\ m.body = [children |-> req.children]
          /\ req.children \in SUBSET Path
      BY <2>7 DEF m, ClientMessage, Wire, Request
    <3>2. m.body # NoJson
      BY <3>1, ApiAssumption
    <3>3. Has(m, {"children"}) /\ m.body.children = req.children
      BY <3>1 DEF Has
    <3>4. PostProbeFolder(m) = Stored(ProbeDirectory(tree, req.path, req.children))
      BY <2>2, <3>2, <3>3 DEF PostProbeFolder
    <3>5. Authorised(m, TRUE) = PostProbeFolder(m)
      BY <3>1 DEF Authorised
    <3> QED
      BY <2>4, <2>7, <3>4, <3>5 DEF HandleRequest
  <2>8. CASE req.op = "probefile"
    <3>1. m.method = "GET" /\ m.target = "probefile"
      BY <2>8 DEF m, ClientMessage, Wire
    <3> QED
      BY <2>2, <2>4, <2>8, <3>1 DEF Authorised, HandleRequest, GetFileDigestAs
  <2>9. CASE req.op = "delete"
    <3>1. m.method = "DELETE" /\ m.target = "backup"
      BY <2>9 DEF m, ClientMessage, Wire
    <3> QED
      BY <2>2, <2>4, <2>9, <3>1 DEF Authorised, HandleRequest, BackupDeleteAs
  <2> QED
    BY <1>1, <2>1, <2>5, <2>6, <2>7, <2>8, <2>9
<1> QED
  BY <1>2, <1>3

-----------------------------------------------------------------------------
(***************************************************************************)
(* The server from start to end.  The user has a tree exactly if there is  *)
(* a folder.  Rows without a folder are the ones that the start has still  *)
(* to come to, or were added or lost theirs since the table was read.      *)
(***************************************************************************)
ServerInv ==
    /\ token \in Token
    /\ message \in Message \cup {NoMessage}
    /\ status \in Status \cup {"none", "unauthorized"}
    /\ users \subseteq AnyName /\ folders \subseteq AnyName
    /\ todo \subseteq AnyName /\ lost \subseteq AnyName
    /\ process \in {"off", "config", "users", "folders", "serving"}
    /\ IF User \in folders THEN IsTree(tree) ELSE tree = NoFolder
    /\ process = "folders" => users \subseteq folders \cup todo \cup lost
    /\ process = "serving" => users \subseteq folders \cup lost
    /\ process # "folders" => todo = {}

LEMMA EmptyFolderTree == IsTree(EmptyFolder)
BY ParentAssumption, NodeAssumption DEF IsTree, EmptyFolder, Node

LEMMA InitServer == Init => ServerInv
<1> SUFFICES ASSUME Init PROVE ServerInv
  OBVIOUS
<1>1. token \in Token
  BY ApiAssumption DEF Init
<1>2. IF User \in folders THEN IsTree(tree) ELSE tree = NoFolder
  BY DEF Init, IsStored
<1> QED
  BY <1>1, <1>2 DEF Init, Start!Init, ServerInv

LEMMA ReceiveServer ==
    ASSUME ServerInv, Receive, UNCHANGED startVars PROVE ServerInv'
BY DEF ServerInv, Receive, startVars, Message, AnyMessage, JsonObject

LEMMA HandleResponds ==
    ASSUME Handle(User \in users)
    PROVE  \E new \in Token, found \in BOOLEAN, saved \in BOOLEAN :
              /\ tree' = Respond(message, new, found, saved).tree
              /\ token' = Respond(message, new, found, saved).token
              /\ status' = Respond(message, new, found, saved).status
<1>1. PICK new \in Token, found \in {FALSE, (User \in users)}, saved \in BOOLEAN :
         /\ tree' = Respond(message, new, found, saved).tree
         /\ token' = Respond(message, new, found, saved).token
         /\ status' = Respond(message, new, found, saved).status
  BY Zenon DEF Handle
<1>2. (User \in users) \in BOOLEAN
  OBVIOUS
<1>3. found \in BOOLEAN
  BY <1>1, <1>2, Zenon
<1> QED
  BY <1>1, <1>3

LEMMA HandleServer ==
    ASSUME ServerInv, process = "serving", Handle(User \in users),
           IF status' = "terminated" THEN Start!End ELSE FolderAfter
    PROVE  ServerInv'
<1>1. PICK new \in Token, found \in BOOLEAN, saved \in BOOLEAN :
         /\ tree' = Respond(message, new, found, saved).tree
         /\ token' = Respond(message, new, found, saved).token
         /\ status' = Respond(message, new, found, saved).status
  BY HandleResponds
<1>2. message \in Message /\ message' = NoMessage
  BY DEF ServerInv, Handle
<1>3. /\ Sane(tree') /\ token' \in Token /\ status' \in Status \cup {"unauthorized"}
      /\ status' = "terminated" => tree'[Root] = tree[Root]
  <2>1. SoundResult(Respond(message, new, found, saved))
    BY <1>2, RespondSound DEF ServerInv, Sane
  <2> QED
    BY <1>1, <2>1 DEF SoundResult
<1>4. \A t : Sane(t) => IF t[Root] = Folder THEN IsTree(t) ELSE t = NoFolder
  BY NoFolderEmpty, ParentAssumption DEF Sane, IsTree
<1>5. CASE status' = "terminated"
  <2>1. /\ users' = users /\ folders' = folders /\ lost' = {}
        /\ process' = "off" /\ todo' = {}
    BY <1>5 DEF Start!End, Start!Goto
  <2>2. User \in folders <=> tree[Root] = Folder
    BY NoFolderEmpty, ParentAssumption DEF ServerInv, IsTree
  <2>3. IF User \in folders' THEN IsTree(tree') ELSE tree' = NoFolder
    BY <1>3, <1>4, <1>5, <2>1, <2>2
  <2> QED
    BY <1>2, <1>3, <2>1, <2>3 DEF ServerInv
<1>6. CASE status' # "terminated"
  <2>1. /\ users' = users /\ todo' = todo /\ process' = process
        /\ lost' = (lost \cup (folders \ folders')) \cap (users' \ folders')
        /\ folders' = IF tree'[Root] = Folder THEN folders \cup {User} ELSE folders \ {User}
    BY <1>6 DEF FolderAfter, Start!Lose
  <2>2. IF User \in folders' THEN IsTree(tree') ELSE tree' = NoFolder
    BY <1>3, <1>4, <2>1
  <2>3. /\ folders' \subseteq AnyName /\ lost' \subseteq AnyName
        /\ users' \subseteq folders' \cup lost'
    BY <2>1, ApiAssumption DEF ServerInv
  <2> QED
    BY <1>2, <1>3, <2>1, <2>2, <2>3 DEF ServerInv
<1> QED
  BY <1>5, <1>6

LEMMA StartOrEndServer ==
    ASSUME ServerInv, StartOrEnd PROVE ServerInv'
<1>1. /\ users' \subseteq AnyName /\ folders' \subseteq AnyName
      /\ todo' \subseteq AnyName /\ lost' \subseteq AnyName
      /\ process' \in {"off", "config", "users", "folders", "serving"}
      /\ process' = "folders" => users' \subseteq folders' \cup todo' \cup lost'
      /\ process' = "serving" => users' \subseteq folders' \cup lost'
      /\ process' # "folders" => todo' = {}
  <2> USE DEF ServerInv, Start!Goto
  <2>1. CASE Start!Start \/ Start!LoadConfigFile \/ Start!GetAllUsers \/ Start!Serve \/ Start!End
    BY <2>1 DEF Start!Start, Start!LoadConfigFile, Start!GetAllUsers, Start!Serve, Start!End
  <2>2. CASE Start!UserFolder
    BY <2>2 DEF Start!UserFolder, Start!Lose
  <2>3. CASE Start!Administer
    BY <2>3 DEF Start!Administer, Start!Lose
  <2> QED
    BY <2>1, <2>2, <2>3 DEF StartOrEnd, Start!Next
<1>2. IF User \in folders' THEN IsTree(tree') ELSE tree' = NoFolder
  <2>1. CASE User \in folders' \ folders
    BY <2>1, EmptyFolderTree DEF StartOrEnd
  <2>2. CASE User \in folders \ folders'
    BY <2>2 DEF StartOrEnd
  <2>3. CASE User \in folders <=> User \in folders'
    BY <2>3 DEF StartOrEnd, ServerInv
  <2> QED
    BY <2>1, <2>2, <2>3
<1>3. token' \in Token /\ message' = NoMessage /\ status' = status
  BY ApiAssumption DEF StartOrEnd, ServerInv
<1> QED
  BY <1>1, <1>2, <1>3 DEF ServerInv

LEMMA NextServer == ServerInv /\ [Next]_allVars => ServerInv'
<1> SUFFICES ASSUME ServerInv, [Next]_allVars PROVE ServerInv'
  OBVIOUS
<1>1. CASE UNCHANGED allVars
  BY <1>1 DEF allVars, vars, startVars, ServerInv, Message, AnyMessage, JsonObject
<1>2. CASE Requests
  BY <1>2, ReceiveServer, HandleServer DEF Requests
<1>3. CASE StartOrEnd
  BY <1>3, StartOrEndServer
<1> QED
  BY <1>1, <1>2, <1>3 DEF Next

LEMMA AlwaysServer == Spec => []ServerInv
BY InitServer, NextServer, PTL DEF Spec

\* The backup stays a tree, or is gone, whatever messages come and whenever the
\* process ends; every message has one of the answers.
THEOREM TypeCorrect == Spec => []TypeOK
<1>1. ServerInv => TypeOK
  BY DEF ServerInv, TypeOK
<1> QED
  BY <1>1, AlwaysServer, PTL

\* While the server serves, whoever can log in has a folder with a tree in it, but
\* for a row that was added, or a folder that was removed, since the start.
THEOREM FoldersBeforeRequests == Spec => []ServedHaveFolder
<1>1. ServerInv => ServedHaveFolder
  BY DEF ServerInv, ServedHaveFolder
<1> QED
  BY <1>1, AlwaysServer, PTL

\* Whatever is in the folder and whatever the token is, the server does with a
\* message of the client what the client means by it, or refuses the name.
THEOREM ClientAlwaysUnderstood == Spec => []ClientIsUnderstood
<1>1. ClientIsUnderstood
  BY RequestUnderstood DEF ClientIsUnderstood
<1> QED
  BY <1>1, PTL

\* What is answered, but not with 200 OK, has changed nothing.
THEOREM RefusalsAreHarmless == Spec => RefusedChangesNothing
<1>1. ServerInv /\ [Next]_allVars
        => [(message # NoMessage /\ status' \notin {"ok", "terminated"}) => UNCHANGED <<tree, token>>]_vars
  <2> SUFFICES ASSUME ServerInv, Next, message # NoMessage, status' \notin {"ok", "terminated"}
               PROVE  UNCHANGED <<tree, token>>
    BY DEF allVars
  <2>1. Handle(User \in users) /\ message \in Message
    BY DEF Next, Requests, Receive, StartOrEnd, ServerInv
  <2>2. PICK new \in Token, found \in BOOLEAN, saved \in BOOLEAN :
           /\ tree' = Respond(message, new, found, saved).tree
           /\ token' = Respond(message, new, found, saved).token
           /\ status' = Respond(message, new, found, saved).status
    BY <2>1, HandleResponds
  <2> QED
    BY <2>1, <2>2, RespondRefused
<1> QED
  BY <1>1, AlwaysServer, PTL DEF Spec, RefusedChangesNothing

\* The folder changes only for the token in the row, the token only for it or for
\* the password.
THEOREM OnlyAuthorisedChanges == Spec => ChangesAreAuthorised
<1> DEFINE known == token # NoToken /\ message.authorization = token
           A == message # NoMessage =>
                   /\ tree' # tree => known
                   /\ token' # token
                        => known \/ (message.target = "login" /\ message.body.password = Password)
<1>1. ServerInv /\ [Next]_allVars => [A]_vars
  <2> SUFFICES ASSUME ServerInv, Next, message # NoMessage PROVE A
    BY DEF allVars
  <2>1. Handle(User \in users) /\ message \in Message
    BY DEF Next, Requests, Receive, StartOrEnd, ServerInv
  <2>2. PICK new \in Token, found \in BOOLEAN, saved \in BOOLEAN :
           /\ tree' = Respond(message, new, found, saved).tree
           /\ token' = Respond(message, new, found, saved).token
           /\ status' = Respond(message, new, found, saved).status
    BY <2>1, HandleResponds
  <2> QED
    BY <2>1, <2>2, RespondAuthorised
<1> QED
  BY <1>1, AlwaysServer, PTL DEF Spec, ChangesAreAuthorised

-----------------------------------------------------------------------------
(* Parts of names.                                                         *)

\* Names are sequences of characters.
LEMMA NamesAreSequences ==
    ASSUME NEW n \in Names
    PROVE  n \in Seq(Char) /\ Len(n) <= MaxLength
<1>1. PICK m \in 0 .. MaxLength : n \in [1 .. m -> Char]
  BY DEF Names, BoundedSeq, SeqOf
<1>2. m \in Nat /\ m <= MaxLength
  BY LengthAssumption
<1>3. n \in Seq(Char)
  BY <1>1, <1>2, SeqDef
<1> QED
  BY <1>1, <1>2, <1>3, LenProperties

LEMMA PartsAreSequences ==
    /\ Space \in Seq(Char) /\ Len(Space) = 1 /\ Space[1] = " "
    /\ Dots \in Seq(Char) /\ Len(Dots) = 2 /\ Dots[1] = "." /\ Dots[2] = "."
    /\ Slash \in Seq(Char) /\ Len(Slash) = 1 /\ Slash[1] = "/"
    /\ Percent20 \in Seq(Char) /\ Len(Percent20) = 3
    /\ Percent20[1] = "%" /\ Percent20[2] = "2" /\ Percent20[3] = "0"
BY DEF Space, Dots, Slash, Percent20, Char

LEMMA PartsTyped ==
    Space \in Seq(Char) /\ Dots \in Seq(Char) /\ Slash \in Seq(Char) /\ Percent20 \in Seq(Char)
BY PartsAreSequences

LEMMA PartLengths == Len(Space) = 1 /\ Len(Dots) = 2 /\ Len(Slash) = 1 /\ Len(Percent20) = 3
BY PartsAreSequences

LEMMA SmallIntervals == 1 .. 1 = {1} /\ 1 .. 2 = {1, 2} /\ 1 .. 3 = {1, 2, 3}
OBVIOUS

\* A part is where its characters are.
LEMMA PlaceOfPart ==
    ASSUME NEW part \in Seq(Char), NEW t \in Seq(Char), NEW i
    PROVE  i \in Places(part, t) <=> /\ i \in 1 .. Len(t) + 1 - Len(part)
                                     /\ \A j \in 1 .. Len(part) : t[i + j - 1] = part[j]
<1> DEFINE m == Len(part)
           n == Len(t)
<1>1. m \in Nat /\ n \in Nat /\ \A k \in 1 .. n : t[k] \in Char
  BY LenProperties, ElementOfSeq
<1>2. SUFFICES ASSUME i \in 1 .. n + 1 - m
               PROVE  SubSeq(t, i, i + m - 1) = part <=> \A j \in 1 .. m : t[i + j - 1] = part[j]
  BY DEF Places
<1> DEFINE s == SubSeq(t, i, i + m - 1)
<1>3. /\ i \in Int /\ i + m - 1 \in Int
      /\ \A k \in i .. i + m - 1 : t[k] \in Char
      /\ (i + m - 1) - i + 1 = m
      /\ m = IF i <= i + m - 1 THEN m ELSE 0
  <2>1. i \in Int /\ i >= 1 /\ i + m - 1 <= n /\ i + m - 1 \in Int /\ (i + m - 1) - i + 1 = m
    <3>1. \A x, y \in Nat : \A k \in 1 .. y + 1 - x :
            k \in Int /\ k >= 1 /\ k + x - 1 <= y /\ k + x - 1 \in Int /\ (k + x - 1) - k + 1 = x
      OBVIOUS
    <3> HIDE DEF m, n
    <3> QED
      BY <1>1, <1>2, <3>1
  <2>2. \A k \in i .. i + m - 1 : k \in 1 .. n
    BY <1>1, <2>1
  <2>3. m = IF i <= i + m - 1 THEN m ELSE 0
    BY <1>1, <2>1
  <2> QED
    BY <1>1, <2>1, <2>2, <2>3
<1>4. s \in Seq(Char) /\ Len(s) = m /\ \A j \in 1 .. m : s[j] = t[i + j - 1]
  BY <1>3, SubSeqProperties, SMTT(30)
<1> HIDE DEF s
<1>5. (\A j \in 1 .. m : s[j] = part[j]) => s = part
  BY <1>4, SeqEqual
<1>6. s = part <=> \A j \in 1 .. m : t[i + j - 1] = part[j]
  BY <1>4, <1>5
<1> QED
  BY <1>6 DEF s

LEMMA PlaceOfSpace ==
    ASSUME NEW t \in Seq(Char), NEW i
    PROVE  i \in Places(Space, t) <=> i \in 1 .. Len(t) /\ t[i] = " "
<1>1. Len(t) \in Nat
  BY LenProperties
<1>2. i \in Places(Space, t) <=> /\ i \in 1 .. Len(t) + 1 - Len(Space)
                                 /\ \A j \in 1 .. Len(Space) : t[i + j - 1] = Space[j]
  BY PlaceOfPart, PartsTyped
<1>3. Len(t) + 1 - Len(Space) = Len(t)
  BY <1>1, PartLengths
<1>4. 1 .. Len(Space) = {1}
  BY PartsAreSequences, SmallIntervals
<1>5. ASSUME i \in 1 .. Len(t)
      PROVE  (\A j \in {1} : t[i + j - 1] = Space[j]) <=> t[i] = " "
  <2>1. i + 1 - 1 = i
    BY <1>1, <1>5
  <2> QED
    BY <2>1, PartsAreSequences
<1>6. i \in Places(Space, t) <=> i \in 1 .. Len(t) /\ \A j \in {1} : t[i + j - 1] = Space[j]
  <2>1. i \in 1 .. Len(t) + 1 - Len(Space) <=> i \in 1 .. Len(t)
    BY <1>3
  <2>2. (\A j \in 1 .. Len(Space) : t[i + j - 1] = Space[j])
          <=> \A j \in {1} : t[i + j - 1] = Space[j]
    BY <1>4
  <2> QED
    BY <1>2, <2>1, <2>2
<1> QED
  BY <1>5, <1>6

LEMMA PlaceOfDots ==
    ASSUME NEW t \in Seq(Char), NEW i
    PROVE  i \in Places(Dots, t) <=> i \in 1 .. Len(t) - 1 /\ t[i] = "." /\ t[i + 1] = "."
<1>1. Len(t) \in Nat
  BY LenProperties
<1>2. i \in Places(Dots, t) <=> /\ i \in 1 .. Len(t) + 1 - Len(Dots)
                                /\ \A j \in 1 .. Len(Dots) : t[i + j - 1] = Dots[j]
  BY PlaceOfPart, PartsTyped
<1>3. Len(t) + 1 - Len(Dots) = Len(t) - 1
  BY <1>1, PartLengths
<1>4. 1 .. Len(Dots) = {1, 2}
  BY PartsAreSequences, SmallIntervals
<1>5. ASSUME i \in 1 .. Len(t) - 1
      PROVE  (\A j \in {1, 2} : t[i + j - 1] = Dots[j]) <=> t[i] = "." /\ t[i + 1] = "."
  <2>1. i + 1 - 1 = i /\ i + 2 - 1 = i + 1
    BY <1>1, <1>5
  <2> QED
    BY <2>1, PartsAreSequences
<1>6. i \in Places(Dots, t) <=> i \in 1 .. Len(t) - 1 /\ \A j \in {1, 2} : t[i + j - 1] = Dots[j]
  <2>1. i \in 1 .. Len(t) + 1 - Len(Dots) <=> i \in 1 .. Len(t) - 1
    BY <1>3
  <2>2. (\A j \in 1 .. Len(Dots) : t[i + j - 1] = Dots[j])
          <=> \A j \in {1, 2} : t[i + j - 1] = Dots[j]
    BY <1>4
  <2> QED
    BY <1>2, <2>1, <2>2
<1> QED
  BY <1>5, <1>6

LEMMA PlaceOfPercent20 ==
    ASSUME NEW t \in Seq(Char), NEW i
    PROVE  i \in Places(Percent20, t)
             <=> i \in 1 .. Len(t) - 2 /\ t[i] = "%" /\ t[i + 1] = "2" /\ t[i + 2] = "0"
<1>1. Len(t) \in Nat
  BY LenProperties
<1>2. i \in Places(Percent20, t) <=> /\ i \in 1 .. Len(t) + 1 - Len(Percent20)
                                     /\ \A j \in 1 .. Len(Percent20) : t[i + j - 1] = Percent20[j]
  BY PlaceOfPart, PartsTyped
<1>3. Len(t) + 1 - Len(Percent20) = Len(t) - 2
  BY <1>1, PartLengths
<1>4. 1 .. Len(Percent20) = {1, 2, 3}
  BY PartsAreSequences, SmallIntervals
<1>5. ASSUME i \in 1 .. Len(t) - 2
      PROVE  (\A j \in {1, 2, 3} : t[i + j - 1] = Percent20[j])
               <=> t[i] = "%" /\ t[i + 1] = "2" /\ t[i + 2] = "0"
  <2>1. i + 1 - 1 = i /\ i + 2 - 1 = i + 1 /\ i + 3 - 1 = i + 2
    BY <1>1, <1>5
  <2> QED
    BY <2>1, PartsAreSequences
<1>6. i \in Places(Percent20, t) <=> /\ i \in 1 .. Len(t) - 2
                                     /\ \A j \in {1, 2, 3} : t[i + j - 1] = Percent20[j]
  <2>1. i \in 1 .. Len(t) + 1 - Len(Percent20) <=> i \in 1 .. Len(t) - 2
    BY <1>3
  <2>2. (\A j \in 1 .. Len(Percent20) : t[i + j - 1] = Percent20[j])
          <=> \A j \in {1, 2, 3} : t[i + j - 1] = Percent20[j]
    BY <1>4
  <2> QED
    BY <1>2, <2>1, <2>2
<1> QED
  BY <1>5, <1>6

\* u is t with r in place of s, at i.
HasReplaced(u, i, r, s, t) ==
    /\ u \in Seq(Char) /\ Len(u) = Len(t) - Len(s) + Len(r)
    /\ \A j \in 1 .. i - 1 : u[j] = t[j]
    /\ \A j \in 1 .. Len(r) : u[i - 1 + j] = r[j]
    /\ \A j \in i + Len(s) .. Len(t) : u[j - Len(s) + Len(r)] = t[j]

LEMMA Replacement ==
    ASSUME NEW r \in Seq(Char), NEW s \in Seq(Char), NEW t \in Seq(Char),
           NEW i \in 1 .. Len(t) + 1 - Len(s)
    PROVE  HasReplaced(ReplaceSubSeqAt(i, r, s, t), i, r, s, t)
<1> DEFINE u == ReplaceSubSeqAt(i, r, s, t)
<1> DEFINE prefix == SubSeq(t, 1, i - 1)
           suffix == SubSeq(t, i + Len(s), Len(t))
<1>1. /\ Len(r) \in Nat /\ Len(s) \in Nat /\ Len(t) \in Nat
      /\ \A k \in 1 .. Len(t) : t[k] \in Char
  BY LenProperties, ElementOfSeq
<1>2. /\ i \in Int /\ i - 1 \in Int /\ i + Len(s) \in Int /\ 1 \in Int
      /\ \A k \in 1 .. i - 1 : t[k] \in Char
      /\ \A k \in i + Len(s) .. Len(t) : t[k] \in Char
      /\ (i - 1) - 1 + 1 = i - 1
  BY <1>1
<1>3. /\ prefix \in Seq(Char) /\ Len(prefix) = i - 1
      /\ \A j \in 1 .. i - 1 : prefix[j] = t[j]
  <2>1. /\ prefix \in Seq(Char) /\ Len(prefix) = (IF 1 <= i - 1 THEN (i - 1) - 1 + 1 ELSE 0)
        /\ \A j \in 1 .. (i - 1) - 1 + 1 : prefix[j] = t[1 + j - 1]
    BY <1>2, SubSeqProperties
  <2> HIDE DEF prefix
  <2> QED
    BY <2>1, <1>1
<1>4. /\ suffix \in Seq(Char) /\ Len(suffix) = Len(t) - Len(s) - (i - 1)
      /\ \A j \in 1 .. Len(suffix) : suffix[j] = t[i - 1 + Len(s) + j]
  <2>1. /\ suffix \in Seq(Char)
        /\ Len(suffix) = (IF i + Len(s) <= Len(t) THEN Len(t) - (i + Len(s)) + 1 ELSE 0)
        /\ \A j \in 1 .. Len(t) - (i + Len(s)) + 1 : suffix[j] = t[i + Len(s) + j - 1]
    BY <1>1, <1>2, SubSeqProperties
  <2> HIDE DEF suffix
  <2>2. Len(suffix) = Len(t) - Len(s) - (i - 1)
    BY <2>1, <1>1
  <2>3. ASSUME NEW j \in 1 .. Len(suffix)
        PROVE  suffix[j] = t[i - 1 + Len(s) + j]
    <3>1. j \in 1 .. Len(t) - (i + Len(s)) + 1 /\ i + Len(s) + j - 1 = i - 1 + Len(s) + j
      BY <2>2, <1>1
    <3> QED
      BY <3>1, <2>1
  <2> QED
    BY <2>1, <2>2, <2>3
<1>5. u = (prefix \o r) \o suffix
  BY DEF ReplaceSubSeqAt
<1> HIDE DEF prefix, suffix, u
<1> DEFINE front == prefix \o r
<1>6. /\ front \in Seq(Char) /\ Len(front) = i - 1 + Len(r)
      /\ \A j \in 1 .. i - 1 + Len(r) : front[j] = IF j <= i - 1 THEN prefix[j] ELSE r[j - (i - 1)]
  <2>1. /\ front \in Seq(Char) /\ Len(front) = Len(prefix) + Len(r)
        /\ \A j \in 1 .. Len(prefix) + Len(r) :
              front[j] = IF j <= Len(prefix) THEN prefix[j] ELSE r[j - Len(prefix)]
    BY <1>3, ConcatProperties
  <2> HIDE DEF front
  <2> QED
    BY <2>1, <1>3
<1>7. u = front \o suffix
  BY <1>5
<1> HIDE DEF front
<1>8. /\ u \in Seq(Char) /\ Len(u) = i - 1 + Len(r) + Len(suffix)
      /\ \A j \in 1 .. i - 1 + Len(r) + Len(suffix) :
            u[j] = IF j <= i - 1 + Len(r) THEN front[j] ELSE suffix[j - (i - 1 + Len(r))]
  <2> DEFINE v == front \o suffix
  <2>1. /\ v \in Seq(Char) /\ Len(v) = Len(front) + Len(suffix)
        /\ \A j \in 1 .. Len(front) + Len(suffix) :
              v[j] = IF j <= Len(front) THEN front[j] ELSE suffix[j - Len(front)]
    BY <1>4, <1>6, ConcatProperties
  <2>2. u = v
    BY <1>7
  <2> HIDE DEF v
  <2> QED
    BY <2>1, <2>2, <1>6
<1>9. Len(u) = Len(t) - Len(s) + Len(r)
  BY <1>1, <1>4, <1>8
<1>10. ASSUME NEW j \in 1 .. i - 1
       PROVE  u[j] = t[j]
  <2>1. /\ j \in 1 .. i - 1 + Len(r) + Len(suffix) /\ j <= i - 1 + Len(r)
        /\ j \in 1 .. i - 1 + Len(r) /\ j <= i - 1
    BY <1>1, <1>4
  <2> QED
    BY <2>1, <1>3, <1>6, <1>8
<1>11. ASSUME NEW j \in 1 .. Len(r)
       PROVE  u[i - 1 + j] = r[j]
  <2>1. /\ i - 1 + j \in 1 .. i - 1 + Len(r)
        /\ i - 1 + j \in 1 .. i - 1 + Len(r) + Len(suffix)
        /\ ~(i - 1 + j <= i - 1) /\ (i - 1 + j) - (i - 1) = j
    BY <1>1, <1>4
  <2> QED
    BY <2>1, <1>6, <1>8
<1>12. ASSUME NEW j \in i + Len(s) .. Len(t)
       PROVE  u[j - Len(s) + Len(r)] = t[j]
  <2> DEFINE k == j - Len(s) + Len(r)
             q == k - (i - 1 + Len(r))
  <2>1. /\ k \in 1 .. i - 1 + Len(r) + Len(suffix) /\ ~(k <= i - 1 + Len(r))
        /\ q \in 1 .. Len(suffix) /\ i - 1 + Len(s) + q = j
    BY <1>1, <1>4
  <2> HIDE DEF k, q
  <2>2. u[k] = suffix[k - (i - 1 + Len(r))]
    BY <2>1, <1>8
  <2>3. suffix[q] = t[j]
    BY <2>1, <1>4
  <2> QED
    BY <2>2, <2>3 DEF k, q
<1> QED
  BY <1>8, <1>9, <1>10, <1>11, <1>12 DEF HasReplaced, u

\* u is t with the space at i escaped.
OneEscaped(u, i, t) ==
    /\ u \in Seq(Char) /\ Len(u) = Len(t) + 2
    /\ \A j \in 1 .. i - 1 : u[j] = t[j]
    /\ u[i] = "%" /\ u[i + 1] = "2" /\ u[i + 2] = "0"
    /\ \A j \in i + 1 .. Len(t) : u[j + 2] = t[j]

LEMMA EscapeOne ==
    ASSUME NEW t \in Seq(Char), NEW i \in Places(Space, t)
    PROVE  OneEscaped(ReplaceSubSeqAt(i, Percent20, Space, t), i, t)
<1> DEFINE u == ReplaceSubSeqAt(i, Percent20, Space, t)
<1>1. i \in 1 .. Len(t) + 1 - 1 /\ Len(t) \in Nat
  <2>1. Len(t) \in Nat /\ i \in 1 .. Len(t)
    BY PlaceOfSpace, LenProperties
  <2> QED
    BY <2>1
<1>2. /\ u \in Seq(Char) /\ Len(u) = Len(t) - 1 + 3
      /\ \A j \in 1 .. i - 1 : u[j] = t[j]
      /\ \A j \in 1 .. 3 : u[i - 1 + j] = Percent20[j]
      /\ \A j \in i + 1 .. Len(t) : u[j - 1 + 3] = t[j]
  <2>1. i \in 1 .. Len(t) + 1 - Len(Space)
    BY <1>1, PartLengths
  <2>2. Space \in Seq(Char) /\ Percent20 \in Seq(Char)
    BY PartsAreSequences
  <2>3. HasReplaced(u, i, Percent20, Space, t)
    BY <2>2, <2>1, Replacement
  <2> QED
    BY <2>3, PartLengths DEF HasReplaced
<1> HIDE DEF u
<1>3. /\ i - 1 + 1 = i /\ i - 1 + 2 = i + 1 /\ i - 1 + 3 = i + 2
      /\ 1 \in 1 .. 3 /\ 2 \in 1 .. 3 /\ 3 \in 1 .. 3
      /\ Len(t) - 1 + 3 = Len(t) + 2
      /\ \A j \in i + 1 .. Len(t) : j - 1 + 3 = j + 2
  BY <1>1
<1>4. u[i] = "%" /\ u[i + 1] = "2" /\ u[i + 2] = "0"
  BY <1>2, <1>3, PartsAreSequences
<1>5. \A j \in i + 1 .. Len(t) : u[j + 2] = t[j]
  BY <1>2, <1>3
<1> QED
  BY <1>2, <1>3, <1>4, <1>5 DEF OneEscaped, u

\* u is t with a space in place of the Percent20 at i.
OneUnescaped(u, i, t) ==
    /\ u \in Seq(Char) /\ Len(u) = Len(t) - 2
    /\ \A j \in 1 .. i - 1 : u[j] = t[j]
    /\ u[i] = " "
    /\ \A j \in i + 3 .. Len(t) : u[j - 2] = t[j]

LEMMA UnescapeOne ==
    ASSUME NEW t \in Seq(Char), NEW i \in Places(Percent20, t)
    PROVE  OneUnescaped(ReplaceSubSeqAt(i, Space, Percent20, t), i, t)
<1> DEFINE u == ReplaceSubSeqAt(i, Space, Percent20, t)
<1>1. i \in 1 .. Len(t) + 1 - 3 /\ Len(t) \in Nat
  BY PlaceOfPercent20, LenProperties
<1>2. /\ u \in Seq(Char) /\ Len(u) = Len(t) - 3 + 1
      /\ \A j \in 1 .. i - 1 : u[j] = t[j]
      /\ \A j \in 1 .. 1 : u[i - 1 + j] = Space[j]
      /\ \A j \in i + 3 .. Len(t) : u[j - 3 + 1] = t[j]
  <2>1. i \in 1 .. Len(t) + 1 - Len(Percent20)
    BY <1>1, PartLengths
  <2>2. Space \in Seq(Char) /\ Percent20 \in Seq(Char)
    BY PartsAreSequences
  <2>3. HasReplaced(u, i, Space, Percent20, t)
    BY <2>2, <2>1, Replacement
  <2> QED
    BY <2>3, PartLengths DEF HasReplaced
<1> HIDE DEF u
<1>3. /\ i - 1 + 1 = i /\ 1 \in 1 .. 1 /\ Len(t) - 3 + 1 = Len(t) - 2
      /\ \A j \in i + 3 .. Len(t) : j - 3 + 1 = j - 2
  BY <1>1
<1>4. u[i] = " " /\ \A j \in i + 3 .. Len(t) : u[j - 2] = t[j]
  BY <1>2, <1>3, PartsAreSequences
<1> QED
  BY <1>2, <1>3, <1>4 DEF OneUnescaped, u

-----------------------------------------------------------------------------
(* Escapes, as texts.                                                      *)

(***************************************************************************)
(* How a text n is escaped in a text t: the character i of n ends at e[i]  *)
(* in t, where it is itself, or a space that is the three of Percent20.    *)
(***************************************************************************)
Plain(e, n, t, i) ==
    /\ e[i] = e[i - 1] + 1
    /\ t[e[i]] = n[i]

Escaped(e, n, t, i) ==
    /\ e[i] = e[i - 1] + 3
    /\ n[i] = " "
    /\ t[e[i - 1] + 1] = "%" /\ t[e[i - 1] + 2] = "2" /\ t[e[i - 1] + 3] = "0"

\* Characters take one place or three.
Spread(e, n) ==
    \A i, j \in 0 .. Len(n) : i <= j => j - i <= e[j] - e[i] /\ e[j] - e[i] <= 3 * (j - i)

\* More places than characters come from an escaped one.
Reason(e, n, t) ==
    \A i, j \in 0 .. Len(n) :
        (i <= j /\ e[j] - e[i] > j - i) => \E k \in i + 1 .. j : Escaped(e, n, t, k)

\* Every place of t belongs to a character of n.
Owned(e, n, t) == \A k \in 1 .. Len(t) : \E i \in 1 .. Len(n) : e[i - 1] < k /\ k <= e[i]

\* e tells how the characters of n stand in t, one after the other.
Escapes(e, n, t) ==
    /\ e \in [0 .. Len(n) -> Nat] /\ e[0] = 0 /\ e[Len(n)] = Len(t)
    /\ \A i \in 1 .. Len(n) : Plain(e, n, t, i) \/ Escaped(e, n, t, i)
    /\ Spread(e, n) /\ Reason(e, n, t) /\ Owned(e, n, t)

\* t is n, some spaces of it escaped.
IsEscape(n, t) == \E e \in [0 .. Len(n) -> Nat] : Escapes(e, n, t)

\* A name is its own escape.
LEMMA NameIsEscape ==
    ASSUME NEW n \in Seq(Char)
    PROVE  IsEscape(n, n)
<1> DEFINE e == [i \in 0 .. Len(n) |-> i]
<1>1. Len(n) \in Nat
  BY LenProperties
<1>2. e \in [0 .. Len(n) -> Nat] /\ \A i \in 0 .. Len(n) : e[i] = i
  BY <1>1
<1> HIDE DEF e
<1>3. \A i \in 1 .. Len(n) : Plain(e, n, n, i)
  BY <1>1, <1>2 DEF Plain
<1>4. Spread(e, n) /\ Reason(e, n, n)
  BY <1>1, <1>2 DEF Spread, Reason
<1>5. Owned(e, n, n)
  BY <1>1, <1>2 DEF Owned
<1>6. e[0] = 0 /\ e[Len(n)] = Len(n)
  BY <1>1, <1>2
<1> QED
  BY <1>2, <1>3, <1>4, <1>5, <1>6 DEF IsEscape, Escapes

\* An escape without a Percent20 is the name.
LEMMA EscapeWithoutPercent20 ==
    ASSUME NEW n \in Seq(Char), NEW t \in Seq(Char), IsEscape(n, t), ~Occurs(Percent20, t)
    PROVE  t = n
<1>1. PICK e \in [0 .. Len(n) -> Nat] : Escapes(e, n, t)
  BY DEF IsEscape
<1>2. Len(n) \in Nat /\ Len(t) \in Nat
  BY LenProperties
<1>3. ASSUME NEW i \in 1 .. Len(n), Escaped(e, n, t, i)
      PROVE  FALSE
  <2>1. i \in 0 .. Len(n) /\ i - 1 \in 0 .. Len(n) /\ Len(n) \in 0 .. Len(n)
    BY <1>2
  <2>2. e[i - 1] \in Nat /\ e[i] \in Nat /\ e[Len(n)] = Len(t)
    BY <1>1, <2>1 DEF Escapes
  <2>3. i <= Len(n) /\ Len(n) - i <= e[Len(n)] - e[i]
    BY <1>1, <1>2, <2>1 DEF Escapes, Spread
  <2>4. e[i] = e[i - 1] + 3
    BY <1>3 DEF Escaped
  <2>5. \A a, b \in Nat : (b - i <= Len(t) - a /\ b >= i) => a <= Len(t)
    BY <1>2
  <2>6. e[i] <= Len(t)
    BY <1>2, <2>2, <2>3, <2>5
  <2>7. e[i - 1] + 1 \in 1 .. Len(t) - 2
    BY <1>2, <2>2, <2>4, <2>6
  <2>8. (e[i - 1] + 1) + 1 = e[i - 1] + 2 /\ (e[i - 1] + 1) + 2 = e[i - 1] + 3
    BY <2>2
  <2>9. e[i - 1] + 1 \in Places(Percent20, t)
    <3>1. t[e[i - 1] + 1] = "%" /\ t[e[i - 1] + 2] = "2" /\ t[e[i - 1] + 3] = "0"
      BY <1>3 DEF Escaped
    <3>2. t[(e[i - 1] + 1) + 1] = "2" /\ t[(e[i - 1] + 1) + 2] = "0"
      BY <2>8, <3>1
    <3> QED
      BY <2>7, <3>1, <3>2, PlaceOfPercent20
  <2> QED
    BY <2>9 DEF Occurs
<1>4. ASSUME NEW j \in 0 .. Len(n)
      PROVE  e[j] = j
  <2>1. 0 \in 0 .. Len(n) /\ 0 <= j /\ e[0] = 0 /\ e[j] \in Nat
    BY <1>1, <1>2 DEF Escapes
  <2>2. j <= e[j]
    BY <1>1, <2>1 DEF Escapes, Spread
  <2>3. ASSUME e[j] > j PROVE FALSE
    <3>1. \E k \in 0 + 1 .. j : Escaped(e, n, t, k)
      BY <1>1, <2>1, <2>3 DEF Escapes, Reason
    <3> QED
      BY <3>1, <1>2, <1>3
  <2> QED
    BY <2>1, <2>2, <2>3
<1>5. Len(t) = Len(n)
  BY <1>1, <1>2, <1>4 DEF Escapes
<1>6. ASSUME NEW i \in 1 .. Len(n)
      PROVE  t[i] = n[i]
  <2>1. Plain(e, n, t, i)
    BY <1>1, <1>3 DEF Escapes
  <2>2. e[i] = i
    BY <1>2, <1>4
  <2> QED
    BY <2>1, <2>2 DEF Plain
<1> QED
  BY <1>5, <1>6, SeqEqual


\* Where the character a gets d places more or less, the later ones move by d.
Shift(e, n, a, d) == [j \in 0 .. Len(n) |-> IF j < a THEN e[j] ELSE e[j] + d]

\* In u the characters before a are where they are in t, those after it d
\* places further, and a itself is no longer, or only now, escaped.
Moved(e, n, t, u, a, d) ==
    /\ Len(u) = Len(t) + d
    /\ \A k \in 1 .. e[a - 1] : u[k] = t[k]
    /\ \A k \in e[a] + 1 .. Len(t) : u[k + d] = t[k]
    /\ d = 2 => Plain(e, n, t, a) /\ Escaped(Shift(e, n, a, d), n, u, a)
    /\ d # 2 => Escaped(e, n, t, a) /\ Plain(Shift(e, n, a, d), n, u, a)

LEMMA SpreadIsMonotone ==
    ASSUME NEW n \in Seq(Char), NEW e \in [0 .. Len(n) -> Nat], Spread(e, n),
           NEW i \in 0 .. Len(n), NEW j \in 0 .. Len(n), i <= j
    PROVE  e[i] <= e[j]
<1>1. j - i <= e[j] - e[i]
  BY DEF Spread
<1>2. e[i] \in Nat /\ e[j] \in Nat /\ Len(n) \in Nat
  BY LenProperties
<1>3. \A x, y \in Nat : j - i <= y - x => x <= y
  BY <1>2
<1> QED
  BY <1>1, <1>2, <1>3

\* Two stretches and what is between them.
LEMMA StretchesAddUp ==
    ASSUME NEW i \in Nat, NEW j \in Nat, NEW a \in Nat,
           NEW x \in Nat, NEW p \in Nat, NEW q \in Nat, NEW y \in Nat, NEW d \in {2, -2},
           IF d = 2 THEN q = p + 1 ELSE q = p + 3,
           a - 1 - i <= p - x /\ p - x <= 3 * (a - 1 - i),
           j - a <= y - q /\ y - q <= 3 * (j - a)
    PROVE  /\ j - i <= (y + d) - x /\ (y + d) - x <= 3 * (j - i)
           /\ (d = -2 /\ (y + d) - x > j - i) => p - x > a - 1 - i \/ y - q > j - a
OBVIOUS

LEMMA ShiftIsEscape ==
    ASSUME NEW n \in Seq(Char), NEW t \in Seq(Char), NEW u \in Seq(Char),
           NEW e \in [0 .. Len(n) -> Nat], Escapes(e, n, t),
           NEW a \in 1 .. Len(n), NEW d \in {2, -2}, Moved(e, n, t, u, a, d)
    PROVE  IsEscape(n, u)
<1> DEFINE N == Len(n)
           f == Shift(e, n, a, d)
<1>1. N \in Nat /\ Len(t) \in Nat /\ Len(u) \in Nat /\ d \in Int
  BY LenProperties
<1>2. /\ a \in 1 .. N /\ a \in Nat
      /\ a \in 0 .. N /\ a - 1 \in 0 .. N /\ 0 \in 0 .. N /\ N \in 0 .. N
      /\ \A j \in 0 .. N : e[j] \in Nat
      /\ e[0] = 0 /\ e[N] = Len(t)
  <2>1. /\ a \in 1 .. N /\ a \in Nat
        /\ a \in 0 .. N /\ a - 1 \in 0 .. N /\ 0 \in 0 .. N /\ N \in 0 .. N
    BY <1>1
  <2>2. \A j \in 0 .. N : e[j] \in Nat
    OBVIOUS
  <2>3. e[0] = 0 /\ e[N] = Len(t)
    BY DEF Escapes
  <2> QED
    BY <2>1, <2>2, <2>3
<1>3. \A j \in 0 .. N : f[j] = IF j < a THEN e[j] ELSE e[j] + d
  BY DEF Shift
<1>4. IF d = 2 THEN e[a] = e[a - 1] + 1 ELSE e[a] = e[a - 1] + 3
  BY DEF Moved, Plain, Escaped
<1> HIDE DEF f, N
<1>5. ASSUME NEW i \in 0 .. N, NEW j \in 0 .. N, i <= j
      PROVE  j - i <= e[j] - e[i] /\ e[j] - e[i] <= 3 * (j - i)
  BY <1>5 DEF Escapes, Spread, N
<1>6. \A j \in 0 .. N : j < a => j <= a - 1
  BY <1>1
<1>7. \A i, j \in 0 .. N : i <= j => e[i] <= e[j]
  BY SpreadIsMonotone DEF N, Escapes
<1>8. \A j \in 0 .. N : j < a => e[j] <= e[a - 1]
  BY <1>2, <1>6, <1>7
<1>9. \A j \in 0 .. N : ~(j < a) => a <= j /\ e[a] <= e[j]
  BY <1>1, <1>2, <1>7
<1>10. \A j \in 0 .. N : e[j] <= Len(t)
  BY <1>1, <1>2, <1>7
<1>11. f \in [0 .. N -> Nat] /\ f[0] = 0 /\ f[N] = Len(u)
  <2>1. ASSUME NEW j \in 0 .. N
        PROVE  f[j] \in Nat
    <3>1. CASE j < a
      BY <1>2, <1>3, <3>1
    <3>2. CASE ~(j < a)
      <4>1. f[j] = e[j] + d /\ e[a] <= e[j] /\ e[j] \in Nat /\ e[a] \in Nat /\ e[a - 1] \in Nat
        BY <1>2, <1>3, <1>9, <3>2
      <4>2. \A x, y, z \in Nat :
              (y <= x /\ IF d = 2 THEN y = z + 1 ELSE y = z + 3) => x + d \in Nat
        BY <1>1
      <4> QED
        BY <4>1, <4>2, <1>4
    <3> QED
      BY <3>1, <3>2
  <2>2. f = [j \in 0 .. N |-> f[j]]
    BY DEF f, N, Shift
  <2>3. f[0] = 0 /\ f[N] = Len(u)
    <3>1. 0 < a /\ ~(N < a)
      BY <1>1, <1>2
    <3> QED
      BY <1>2, <1>3, <3>1 DEF Moved
  <2> QED
    BY <2>1, <2>2, <2>3
<1>12. ASSUME NEW j \in 1 .. N, j # a
       PROVE  /\ Plain(e, n, t, j) => Plain(f, n, u, j)
              /\ Escaped(e, n, t, j) => Escaped(f, n, u, j)
  <2>1. j \in 0 .. N /\ j - 1 \in 0 .. N
    BY <1>1
  <2>2. CASE j < a
    <3>1. f[j] = e[j] /\ f[j - 1] = e[j - 1] /\ e[j] <= e[a - 1]
      BY <2>1, <2>2, <1>1, <1>3, <1>8
    <3>2. e[j] \in Nat /\ e[j - 1] \in Nat /\ e[a - 1] \in Nat
      BY <1>2, <2>1
    <3>3. ASSUME Plain(e, n, t, j)
          PROVE  Plain(f, n, u, j)
      <4>1. e[j] = e[j - 1] + 1 /\ t[e[j]] = n[j]
        BY <3>3 DEF Plain
      <4>2. e[j] \in 1 .. e[a - 1]
        BY <4>1, <3>1, <3>2
      <4> QED
        BY <4>1, <4>2, <3>1 DEF Plain, Moved
    <3>4. ASSUME Escaped(e, n, t, j)
          PROVE  Escaped(f, n, u, j)
      <4>1. e[j] = e[j - 1] + 3
        BY <3>4 DEF Escaped
      <4>2. /\ e[j - 1] + 1 \in 1 .. e[a - 1]
            /\ e[j - 1] + 2 \in 1 .. e[a - 1]
            /\ e[j - 1] + 3 \in 1 .. e[a - 1]
        <5>1. \A x, y, z \in Nat : (x = y + 3 /\ x <= z) =>
                y + 1 \in 1 .. z /\ y + 2 \in 1 .. z /\ y + 3 \in 1 .. z
          OBVIOUS
        <5> QED
          BY <4>1, <3>1, <3>2, <5>1
      <4> QED
        BY <4>2, <3>1, <3>4 DEF Escaped, Moved
    <3> QED
      BY <3>3, <3>4
  <2>3. CASE ~(j < a)
    <3>1. f[j] = e[j] + d /\ f[j - 1] = e[j - 1] + d /\ e[j - 1] >= e[a] /\ e[j] <= Len(t)
      BY <2>1, <2>3, <1>1, <1>3, <1>9, <1>10, <1>12
    <3>2. e[j] \in Nat /\ e[j - 1] \in Nat /\ e[a] \in Nat
      BY <1>2, <2>1
    <3>3. ASSUME Plain(e, n, t, j)
          PROVE  Plain(f, n, u, j)
      <4>1. e[j] = e[j - 1] + 1 /\ t[e[j]] = n[j]
        BY <3>3 DEF Plain
      <4>2. e[j] \in e[a] + 1 .. Len(t)
        BY <4>1, <3>1, <3>2, <1>1
      <4>3. u[e[j] + d] = t[e[j]]
        BY <4>2 DEF Moved
      <4>4. f[j] = f[j - 1] + 1
        BY <4>1, <3>1, <3>2, <1>1
      <4> QED
        BY <4>1, <4>3, <4>4, <3>1 DEF Plain
    <3>4. ASSUME Escaped(e, n, t, j)
          PROVE  Escaped(f, n, u, j)
      <4>1. e[j] = e[j - 1] + 3
        BY <3>4 DEF Escaped
      <4>2. /\ e[j - 1] + 1 \in e[a] + 1 .. Len(t)
            /\ e[j - 1] + 2 \in e[a] + 1 .. Len(t)
            /\ e[j - 1] + 3 \in e[a] + 1 .. Len(t)
        <5>1. \A x, y, z, l \in Nat :
                (x = y + 3 /\ y >= z /\ x <= l)
                  => y + 1 \in z + 1 .. l /\ y + 2 \in z + 1 .. l /\ y + 3 \in z + 1 .. l
          OBVIOUS
        <5> QED
          BY <5>1, <4>1, <3>1, <3>2, <1>1
      <4>3. /\ u[(e[j - 1] + 1) + d] = t[e[j - 1] + 1]
            /\ u[(e[j - 1] + 2) + d] = t[e[j - 1] + 2]
            /\ u[(e[j - 1] + 3) + d] = t[e[j - 1] + 3]
        BY <4>2 DEF Moved
      <4>4. /\ (e[j - 1] + 1) + d = f[j - 1] + 1
            /\ (e[j - 1] + 2) + d = f[j - 1] + 2
            /\ (e[j - 1] + 3) + d = f[j - 1] + 3
            /\ f[j] = f[j - 1] + 3
        <5>1. \A x, y \in Nat :
                /\ (y + 1) + d = (y + d) + 1 /\ (y + 2) + d = (y + d) + 2
                /\ (y + 3) + d = (y + d) + 3
                /\ x = y + 3 => x + d = (y + d) + 3
          BY <1>1
        <5> QED
          BY <5>1, <4>1, <3>1, <3>2
      <4> QED
        BY <4>3, <4>4, <3>4 DEF Escaped
    <3> QED
      BY <3>3, <3>4
  <2> QED
    BY <2>2, <2>3
<1>13. \A j \in 1 .. N : Plain(f, n, u, j) \/ Escaped(f, n, u, j)
  BY <1>12 DEF Escapes, Moved, f, N
<1>14. ASSUME NEW i \in 0 .. N, NEW j \in 0 .. N, i <= j, j < a \/ ~(i < a)
       PROVE  f[j] - f[i] = e[j] - e[i]
  <2>1. e[i] \in Nat /\ e[j] \in Nat
    BY <1>2
  <2>2. CASE j < a
    <3>1. i < a
      BY <1>1, <1>2, <1>14, <2>2
    <3> QED
      BY <2>2, <3>1, <1>3
  <2>3. CASE ~(i < a)
    <3>1. ~(j < a)
      BY <1>1, <1>2, <1>14, <2>3
    <3>2. f[i] = e[i] + d /\ f[j] = e[j] + d
      BY <1>3, <2>3, <3>1
    <3>3. \A x, y \in Nat : (y + d) - (x + d) = y - x
      BY <1>1
    <3> QED
      BY <2>1, <3>2, <3>3
  <2> QED
    BY <1>14, <2>2, <2>3
<1>15. ASSUME NEW i \in 0 .. N, NEW j \in 0 .. N, i <= j, i < a, ~(j < a)
       PROVE  /\ j - i <= f[j] - f[i] /\ f[j] - f[i] <= 3 * (j - i)
              /\ (d = -2 /\ f[j] - f[i] > j - i) => e[a - 1] - e[i] > a - 1 - i \/ e[j] - e[a] > j - a
  <2>1. e[i] \in Nat /\ e[j] \in Nat /\ e[a] \in Nat /\ e[a - 1] \in Nat
    BY <1>2
  <2>2. f[i] = e[i] /\ f[j] = e[j] + d
    BY <1>3, <1>15
  <2>3. i <= a - 1 /\ a <= j /\ i \in Nat /\ j \in Nat
    BY <1>1, <1>2, <1>15
  <2>4. a - 1 - i <= e[a - 1] - e[i] /\ e[a - 1] - e[i] <= 3 * (a - 1 - i)
    BY <1>2, <1>5, <2>3
  <2>5. j - a <= e[j] - e[a] /\ e[j] - e[a] <= 3 * (j - a)
    BY <1>2, <1>5, <2>3
  <2> DEFINE x == e[i]
             p == e[a - 1]
             q == e[a]
             y == e[j]
  <2>6. /\ x \in Nat /\ p \in Nat /\ q \in Nat /\ y \in Nat
        /\ IF d = 2 THEN q = p + 1 ELSE q = p + 3
        /\ a - 1 - i <= p - x /\ p - x <= 3 * (a - 1 - i)
        /\ j - a <= y - q /\ y - q <= 3 * (j - a)
    BY <1>4, <2>1, <2>4, <2>5
  <2> HIDE DEF x, p, q, y
  <2>7. /\ j - i <= (y + d) - x /\ (y + d) - x <= 3 * (j - i)
        /\ (d = -2 /\ (y + d) - x > j - i) => p - x > a - 1 - i \/ y - q > j - a
    BY <1>2, <2>3, <2>6, StretchesAddUp
  <2> QED
    BY <2>2, <2>7 DEF x, p, q, y
<1>16. Spread(f, n)
  <2> SUFFICES ASSUME NEW i \in 0 .. N, NEW j \in 0 .. N, i <= j
               PROVE  j - i <= f[j] - f[i] /\ f[j] - f[i] <= 3 * (j - i)
    BY DEF Spread, N
  <2>1. CASE j < a \/ ~(i < a)
    BY <1>5, <1>14, <2>1
  <2>2. CASE i < a /\ ~(j < a)
    BY <1>15, <2>2
  <2> QED
    BY <2>1, <2>2
<1>17. Reason(f, n, u)
  <2> SUFFICES ASSUME NEW i \in 0 .. N, NEW j \in 0 .. N, i <= j, f[j] - f[i] > j - i
               PROVE  \E k \in i + 1 .. j : Escaped(f, n, u, k)
    BY DEF Reason, N
  <2>1. ASSUME NEW x \in 0 .. N, NEW y \in 0 .. N, i <= x, x <= y, y <= j,
               e[y] - e[x] > y - x, a \notin x + 1 .. y
        PROVE  \E k \in i + 1 .. j : Escaped(f, n, u, k)
    <3>1. PICK k \in x + 1 .. y : Escaped(e, n, t, k)
      BY <2>1 DEF Escapes, Reason, N
    <3>2. k \in 1 .. N /\ k # a /\ k \in i + 1 .. j
      BY <1>1, <2>1, <3>1
    <3> QED
      BY <3>1, <3>2, <1>12
  <2>2. CASE j < a \/ ~(i < a)
    <3>1. f[j] - f[i] = e[j] - e[i]
      BY <1>14, <2>2
    <3>2. a \notin i + 1 .. j /\ i <= i /\ j <= j
      BY <1>1, <2>2
    <3> QED
      BY <3>1, <3>2, <2>1
  <2>3. CASE i < a /\ ~(j < a) /\ d = 2
    <3>1. a \in i + 1 .. j
      BY <1>1, <2>3
    <3> QED
      BY <3>1, <2>3 DEF f, Moved
  <2>4. CASE i < a /\ ~(j < a) /\ d # 2
    <3>1. i <= a - 1 /\ a - 1 <= j /\ i <= a /\ a <= j /\ i <= i /\ j <= j
      BY <1>1, <2>4
    <3>2. e[a - 1] - e[i] > a - 1 - i \/ e[j] - e[a] > j - a
      BY <1>15, <2>4
    <3>3. a \notin i + 1 .. a - 1 /\ a \notin a + 1 .. j
      BY <1>1
    <3> QED
      BY <1>2, <2>1, <3>1, <3>2, <3>3
  <2> QED
    BY <2>2, <2>3, <2>4
<1>18. Owned(f, n, u)
  <2> SUFFICES ASSUME NEW k \in 1 .. Len(u)
               PROVE  \E i \in 1 .. N : f[i - 1] < k /\ k <= f[i]
    BY DEF Owned, N
  <2>1. e[a] \in Nat /\ e[a - 1] \in Nat /\ e[a - 1] <= e[a]
    BY <1>2, <1>4
  <2>2. f[a - 1] = e[a - 1] /\ f[a] = e[a] + d
    BY <1>1, <1>2, <1>3
  <2>3. CASE k <= e[a - 1]
    <3>1. k \in 1 .. Len(t)
      BY <1>1, <1>2, <1>10, <2>1, <2>3
    <3>2. PICK i \in 1 .. N : e[i - 1] < k /\ k <= e[i]
      BY <3>1 DEF Escapes, Owned, N
    <3>3. i \in 0 .. N /\ i - 1 \in 0 .. N
      BY <1>1
    <3>4. e[i] \in Nat /\ e[i - 1] \in Nat
      BY <1>2, <3>3
    <3>5. i < a
      <4>1. ASSUME ~(i < a) PROVE e[a - 1] <= e[i - 1]
        <5>1. a - 1 <= i - 1
          BY <1>1, <4>1
        <5>2. i - 1 - (a - 1) <= e[i - 1] - e[a - 1]
          BY <1>2, <1>5, <3>3, <5>1
        <5> QED
          BY <1>1, <5>1, <5>2, <2>1, <3>4, SMTT(30)
      <4> QED
        BY <4>1, <2>1, <2>3, <3>2, <3>4
    <3>6. f[i] = e[i] /\ f[i - 1] = e[i - 1]
      BY <1>1, <1>3, <3>3, <3>5
    <3> QED
      BY <3>2, <3>6
  <2>4. CASE ~(k <= e[a - 1]) /\ k <= f[a]
    <3>1. f[a - 1] < k
      BY <1>1, <2>1, <2>2, <2>4
    <3> QED
      BY <1>2, <2>4, <3>1
  <2>5. CASE ~(k <= f[a])
    <3> DEFINE q == k - d
    <3>1. q \in 1 .. Len(t) /\ q > e[a]
      <4>1. \A x, l, r \in Nat : (r = l + d /\ k <= r /\ ~(k <= x + d)) => k - d <= l /\ k - d > x
        BY <1>1
      <4>2. Len(u) = Len(t) + d /\ k <= Len(u) /\ ~(k <= e[a] + d)
        BY <1>1, <2>2, <2>5 DEF Moved
      <4>3. q <= Len(t) /\ q > e[a] /\ q \in Int
        BY <1>1, <2>1, <4>1, <4>2
      <4> HIDE DEF q
      <4> QED
        BY <1>1, <2>1, <4>3
    <3> HIDE DEF q
    <3>2. PICK i \in 1 .. N : e[i - 1] < q /\ q <= e[i]
      BY <3>1 DEF Escapes, Owned, N
    <3>3. i \in 0 .. N /\ i - 1 \in 0 .. N
      BY <1>1
    <3>4. e[i] \in Nat /\ e[i - 1] \in Nat
      BY <1>2, <3>3
    <3>5. a <= i - 1
      <4>1. ASSUME ~(a <= i - 1) PROVE e[i] <= e[a]
        <5>1. i <= a
          BY <1>1, <4>1
        <5>2. a - i <= e[a] - e[i]
          BY <1>2, <1>5, <3>3, <5>1
        <5> QED
          BY <1>1, <5>1, <5>2, <2>1, <3>4, SMTT(30)
      <4> QED
        BY <4>1, <2>1, <3>1, <3>2, <3>4
    <3>6. f[i] = e[i] + d /\ f[i - 1] = e[i - 1] + d
      BY <1>1, <1>3, <3>3, <3>5
    <3>7. e[i - 1] + d < k /\ k <= e[i] + d
      <4>1. \A x, y, c \in Nat : (x < c - d /\ c - d <= y) => x + d < c /\ c <= y + d
        BY <1>1
      <4>2. e[i - 1] < k - d /\ k - d <= e[i] /\ k \in Nat
        BY <1>1, <3>2 DEF q
      <4> QED
        BY <3>4, <4>1, <4>2
    <3> QED
      BY <3>6, <3>7
  <2> QED
    BY <2>3, <2>4, <2>5
<1> QED
  BY <1>11, <1>13, <1>16, <1>17, <1>18 DEF IsEscape, Escapes, N

\* The client escapes one more space.
LEMMA EscapeKeeps ==
    ASSUME NEW n \in Seq(Char), NEW t \in Seq(Char), IsEscape(n, t),
           NEW i \in Places(Space, t), NEW u, OneEscaped(u, i, t)
    PROVE  IsEscape(n, u)
<1>1. PICK e \in [0 .. Len(n) -> Nat] : Escapes(e, n, t)
  BY DEF IsEscape
<1>2. i \in 1 .. Len(t) /\ Len(t) \in Nat /\ Len(n) \in Nat
  BY PlaceOfSpace, LenProperties
<1>3. i \in 1 .. Len(t) /\ t[i] = " " /\ Len(t) \in Nat /\ Len(n) \in Nat
  BY <1>2, PlaceOfSpace
<1>4. /\ u \in Seq(Char) /\ Len(u) = Len(t) + 2
      /\ \A j \in 1 .. i - 1 : u[j] = t[j]
      /\ u[i] = "%" /\ u[i + 1] = "2" /\ u[i + 2] = "0"
      /\ \A j \in i + 1 .. Len(t) : u[j + 2] = t[j]
  BY DEF OneEscaped
<1>5. PICK a \in 1 .. Len(n) : e[a - 1] < i /\ i <= e[a]
  BY <1>1, <1>3 DEF Escapes, Owned
<1>6. a \in Nat /\ a \in 0 .. Len(n) /\ a - 1 \in 0 .. Len(n)
  BY LenProperties
<1>7. e[a] \in Nat /\ e[a - 1] \in Nat /\ i \in Nat
  <2>1. i \in Nat
    BY <1>2
  <2> QED
    BY <1>6, <2>1
<1>8. ~Escaped(e, n, t, a)
  <2> SUFFICES ASSUME Escaped(e, n, t, a) PROVE FALSE
    OBVIOUS
  <2>1. e[a] = e[a - 1] + 3
    BY DEF Escaped
  <2>2. i = e[a - 1] + 1 \/ i = e[a - 1] + 2 \/ i = e[a - 1] + 3
    BY <1>5, <1>7, <2>1
  <2> QED
    BY <1>3, <2>2 DEF Escaped
<1>9. Plain(e, n, t, a)
  BY <1>1, <1>8 DEF Escapes
<1>10. e[a] = i /\ e[a - 1] = i - 1
  <2>1. e[a] = e[a - 1] + 1
    BY <1>9 DEF Plain
  <2> QED
    BY <1>5, <1>7, <2>1
<1>11. n[a] = " "
  BY <1>3, <1>9, <1>10 DEF Plain
<1> DEFINE f == Shift(e, n, a, 2)
<1>12. f[a] = e[a] + 2 /\ f[a - 1] = e[a - 1]
  <2>1. ~(a < a) /\ a - 1 < a
    BY <1>6
  <2> QED
    BY <1>6, <2>1 DEF Shift
<1> HIDE DEF f
<1>13. Escaped(f, n, u, a)
  <2>1. f[a] = f[a - 1] + 3 /\ f[a - 1] + 1 = i /\ f[a - 1] + 2 = i + 1 /\ f[a - 1] + 3 = i + 2
    BY <1>7, <1>10, <1>12
  <2> QED
    BY <1>4, <1>11, <2>1 DEF Escaped
<1>14. Moved(e, n, t, u, a, 2)
  BY <1>4, <1>9, <1>10, <1>13 DEF Moved, f
<1> QED
  BY <1>1, <1>4, <1>14, ShiftIsEscape

\* The server takes back an escape, of a name that has no Percent20 itself: the
\* three characters are one space of the name, and no others.
LEMMA UnescapeKeeps ==
    ASSUME NEW n \in Seq(Char), NEW t \in Seq(Char), IsEscape(n, t), ~Occurs(Percent20, n),
           NEW i \in Places(Percent20, t), NEW u, OneUnescaped(u, i, t)
    PROVE  IsEscape(n, u)
<1>1. PICK e \in [0 .. Len(n) -> Nat] : Escapes(e, n, t)
  BY DEF IsEscape
<1>2. /\ i \in 1 .. Len(t) - 2 /\ t[i] = "%" /\ t[i + 1] = "2" /\ t[i + 2] = "0"
      /\ Len(t) \in Nat /\ Len(n) \in Nat
  BY PlaceOfPercent20, LenProperties
<1>3. /\ u \in Seq(Char) /\ Len(u) = Len(t) - 2
      /\ \A j \in 1 .. i - 1 : u[j] = t[j]
      /\ u[i] = " "
      /\ \A j \in i + 3 .. Len(t) : u[j - 2] = t[j]
  BY DEF OneUnescaped
<1>4. PICK a \in 1 .. Len(n) : e[a - 1] < i /\ i <= e[a]
  <2>1. i \in 1 .. Len(t)
    BY <1>2
  <2> QED
    BY <1>1, <2>1 DEF Escapes, Owned
<1>5. a \in Nat /\ a \in 0 .. Len(n) /\ a - 1 \in 0 .. Len(n)
  BY LenProperties
<1>6. e[a] \in Nat /\ e[a - 1] \in Nat /\ i \in Nat
  <2>1. i \in Nat
    BY <1>2
  <2> QED
    BY <1>5, <2>1
\* What follows a plain character is a plain one, if it is a "2" or a "0".
<1>7. ASSUME NEW b \in 1 .. Len(n), e[b] < Len(t), t[e[b] + 1] # "%"
      PROVE  /\ b + 1 \in 1 .. Len(n) /\ e[b] \in Nat
             /\ e[b + 1] = e[b] + 1 /\ n[b + 1] = t[e[b] + 1]
  <2>1. b \in 0 .. Len(n)
    BY <1>2
  <2>2. e[b] \in Nat /\ b # Len(n)
    BY <1>1, <1>7, <2>1 DEF Escapes
  <2>3. b + 1 \in 1 .. Len(n) /\ (b + 1) - 1 = b
    BY <1>2, <2>2
  <2>4. ~Escaped(e, n, t, b + 1)
    BY <1>7, <2>3 DEF Escaped
  <2>5. Plain(e, n, t, b + 1)
    BY <1>1, <2>3, <2>4 DEF Escapes
  <2> QED
    BY <2>2, <2>3, <2>5 DEF Plain
<1>8. ~Plain(e, n, t, a)
  <2> SUFFICES ASSUME Plain(e, n, t, a) PROVE FALSE
    OBVIOUS
  <2>1. e[a] = i /\ n[a] = "%"
    <3>1. e[a] = e[a - 1] + 1
      BY DEF Plain
    <3>2. e[a] = i
      BY <1>4, <1>6, <3>1
    <3> QED
      BY <1>2, <3>2 DEF Plain
  <2>2. e[a] < Len(t) /\ t[e[a] + 1] # "%"
    BY <1>2, <2>1
  <2>3. a + 1 \in 1 .. Len(n) /\ e[a + 1] = i + 1 /\ n[a + 1] = "2"
    BY <1>2, <1>7, <2>1, <2>2
  <2>4. e[a + 1] < Len(t) /\ (i + 1) + 1 = i + 2
    BY <1>2, <2>3
  <2>5. t[e[a + 1] + 1] # "%"
    BY <1>2, <2>3, <2>4
  <2>6. (a + 1) + 1 \in 1 .. Len(n) /\ n[(a + 1) + 1] = "0"
    BY <1>2, <1>7, <2>3, <2>4, <2>5
  <2>7. (a + 1) + 1 = a + 2 /\ a \in 1 .. Len(n) - 2
    BY <1>2, <2>6
  <2>8. a \in Places(Percent20, n)
    BY <2>1, <2>3, <2>6, <2>7, PlaceOfPercent20
  <2> QED
    BY <2>8 DEF Occurs
<1>9. Escaped(e, n, t, a)
  BY <1>1, <1>8 DEF Escapes
<1>10. e[a - 1] = i - 1 /\ e[a] = i + 2
  <2>1. e[a] = e[a - 1] + 3
    BY <1>9 DEF Escaped
  <2>2. i = e[a - 1] + 1 \/ i = e[a - 1] + 2 \/ i = e[a - 1] + 3
    BY <1>4, <1>6, <2>1
  <2>3. i = e[a - 1] + 1
    BY <1>2, <1>9, <2>2 DEF Escaped
  <2> QED
    BY <1>6, <2>1, <2>3
<1> DEFINE f == Shift(e, n, a, -2)
<1>11. f[a] = e[a] + (-2) /\ f[a - 1] = e[a - 1]
  <2>1. ~(a < a) /\ a - 1 < a
    BY <1>5
  <2> QED
    BY <1>5, <2>1 DEF Shift
<1> HIDE DEF f
<1>12. Plain(f, n, u, a)
  <2>1. f[a] = f[a - 1] + 1 /\ f[a] = i
    BY <1>6, <1>10, <1>11
  <2>2. n[a] = " "
    BY <1>9 DEF Escaped
  <2> QED
    BY <1>3, <2>1, <2>2 DEF Plain
<1>13. Moved(e, n, t, u, a, -2)
  <2>1. Len(u) = Len(t) + (-2) /\ e[a] + 1 = i + 3
    <3>1. \A x \in Nat : x - 2 = x + (-2) /\ (x + 2) + 1 = x + 3
      OBVIOUS
    <3> QED
      BY <1>2, <1>3, <1>6, <1>10, <3>1
  <2>2. \A k \in 1 .. e[a - 1] : u[k] = t[k]
    BY <1>3, <1>10
  <2>3. \A k \in e[a] + 1 .. Len(t) : u[k + (-2)] = t[k]
    <3>1. \A k \in i + 3 .. Len(t) : k + (-2) = k - 2
      BY <1>2
    <3> QED
      BY <1>3, <2>1, <3>1
  <2> QED
    BY <1>9, <1>12, <2>1, <2>2, <2>3 DEF Moved, f
<1> QED
  BY <1>1, <1>3, <1>13, ShiftIsEscape

\* A space never makes two dots.
LEMMA UnescapeMakesNoDots ==
    ASSUME NEW t \in Seq(Char), ~Occurs(Dots, t),
           NEW i \in Places(Percent20, t), NEW u, OneUnescaped(u, i, t)
    PROVE  ~Occurs(Dots, u)
<1>1. /\ u \in Seq(Char) /\ Len(u) = Len(t) - 2
      /\ \A j \in 1 .. i - 1 : u[j] = t[j]
      /\ u[i] = " "
      /\ \A j \in i + 3 .. Len(t) : u[j - 2] = t[j]
  BY DEF OneUnescaped
<1>2. i \in 1 .. Len(t) - 2 /\ Len(t) \in Nat
  BY PlaceOfPercent20, LenProperties
<1>3. ASSUME NEW k \in Places(Dots, u)
      PROVE  FALSE
  <2>1. k \in 1 .. Len(t) - 3 /\ u[k] = "." /\ u[k + 1] = "."
    <3>1. k \in 1 .. Len(u) - 1 /\ u[k] = "." /\ u[k + 1] = "."
      BY <1>1, PlaceOfDots
    <3>2. Len(u) - 1 = Len(t) - 3
      <4>1. Len(u) = Len(t) - 2 /\ Len(t) \in Nat
        BY LenProperties DEF OneUnescaped
      <4> QED
        BY <4>1
    <3> QED
      BY <3>1, <3>2
  <2>2. k # i /\ k + 1 # i
    BY <1>1, <2>1
  <2>3. CASE k + 1 < i
    <3>1. k \in 1 .. i - 1 /\ k + 1 \in 1 .. i - 1 /\ k \in 1 .. Len(t) - 1
      BY <1>2, <2>1, <2>3
    <3>2. k \in Places(Dots, t)
      BY <1>1, <2>1, <3>1, PlaceOfDots
    <3> QED
      BY <3>2 DEF Occurs
  <2>4. CASE k > i
    <3>1. /\ k + 2 \in i + 3 .. Len(t) /\ k + 3 \in i + 3 .. Len(t) /\ k + 2 \in 1 .. Len(t) - 1
          /\ (k + 2) - 2 = k /\ (k + 3) - 2 = k + 1 /\ (k + 2) + 1 = k + 3
      BY <1>2, <2>1, <2>4
    <3>2. t[k + 2] = "." /\ t[k + 3] = "."
      BY <1>1, <2>1, <3>1
    <3>3. k + 2 \in Places(Dots, t)
      BY <3>1, <3>2, PlaceOfDots
    <3> QED
      BY <3>3 DEF Occurs
  <2> QED
    BY <1>2, <2>1, <2>2, <2>3, <2>4
<1> QED
  BY <1>3 DEF Occurs

\* Where the characters of a padded path are.
LEMMA PaddedCharacters ==
    ASSUME NEW t \in Seq(Char)
    PROVE  /\ Padded(t) \in Seq(Char) /\ Len(Padded(t)) = Len(t) + 2
           /\ \A k \in 2 .. Len(t) + 1 : Padded(t)[k] = t[k - 1]
<1> DEFINE front == Slash \o t
           row == front \o Slash
<1>1. Slash \in Seq(Char) /\ Len(t) \in Nat
  BY PartsAreSequences, LenProperties
<1>2. /\ front \in Seq(Char) /\ Len(front) = Len(Slash) + Len(t)
      /\ \A k \in 1 .. Len(Slash) + Len(t) :
            front[k] = IF k <= Len(Slash) THEN Slash[k] ELSE t[k - Len(Slash)]
  BY <1>1, ConcatProperties
<1>3. front \in Seq(Char)
  BY <1>2
<1> HIDE DEF front
<1>4. /\ row \in Seq(Char) /\ Len(row) = Len(front) + Len(Slash)
      /\ \A k \in 1 .. Len(front) + Len(Slash) :
            row[k] = IF k <= Len(front) THEN front[k] ELSE Slash[k - Len(front)]
  BY <1>1, <1>3, ConcatProperties
<1>5. Padded(t) = row
  BY DEF Padded, front
<1> HIDE DEF row
<1>6. Len(front) = Len(t) + 1 /\ Len(row) = Len(t) + 2
  BY <1>1, <1>2, <1>4, PartLengths
<1>7. ASSUME NEW k \in 2 .. Len(t) + 1
      PROVE  row[k] = t[k - 1]
  <2>1. /\ k \in 1 .. Len(Slash) + Len(t) /\ k \in 1 .. Len(front) + Len(Slash)
        /\ k <= Len(front) /\ ~(k <= Len(Slash)) /\ k - Len(Slash) = k - 1
    BY <1>1, <1>6, PartLengths
  <2> QED
    BY <2>1, <1>2, <1>4
<1> QED
  BY <1>4, <1>5, <1>6, <1>7

LEMMA ClimbCharacters ==
    LET climb == Slash \o Dots \o Slash
    IN  climb \in Seq(Char) /\ Len(climb) = 4 /\ climb[2] = "." /\ climb[3] = "."
<1> DEFINE middle == Slash \o Dots
           climb == middle \o Slash
<1>1. Slash \in Seq(Char) /\ Dots \in Seq(Char)
  BY PartsAreSequences
<1>2. /\ middle \in Seq(Char) /\ Len(middle) = Len(Slash) + Len(Dots)
      /\ \A k \in 1 .. Len(Slash) + Len(Dots) :
            middle[k] = IF k <= Len(Slash) THEN Slash[k] ELSE Dots[k - Len(Slash)]
  BY <1>1, ConcatProperties
<1>3. middle \in Seq(Char)
  BY <1>2
<1> HIDE DEF middle
<1>4. /\ climb \in Seq(Char) /\ Len(climb) = Len(middle) + Len(Slash)
      /\ \A k \in 1 .. Len(middle) + Len(Slash) :
            climb[k] = IF k <= Len(middle) THEN middle[k] ELSE Slash[k - Len(middle)]
  BY <1>1, <1>3, ConcatProperties
<1> HIDE DEF climb
<1>5. Len(middle) = 3 /\ Len(climb) = 4
  BY <1>2, <1>4, PartLengths
<1>6. middle[2] = Dots[1] /\ middle[3] = Dots[2]
  <2>1. \A k \in 1 .. 3 : middle[k] = IF k <= 1 THEN Slash[k] ELSE Dots[k - 1]
    BY <1>2, PartLengths
  <2> QED
    BY <2>1
<1>7. climb[2] = middle[2] /\ climb[3] = middle[3]
  BY <1>4, <1>5, PartLengths
<1> QED
  BY <1>4, <1>5, <1>6, <1>7, PartsAreSequences DEF climb, middle

\* Only a name with two dots has a component that is "..".
LEMMA ClimbingNeedsDots ==
    ASSUME NEW t \in Seq(Char), Occurs(Slash \o Dots \o Slash, Padded(t))
    PROVE  Occurs(Dots, t)
<1> DEFINE climb == Slash \o Dots \o Slash
           row == Padded(t)
<1>1. climb \in Seq(Char) /\ Len(climb) = 4 /\ climb[2] = "." /\ climb[3] = "."
  BY ClimbCharacters
<1>2. Len(t) \in Nat /\ climb \in Seq(Char) /\ row \in Seq(Char)
  BY <1>1, LenProperties, PaddedCharacters
<1>3. Len(row) = Len(t) + 2 /\ \A k \in 2 .. Len(t) + 1 : row[k] = t[k - 1]
  BY PaddedCharacters
<1>4. PICK i : i \in Places(climb, row)
  BY DEF Occurs
<1> HIDE DEF climb, row
<1>5. i \in 1 .. Len(row) + 1 - Len(climb) /\ \A j \in 1 .. Len(climb) : row[i + j - 1] = climb[j]
  BY <1>2, <1>4, PlaceOfPart
<1>6. i \in 1 .. Len(t) - 1
  <2>1. Len(row) + 1 - Len(climb) = Len(t) - 1
    BY <1>1, <1>2, <1>3
  <2> QED
    BY <1>5, <2>1
<1>7. row[i + 1] = "." /\ row[i + 2] = "."
  <2>1. 2 \in 1 .. Len(climb) /\ 3 \in 1 .. Len(climb)
    BY <1>1
  <2>2. i + 2 - 1 = i + 1 /\ i + 3 - 1 = i + 2
    BY <1>6
  <2> QED
    BY <1>1, <1>5, <2>1, <2>2
<1>8. t[i] = "." /\ t[i + 1] = "."
  <2>1. /\ i + 1 \in 2 .. Len(t) + 1 /\ i + 2 \in 2 .. Len(t) + 1
        /\ (i + 1) - 1 = i /\ (i + 2) - 1 = i + 1
    BY <1>2, <1>6
  <2> QED
    BY <1>3, <1>7, <2>1
<1>9. i \in Places(Dots, t)
  BY <1>6, <1>8, PlaceOfDots
<1> QED
  BY <1>9 DEF Occurs

-----------------------------------------------------------------------------
(* The path of a request on its way.                                       *)

\* What the client sends is an escape of the name, which the server undoes if the
\* name has no Percent20 of its own; there are no two dots behind the check.
NameInv ==
    /\ NameTypeOK
    /\ at \in {"server", "stored"} => ~Occurs(Dots, text)
    /\ at = "stored" => ~Occurs(Percent20, text)
    /\ (at \notin {"server", "stored"} \/ ~Occurs(Percent20, name)) => IsEscape(name, text)

LEMMA EscapeLength ==
    ASSUME NEW n \in Seq(Char), NEW t \in Seq(Char), IsEscape(n, t)
    PROVE  Len(t) <= 3 * Len(n)
<1>1. PICK e \in [0 .. Len(n) -> Nat] : Escapes(e, n, t)
  BY DEF IsEscape
<1>2. Len(n) \in Nat /\ 0 \in 0 .. Len(n) /\ Len(n) \in 0 .. Len(n) /\ 0 <= Len(n)
  BY LenProperties
<1>3. e[Len(n)] - e[0] <= 3 * (Len(n) - 0)
  BY <1>1, <1>2 DEF Escapes, Spread
<1>4. e[0] = 0 /\ e[Len(n)] = Len(t) /\ Len(t) \in Nat
  BY <1>1, LenProperties DEF Escapes
<1>5. Len(t) - 0 <= 3 * (Len(n) - 0)
  BY <1>3, <1>4
<1> QED
  BY <1>2, <1>4, <1>5

LEMMA InitName == NameInit => NameInv
<1> SUFFICES ASSUME NameInit PROVE NameInv
  OBVIOUS
<1>1. name \in Seq(Char) /\ Len(name) <= MaxLength /\ text = name
  BY NamesAreSequences DEF NameInit
<1>2. IsEscape(name, text)
  BY <1>1, NameIsEscape
<1>3. at \in {"client", "request"} /\ (at = "request" => ~Occurs(Space, text))
  BY <1>1 DEF NameInit
<1>4. Len(text) <= 3 * Len(name)
  BY <1>1, <1>2, EscapeLength
<1> QED
  BY <1>1, <1>2, <1>3, <1>4 DEF NameInv, NameTypeOK

LEMMA ReplaceSpacesKeeps == NameInv /\ ReplaceSpaces => NameInv'
<1> SUFFICES ASSUME NameInv, ReplaceSpaces PROVE NameInv'
  OBVIOUS
<1>1. /\ name \in Seq(Char) /\ Len(name) <= MaxLength /\ text \in Seq(Char)
      /\ Len(text) <= 3 * Len(name) /\ IsEscape(name, text) /\ at = "client" /\ name' = name
  BY DEF NameInv, NameTypeOK, ReplaceSpaces
<1>2. CASE at' = at
  <2>1. PICK i \in Find(Space, text) : text' = ReplaceSubSeqAt(i, Percent20, Space, text)
    BY <1>1, <1>2 DEF ReplaceSpaces
  <2>2. i \in Places(Space, text)
    BY DEF Find
  <2>3. OneEscaped(text', i, text)
    BY <1>1, <2>1, <2>2, EscapeOne
  <2>4. IsEscape(name, text')
    BY <1>1, <2>2, <2>3, EscapeKeeps
  <2>5. text' \in Seq(Char)
    BY <2>3 DEF OneEscaped
  <2>6. Len(text') <= 3 * Len(name)
    BY <1>1, <2>4, <2>5, EscapeLength
  <2> QED
    BY <1>1, <1>2, <2>4, <2>5, <2>6 DEF NameInv, NameTypeOK
<1>3. CASE at' = "request" /\ text' = text /\ ~Occurs(Space, text)
  BY <1>1, <1>3 DEF NameInv, NameTypeOK
<1> QED
  BY <1>2, <1>3 DEF ReplaceSpaces

LEMMA AvoidTraversalKeeps == NameInv /\ AvoidTraversal => NameInv'
<1> SUFFICES ASSUME NameInv, AvoidTraversal PROVE NameInv'
  OBVIOUS
<1>1. NameTypeOK /\ IsEscape(name, text) /\ at = "request" /\ name' = name /\ text' = text
  BY DEF NameInv, AvoidTraversal
<1>2. at' = "refused" \/ (at' = "server" /\ ~Occurs(Dots, text))
  BY DEF AvoidTraversal
<1> QED
  BY <1>1, <1>2 DEF NameInv, NameTypeOK

LEMMA ReplacePercent20Keeps == NameInv /\ ReplacePercent20 => NameInv'
<1> SUFFICES ASSUME NameInv, ReplacePercent20 PROVE NameInv'
  OBVIOUS
<1>1. /\ name \in Seq(Char) /\ Len(name) <= MaxLength /\ text \in Seq(Char)
      /\ Len(text) <= 3 * Len(name) /\ at = "server" /\ name' = name
      /\ ~Occurs(Dots, text) /\ (~Occurs(Percent20, name) => IsEscape(name, text))
  BY DEF NameInv, NameTypeOK, ReplacePercent20
<1>2. CASE at' = at
  <2>1. PICK i \in Find(Percent20, text) : text' = ReplaceSubSeqAt(i, Space, Percent20, text)
    BY <1>1, <1>2 DEF ReplacePercent20
  <2>2. i \in Places(Percent20, text)
    BY DEF Find
  <2>3. OneUnescaped(text', i, text)
    BY <1>1, <2>1, <2>2, UnescapeOne
  <2>4. ~Occurs(Percent20, name) => IsEscape(name, text')
    BY <1>1, <2>2, <2>3, UnescapeKeeps
  <2>5. ~Occurs(Dots, text')
    BY <1>1, <2>2, <2>3, UnescapeMakesNoDots
  <2>6. text' \in Seq(Char) /\ Len(text') = Len(text) - 2
    BY <2>3 DEF OneUnescaped
  <2>7. Len(text') <= 3 * Len(name)
    <3>1. Len(text) \in Nat /\ Len(name) \in Nat
      BY <1>1, LenProperties
    <3> QED
      BY <1>1, <2>6, <3>1
  <2> QED
    BY <1>1, <1>2, <2>4, <2>5, <2>6, <2>7 DEF NameInv, NameTypeOK
<1>3. CASE at' = "stored" /\ text' = text /\ ~Occurs(Percent20, text)
  BY <1>1, <1>3 DEF NameInv, NameTypeOK
<1> QED
  BY <1>2, <1>3 DEF ReplacePercent20

LEMMA NextName == NameInv /\ [NameNext]_nameVars => NameInv'
<1> SUFFICES ASSUME NameInv, [NameNext]_nameVars PROVE NameInv'
  OBVIOUS
<1>1. CASE ReplaceSpaces
  BY <1>1, ReplaceSpacesKeeps
<1>2. CASE AvoidTraversal
  BY <1>2, AvoidTraversalKeeps
<1>3. CASE ReplacePercent20
  BY <1>3, ReplacePercent20Keeps
<1>4. CASE UNCHANGED nameVars
  BY <1>4 DEF NameInv, NameTypeOK, nameVars
<1> QED
  BY <1>1, <1>2, <1>3, <1>4 DEF NameNext, Over

LEMMA NameAlways == NameSpec => []NameInv
BY InitName, NextName, PTL DEF NameSpec

\* The texts of a path stay texts, and no path grows beyond three characters for
\* one; no space is left in the target of a request (replaceSpaces of client.cpp).
THEOREM NamesStayTyped == NameSpec => []NameTypeOK
<1>1. NameInv => NameTypeOK
  BY DEF NameInv
<1> QED
  BY <1>1, NameAlways, PTL

\* No path, of whatever length and however escaped, climbs out of the folder of the
\* user: the order of the check and of replaceSpaces in server.h is safe.
THEOREM NoNameClimbs == NameSpec => []NoTraversal
<1>1. NameInv => NoTraversal
  BY ClimbingNeedsDots DEF NameInv, NameTypeOK, NoTraversal
<1> QED
  BY <1>1, NameAlways, PTL

\* The server uses the path the client means, whatever its length, if there is no
\* %20 in it: the loops of client.cpp and server.cpp undo each other.
THEOREM UsualNamesArrive == NameSpec => []NameArrives
<1>1. NameInv => NameArrives
  BY EscapeWithoutPercent20 DEF NameInv, NameTypeOK, NameArrives
<1> QED
  BY <1>1, NameAlways, PTL

=============================================================================
