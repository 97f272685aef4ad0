------------------------------ MODULE Storage ------------------------------
(***************************************************************************)
(* The server's side of the backup API: the functions of server/backup.cpp *)
(* on the tree of one authenticated user, and what handle_request          *)
(* (server/server.h) does with their results.  Each operator gives the     *)
(* tree after the request and the status of the response.  The status      *)
(* "terminated" means that no response is made: an exception leaves        *)
(* handle_request and io_context::run and ends the server process.         *)
(***************************************************************************)
EXTENDS FileTree

Done(t, status) == [tree |-> t, status |-> status, digest |-> Absent]

\* POST /backup/{path} of type "file": an ofstream opened with trunc.
SaveFile(t, p, content) ==
    IF HasPlace(t, p) /\ t[p] # Folder
    THEN Done([t EXCEPT ![p] = content], "ok")
    ELSE Done(t, "server_error")

\* POST /backup/{path} of type "folder".  fs::create_directory returns false
\* when the folder is there and throws when it cannot be made: no parent, or a
\* file in its place.
NewDirectory(t, p) ==
    CASE t[p] = Folder                      -> Done(t, "server_error")
      [] t[p] = Absent /\ HasPlace(t, p)    -> Done([t EXCEPT ![p] = Folder], "ok")
      [] OTHER                              -> Done(t, "terminated")

\* Mutant: nothing is removed from a folder that is there.
ProbeDirectoryKeeps(t, p, children) ==
    Done(t, IF t[p] = Folder THEN "ok" ELSE "not_found")

\* POST /probefolder/{path}: what the client does not list as a child goes.
ProbeDirectory(t, p, children) ==
    IF t[p] # Folder
    THEN Done(t, "not_found")
    ELSE Done(RemoveAll(t, Entries(t, p) \ children), "ok")

\* GET /probefile/{path}: the digest of a regular file.
GetFileDigest(t, p) ==
    IF IsFile(t, p)
    THEN [tree |-> t, status |-> "ok", digest |-> t[p]]
    ELSE Done(t, "not_found")

\* Mutant: fs::remove for a folder too, not fs::remove_all.
BackupDeleteOne(t, p) ==
    CASE p = Root                   -> Done(t, "bad_request")
      [] p # Root /\ t[p] = Absent  -> Done(t, "not_found")
      [] OTHER                      -> Done([t EXCEPT ![p] = Absent], "ok")

\* DELETE /backup/{path}: a file, or a folder with everything in it. The user's
\* whole backup is the empty path here; Api.tla has the other spellings.
BackupDelete(t, p) ==
    CASE p = Root                   -> Done(t, "bad_request")
      [] p # Root /\ t[p] = Absent  -> Done(t, "not_found")
      [] OTHER                      -> Done(RemoveAll(t, {p}), "ok")

Request ==
    [op : {"save"}, path : Path, content : Content]
      \cup [op : {"probefolder"}, path : Path, children : SUBSET Path]
      \cup [op : {"mkdir", "probefile", "delete"}, path : Path]

Status == {"ok", "not_found", "bad_request", "server_error", "terminated"}

\* The dispatch of handle_request, once the token has been accepted.
HandleRequest(t, req) ==
    CASE req.op = "save"        -> SaveFile(t, req.path, req.content)
      [] req.op = "mkdir"       -> NewDirectory(t, req.path)
      [] req.op = "probefolder" -> ProbeDirectory(t, req.path, req.children)
      [] req.op = "probefile"   -> GetFileDigest(t, req.path)
      [] req.op = "delete"      -> BackupDelete(t, req.path)

=============================================================================
