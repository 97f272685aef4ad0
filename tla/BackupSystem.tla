---------------------------- MODULE BackupSystem ----------------------------
(***************************************************************************)
(* The whole of it: a user who edits a folder, the client that watches the *)
(* folder (FileWatcher.tla), the connections that carry one request and    *)
(* its answer each, and the server that executes the requests on the       *)
(* user's backup folder (Storage.tla).  The user runs one client, so one   *)
(* request at a time is being waited for; a request the client has given   *)
(* up may still be executed by the server at any time afterwards, also     *)
(* when the client has walked the folder again and sends newer things.     *)
(*                                                                         *)
(* The contents of files are 0, 1, 2, ...: each edit makes a new one.      *)
(***************************************************************************)
EXTENDS FileWatcher

CONSTANTS
    FileName,   \* the paths at which the user has files
    FolderName, \* the paths at which the user has folders
    UserFolder, \* those of the folders that the user makes and removes
    ReuseNames, \* they may do so before the client has seen that one is gone
    QuietAt,    \* the points of the client at which the user does not edit
    MaxVersion, \* bound: the number of the last edit
    MaxFaults   \* bound: the number of timeouts and crashes

ASSUME BackupAssumption ==
    /\ FileName \subseteq Path \ {Root}
    /\ FolderName \subseteq Path
    /\ UserFolder \subseteq FolderName \ {Root}
    /\ ReuseNames \in BOOLEAN
    /\ QuietAt \subseteq PC
    /\ MaxVersion \in Nat \ {0} /\ MaxFaults \in Nat
    /\ Content = 0 .. MaxVersion

VARIABLES
    remote,     \* the user's folder on the server
    server,     \* "up", "down" (killed), or "terminated" by an exception
    late,       \* a request given up since the last walk began; the server has it
    stray,      \* those given up before that, each with the number of a fault
    version,    \* the number of the last edit
    faults,     \* timeouts and crashes so far
    disturbed   \* history: a stray request was executed since the last walk began

serverVars == <<remote, server, late, stray, disturbed>>

vars == <<clientVars, serverVars, version, faults>>

HasNames(t) ==
    \A p \in Path : /\ IsFile(t, p) => p \in FileName
                    /\ t[p] = Folder => p \in FolderName

(***************************************************************************)
(* At first the client is not running.  The user's files have content 1,   *)
(* those on the server 1 or an older one, 0: the two trees are whatever    *)
(* the user and an earlier run of the client have left.                    *)
(***************************************************************************)
Init ==
    /\ ClientInit
    /\ local \in {t \in [Path -> {1, Folder, Absent}] : IsTree(t) /\ HasNames(t)}
    /\ remote \in {t \in [Path -> {0, 1, Folder, Absent}] : IsTree(t) /\ HasNames(t)}
    /\ server = "up"
    /\ late = NoCall
    /\ stray = {}
    /\ version = 1
    /\ faults = 0
    /\ disturbed = FALSE

-----------------------------------------------------------------------------
(* The user.                                                               *)

Edit(p, node) ==
    /\ pc \notin QuietAt
    /\ version < MaxVersion
    /\ version' = version + 1
    /\ local' = [RemoveAll(local, {p}) EXCEPT ![p] = node]
    /\ UNCHANGED <<paths, pc, cur, mtime, jobs, open, check, call, reply, serverVars, faults>>

\* A file is created, overwritten, or put where a folder was.
WriteFile(p) ==
    /\ HasPlace(local, p)
    /\ local[p] = Folder => p \in UserFolder
    /\ Edit(p, version + 1)

MakeFolder(p) ==
    /\ HasPlace(local, p)
    /\ local[p] # Folder
    /\ ReuseNames \/ \A q \in Within[p] : paths[q] = Absent
    /\ Edit(p, Folder)

\* A file, or a folder and all it contains, is deleted or moved elsewhere.
Remove(p) == local[p] # Absent /\ Edit(p, Absent)

User ==
    \/ \E p \in FileName : WriteFile(p)
    \/ \E p \in UserFolder : MakeFolder(p)
    \/ \E p \in FileName \cup UserFolder : Remove(p)

-----------------------------------------------------------------------------
(* The server and the connections.                                         *)

Waiting == call # NoCall /\ reply = NoReply

NoResponse == [status |-> "no_response", digest |-> Absent]

\* What the server process is after a request; the others are not affected.
Execute(req) ==
    LET result == HandleRequest(remote, req)
    IN /\ remote' = result.tree
       /\ server' = IF result.status = "terminated" THEN "terminated" ELSE server
       /\ reply' = IF result.status = "terminated"
                   THEN NoResponse
                   ELSE [status |-> result.status, digest |-> result.digest]

\* A session reads the request, handle_request executes it, the client reads
\* the answer (an end of file if the process has terminated).
Serve ==
    /\ Waiting
    /\ server = "up"
    /\ Execute(call)
    /\ UNCHANGED <<dataVars, pc, call, late, stray, version, faults, disturbed>>

\* Connection refused, or reset: Session::on_connect or on_read throws.
NoServer ==
    /\ Waiting
    /\ server # "up"
    /\ reply' = NoResponse
    /\ UNCHANGED <<dataVars, pc, call, serverVars, version, faults>>

\* stream_.expires_after(60 s): the client gives up, the server has the request.
Timeout ==
    /\ faults < MaxFaults
    /\ faults' = faults + 1
    /\ Waiting
    /\ late' = call
    /\ reply' = NoResponse
    /\ UNCHANGED <<dataVars, pc, call, remote, server, stray, version, disturbed>>

\* The server executes a request, and its answer finds nobody.
ExecuteUnheard(req) ==
    LET result == HandleRequest(remote, req)
    IN /\ server = "up"
       /\ remote' = result.tree
       /\ server' = IF result.status = "terminated" THEN "terminated" ELSE server

ServeLate ==
    /\ late # NoCall
    /\ ExecuteUnheard(late)
    /\ late' = NoCall
    /\ UNCHANGED <<clientVars, stray, version, faults, disturbed>>

ServeStray ==
    /\ \E s \in stray : ExecuteUnheard(s[2]) /\ stray' = stray \ {s}
    /\ disturbed' = TRUE
    /\ UNCHANGED <<clientVars, late, version, faults>>

\* Or the request never reached it, or the server went down.
DropLate ==
    /\ late # NoCall
    /\ late' = NoCall
    /\ UNCHANGED <<clientVars, remote, server, stray, version, faults, disturbed>>

DropStray ==
    /\ \E s \in stray : stray' = stray \ {s}
    /\ UNCHANGED <<clientVars, remote, server, late, version, faults, disturbed>>

ServerCrash ==
    /\ faults < MaxFaults
    /\ faults' = faults + 1
    /\ server = "up"
    /\ server' = "down"
    /\ UNCHANGED <<clientVars, remote, late, stray, version, disturbed>>

\* Somebody starts the server again: its folders are as they were.
ServerStart ==
    /\ server # "up"
    /\ server' = "up"
    /\ UNCHANGED <<clientVars, remote, late, stray, version, faults, disturbed>>

-----------------------------------------------------------------------------
(* The client.  It logs in before anything else, so it starts when there   *)
(* is a server.  What it has given up it knows nothing of: after the 30    *)
(* seconds of check_connection_and_retry, or when somebody starts it       *)
(* again, the server may have executed it, or may still do so.             *)

StartClient ==
    /\ pc = "off" => server = "up"
    /\ Initialization
    /\ late' = NoCall
    /\ stray' = IF late = NoCall THEN stray ELSE stray \cup {<<faults, late>>}
    /\ disturbed' = FALSE
    /\ UNCHANGED <<remote, server, version, faults>>

ClientStep == (Walk \/ Watch) /\ UNCHANGED <<serverVars, version, faults>>

ServerStep == Serve \/ NoServer

Unheard == ServeLate \/ ServeStray \/ DropLate \/ DropStray

Next ==
    \/ ClientStep \/ StartClient
    \/ ServerStep \/ Unheard \/ ServerStart \/ Timeout \/ ServerCrash
    \/ User

(***************************************************************************)
(* The client's main thread and the server's threads keep running, and the *)
(* sleep in check_connection_and_retry ends.  Nothing makes the user edit, *)
(* start a client that has ended, or start the server again, and nothing   *)
(* makes the server execute, or lose, what the client has given up.        *)
(***************************************************************************)
Spec ==
    /\ Init
    /\ [][Next]_vars
    /\ WF_vars(ClientStep)
    /\ WF_vars(pc = "retry" /\ StartClient)
    /\ WF_vars(ServerStep)

-----------------------------------------------------------------------------
(* Properties.                                                             *)

TypeOK ==
    /\ IsTree(local) /\ IsTree(remote)
    /\ paths \in [Key -> Node]
    /\ pc \in PC
    /\ cur \in Key \X {"file", "folder"}
    /\ mtime \in Node
    /\ jobs \in Seq(Path)
    /\ open \in Seq(SUBSET (Path \X {"file", "folder"}))
    /\ check \subseteq Key
    /\ call = NoCall \/ call \in Request
    /\ reply = NoReply \/ reply \in [status : Status \cup {"no_response"}, digest : Node]
    /\ late = NoCall \/ late \in Request
    /\ stray \subseteq (0 .. MaxFaults) \X Request
    /\ disturbed \in BOOLEAN
    /\ server \in {"up", "down", "terminated"}
    /\ version \in 1 .. MaxVersion
    /\ faults \in 0 .. MaxFaults

(***************************************************************************)
(* What the client achieves it achieves against its own requests only.  It *)
(* does not see that the server executes one that it gave up before its    *)
(* last walk began, and then nothing below holds until it walks again      *)
(* (MCStrayRequest.cfg): hence `disturbed' in each of the properties.      *)
(***************************************************************************)

\* Whatever paths_ has with the current write time is on the server as it is:
\* otherwise no poll would ever send it.
RecordedIsStored ==
    ~disturbed => \A p \in Path :
        (paths[p] # Absent /\ paths[p] = local[p]) => remote[p] = local[p]

\* What is on the server is known to the client, but for the entry a poll is at:
\* otherwise no poll would ever delete it when the user does.
StoredIsKnown ==
    ~disturbed /\ pc \in {"sleep"} \cup CheckPC \cup ScanPC =>
        \A p \in Path : remote[p] # Absent =>
            paths[p] # Absent \/ (pc \in ScanPC \ {"scan"} /\ p = At)

\* No request of the client makes the server process end.
ServerSurvives ==
    [][(~disturbed' /\ server # "terminated") => server' # "terminated"]_vars

\* When the user does not interfere with a walk, the two folders are equal at
\* its end, whatever the server had before.
WalkSynchronizes ==
    [][(pc = "take" /\ pc' = "sleep" /\ ~disturbed) => remote = local]_vars

\* The same of every walk, which the code does not achieve.
EveryWalkSynchronizes == [][(pc = "take" /\ pc' = "sleep") => remote = local]_vars

\* "update last modified time of it's parent folder in paths_"
\* (FileWatcher.cpp:211): a poll's first loop changes the times of known paths
\* and forgets those that are gone. It makes none known: a path that is known
\* counts as sent.
Known == {p \in Path : paths[p] # Absent}

PollOnlyForgets == [][(pc \in CheckPC) => Known' \subseteq Known]_vars

\* The client is a mirror, of which a path counts as sent when paths_ has it with
\* its current write time.
Sent == {p \in Known : paths[p] = local[p]}

Copies == INSTANCE Mirror WITH
    folder <- local, copy <- remote, alone <- ~disturbed, sent <- IF disturbed THEN {} ELSE Sent
IsMirror == Copies!Spec

\* Whatever the user does, and wherever the client is when the user stops, if
\* the client and the server are then left running the folders become equal.
Converges ==
    <>[](pc # "off" /\ server = "up" /\ ~disturbed) => <>[](remote = local)

=============================================================================
