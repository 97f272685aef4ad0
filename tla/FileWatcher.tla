---------------------------- MODULE FileWatcher ----------------------------
(***************************************************************************)
(* The client's FileWatcher (client/FileWatcher.cpp) and the requests it   *)
(* makes (client/client.cpp).  initialization() walks the user's folder    *)
(* and makes the server's copy equal to it; start() then polls it, sends   *)
(* what changed, and walks again when a request has failed.  The user      *)
(* edits the folder meanwhile (BackupSystem.tla), so every access to it is *)
(* a step of its own, and so are sending a request and using its answer.   *)
(*                                                                         *)
(* The threads of initialization() are the subject of DirectoryWalk.tla:   *)
(* here one worker walks.  The last write time of a file stands for its    *)
(* content: each edit gives both a new value.  The time of a folder never  *)
(* matters: all that the code does with it is to copy it into paths_.      *)
(***************************************************************************)
EXTENDS Storage, Sequences

CONSTANT
    Alias       \* the key "/folder" of paths_, when the watched path is "/folder/"

ASSUME AliasAssumption == Alias \notin Path

Key == Path \cup {Alias}

VARIABLES
    local,      \* the user's folder
    paths,      \* FileWatcher::paths_; Absent where there is no such key
    pc,         \* what the client is doing
    cur,        \* the directory_entry, or key, it is at
    mtime,      \* current_file_last_write_time
    jobs,       \* the folders still to be walked
    open,       \* the directory iterators: the entries each has still to return
    check,      \* the keys the first loop of start() has still to reach
    call,       \* the request it is waiting for
    reply       \* its answer, once it has come

\* All but where the client is and the request it makes.
dataVars == <<local, paths, cur, mtime, jobs, open, check>>

clientVars == <<dataVars, pc, call, reply>>

At == cur[1]

WalkPC == {"take", "probing", "creating", "open", "entry", "probed", "replacing",
           "replace", "replaced", "upload", "uploaded", "record"}

CheckPC == {"check", "deleting", "parent"}

ScanPC == {"scan", "making", "removing", "encode", "saving", "next"}

PC == {"off", "retry", "sleep"} \cup WalkPC \cup CheckPC \cup ScanPC

NoCall == [op |-> "none"]
NoReply == [status |-> "none"]

NoPaths == [k \in Key |-> Absent]

NoEntry == <<Root, "folder">>

ClientInit ==
    /\ paths = NoPaths
    /\ pc = "off"
    /\ cur = NoEntry
    /\ mtime = Absent
    /\ jobs = <<>>
    /\ open = <<>>
    /\ check = {}
    /\ call = NoCall
    /\ reply = NoReply

-----------------------------------------------------------------------------
(* How the client makes requests.                                          *)

Send(req, then) ==
    /\ call' = req
    /\ reply' = NoReply
    /\ pc' = then

OnPath(op, p) == [op |-> op, path |-> p]

Save(p) == [op |-> "save", path |-> p, content |-> local[p]]

\* calculate_digest: empty for what fopen does not open, and never the digest of
\* two contents; a folder is not a file with content either.
Digest(p) == IF IsFile(local, p) THEN local[p] ELSE Absent

\* The client is at pc and the answer it was waiting for has come.
Answered(at) == pc = at /\ reply # NoReply

\* What send_request does not throw at; only the probes look at its result.
Accepted == reply.status \in {"ok", "not_found"}

Proceed(then) ==
    /\ pc' = then
    /\ call' = NoCall
    /\ reply' = NoReply

\* The local variables are gone.
Unwind ==
    /\ cur' = NoEntry
    /\ mtime' = Absent
    /\ jobs' = <<>>
    /\ open' = <<>>
    /\ check' = {}
    /\ UNCHANGED local

\* An exception leaves a thread of initialization(), or main() ends because of
\* one: the process is over.
Die ==
    /\ Unwind
    /\ Proceed("off")
    /\ paths' = NoPaths

\* start() catches the ExceptionBackup: check_connection_and_retry.
Retry ==
    /\ Unwind
    /\ Proceed("retry")
    /\ UNCHANGED paths

\* backup_folder, backup_file and delete_path: throw, or go on.
WalkAnswer(at, then) ==
    /\ Answered(at)
    /\ IF Accepted THEN Proceed(then) /\ UNCHANGED dataVars ELSE Die

\* Mutant: start() goes on with the poll when a request has failed.
ScanGoesOn(at, then) == Answered(at) /\ Proceed(then) /\ UNCHANGED dataVars

ScanAnswer(at, then) ==
    /\ Answered(at)
    /\ IF Accepted THEN Proceed(then) /\ UNCHANGED dataVars ELSE Retry

-----------------------------------------------------------------------------
(* initialization()                                                        *)

Initialization ==
    /\ pc \in {"off", "retry"}
    /\ paths' = NoPaths
    /\ jobs' = <<Root>>
    /\ pc' = "take"
    /\ UNCHANGED <<local, cur, mtime, open, check, call, reply>>

\* A folder from the queue: get_children and probe_folder.
WalkFolder ==
    /\ pc = "take"
    /\ jobs # <<>>
    /\ IF local[Head(jobs)] = Folder
       THEN /\ cur' = <<Head(jobs), "folder">>
            /\ jobs' = Tail(jobs)
            /\ Send([op |-> "probefolder", path |-> Head(jobs),
                     children |-> Entries(local, Head(jobs))], "probing")
            /\ UNCHANGED <<local, paths, mtime, open, check>>
       ELSE Die

\* Mutant: the result of probe_folder is ignored.
FolderProbedOnly ==
    /\ Answered("probing")
    /\ IF Accepted THEN Proceed("open") /\ UNCHANGED dataVars ELSE Die

\* if (!probe_folder(path_entry)) backup_folder(path_entry)
FolderProbed ==
    /\ Answered("probing")
    /\ \/ reply.status = "ok" /\ Proceed("open") /\ UNCHANGED dataVars
       \/ reply.status = "not_found" /\ Send(OnPath("mkdir", At), "creating") /\ UNCHANGED dataVars
       \/ ~Accepted /\ Die

FolderCreated == WalkAnswer("creating", "open")

\* paths_[path_entry], then the directory_iterator.
OpenFolder ==
    /\ pc = "open"
    /\ IF local[At] = Folder
       THEN /\ paths' = [paths EXCEPT ![At] = Folder]
            /\ open' = <<Listing(local, At)>>
            /\ pc' = "entry"
            /\ UNCHANGED <<local, cur, mtime, jobs, check, call, reply>>
       ELSE Die

\* The next direct child: a file is probed, a folder put into the queue.
WalkEntry ==
    /\ pc = "entry"
    /\ \E e \in Head(open) :
        /\ open' = <<Head(open) \ {e}>>
        /\ \/ /\ e[2] = "file"
              /\ cur' = e
              /\ Send(OnPath("probefile", e[1]), "probed")
              /\ UNCHANGED jobs
           \/ /\ e[2] = "folder"
              /\ jobs' = Append(jobs, e[1])
              /\ UNCHANGED <<pc, cur, call, reply>>
    /\ UNCHANGED <<local, paths, mtime, check>>

\* probe_file compares the server's digest with the local one, which it has
\* computed while it waited: edits between the two are the ones after this step.
FileProbed ==
    /\ Answered("probed")
    /\ \/ /\ reply.status = "ok"
          /\ IF reply.digest = Digest(At)
             THEN Proceed("record")
             ELSE Send(OnPath("delete", At), "replacing")
          /\ UNCHANGED dataVars
       \/ reply.status = "not_found" /\ Proceed("upload") /\ UNCHANGED dataVars
       \/ ~Accepted /\ Die

\* The outdated copy has been deleted.
FileReplacing == WalkAnswer("replacing", "replace")

\* backup_file: encode reads the file.
UploadFile ==
    /\ pc \in {"replace", "upload"}
    /\ IF IsFile(local, At)
       THEN /\ Send(Save(At), IF pc = "replace" THEN "replaced" ELSE "uploaded")
            /\ UNCHANGED dataVars
       ELSE Die

\* After a replacement probe_file calls itself to see whether it is right now.
FileReplaced ==
    /\ Answered("replaced")
    /\ IF Accepted
       THEN Send(OnPath("probefile", At), "probed") /\ UNCHANGED dataVars
       ELSE Die

FileUploaded == WalkAnswer("uploaded", "record")

\* paths_[p] = last_write_time(p), read after the file has been treated.
RecordFile ==
    /\ pc = "record"
    /\ IF local[At] # Absent
       THEN /\ paths' = [paths EXCEPT ![At] = local[At]]
            /\ pc' = "entry"
            /\ UNCHANGED <<local, cur, mtime, jobs, open, check, call, reply>>
       ELSE Die

\* The iterator is at its end: back to the queue.
FolderDone ==
    /\ pc = "entry"
    /\ Head(open) = {}
    /\ open' = <<>>
    /\ pc' = "take"
    /\ UNCHANGED <<local, paths, cur, mtime, jobs, check, call, reply>>

\* The queue is empty: initialization() returns and start() sleeps.
WalkDone ==
    /\ pc = "take"
    /\ jobs = <<>>
    /\ cur' = NoEntry
    /\ pc' = "sleep"
    /\ UNCHANGED <<local, paths, mtime, jobs, open, check, call, reply>>

-----------------------------------------------------------------------------
(* start(), first loop: what paths_ knows and is no longer there.          *)

\* it->first.substr(0, it->first.rfind("/")): for what is directly in the
\* watched folder that is not the key of the folder, which ends with a slash.
ParentKey(p) == IF Parent[p] = Root THEN Alias ELSE Parent[p]

NodeOf(k) == IF k = Alias THEN local[Root] ELSE local[k]

Poll ==
    /\ pc = "sleep"
    /\ check' = {k \in Key : paths[k] # Absent}
    /\ pc' = "check"
    /\ UNCHANGED <<local, paths, cur, mtime, jobs, open, call, reply>>

CheckPath ==
    /\ pc = "check"
    /\ \E k \in check :
        /\ check' = check \ {k}
        /\ IF NodeOf(k) # Absent
           THEN UNCHANGED <<cur, pc, call, reply>>
           ELSE cur' = <<k, "file">> /\ Send(OnPath("delete", k), "deleting")
    /\ UNCHANGED <<local, paths, mtime, jobs, open>>

\* Mutant: what is gone is forgotten, even if the server has not deleted it.
PathForgotten ==
    /\ Answered("deleting")
    /\ paths' = [paths EXCEPT ![At] = Absent]
    /\ Proceed("check")
    /\ cur' = NoEntry
    /\ UNCHANGED <<local, mtime, jobs, open, check>>

\* fs::exists(parent): without one the path is forgotten and the loop goes on.
PathDeleted ==
    /\ Answered("deleting")
    /\ \/ ~Accepted /\ Retry
       \/ /\ Accepted
          /\ NodeOf(ParentKey(At)) # Absent
          /\ Proceed("parent")
          /\ UNCHANGED dataVars
       \/ /\ Accepted
          /\ NodeOf(ParentKey(At)) = Absent
          /\ paths' = [paths EXCEPT ![At] = Absent]
          /\ Proceed("check")
          /\ cur' = NoEntry
          /\ UNCHANGED <<local, mtime, jobs, open, check>>

\* paths_[parent] = last_write_time(parent) throws if the parent is gone by now. It
\* makes the key if there is none: the map may be rehashed, and then the loop
\* reaches any of its keys, or none.
ParentUpdated ==
    /\ pc = "parent"
    /\ LET parent == ParentKey(At)
       IN \/ NodeOf(parent) = Absent /\ Die
          \/ /\ NodeOf(parent) # Absent
             /\ paths' = [paths EXCEPT ![parent] = NodeOf(parent), ![At] = Absent]
             /\ IF paths[parent] = Absent
                THEN check' \in SUBSET {k \in Key : paths'[k] # Absent}
                ELSE UNCHANGED check
             /\ Proceed("check")
             /\ cur' = NoEntry
             /\ UNCHANGED <<local, mtime, jobs, open>>

CheckDone ==
    /\ pc = "check"
    /\ check = {}
    /\ open' = <<Listing(local, Root)>>
    /\ pc' = "scan"
    /\ UNCHANGED <<local, paths, cur, mtime, jobs, check, call, reply>>

-----------------------------------------------------------------------------
(* start(), second loop: what is there and is new or modified.             *)

ScanEntry ==
    /\ pc = "scan"
    /\ \E e \in Head(open) :
        LET p == e[1]
            new == paths[p] = Absent
            modified == ~new /\ paths[p] # local[p]
        IN \/ local[p] = Absent /\ Die
           \/ /\ local[p] # Absent
              /\ cur' = e
              /\ mtime' = local[p]
              /\ open' = <<Head(open) \ {e}>> \o Tail(open)
              /\ CASE new /\ e[2] = "folder"     -> Send(OnPath("mkdir", p), "making")
                   [] new /\ e[2] = "file"       -> Proceed("encode")
                   [] modified /\ e[2] = "file"  -> Send(OnPath("delete", p), "removing")
                   [] OTHER                      -> Proceed("next")
              /\ UNCHANGED <<local, paths, jobs, check>>

FolderMade == ScanAnswer("making", "next")

\* The old copy of a modified file has been deleted: backup_file comes next.
FileRemoved == ScanAnswer("removing", "encode")

\* backup_file: encode reads the file.
EncodeFile ==
    /\ pc = "encode"
    /\ IF IsFile(local, At)
       THEN Send(Save(At), "saving") /\ UNCHANGED dataVars
       ELSE Die

FileSaved == ScanAnswer("saving", "next")

\* paths_[path_entry] = time, then the iterator goes on, into the entry if that
\* was a folder.
NextEntryWith(time) ==
    /\ pc = "next"
    /\ IF cur[2] = "folder" /\ local[At] # Folder
       THEN Die
       ELSE /\ paths' = [paths EXCEPT ![At] = time]
            /\ open' = IF cur[2] = "folder" THEN <<Listing(local, At)>> \o open ELSE open
            /\ cur' = NoEntry
            /\ mtime' = Absent
            /\ pc' = "scan"
            /\ UNCHANGED <<local, jobs, check, call, reply>>

\* Mutant: the write time is read again, after the upload.
NextEntryNow == NextEntryWith(local[At])

\* Mutant: the write time of a modified file is not updated.
NextEntryOld == NextEntryWith(IF paths[At] = Absent THEN mtime ELSE paths[At])

\* paths_[path_entry] = current_file_last_write_time.
NextEntry == NextEntryWith(mtime)

\* A folder has no more entries; after the watched one start() sleeps again.
ScanPop ==
    /\ pc = "scan"
    /\ Head(open) = {}
    /\ open' = Tail(open)
    /\ pc' = IF Len(open) = 1 THEN "sleep" ELSE "scan"
    /\ UNCHANGED <<local, paths, cur, mtime, jobs, check, call, reply>>

-----------------------------------------------------------------------------

Walk ==
    \/ WalkFolder \/ FolderProbed \/ FolderCreated \/ OpenFolder \/ WalkEntry
    \/ FileProbed \/ FileReplacing \/ UploadFile \/ FileReplaced \/ FileUploaded \/ RecordFile
    \/ FolderDone \/ WalkDone

Watch ==
    \/ Poll \/ CheckPath \/ PathDeleted \/ ParentUpdated \/ CheckDone
    \/ ScanEntry \/ FolderMade \/ FileRemoved \/ FileSaved \/ EncodeFile
    \/ NextEntry \/ ScanPop

=============================================================================
