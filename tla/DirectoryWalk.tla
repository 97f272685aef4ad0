--------------------------- MODULE DirectoryWalk ---------------------------
(***************************************************************************)
(* FileWatcher::initialization (client/FileWatcher.cpp): a pool of worker  *)
(* threads walks the watched folder.  The folders still to be visited are  *)
(* in a blocking FIFO queue, class Jobs<T>; the atomic counter             *)
(* count_leaves says when the queue may be closed.  A worker that takes a  *)
(* folder probes it on the server (and backs it up when the server does    *)
(* not have it), records it in paths_, treats its files and puts its       *)
(* sub-folders into the queue.                                             *)
(*                                                                         *)
(* A step is what a thread does between two operations the other threads   *)
(* can observe: one critical section of Jobs::qm or mutex_paths_, one      *)
(* operation on count_leaves, one request to the server.  The watched tree *)
(* does not change during the walk (FileWatcher.tla lets the user change   *)
(* it); the contents of the files are left to that module too, so here the *)
(* server has an entry, has a file with another content, or does not have  *)
(* it.  What the server has outside the tree is left out: the probe of a   *)
(* folder removes it (backup.cpp:118-132), which is all it changes.        *)
(***************************************************************************)
EXTENDS Naturals, Sequences, FiniteSets

CONSTANTS
    Dir,        \* the folders of the watched tree
    File,       \* its regular files
    Root,       \* the watched path
    Children,   \* Children[d]: the files and folders directly inside d
    Worker,     \* the threads started by initialization
    Faulty      \* the entries whose requests may end in an ExceptionBackup

Entry == Dir \cup File

ASSUME EntryAssumption == Dir \cap File = {} /\ Root \in Dir /\ Faulty \subseteq Entry

ASSUME ChildrenAssumption ==
    /\ Children \in [Dir -> SUBSET (Entry \ {Root})]
    /\ \A d \in Dir : IsFiniteSet(Children[d])
    /\ \A d, e \in Dir : d # e => Children[d] \cap Children[e] = {}

\* Every entry is reached from the root by going to children.
ASSUME ReachableAssumption ==
    \A S \in SUBSET Entry :
        (Root \in S /\ \A d \in S \cap Dir : Children[d] \subseteq S) => S = Entry

\* std::thread::hardware_concurrency() may also be 0: see the README.
ASSUME WorkerAssumption == Worker # {} /\ IsFiniteSet(Worker)

VARIABLES
    jobs,           \* Jobs::jobs, the FIFO queue
    active,         \* Jobs::active
    count_leaves,   \* the atomic counter of open branches
    paths,          \* FileWatcher::paths_, the entries recorded so far
    stored,         \* the entries the server has
    stale,          \* the files among them that have another content there
    pc,             \* where each worker is
    path_entry,     \* the folder each worker is visiting (local variable)
    unread,         \* what is left of its directory_iterator, and the file it treats
    directories,    \* the sub-folders it has seen in it (local variable)
    child,          \* the sub-folder it is about to put into the queue
    file,           \* the file it treats
    terminated      \* an exception left a thread: std::terminate()

vars == <<jobs, active, count_leaves, paths, stored, stale, pc, path_entry, unread,
          directories, child, file, terminated>>

queueVars == <<jobs, active>>
serverVars == <<stored, stale>>
localVars == <<path_entry, unread, directories, child, file>>

\* The worker treats a file: probe_file, with its delete_path and backup_file if
\* the digests differ, backup_file if there is none, and paths_.
Treating == {"probefile", "deletefile", "resendfile", "backupfile", "watchfile"}

\* The worker reads its path_entry.
Reading == Treating \cup {"scan", "put"}

\* The worker is visiting its path_entry.
Visiting == Reading \cup {"probe", "backup", "watch", "leaf", "check", "end"}

PC == {"get", "wait", "exited"} \cup Visiting

Queued == {jobs[i] : i \in 1 .. Len(jobs)}

(***************************************************************************)
(* Initially the root is in the queue and counted, and every worker is     *)
(* about to call Jobs::get.  The server has any part of the tree that is   *)
(* closed under parents, the user's own folder included                    *)
(* (configuration::prepare_environment), and any content in its files.     *)
(***************************************************************************)
ParentClosed(S) == \A d \in Dir : Children[d] \cap S # {} => d \in S

Init ==
    /\ jobs = <<Root>>
    /\ active = TRUE
    /\ count_leaves = 1
    /\ paths = {}
    /\ stored \in {S \in SUBSET Entry : Root \in S /\ ParentClosed(S)}
    /\ stale \in SUBSET (stored \cap File)
    /\ pc = [w \in Worker |-> "get"]
    /\ path_entry = [w \in Worker |-> Root]
    /\ unread = [w \in Worker |-> {}]
    /\ directories = [w \in Worker |-> 0]
    /\ child = [w \in Worker |-> Root]
    /\ file = [w \in Worker |-> Root]
    /\ terminated = FALSE

-----------------------------------------------------------------------------
(* The class Jobs<T>.                                                      *)

\* Mutant: front() without pop_front().
GetJobKeeps(w) ==
    /\ pc[w] = "get"
    /\ jobs # <<>>
    /\ path_entry' = [path_entry EXCEPT ![w] = Head(jobs)]
    /\ directories' = [directories EXCEPT ![w] = 0]
    /\ pc' = [pc EXCEPT ![w] = "probe"]
    /\ UNCHANGED <<queueVars, count_leaves, paths, serverVars, unread, child, file, terminated>>

\* get() returns the job at the front of the queue.
GetJob(w) ==
    /\ pc[w] = "get"
    /\ jobs # <<>>
    /\ path_entry' = [path_entry EXCEPT ![w] = Head(jobs)]
    /\ jobs' = Tail(jobs)
    /\ directories' = [directories EXCEPT ![w] = 0]
    /\ pc' = [pc EXCEPT ![w] = "probe"]
    /\ UNCHANGED <<active, count_leaves, paths, serverVars, unread, child, file, terminated>>

\* get() finds nothing to do and waits on the condition variable not_empty.
GetWait(w) ==
    /\ pc[w] = "get"
    /\ jobs = <<>>
    /\ active
    /\ pc' = [pc EXCEPT ![w] = "wait"]
    /\ UNCHANGED <<queueVars, localVars, count_leaves, paths, serverVars, terminated>>

\* Mutant: get() looks at active before it looks at the queue.
GetNothingIfClosed(w) ==
    /\ pc[w] = "get"
    /\ ~active
    /\ pc' = [pc EXCEPT ![w] = "exited"]
    /\ UNCHANGED <<queueVars, localVars, count_leaves, paths, serverVars, terminated>>

\* Mutant: the loop of the thread goes on when get() returns no value.
GetNothingContinues(w) ==
    /\ pc[w] = "get"
    /\ jobs = <<>>
    /\ ~active
    /\ UNCHANGED vars

\* get() returns no value once the queue is empty and closed: the thread ends.
GetNothing(w) ==
    /\ pc[w] = "get"
    /\ jobs = <<>>
    /\ ~active
    /\ pc' = [pc EXCEPT ![w] = "exited"]
    /\ UNCHANGED <<queueVars, localVars, count_leaves, paths, serverVars, terminated>>

Waiting == {w \in Worker : pc[w] = "wait"}

\* put(job): append, then notify_one wakes up one of the waiting threads.
Put(w) ==
    /\ pc[w] = "put"
    /\ jobs' = Append(jobs, child[w])
    /\ \/ /\ Waiting = {}
          /\ pc' = [pc EXCEPT ![w] = "scan"]
       \/ \E v \in Waiting : pc' = [pc EXCEPT ![w] = "scan", ![v] = "get"]
    /\ UNCHANGED <<active, localVars, count_leaves, paths, serverVars, terminated>>

\* Mutant: notify_one instead of notify_all.
EndedNotifyOne(w) ==
    /\ pc[w] = "end"
    /\ active' = FALSE
    /\ \/ Waiting = {} /\ pc' = [pc EXCEPT ![w] = "get"]
       \/ \E v \in Waiting : pc' = [pc EXCEPT ![w] = "get", ![v] = "get"]
    /\ UNCHANGED <<jobs, localVars, count_leaves, paths, serverVars, terminated>>

\* ended(): close the queue and notify_all.
Ended(w) ==
    /\ pc[w] = "end"
    /\ active' = FALSE
    /\ pc' = [v \in Worker |-> IF v = w \/ pc[v] = "wait" THEN "get" ELSE pc[v]]
    /\ UNCHANGED <<jobs, localVars, count_leaves, paths, serverVars, terminated>>

-----------------------------------------------------------------------------
(* The body of the worker threads.                                         *)

\* Mutant: the result of probe_folder is ignored.
ProbeFolderOnly(w) ==
    /\ pc[w] = "probe"
    /\ pc' = [pc EXCEPT ![w] = "watch"]
    /\ UNCHANGED <<queueVars, localVars, count_leaves, paths, serverVars, terminated>>

\* probe_folder(path_entry): the server answers whether it has the folder.
ProbeFolder(w) ==
    /\ pc[w] = "probe"
    /\ pc' = [pc EXCEPT ![w] = IF path_entry[w] \in stored THEN "watch" ELSE "backup"]
    /\ UNCHANGED <<queueVars, localVars, count_leaves, paths, serverVars, terminated>>

\* backup_folder(path_entry), when the probe failed.
BackupFolder(w) ==
    /\ pc[w] = "backup"
    /\ stored' = stored \cup {path_entry[w]}
    /\ pc' = [pc EXCEPT ![w] = "watch"]
    /\ UNCHANGED <<queueVars, localVars, count_leaves, paths, stale, terminated>>

\* Mutant: the folder itself is not recorded in paths_.
WatchOnlyContent(w) ==
    /\ pc[w] = "watch"
    /\ unread' = [unread EXCEPT ![w] = Children[path_entry[w]]]
    /\ pc' = [pc EXCEPT ![w] = "scan"]
    /\ UNCHANGED <<queueVars, path_entry, directories, child, file, count_leaves, paths,
                   serverVars, terminated>>

\* paths_[path_entry] = last_write_time, then the directory_iterator is opened.
WatchFolder(w) ==
    /\ pc[w] = "watch"
    /\ paths' = paths \cup {path_entry[w]}
    /\ unread' = [unread EXCEPT ![w] = Children[path_entry[w]]]
    /\ pc' = [pc EXCEPT ![w] = "scan"]
    /\ UNCHANGED <<queueVars, path_entry, directories, child, file, count_leaves,
                   serverVars, terminated>>

\* The iterator is at a regular file.
ScanFile(w) ==
    /\ pc[w] = "scan"
    /\ \E f \in unread[w] \cap File : file' = [file EXCEPT ![w] = f]
    /\ pc' = [pc EXCEPT ![w] = "probefile"]
    /\ UNCHANGED <<queueVars, path_entry, unread, directories, child, count_leaves, paths,
                   serverVars, terminated>>

\* Mutant: any answer 200 OK will do, whatever digest is in it.
ProbeFileExists(w) ==
    /\ pc[w] = "probefile"
    /\ pc' = [pc EXCEPT ![w] = IF file[w] \in stored THEN "watchfile" ELSE "backupfile"]
    /\ UNCHANGED <<queueVars, localVars, count_leaves, paths, serverVars, terminated>>

\* probe_file: the digests are compared, or the server has no such file.
ProbeFile(w) ==
    /\ pc[w] = "probefile"
    /\ pc' = [pc EXCEPT ![w] = CASE file[w] \notin stored -> "backupfile"
                                 [] file[w] \in stale     -> "deletefile"
                                 [] OTHER                 -> "watchfile"]
    /\ UNCHANGED <<queueVars, localVars, count_leaves, paths, serverVars, terminated>>

\* Its delete_path.
DeleteFile(w) ==
    /\ pc[w] = "deletefile"
    /\ stored' = stored \ {file[w]}
    /\ stale' = stale \ {file[w]}
    /\ pc' = [pc EXCEPT ![w] = "resendfile"]
    /\ UNCHANGED <<queueVars, localVars, count_leaves, paths, terminated>>

\* backup_file: by probe_file, which then probes again, or after it.
BackupFile(w) ==
    /\ pc[w] \in {"resendfile", "backupfile"}
    /\ stored' = stored \cup {file[w]}
    /\ stale' = stale \ {file[w]}
    /\ pc' = [pc EXCEPT ![w] = IF pc[w] = "resendfile" THEN "probefile" ELSE "watchfile"]
    /\ UNCHANGED <<queueVars, localVars, count_leaves, paths, terminated>>

\* paths_[p] = last_write_time, and on with the iterator.
WatchFile(w) ==
    /\ pc[w] = "watchfile"
    /\ paths' = paths \cup {file[w]}
    /\ unread' = [unread EXCEPT ![w] = @ \ {file[w]}]
    /\ pc' = [pc EXCEPT ![w] = "scan"]
    /\ UNCHANGED <<queueVars, path_entry, directories, child, file, count_leaves, serverVars,
                   terminated>>

\* Mutant: a branch is counted from the third sub-folder.
ScanDirectoryFromThree(w) ==
    /\ pc[w] = "scan"
    /\ \E d \in unread[w] \cap Dir :
        /\ child' = [child EXCEPT ![w] = d]
        /\ unread' = [unread EXCEPT ![w] = @ \ {d}]
    /\ directories' = [directories EXCEPT ![w] = @ + 1]
    /\ count_leaves' = IF directories[w] + 1 >= 3 THEN count_leaves + 1 ELSE count_leaves
    /\ pc' = [pc EXCEPT ![w] = "put"]
    /\ UNCHANGED <<queueVars, path_entry, file, paths, serverVars, terminated>>

\* A sub-folder: the second and later ones of a folder open a new branch.
ScanDirectory(w) ==
    /\ pc[w] = "scan"
    /\ \E d \in unread[w] \cap Dir :
        /\ child' = [child EXCEPT ![w] = d]
        /\ unread' = [unread EXCEPT ![w] = @ \ {d}]
    /\ directories' = [directories EXCEPT ![w] = @ + 1]
    /\ count_leaves' = IF directories[w] + 1 >= 2 THEN count_leaves + 1 ELSE count_leaves
    /\ pc' = [pc EXCEPT ![w] = "put"]
    /\ UNCHANGED <<queueVars, path_entry, file, paths, serverVars, terminated>>

\* Mutant: every folder, not only a leaf, closes a branch.
EndScanAlwaysLeaf(w) ==
    /\ pc[w] = "scan"
    /\ unread[w] = {}
    /\ pc' = [pc EXCEPT ![w] = "leaf"]
    /\ UNCHANGED <<queueVars, localVars, count_leaves, paths, serverVars, terminated>>

\* The iterator is at its end.
EndScan(w) ==
    /\ pc[w] = "scan"
    /\ unread[w] = {}
    /\ pc' = [pc EXCEPT ![w] = IF directories[w] = 0 THEN "leaf" ELSE "check"]
    /\ UNCHANGED <<queueVars, localVars, count_leaves, paths, serverVars, terminated>>

\* A folder without sub-folders closes its branch: count_leaves.fetch_sub(1).
CloseBranch(w) ==
    /\ pc[w] = "leaf"
    /\ count_leaves' = count_leaves - 1
    /\ pc' = [pc EXCEPT ![w] = "check"]
    /\ UNCHANGED <<queueVars, localVars, paths, serverVars, terminated>>

\* if (count_leaves.load() == 0) jobs.ended();  then back to jobs.get().
CheckLeaves(w) ==
    /\ pc[w] = "check"
    /\ pc' = [pc EXCEPT ![w] = IF count_leaves = 0 THEN "end" ELSE "get"]
    /\ UNCHANGED <<queueVars, localVars, count_leaves, paths, serverVars, terminated>>

(***************************************************************************)
(* A request ends in an ExceptionBackup.  No function on the worker's      *)
(* stack catches it, so it leaves the thread: std::terminate() ends the    *)
(* client, and the catch clauses around initialization() never see it.     *)
(***************************************************************************)
RequestFails(w) ==
    /\ \/ pc[w] \in {"probe", "backup"} /\ path_entry[w] \in Faulty
       \/ pc[w] \in Treating \ {"watchfile"} /\ file[w] \in Faulty
    /\ terminated' = TRUE
    /\ UNCHANGED <<queueVars, localVars, count_leaves, paths, serverVars, pc>>

-----------------------------------------------------------------------------

Step(w) ==
    /\ ~terminated
    /\ \/ GetJob(w) \/ GetWait(w) \/ GetNothing(w) \/ Put(w) \/ Ended(w)
       \/ ProbeFolder(w) \/ BackupFolder(w) \/ WatchFolder(w)
       \/ ScanFile(w) \/ ProbeFile(w) \/ DeleteFile(w) \/ BackupFile(w) \/ WatchFile(w)
       \/ ScanDirectory(w) \/ EndScan(w)
       \/ CloseBranch(w) \/ CheckLeaves(w) \/ RequestFails(w)

\* initialization() has joined all its threads and returns.
Returned == \A w \in Worker : pc[w] = "exited"

\* The walk is over, one way or the other: nothing more happens.
Over == (Returned \/ terminated) /\ UNCHANGED vars

Next == Over \/ \E w \in Worker : Step(w)

\* The operating system keeps scheduling every thread that can run.
Spec == Init /\ [][Next]_vars /\ \A w \in Worker : WF_vars(Step(w))

-----------------------------------------------------------------------------
(* Properties.                                                             *)

\* The variables have the types of their declarations; in particular the
\* atomic<int> count_leaves never becomes negative.
TypeOK ==
    /\ jobs \in Seq(Dir)
    /\ active \in BOOLEAN
    /\ count_leaves \in Nat
    /\ paths \subseteq Entry
    /\ stored \subseteq Entry /\ stale \subseteq stored
    /\ pc \in [Worker -> PC]
    /\ path_entry \in [Worker -> Dir]
    /\ unread \in [Worker -> SUBSET Entry]
    /\ directories \in [Worker -> Nat]
    /\ child \in [Worker -> Dir]
    /\ file \in [Worker -> Entry]
    /\ terminated \in BOOLEAN

\* When initialization returns, every file and folder of the tree has been
\* visited, even if ended() closed the queue while folders were still to come.
WalkComplete == Returned => paths = Entry

\* "safe because only a thread will receive that path" (FileWatcher.cpp:112):
\* a folder waits in the queue at most once, is visited by at most one thread,
\* and never both; a folder that was visited does not come back.
EachFolderOnce ==
    /\ \A i, j \in 1 .. Len(jobs) : jobs[i] = jobs[j] => i = j
    /\ \A w, v \in Worker :
          (pc[w] \in Visiting /\ pc[v] \in Visiting /\ path_entry[w] = path_entry[v]) => w = v
    /\ \A w \in Worker : pc[w] \in Visiting => path_entry[w] \notin Queued
    /\ Queued \cap paths = {}

\* The branches a worker keeps open: its own folder, as long as no sub-folder
\* was found in it, or the sub-folder it has counted and not yet queued.
OpenBranch ==
    {w \in Worker : \/ pc[w] \in {"probe", "backup", "watch", "put", "leaf"}
                    \/ pc[w] \in Treating \cup {"scan"} /\ directories[w] = 0}

\* count_leaves is, at every instant, the number of branches still open: the
\* queued folders and the ones held by a worker.
CountIsOpenBranches == count_leaves = Len(jobs) + Cardinality(OpenBranch)

\* No thread waits for a notification nobody is left to send: were all threads
\* waiting or gone, join() in initialization would never return.
NoStuckWait ==
    (\A w \in Worker : pc[w] \in {"wait", "exited"}) => Returned

\* The server gets a folder before anything in it, whatever the interleaving:
\* its create_directory and ofstream need the parent to exist.
ParentFirst == ParentClosed(stored)

\* What is recorded in paths_, which no poll will send again unless it changes, is
\* on the server as it is: no thread records before its requests have been
\* answered, or takes away on the server what another one has recorded.
RecordedIsSaved == paths \subseteq stored \ stale

\* What the requests a worker has sent, or is about to send, may change, and what
\* they need: the entries and the folders these are in.
Target(w) ==
    CASE pc[w] \in {"probe", "backup"}        -> {path_entry[w]}
      [] pc[w] \in Treating \cup {"scan"}     -> unread[w] \cap File
      [] OTHER                                -> {}

Changes(w) == IF pc[w] = "probe" THEN {} ELSE Target(w)

Needs(w) == Target(w) \cup {d \in Dir : Children[d] \cap Target(w) # {}}

\* No two workers ever have requests that depend on each other, so the server's
\* threads, which take no locks on the tree, may treat them in any interleaving
\* (ConcurrentStorage.tla: Apart).
RequestsApart == \A w, v \in Worker : w # v => Changes(w) \cap Needs(v) = {}

\* The walk ends: initialization returns or an exception ends the client.
WalkEnds == <>(Returned \/ terminated)

\* The pool of threads does what a loop over the tree would do.
Walk == INSTANCE WatchAll WITH watched <- paths, returned <- Returned
WatchesAll == Walk!Spec

\* "if counter of leaf directories is 0 means that all the tree has been
\* visited, so stop the jobs queue" (FileWatcher.cpp:156-157).
ClosedMeansVisited == ~active => paths = Entry

\* "server error or connection lost" (FileWatcher.cpp:71): a request that fails
\* during initialization reaches the catch clause of the constructor.
FailureReachesCaller == ~terminated
=============================================================================
