# Verification of the remote backup client and server

TLA+ models of this repository: a C++ client that watches a folder and a C++
server that keeps a copy of it. The modules are translated from the code in
`src/client` and `src/server`; the line ranges each definition stands for are in
`PROJECT.json` ("map"). Paths below are relative to `src/`.

## 1. The system

| Part | State it keeps | Operations | Talks to |
|---|---|---|---|
| `FileWatcher` (client/FileWatcher.cpp) | `paths_`: path -> last write time; `retry` | `initialization()` (walk), `start()` (poll every 5 s), `check_connection_and_retry()` | file system, client requests |
| `Jobs<T>` (client/FileWatcher.cpp) | FIFO of folders, `active` | `put`, `get` (blocks), `ended` | the threads of `initialization()` |
| client requests (client/client.cpp, backup.cpp) | none; reads the folder | probe / backup / delete, login, logout | one HTTP session per request |
| client `Session` (client/Session.cpp) | one connection, timers of 60 s | resolve, connect, write, read | server |
| client `main`, signal handler | `configuration::token` | login, watch, logout on a signal | all of the above |
| `Listener`, `Session` (server) | sockets, a strand each | accept, read one request, answer, close | `handle_request` |
| `handle_request` (server/server.h) | none | login, authorization, dispatch | storage, authorization |
| storage (server/backup.cpp) | one folder per user | `save_file`, `new_directory`, `probe_directory`, `get_file_digest`, `backup_delete` | file system |
| authorization (server/authorization.cpp, dao.cpp) | table `users`: name, hash, token | verify, create, save, clear tokens | sqlite |
| server `main` | `io_context`, `nthreads` threads | start, clean shutdown (stop, delete all tokens) | all of the above |

How they work together. The client logs in, walks the folder with one thread per
core (each folder is *probed*, which also removes from the server what the client
no longer has; each file is probed by its digest and sent if it is missing or
different), and then polls: a first loop deletes what is gone, a second one
sends what is new or has another write time. Each request has a connection of its
own and carries the token. The server's threads share the file system and sqlite
and nothing else.

### What is hard here, and what makes each part correct

* **Walk.** The queue is closed by a counter that several threads change, and
  folders are produced by the threads that consume them. Correct: the walk ends,
  visits everything, each folder by one thread, a parent before its children.
* **Poll and walk against the user.** The user edits between any two accesses of
  the client. Correct: what `paths_` has with the current write time is really on
  the server, since nothing else would ever send it; after the last edit the two
  folders become equal.
* **Failures.** The server may be killed between two requests, an answer may come
  too late, a request the client has given up may still be executed. Correct: a
  walk repairs whatever has happened before it.
* **Storage.** Requests meet a tree other than the one the client had in mind, and
  threads that work in the same folder. Correct: the process survives them, and
  requests that have nothing to do with each other do not disturb each other.
* **Connections.** Either end may go without a word at any point of two chains of
  callbacks, and threads and descriptors are few. Correct: a request is executed at
  most once, nobody waits for ever, no session stays for ever.
* **The interface.** Two programs agree on targets, methods, JSON keys and the
  escaping of names by hand; anybody may send anything. Correct: the client is
  understood, what is refused changes nothing, no path leaves the user's folder.
* **Tokens.** Handlers of several threads interleave between any two database
  calls, with logouts, shutdowns and kills. Correct: a token stays with its user,
  a request acts for its sender, a confirmed logout is final, and a token that is gone
  from the database does not come back.
* **Start and end.** A signal interrupts the client anywhere, and its handler makes a
  request; a start of the server may be cut short, and nothing locks table and folders.
  Correct: the client ends and its token is revoked; who can log in has a folder.

The hazards, each at its line and with the properties that look after it, are in
`PROJECT.json` ("hazards").

## 2. The modules

| Module | What it is |
|---|---|
| `WatchAll` | abstract: what `initialization()` promises, with no threads, queue or counter |
| `DirectoryWalk` | the threads of `initialization()`, `Jobs<T>`, `count_leaves`; implements `WatchAll` |
| `DirectoryWalkProofs` | proofs about `DirectoryWalk`, and that it implements `WatchAll` |
| `FileTree` | a directory tree as `std::filesystem` shows it (no variables) |
| `Storage` | the storage functions and the dispatch to them, as operators on a tree: new tree and status |
| `StorageProofs` | lemmas about trees and the operators of `Storage`, for the three proof modules that extend it |
| `FileWatcher` | `initialization()` with one worker, `start()`, `check_connection_and_retry()`, and the requests they make |
| `Mirror` | abstract: what the client promises its user, with no walk, poll, request or fault |
| `BackupSystem` | composition: user, client (`FileWatcher`), connections, server (`Storage`); implements `Mirror` |
| `BackupSystemProofs` | proofs about `BackupSystem` and the `FileWatcher` in it, and that it implements `Mirror` |
| `Authorization` | tokens: login, check, logout, shutdown, as steps between database calls |
| `AuthorizationProofs` | proofs about `Authorization` |
| `Exchange` | abstract: what a request over a connection of its own amounts to |
| `Sessions` | both chains of callbacks, the accept loop, timers, threads and descriptors; implements `Exchange` |
| `SessionsProofs` | proofs about `Sessions`, and that it implements `Exchange` |
| `Api` | `handle_request` for any message, and the messages the client makes |
| `PathNames` | the escaping of spaces and the check for `..`, for one name on its way |
| `AtomicStorage` | abstract: the operations of `Storage`, each at one moment, for several handlers |
| `ConcurrentStorage` | the storage functions as calls of the file system; implements `AtomicStorage` |
| `ConcurrentStorageProofs` | proofs about `ConcurrentStorage`, and that it implements `AtomicStorage` |
| `ClientProcess` | `main()` of the client, the signal handler and the lock of the heap |
| `ClientProcessProofs` | proofs about `ClientProcess` |
| `ServerStart` | how the server comes up: configuration, table of users, folders |
| `Server` | composition: `ServerStart` brings it up, `Api` answers, until something ends it |
| `ServerProofs` | proofs about `Server`, `ServerStart` and `Api`, and about `PathNames` |
| `MC...` | constants for TLC |

A proof module extends the one it is about; the other modules contain no proof.
`BackupSystem` composes `FileWatcher` and `Storage`; `Server` composes `ServerStart` and `Api`, which
extends `Storage` and states that the client's messages are its operations. What each module takes for granted, another one
shows: `BackupSystem` that a request is executed at most once (`Exchange`, from `Sessions`),
that storage is atomic (`RequestsApart` of `DirectoryWalk` and `IsAtomic` of
`ConcurrentStorage`), that a message means what the client means (`Api`, `PathNames`), that
the user has a folder (`Server`).

### DirectoryWalk

A step is what a thread does between two operations that others can observe: a
critical section of `qm` or `mutex_paths_`, an operation on `count_leaves`, a
request. `pc` is the place in the lambda (FileWatcher.cpp:107-166); `path_entry`,
`directories` are its local variables, `unread` the rest of its
`directory_iterator` and `file` the file it is at. `probe_file` is a request of its own,
and so are the deletion and the upload it makes when the digests differ, after which it
probes again. `get()` is three actions (a job, nothing yet: wait, closed:
leave); `notify_one` wakes any one waiting thread and `notify_all` all of them. A
failing request sets `terminated`: nothing on the thread's stack catches the
exception.

Each file and folder is on the server or not (`stored`), and a file is there as it is or outdated
(`stale`); contents are in `BackupSystem`. What a folder probe removes from the server is not
in the client's tree, so it does not appear here. The tree does not change during this
walk; it does in `BackupSystem`.

### FileTree, Storage, FileWatcher, Mirror, BackupSystem

`local` and `remote` are functions from relative paths to a content, `Folder` or
`Absent`. The n-th edit of the user makes content n, and the same number stands for
the last write time and the digest: two edits give two times and two digests. The
write time of a folder is only ever copied, so a folder has one value. The
status `"terminated"` of a storage operation is an exception that leaves
`io_context::run()`.

`FileWatcher` has one action per access to the user's folder and per request sent
or answered; `pc` names the place: walk (`take` .. `record`), first loop (`check`,
`deleting`, `parent`), second loop (`scan` .. `next`), `sleep`, `retry`, or `off`. `paths` has
one key more than there are paths: `Alias`, the watched folder without the trailing
slash of `backup_path` (configuration.cpp:59-64), which line 213 computes as the
parent of what is directly in it. An `ExceptionBackup` in the walk, and any error of
the local file system, ends the client (`Die`); in a poll an `ExceptionBackup` leads to
the 30 s pause and a new walk (`Retry`).

In `BackupSystem`, `Serve` is a request read, executed and answered; `Timeout` a
request given up by the client while the server still has it (`late`): it may be executed
later (`ServeLate`) or never (`DropLate`). The client does not wait for that: when it walks
again, after 30 s or because somebody starts it, what is left of such requests becomes `stray`, and each may be
executed at any time during this walk and the polls after it (`ServeStray`, `DropStray`). Then `disturbed` is set,
until the next walk begins: what the client knows of the server is right no more, and it has no means of noticing.
The properties are about the time that is not disturbed; `MCStrayRequest` (section 4) shows why.
`ServerCrash` and `ServerStart` may happen between any two requests.

`Mirror` is what is left of this when one only looks at the user's folder, the copy and the
paths that count as sent. `BackupSystem` implements it with `folder <- local`, `copy <- remote` and
`sent <- Sent`, the paths that `paths_` has with their current write time: what the client will not
look at again before the user does. The steps of `Mirror` say what no request may do: touch what
counts as sent, or replace a content by an older one; and that only what is copied comes to
count. So whatever counts as sent is on the server, at every moment and not only after a walk. When the server
executes a stray request nothing counts as sent any more (`Interfere`), until the client starts anew.

### Authorization

`conn[c]` is a request and how far its handler has got: `sent`, `check` (login),
`save`, `auth` (other requests), `act` or `clear` (the operation), `answered`. One step
is one call to the database. At most `nthreads` handlers run. The signal handler of the
server occupies a thread, too; `ioc.stop()` and `deleteAllTokens()` are two steps.
Any number of clients run for a user. `kind = "guess"` is a login with a wrong
password. `Act` is any operation on the user's folder: `Storage` and `Api` have its effect and its
answers, here it only matters that it leaves the table alone. The empty token is in the row of every user who is logged out.

### Sessions, Exchange

`client[r]` is the callback the client's `Session` waits for, or how it has ended: an answer,
or the error type of the `ExceptionBackup`. `session[r]` is the server's end, from the
kernel's `backlog` over `accepted` (taken by `async_accept`, given to `on_accept`), `read`,
`handle` and `write` to `answered` or `closed`; `wire[r]` says whether the whole request has
been sent. `OnAccept`, `OnRead`, `OnWrite` and the timers need a free thread, `handle_request`
keeps one. A timer (`WriteFails`, `ReadFails`, `SessionExpires`) may expire at any time. `Kill` says
nothing to the clients. An `accept` fails when no descriptor is left or the constructor of
`Listener` has failed. `Exchange` has per request whether it was executed and what the
client may conclude: `answer`, `unsent` (no connection) or `uncertain`.

### ServerStart, Api, Server, PathNames

A message is a record of method, target, path, header and body; a body is `NoJson` or a
record, whose domain is the keys that are there. `ending` is how the path is spelled: as it
is, with a slash at the end, or with a last component `.`; what each call of server/backup.cpp makes of
that is in the operators that end in `As`. `dots` is a `..` in the target, which a name of the client may have
(`Dotted`, as in `a..b`). `Respond` gives the new tree, token and
status in the order of the checks of server.h:94-236. The database may fail (`found`,
`saved`). One message is handled at a time; the interleaving is in `Authorization` and
`ConcurrentStorage`.

In `ServerStart`, `todo` are the rows whose folder is still to be made; `End` is every way of
not getting further. Somebody may edit the table and remove folders at any time (`Administer`); `lost` are the users
who have no folder because of that, or because of a request, since the table was read.
`Server` ties the two together: messages come while the process is serving, an exception of
`handle_request` is an `End`, `tree` is the folder of the user that `ServerStart` makes, and
`token` the column of the user's row.

`PathNames` keeps the characters that mean something: space, `%`, `2`, `0`, `.`, `/`; `2` also
stands for all others. A step is one replacement, of the first space or `%20` that is left, in the loop of the
client (client.cpp:54) or of the server (server.cpp:10), or the check between the two.

### AtomicStorage, ConcurrentStorage

`AtomicStorage` has `Begin`, `Execute` (all of `Storage`'s operation) and `Reply` per handler.
In `ConcurrentStorage` a step is one call that opens, writes, reads, creates or removes.
`Partial` is a file opened with `trunc` and not written yet, `fd` whether its name is
still in the folder, `stack` the folders `remove_all` (or the loop of `probe_directory`) is
in. `Together` says which requests may be under way at the same time: `Apart`, if neither
changes what the other one needs (its path and the folder this is in), or any two. The refinement
counts a request as done when its file is opened or its folder read (`Seen`).

### ClientProcess

`main` is where `main()` is, `worker` the threads of the walk, `heap` who holds malloc's lock,
`handler` and `victim` the signal handler and the thread it runs on. `token` is
`configuration::token`, `row` whether the server has it. Requests of walk and poll are
accepted or not.

## 3. The runs

| Run | Module, cfg | Shows |
|---|---|---|
| `directory_walk` | MCDirectoryWalk, MCDirectoryWalk | types (the counter is never negative), `WalkComplete`, `EachFolderOnce`, `CountIsOpenBranches`, `NoStuckWait`, `ParentFirst`, `RecordedIsSaved`, `RequestsApart`, `WalkEnds`, refinement of `WatchAll` |
| `polls` | MCBackupSystem, MCPolls | types (both sides remain trees), `RecordedIsStored`, `StoredIsKnown`, `ServerSurvives`, `WalkSynchronizes`, `Converges`, refinement of `Mirror` |
| `tokens` | MCAuthorization, MCAuthorization | types, `ActsAsOwner`, `TokenOfOneUser`, `LogoutFinal`, `RevokedForGood` |
| `sessions` | MCSessions, MCSessions | types (threads and descriptors are not exceeded), refinement of `Exchange`, `RequestEnds`, `SessionsEnd` |
| `server` | MCServer, MCServer | types (the tree stays a tree, or is gone), `ServedHaveFolder`, `ClientIsUnderstood`, `RefusedChangesNothing`, `ChangesAreAuthorised` |
| `path_names` | PathNames, MCPathNames | types, `NoTraversal`, `NameArrives` |
| `concurrent_storage` | MCConcurrentStorage, MCConcurrentStorage | types (a tree between any two calls), refinement of `AtomicStorage` |
| `client_process` | ClientProcess, MCClientProcess | types, `TokenRevoked`, `SignalEnds` |
| `failure_in_worker`, `server_terminates`, `walk_race`, `root_cancellation` | see section 4 | end in a violation: what a comment or document of the repository says is not what the code does |

Bounds, and why they are enough:

* `directory_walk`: three threads (one reads a folder, one closes a branch, one
  waits), four folders (root with two sub-folders, one of which has one
  sub-folder: both kinds of counting, and a chain) and two files; requests on one folder
  and one file may fail; every parent-closed content of the server, with any of its files
  outdated. What is safe
  here is proved for all trees and numbers of threads (section 5).
* `polls`: folders `d` and `d/e`, files `f` and `d/g`: a nested folder, a file next to
  and one inside a folder. All trees over these names on both sides at the start, two
  edits after the first state (`MaxVersion` 3) and one fault (`MaxFaults` 1), at any
  points. Two edits are what a race needs: one that is being sent and one that
  overtakes it. One fault leaves a request that the server executes before, during or after the next
  walk, or a poll that the server's end cuts short; what several faults do to the safety properties is proved.
* `tokens`: two users, one of whom runs two clients, two connections and threads, three
  tokens. Ownership concerns two users, replacing and overtaking two tokens of one
  user; a third token lets a login follow a logout. Connections are symmetric.
* `sessions`: three requests for one thread and two descriptors, so that both run out: one
  request is handled, one waits for the thread, one for a descriptor. One of the three makes
  `handle_request` throw. Kills and restarts are not bounded.
* `server`: all trees over the root, a folder and a file in it, and all messages over two names, two
  passwords, three tokens, three spellings of each path and every set of keys the code asks for: the checks look at
  nothing else. A fourth path has a `..` in its name. A path or a body that nobody looks at is left out
  (`Message`), and the two tokens that are not empty are symmetric. Two users, so that a start can be cut short between
  two folders; starts, ends and changes of table and folders are not bounded.
* `path_names`: all names up to five characters: `..` between slashes needs four, an escaped
  sequence three, and two of them overlap in five (`%%20`, `.%20.`, `%2020`).
* `concurrent_storage`: two handlers, a folder with a file and a sub-folder: `remove_all` descends, and
  something can happen behind, at and before its place. Any two requests that are `Apart`, of all
  operations; those that are not can end the server (section 4, `MCDeleteAnswers`).
* `client_process`: two threads of the walk: the one the signal interrupts and one that goes on.
  The signal may interrupt a thread inside malloc, and then the handler waits for ever (section 4,
  `MCHandlerInHeap`): the system may stop, so deadlock is not checked (`CHECK_DEADLOCK FALSE`), and `SignalEnds`
  is about all other signals.

`polls` has three restrictions, because of flaws that the counterexamples of section 4 show: `QuietAt` (the
user does not edit during a walk: `walk_race`), `ReuseNames = FALSE` (no folder is made at a
path that the client knows, or that has something known inside: `MCParentUpdate`,
`server_terminates`), and `FileName` and `FolderName` without a common path (nothing is a
file at one time and a folder at another: `MCFolderToFile`, `MCFileOnServer`).
Each of these lifts a restriction, with smaller trees and no faults. They are also the
hypotheses of the theorems (`UsualNames`).

Fairness. `DirectoryWalk`: every thread that can run is scheduled; no fairness
between a thread's choices. `BackupSystem`: weak fairness of the client's thread,
of the server (it answers or the connection fails) and of the end of the 30 s
sleep. There is none for the user, for faults, for what the server does with requests that were given up, for restarting a
client that has ended or a server that is down; `Converges` is therefore conditional: *if* from
some time on client and server are up and nothing stray is executed (or a walk has begun after it was), *then* the
folders become equal.
`Sessions`: threads are scheduled, timers expire, name look-ups end, and the kernel hands over
a connection it has; an end that has been closed need not be noticed by the other one,
and nobody need start the server again. `ClientProcess`: a thread leaves malloc; the
handler gets a lock that is released again and again (strong fairness of `Announce`); the request of the
logout ends, which is `RequestEnds`. The other threads and the user need not do anything.
`Authorization`, `Server`, `PathNames` and `ConcurrentStorage` have safety properties only.

## 4. Where the code does something else than it says

Four of the runs end in a counterexample:

| Run | cfg, module | Property | In the code |
|---|---|---|---|
| `failure_in_worker` | MC_FailureReachesCaller, MCDirectoryWalk | `FailureReachesCaller` | FileWatcher.cpp:119 ff. throws in a worker thread: `std::terminate`. The catch clauses at :70 and :187 never run, `retry` never changes. |
| `server_terminates` | MCServerTerminates, MCBackupSystem | `ServerSurvives` | server/backup.cpp:103: the user removes a folder and makes it again during a poll that is deleting it; the new one counts as known (`MCParentUpdate`) and is not sent, the first folder made in it is: `create_directory` throws for want of a parent, and the process ends. |
| `walk_race` | MCWalkRace, MCBackupSystem | `RecordedIsStored` | FileWatcher.cpp:139: the time is read after the upload. |
| `root_cancellation` | MCRootCancellation, MCServer | `RootStays` | server/server.h:279 refuses the empty path. `DELETE /backup//` has the path `/`: `get_abs_path` makes `<backuppath><user>//` of it, a folder, and `remove_all` (server/backup.cpp:149) removes all of it; the server goes on, and its user has no folder until the next start. With `/backup/.` the folder is emptied and cannot itself be removed, which throws. The client never sends either. |

The others met while modelling have a cfg as well, which is not among the runs; TLC finds
the violation with `tlc -config <cfg>.cfg <module>` (two of them have two properties; with `-continue`
TLC shows both):

| cfg, module | Property | In the code |
|---|---|---|
| MC_ClosedMeansVisited, MCDirectoryWalk | `ClosedMeansVisited` | FileWatcher.cpp:158: the counter is 0 while a thread has queued one sub-folder of a folder and not yet counted the next one and another thread finishes the first. The queue is closed early; nothing is lost (`WalkComplete`), fewer threads share the rest. |
| MCStrayRequest, MCBackupSystem | `EveryWalkSynchronizes` | FileWatcher.cpp:177-195: the client gives a request up, sleeps and walks again; the server executes what was given up during this walk, after the client has been there. The walk ends with a copy that differs, and no poll repairs it. |
| MCFolderToFile, MCBackupSystem | `RecordedIsStored` | FileWatcher.cpp:215: a file is put where a folder was; when the client deletes what was in the folder it records the file's write time for the parent, and never sends the file. |
| MCFileOnServer, MCBackupSystem | `ServerSurvives` | server/backup.cpp:103: where the client has made a folder, the server still has a file (one that became a folder while the client was off): the probe is answered NOT FOUND and `create_directory` throws, and the process ends. |
| MCKnownAfterWalk, MCBackupSystem | `StoredIsKnown` | FileWatcher.cpp:129: a file is deleted after the walk has sent its folder's children (:119) and before it lists them itself; the copy stays on the server, and no poll knows that there is something to delete. |
| MCParentUpdate, MCBackupSystem | `PollOnlyForgets` | FileWatcher.cpp:215: `operator[]` inserts the parent of a deleted path, when the parent was forgotten and made again in the same loop. |
| MCShutdown, MCAuthorization | `StopRevokesAll` | server/main.cpp:37-40: handlers on other threads are not waited for; a login saves its token after all have been deleted. (With one thread there is no such handler.) |
| MCBrokenListener, MCSessions | `CalledForConnection` | server/Listener.cpp:12-36, :75: a listener that could not be opened, bound or put to listen is not noticed; `on_accept` is called with an error again and again. |
| MCBadBodyAnswered, MCServer | `BadBodyAnswered` | server/server.h:167: `json::parse` throws outside of the `try`; the server ends. |
| MCForbiddenWithoutToken, MCServer | `ForbiddenWithoutToken` | server/server.h:150: 401, where README.md:23 has 403 (and :30 SERVER ERROR for a failed login, which is a 401 as well). |
| MCOtherNames, PathNames | `EveryNameArrives` | server/server.cpp:10: a `%20` that belongs to the name becomes a space. |
| MCOtherNames, PathNames | `OnlyTraversalRefused` | server/server.h:103: a name such as `a..b` is refused, which ends the client's walk. |
| MCDeleteAnswers, MCConcurrentStorage | `DeleteAnswers` | server/backup.cpp:149: `remove_all` throws when something is saved into the folder meanwhile. |
| MCSavedWhenTrue, MCConcurrentStorage | `SavedWhenTrue` | server/backup.cpp:37: a failed write is answered with OK. |
| MCHandlerInHeap, ClientProcess | `EverySignalEnds` | client/main.cpp:10: the handler allocates on a thread that is inside malloc. |
| MCExit, ClientProcess | `LogsOutBeforeExit` | client/main.cpp:16: the token is on the server and not yet in `configuration::token`. |
| MCExit, ClientProcess | `ExitsWithCode` | client/main.cpp:17: a thread of the walk is refused after the logout, and aborts the client. |

## 5. What is proved

TLAPS checks these for all values of the constants that satisfy the `ASSUME`s of the modules.
In every proof module the argument is the same: an inductive invariant, one lemma per
action (or per kind of step) that it is kept, and a last temporal step. The invariants were
checked by TLC on the run of their module first.

| Module | Theorem | States |
|---|---|---|
| `DirectoryWalkProofs` | `TypeCorrect`, `CountCorrect`, `WalkIsComplete`, `EachFolderIsVisitedOnce`, `RequestsStayApart`, `ParentsComeFirst`, `RecordedStaysSaved`, `NobodyIsStuck` | all invariants of `directory_walk` |
| | `PoolWatchesAll` | `Spec => WatchesAll`: the pool implements `WatchAll` |
| `AuthorizationProofs` | `TypeCorrect`, `TokensStayApart`, `ActsAsTheOwner`, `LogoutIsFinal`, `RevokedTokensStayRevoked` | the properties of `tokens` |
| `BackupSystemProofs` | `TypeCorrect`, `WalksSynchronize`, `RecordedFilesAreStored`, `ServerKeepsRunning` | four properties of `polls`; the other ones but `Converges` follow |
| | `StoredFilesAreKnown` | `StoredIsKnown`, with fewer hypotheses than `polls` has |
| | `SystemIsMirror` | `Spec => IsMirror`: client and server implement `Mirror` |
| | `NothingToDoMeansEqual` | when the client sleeps and all it knows is current, the copy is equal to the folder |
| | `PollsOnlyForget` | the first loop of a poll makes no path known, while not disturbed; `MCParentUpdate` is the counterexample without `UsualNames` |
| `SessionsProofs` | `TypeCorrect`, `SessionsExchange` | the safety of `sessions`; `Sessions` implements `Exchange` |
| `ServerProofs` | `TypeCorrect`, `FoldersBeforeRequests`, `ClientAlwaysUnderstood`, `RefusalsAreHarmless`, `OnlyAuthorisedChanges` | the properties of `server` |
| | `NamesStayTyped`, `NoNameClimbs`, `UsualNamesArrive` | the properties of `path_names`, for names of any length |
| `StorageProofs` | `RequestsAreSound` | every operation gives a tree, and one not answered with OK the same tree; lemma `RequestEffect`: what a request can do to a tree |
| `ClientProcessProofs` | `TypeCorrect`, `TokenIsRevoked` | the invariants of `client_process` |
| `ConcurrentStorageProofs` | `TypeCorrect`, `RequestsAreAtomic` | the properties of `concurrent_storage`; it implements `AtomicStorage` |

### The assumptions

* The `ASSUME`s of the modules say what the constants are (disjoint kinds, a tree with its
  `Parent` and `Within`, at least one thread). `ReachableAssumption` (`DirectoryWalk`, `FileTree`) says that every
  entry is reached from the root; it is induction over the tree, in a form the
  provers can use. TLC evaluates all of them on the runs.
* `WalksSynchronize`, `StoredFilesAreKnown`: `WalkPC \subseteq QuietAt`, the user does not edit during a walk. Names
  may be reused and be files and folders in turn. Without it `MCKnownAfterWalk` is a counterexample to the second one.
* `RecordedFilesAreStored`, `ServerKeepsRunning`, `PollsOnlyForget`, `SystemIsMirror`, `NothingToDoMeansEqual`: `UsualNames`, the three restrictions of
  `polls`. Each is needed: section 4 has a counterexample without it. The third
  clause was found by the proof: TLC's trees for `polls` have no name that can be both.
* All theorems of `BackupSystemProofs` but `TypeCorrect` are about the time in which no stray request has been
  executed since the last walk began (`~disturbed`, in the properties themselves); `MCStrayRequest` is the
  counterexample without it. Any number of requests may be given up, and executed at any time.
* `RequestsAreAtomic`: `OnlyApart`, only requests that are `Apart` are under way at the same time, and writes succeed.
  Without it `MCDeleteAnswers` and `MCSavedWhenTrue` are counterexamples.

### The invariants, and why they are needed

**DirectoryWalk.** *Counter* (`CountInv`): it equals the queued folders plus the branches held by threads; the
proof goes by how the queue's length and `OpenBranch` change. *Completeness* (`CoverInv`): where every
entry is that has not been visited: below a folder that is queued, being visited, or about
to be queued; a thread only leaves when the queue is empty and closed, and `ReachableAssumption`
gives the rest. It does not use the counter: closing early is harmless. *Once* (`OnceInv`): an entry that is
not recorded is in one place (once in the queue, or with one thread), and whatever is
recorded or coming is in a recorded folder. The last part is what makes the entries of a
folder that is recorded only now new. `RequestsApart` and the refinement rest on it. *Stored* (`StoredInv`): what is recorded, or about to
be, is on the server. *Waking* (`WakeInv`): there is no job when all wait, and while the queue is
open there is an open branch or a thread on its way to look at the counter; with `CountInv` this
contradicts that everybody waits.

**Authorization.** `OwnerInv`: a token is with one user; tokens that are with somebody are among those created (so that
a new one is with nobody); no handler looks up the empty token, which is why the
guard at server.h:148 matters. `LogoutInv`: a token that a handler is about to save is with
nobody else, so no request under way can bring back one that a confirmed logout has
removed. `RevokedForGood` follows from it: only the handler of a login puts a token into the table, and that
one has not been given to anybody yet.

**BackupSystem.** Two invariants hold always. `SystemTyped` adds to the types that what the client is at is a path (not the key `Alias`), and that what
it deletes is not the root. `BaseInv` is what is left when a stray request is executed: one request at a time is waited for; whatever is
under way, given up or not, saves a content that the user has had, at the path of a file, or makes the
path of a folder; so the server never has a name, or a newer content, that the user has not. From there a new
walk can begin whatever has happened (`StartClient` establishes the other ones). All others hold
while `~disturbed`. `WalkInv` is about a walk: which request
is out at each point and what its answer means (`Asked`, `Learnt`), the kinds of the entries (`Kinds`), that
nothing recorded differs on the server (`Copied`), and that what is in a recorded folder is recorded
or coming (`Complete`). Once a request has been given up (`GivenUp`) it claims nothing, because the request may still be
executed; but that walk never ends in a poll. `StoredInv` is about everything else: no request under way
takes away what is recorded with its current write time, nor makes a folder in a place
that there is not (`SafeRequests`); names keep their kind (`Names`) and write times only grow (`Versions`), so that a stale
entry never looks current; what is recorded is in a recorded folder (`ParentRecorded`), which is what
makes `paths_[parent]` of line 215 harmless; a walk has every entry in one place (`WalkOrder`); and the
local variables of both loops of a poll fit the request that is out (`PollAsks`, `PollKnows`).

`ForwardInv`, for the mirror: a save under way is not older than what is there (`InTurn`); with `BaseInv`, a
content is never replaced by an older one, unless a stray request does it. `KnownInv`, for `StoredIsKnown`: every request of a poll is about the entry it is at, and an accepted deletion has left
nothing there when the poll forgets the path; `RequestEffect` says that a save or a new folder changes
no other path. A walk need not be followed for it: `WalkInv` gives that at its end the server
has what the folder has, and that all of it is recorded. `MirrorInv` adds two facts about the local variables to all of these: what a poll is
deleting does not count as sent, and if what the second loop is at does, the write time it
is about to record is the same. Then every step of the client leaves `Sent` alone but the ones that record
a path or start anew, and every request is about a path outside of it.

**Sessions.** `ExchangeInv`: nothing is executed before it has been written, nothing is written without a connection; a session that answers has executed.

**Server.** `ServerInv`: the user has a tree exactly if there is a folder; while folders are being made, a row without one is
in `todo` or in `lost`, and in `lost` when the server serves. What a message does is a matter of the operators of `Api` and
`Storage`: one lemma for each step of the chain of checks.

**PathNames.** `NameInv`: the text on its way is an *escape* of the name (`IsEscape`): there is a function that says where in
the text each character of the name ends, one place after the previous character for a character that stands
for itself and three for a space that is a `%20`. What the two loops compute would be an
induction over the text; but the invariant only needs such a function to *exist*, and each replacement
gives the next one by a shift of two behind its place (`ShiftIsEscape`). On the client's side this needs that the
first space of the text is a space of the name, on the server's that the first `%20` is not made of characters of the
name itself, which is where the hypothesis of `NameArrives` is used (`~Occurs(Percent20, name)`, of which `MCOtherNames` shows the need). A text that
is an escape of a name and has no `%20` is the name. `NoTraversal` needs no hypothesis: the check has found no two
dots, and the replacement of `%20` by a space never brings two dots together (`UnescapeMakesNoDots`).

**ClientProcess.** `TokenInv`: a token in the table is one the client knows, or is about to be told; the handler
runs on a thread that exists.

**ConcurrentStorage.** `StorageTyped`: what is on the stack of `remove_all` is a path of folders up to the request's, and an open file
that still has a name is a file. `AtomicInv` says what each handler knows although others work: the file it
has open is there and still `Partial`; the folders it is in are its own to remove (`Owned`); what is in
them has not been returned yet, is being removed, or is kept (`Covered`). `OthersSure` shows that nobody else can
change this, as requests are apart. `Covered` gives that `remove` at the end of a folder finds it empty, and
hence does not throw. The step that opens the file or reads the folder is mapped to `Execute` and the ones
after it to stuttering (`UnlinkSeen`: what is removed has counted as removed).

### Only model-checked

* Liveness: `WalkEnds`, `Converges`, `RequestEnds`, `SessionsEnd`, `SignalEnds`. Liveness under fairness, and
  `ENABLED`, are out of the prover's reach.
* The runs that end in a violation, and the counterexamples of section 4.

A `CASE` whose guards overlap has no value that can be proved; the guards in these modules
exclude each other.


## 6. Abstractions, and what is not modelled

* The walk in `BackupSystem` has one worker; the interleaving of several is
  `DirectoryWalk`'s. That the requests of several workers do not meet in `Storage` is
  `RequestsApart`.
* A directory listing is read at once. Its entries keep the kind they had then, as
  `directory_entry` does.
* An error of the local file system (a file gone between listing and reading) ends
  the client: `std::filesystem` throws, `main` catches and exits, or a thread terminates.
* The user never removes the watched folder itself.
* Storage operations are atomic in `BackupSystem`: one client's requests are apart, and such
  requests look atomic (`IsAtomic`). With two clients of one user they need not be
  (`MCDeleteAnswers`). Writes succeed there; `MCSavedWhenTrue` is what happens when they do not.
* A folder is read at once also by the server; libstdc++'s `remove_all` reads and
  removes in turn. What appears after the reading makes it throw in the model, while the
  real one may still see it.
* One signal reaches the client: a second one would nest the same handler. The data races on
  `configuration::token` and of `exit()` with running threads are not refined.
* A path is spelled as it is, with a slash at the end, or with a last component `.`; a slash or a `.` in the middle
  means the same as none. The client spells it as it is.
* Somebody who removes a user's folder by hand does so between two requests of that user.
* A timer may expire at any time; no property depends on the 60 seconds.
* Tokens do not repeat (32 random bytes); digests do not collide.
* `hardware_concurrency() == 0` would start no thread: `initialization()` returns at
  once with empty `paths_`, and the first poll sends everything as new.
  `WorkerAssumption` leaves this out.
* `retry` stays 3: the only place that decrements it is not reached (`failure_in_worker`).
* Not modelled: names that are not UTF-8 (`json::dump` throws on them); base64, SHA-256 and
  password hashing; which option of a configuration file is missing or ill-formed; a
  file that shrinks while it is being encoded; the test scripts, which are clients run by hand.

## 7. What is left

1. The walk under edits: that it ends when they do (`probe_file` calls itself), and which paths `walk_race` and
   `MCKnownAfterWalk` leave wrong, stated as what the next walk has to repair.
2. `Mirror` with two clients of one user, for which `ConcurrentStorage` would take the place of the atomic
   operations in `BackupSystem`.
