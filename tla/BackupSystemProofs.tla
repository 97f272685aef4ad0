------------------------- MODULE BackupSystemProofs -------------------------
(***************************************************************************)
(* Proofs about BackupSystem and the FileWatcher in it, for every folder   *)
(* of the user, every state of the server's copy and every number of edits *)
(* and faults.                                                             *)
(***************************************************************************)
EXTENDS BackupSystem, StorageProofs

Answer == [status : Status \cup {"no_response"}, digest : Node]

\* Where the client has an open directory iterator.
IteratorPC ==
    {"entry", "probed", "replacing", "replace", "replaced", "upload", "uploaded", "record"}
        \cup ScanPC

(***************************************************************************)
(* The types of the client's variables, inductively: what the client is at *)
(* is a path and not only a key, because the key "Alias" is the watched    *)
(* folder itself, which is never gone; what it deletes from paths_ is      *)
(* never the root; and an iterator is used only where there is one.        *)
(***************************************************************************)
ClientTyped ==
    /\ IsTree(local)
    /\ paths \in [Key -> Node]
    /\ pc \in PC
    /\ cur \in Path \X {"file", "folder"}
    /\ mtime \in Node
    /\ jobs \in Seq(Path)
    /\ open \in Seq(SUBSET (Path \X {"file", "folder"}))
    /\ check \subseteq Key
    /\ call = NoCall \/ call \in Request
    /\ reply = NoReply \/ reply \in Answer
    /\ pc \in {"deleting", "parent"} => At # Root
    /\ pc \in IteratorPC => open # <<>>

SystemTyped ==
    /\ ClientTyped
    /\ IsTree(remote)
    /\ late = NoCall \/ late \in Request
    /\ stray \subseteq (0 .. MaxFaults) \X Request
    /\ disturbed \in BOOLEAN
    /\ server \in {"up", "down", "terminated"}
    /\ version \in 1 .. MaxVersion
    /\ faults \in 0 .. MaxFaults

LEMMA SystemTypedIsTypeOK == SystemTyped => TypeOK
BY DEF SystemTyped, ClientTyped, TypeOK, Answer, Key

-----------------------------------------------------------------------------
(* What the client's steps are made of.                                    *)

LEMMA RequestTyped ==
    ASSUME NEW p \in Path
    PROVE  /\ \A op \in {"mkdir", "probefile", "delete"} : OnPath(op, p) \in Request
           /\ IsFile(local, p) => Save(p) \in Request
           /\ \A S \in SUBSET Path :
                [op |-> "probefolder", path |-> p, children |-> S] \in Request
BY DEF OnPath, Save, IsFile, Request

LEMMA ListingTyped ==
    ASSUME NEW t, NEW p
    PROVE  /\ Entries(t, p) \in SUBSET Path
           /\ Listing(t, p) \in SUBSET (Path \X {"file", "folder"})
BY DEF Entries, Listing, Kind

LEMMA NodeOfTyped ==
    ASSUME ClientTyped, NEW k \in Key
    PROVE  NodeOf(k) \in Node
BY ParentAssumption DEF NodeOf, ClientTyped, IsTree, Key

\* Going on, or making a request, at the same entry.
LEMMA ProceedTyped ==
    ASSUME ClientTyped, UNCHANGED dataVars, NEW then \in PC \ {"deleting", "parent"}, Proceed(then),
           then \in IteratorPC => open # <<>>
    PROVE  ClientTyped'
BY DEF ClientTyped, dataVars, Proceed, At

LEMMA SendTyped ==
    ASSUME ClientTyped, UNCHANGED dataVars, NEW then \in PC \ {"deleting", "parent"},
           NEW req \in Request, Send(req, then), then \in IteratorPC => open # <<>>
    PROVE  ClientTyped'
BY DEF ClientTyped, dataVars, Send, At

\* The local variables of a walk or a poll are dropped.
LEMMA UnwindTyped ==
    ASSUME ClientTyped, Unwind, NEW then \in {"off", "retry"}, Proceed(then),
           paths' \in [Key -> Node]
    PROVE  ClientTyped'
BY ParentAssumption
DEF ClientTyped, Unwind, Proceed, NoEntry, Node, IteratorPC, PC, ScanPC, At

LEMMA DieTyped == ASSUME ClientTyped, Die PROVE ClientTyped'
BY UnwindTyped DEF Die, NoPaths, Node

LEMMA RetryTyped == ASSUME ClientTyped, Retry PROVE ClientTyped'
BY UnwindTyped DEF Retry, ClientTyped

-----------------------------------------------------------------------------
(* The steps of the walk.                                                  *)

LEMMA WalkTyped == ASSUME ClientTyped, Walk PROVE ClientTyped'
<1>1. CASE WalkFolder
  <2>1. CASE Die
    BY <2>1, DieTyped
  <2>2. CASE local[Head(jobs)] = Folder /\ ~Die
    <3>1. Head(jobs) \in Path /\ Tail(jobs) \in Seq(Path)
      BY <1>1 DEF WalkFolder, ClientTyped
    <3>2. call' \in Request /\ pc' = "probing" /\ reply' = NoReply
      BY <1>1, <2>2, <3>1, RequestTyped, ListingTyped DEF WalkFolder, Send
    <3>3. /\ cur' = <<Head(jobs), "folder">>
          /\ jobs' = Tail(jobs)
          /\ UNCHANGED <<local, paths, mtime, open, check>>
      BY <1>1, <2>2 DEF WalkFolder
    <3>4. cur' \in Path \X {"file", "folder"} /\ jobs' \in Seq(Path)
      BY <3>1, <3>3
    <3>5. pc' \in PC /\ pc' \notin IteratorPC
      BY <3>2 DEF PC, WalkPC, IteratorPC, ScanPC
    <3> QED
      BY <3>2, <3>3, <3>4, <3>5 DEF ClientTyped
  <2> QED
    BY <1>1, <2>1, <2>2 DEF WalkFolder
<1>2. CASE FolderProbed
  BY <1>2, DieTyped, ProceedTyped, SendTyped, RequestTyped
  DEF FolderProbed, ClientTyped, PC, WalkPC, IteratorPC, ScanPC, At
<1>3. CASE FolderCreated
  BY <1>3, DieTyped, ProceedTyped
  DEF FolderCreated, WalkAnswer, Answered, PC, WalkPC, IteratorPC, ScanPC
<1>4. CASE OpenFolder
  <2>1. CASE local[At] = Folder
    <3>1. /\ At \in Path
          /\ <<Listing(local, At)>> \in Seq(SUBSET (Path \X {"file", "folder"}))
          /\ <<Listing(local, At)>> # <<>>
      BY ListingTyped DEF ClientTyped, At
    <3> QED
      BY <1>4, <2>1, <3>1 DEF OpenFolder, ClientTyped, PC, WalkPC, Node, Key
  <2> QED
    BY <1>4, <2>1, DieTyped DEF OpenFolder
<1>5. CASE WalkEntry
  <2>1. open # <<>>
    BY <1>5 DEF WalkEntry, ClientTyped, IteratorPC
  <2>2. PICK e \in Head(open) :
          /\ open' = <<Head(open) \ {e}>>
          /\ \/ /\ e[2] = "file"
                /\ cur' = e
                /\ Send(OnPath("probefile", e[1]), "probed")
                /\ UNCHANGED jobs
             \/ /\ e[2] = "folder"
                /\ jobs' = Append(jobs, e[1])
                /\ UNCHANGED <<pc, cur, call, reply>>
    BY <1>5 DEF WalkEntry
  <2>3. Head(open) \in SUBSET (Path \X {"file", "folder"})
    BY <2>1 DEF ClientTyped
  <2>4. e \in Path \X {"file", "folder"} /\ e[1] \in Path
    BY <2>2, <2>3
  <2>5. open' \in Seq(SUBSET (Path \X {"file", "folder"})) /\ open' # <<>>
    BY <2>2, <2>3
  <2>6. CASE e[2] = "file"
    <3>1. call' \in Request /\ pc' = "probed" /\ reply' = NoReply /\ cur' = e /\ UNCHANGED jobs
      BY <2>2, <2>4, <2>6, RequestTyped DEF Send
    <3> QED
      BY <1>5, <2>4, <2>5, <3>1 DEF WalkEntry, ClientTyped, PC, WalkPC
  <2>7. CASE e[2] = "folder"
    <3>1. jobs' = Append(jobs, e[1]) /\ UNCHANGED <<pc, cur, call, reply>>
      BY <2>2, <2>7
    <3>2. jobs' \in Seq(Path)
      BY <2>4, <3>1 DEF ClientTyped
    <3> QED
      BY <1>5, <2>5, <3>1, <3>2 DEF WalkEntry, ClientTyped, At
  <2> QED
    BY <2>4, <2>6, <2>7
<1>6. CASE FileProbed
  BY <1>6, DieTyped, ProceedTyped, SendTyped, RequestTyped
  DEF FileProbed, Answered, ClientTyped, PC, WalkPC, IteratorPC, At
<1>7. CASE FileReplacing \/ FileUploaded
  BY <1>7, DieTyped, ProceedTyped
  DEF FileReplacing, FileUploaded, WalkAnswer, Answered, ClientTyped, PC, WalkPC, IteratorPC
<1>8. CASE UploadFile
  BY <1>8, DieTyped, SendTyped, RequestTyped
  DEF UploadFile, ClientTyped, PC, WalkPC, IteratorPC, At
<1>9. CASE FileReplaced
  BY <1>9, DieTyped, SendTyped, RequestTyped
  DEF FileReplaced, Answered, ClientTyped, PC, WalkPC, IteratorPC, At
<1>10. CASE RecordFile
  <2>1. At \in Path /\ local[At] \in Node
    BY DEF ClientTyped, IsTree, At
  <2>2. CASE local[At] # Absent
    BY <1>10, <2>1, <2>2 DEF RecordFile, ClientTyped, PC, WalkPC, IteratorPC, Key
  <2> QED
    BY <1>10, <2>2, DieTyped DEF RecordFile
<1>11. CASE FolderDone
  BY <1>11 DEF FolderDone, ClientTyped, PC, WalkPC, IteratorPC, ScanPC
<1>12. CASE WalkDone
  BY <1>12, ParentAssumption DEF WalkDone, ClientTyped, NoEntry, PC, IteratorPC, ScanPC
<1> QED
  BY <1>1, <1>2, <1>3, <1>4, <1>5, <1>6, <1>7, <1>8, <1>9, <1>10, <1>11, <1>12 DEF Walk

-----------------------------------------------------------------------------
(* The steps of a poll.                                                    *)

LEMMA WatchTyped == ASSUME ClientTyped, Watch PROVE ClientTyped'
<1>1. CASE Poll
  BY <1>1 DEF Poll, ClientTyped, PC, CheckPC, IteratorPC, ScanPC
<1>2. CASE CheckPath
  <2>1. PICK k \in check :
          /\ check' = check \ {k}
          /\ IF NodeOf(k) # Absent
             THEN UNCHANGED <<cur, pc, call, reply>>
             ELSE cur' = <<k, "file">> /\ Send(OnPath("delete", k), "deleting")
    BY <1>2 DEF CheckPath
  <2>2. k \in Key /\ check' \subseteq Key
    BY <2>1 DEF ClientTyped
  <2>3. CASE NodeOf(k) # Absent
    BY <1>2, <2>1, <2>2, <2>3 DEF CheckPath, ClientTyped, At
  <2>4. CASE NodeOf(k) = Absent
    <3>1. k \in Path \ {Root}
      BY <2>2, <2>4, NodeAssumption DEF ClientTyped, IsTree, NodeOf, Key
    <3>2. call' \in Request /\ pc' = "deleting" /\ reply' = NoReply /\ cur' = <<k, "file">>
      BY <2>1, <2>4, <3>1, RequestTyped DEF Send
    <3> QED
      BY <1>2, <2>2, <3>1, <3>2
      DEF CheckPath, ClientTyped, PC, CheckPC, IteratorPC, ScanPC, At
  <2> QED
    BY <2>3, <2>4
<1>3. CASE PathDeleted
  <2>1. pc = "deleting" /\ At \in Path \ {Root}
    BY <1>3 DEF PathDeleted, Answered, ClientTyped, At
  <2>2. CASE Retry
    BY <2>2, RetryTyped
  <2>3. CASE Proceed("parent") /\ UNCHANGED dataVars
    BY <2>1, <2>3 DEF Proceed, dataVars, ClientTyped, PC, CheckPC, IteratorPC, ScanPC, At
  <2>4. CASE /\ paths' = [paths EXCEPT ![At] = Absent]
             /\ Proceed("check") /\ cur' = NoEntry
             /\ UNCHANGED <<local, mtime, jobs, open, check>>
    BY <2>4, ParentAssumption
    DEF Proceed, NoEntry, ClientTyped, PC, CheckPC, IteratorPC, ScanPC, Node
  <2> QED
    BY <1>3, <2>2, <2>3, <2>4 DEF PathDeleted
<1>4. CASE ParentUpdated
  <2> DEFINE parent == ParentKey(At)
  <2>1. At \in Path \ {Root}
    BY <1>4 DEF ParentUpdated, ClientTyped, At
  <2>2. parent \in Key
    BY <2>1, ParentAssumption DEF ParentKey, Key
  <2>3. NodeOf(parent) \in Node
    BY <2>2, NodeOfTyped
  <2> HIDE DEF parent
  <2>4. CASE ~Die
    <3>1. /\ paths' = [paths EXCEPT ![parent] = NodeOf(parent), ![At] = Absent]
          /\ check' \subseteq {k \in Key : paths'[k] # Absent} \/ UNCHANGED check
          /\ Proceed("check") /\ cur' = NoEntry
          /\ UNCHANGED <<local, mtime, jobs, open>>
      BY <1>4, <2>4 DEF ParentUpdated, parent
    <3>2. paths' \in [Key -> Node]
      BY <2>3, <3>1 DEF ClientTyped, Node
    <3>3. check' \subseteq Key
      BY <3>1 DEF ClientTyped
    <3> QED
      BY <3>1, <3>2, <3>3, ParentAssumption
      DEF Proceed, NoEntry, ClientTyped, PC, CheckPC, IteratorPC, ScanPC
  <2> QED
    BY <2>4, DieTyped
<1>5. CASE CheckDone
  <2>1. /\ <<Listing(local, Root)>> \in Seq(SUBSET (Path \X {"file", "folder"}))
        /\ <<Listing(local, Root)>> # <<>>
    BY ListingTyped
  <2> QED
    BY <1>5, <2>1 DEF CheckDone, ClientTyped, PC, ScanPC, At
<1>6. CASE ScanEntry
  <2>1. open # <<>>
    BY <1>6 DEF ScanEntry, ClientTyped, IteratorPC, ScanPC
  <2>2. PICK e \in Head(open) :
          \/ Die
          \/ /\ cur' = e
             /\ mtime' = local[e[1]]
             /\ open' = <<Head(open) \ {e}>> \o Tail(open)
             /\ \/ Send(OnPath("mkdir", e[1]), "making")
                \/ Proceed("encode")
                \/ Send(OnPath("delete", e[1]), "removing")
                \/ Proceed("next")
             /\ UNCHANGED <<local, paths, jobs, check>>
    BY <1>6 DEF ScanEntry
  <2>3. /\ Head(open) \in SUBSET (Path \X {"file", "folder"})
        /\ Tail(open) \in Seq(SUBSET (Path \X {"file", "folder"}))
    BY <2>1 DEF ClientTyped
  <2>4. e \in Path \X {"file", "folder"} /\ e[1] \in Path
    BY <2>3
  <2>5. CASE ~Die
    <3>1. open' \in Seq(SUBSET (Path \X {"file", "folder"})) /\ open' # <<>>
      BY <2>2, <2>3, <2>5
    <3>2. mtime' \in Node
      BY <2>2, <2>4, <2>5 DEF ClientTyped, IsTree
    <3>3. /\ call' = NoCall \/ call' \in Request
          /\ reply' = NoReply
          /\ pc' \in {"making", "encode", "removing", "next"}
      BY <2>2, <2>4, <2>5, RequestTyped DEF Send, Proceed
    <3> QED
      BY <2>2, <2>4, <2>5, <3>1, <3>2, <3>3 DEF ClientTyped, PC, ScanPC
  <2> QED
    BY <2>5, DieTyped
<1>7. CASE FolderMade \/ FileRemoved \/ FileSaved
  BY <1>7, RetryTyped, ProceedTyped
  DEF FolderMade, FileRemoved, FileSaved, ScanAnswer, Answered, ClientTyped, PC, ScanPC, IteratorPC
<1>8. CASE EncodeFile
  BY <1>8, DieTyped, SendTyped, RequestTyped
  DEF EncodeFile, ClientTyped, PC, ScanPC, IteratorPC, At
<1>9. CASE NextEntry
  <2>1. CASE Die
    BY <2>1, DieTyped
  <2>2. CASE ~Die
    <3>1. open # <<>> /\ At \in Path
      BY <1>9 DEF NextEntry, NextEntryWith, ClientTyped, IteratorPC, ScanPC, At
    <3>2. /\ paths' = [paths EXCEPT ![At] = mtime]
          /\ open' = IF cur[2] = "folder" THEN <<Listing(local, At)>> \o open ELSE open
          /\ cur' = NoEntry
          /\ mtime' = Absent
          /\ pc' = "scan"
          /\ UNCHANGED <<local, jobs, check, call, reply>>
      BY <1>9, <2>2 DEF NextEntry, NextEntryWith
    <3>3. open' \in Seq(SUBSET (Path \X {"file", "folder"})) /\ open' # <<>>
      <4>1. open \in Seq(SUBSET (Path \X {"file", "folder"}))
        BY DEF ClientTyped
      <4>2. ASSUME NEW l \in SUBSET (Path \X {"file", "folder"})
            PROVE  /\ <<l>> \o open \in Seq(SUBSET (Path \X {"file", "folder"}))
                   /\ <<l>> \o open # <<>>
        BY <4>1
      <4> QED
        BY <3>1, <3>2, <4>1, <4>2, ListingTyped
    <3> QED
      BY <3>1, <3>2, <3>3, ParentAssumption
      DEF ClientTyped, PC, ScanPC, NoEntry, Node, Key, At
  <2> QED
    BY <2>1, <2>2
<1>10. CASE ScanPop
  <2>1. open # <<>> /\ open \in Seq(SUBSET (Path \X {"file", "folder"}))
    BY <1>10 DEF ScanPop, ClientTyped, IteratorPC, ScanPC
  <2>2. open' \in Seq(SUBSET (Path \X {"file", "folder"}))
    BY <1>10, <2>1 DEF ScanPop
  <2>3. Len(open) # 1 => open' # <<>>
    <3>1. Len(Tail(open)) = Len(open) - 1 /\ Len(open) \in Nat
      BY <2>1
    <3>2. Len(open) # 1 => Len(Tail(open)) # 0
      BY <3>1
    <3>3. Len(<<>>) = 0
      OBVIOUS
    <3> QED
      BY <1>10, <3>2, <3>3 DEF ScanPop
  <2>4. pc' = IF Len(open) = 1 THEN "sleep" ELSE "scan"
    BY <1>10 DEF ScanPop
  <2> QED
    BY <1>10, <2>2, <2>3, <2>4 DEF ScanPop, ClientTyped, PC, ScanPC, IteratorPC, At
<1> QED
  BY <1>1, <1>2, <1>3, <1>5, <1>6, <1>7, <1>8, <1>9, <1>10, <1>4 DEF Watch

-----------------------------------------------------------------------------
(* The user, the server and the connections.                               *)

\* An edit leaves a tree.
LEMMA EditTree ==
    ASSUME IsTree(local), NEW p \in Path \ {Root}, NEW node \in Node,
           node # Absent => HasPlace(local, p)
    PROVE  IsTree([RemoveAll(local, {p}) EXCEPT ![p] = node])
<1> DEFINE t == RemoveAll(local, {p})
<1>1. IsTree(t)
  BY RemoveAllTree
<1>2. t[p] = Absent /\ (local[Parent[p]] = Folder => t[Parent[p]] = Folder)
  BY ParentAssumption DEF RemoveAll
<1> HIDE DEF t
<1>3. CASE node = Absent
  <2>1. [t EXCEPT ![p] = Absent] = t
    BY <1>1, <1>2 DEF IsTree
  <2> QED
    BY <1>1, <1>3, <2>1 DEF t
<1>4. CASE node # Absent
  BY <1>1, <1>2, <1>4, PutTree, NodeAssumption DEF HasPlace, t
<1> QED
  BY <1>3, <1>4

LEMMA EditTyped ==
    ASSUME SystemTyped, NEW p \in Path \ {Root}, NEW node \in Node, Edit(p, node),
           node # Absent => HasPlace(local, p)
    PROVE  SystemTyped'
<1>1. IsTree(local')
  BY EditTree DEF SystemTyped, ClientTyped, Edit
<1>2. version' \in 1 .. MaxVersion
  BY BackupAssumption DEF SystemTyped, Edit
<1> QED
  BY <1>1, <1>2 DEF SystemTyped, ClientTyped, Edit, serverVars, At

LEMMA UserTyped == ASSUME SystemTyped, User PROVE SystemTyped'
<1>1. /\ Absent \in Node /\ Folder \in Node
      /\ version < MaxVersion => version + 1 \in Node
  BY BackupAssumption DEF Node, SystemTyped
<1>2. ASSUME NEW p \in FileName, WriteFile(p) PROVE SystemTyped'
  BY <1>1, <1>2, EditTyped, BackupAssumption DEF WriteFile, Edit
<1>3. ASSUME NEW p \in UserFolder, MakeFolder(p) PROVE SystemTyped'
  BY <1>1, <1>3, EditTyped, BackupAssumption DEF MakeFolder
<1>4. ASSUME NEW p \in FileName \cup UserFolder, Remove(p) PROVE SystemTyped'
  BY <1>1, <1>4, EditTyped, BackupAssumption DEF Remove
<1> QED
  BY <1>2, <1>3, <1>4 DEF User

\* A request that the server executes, for a client that waits or has given up.
LEMMA ResultTyped ==
    ASSUME SystemTyped, NEW req \in Request
    PROVE  /\ IsTree(HandleRequest(remote, req).tree)
           /\ HandleRequest(remote, req).status \in Status
           /\ HandleRequest(remote, req).digest \in Node
BY RequestsAreSound DEF SystemTyped, Sound

LEMMA ServerTyped ==
    ASSUME SystemTyped, ServerStep \/ Unheard \/ ServerStart \/ Timeout \/ ServerCrash
    PROVE  SystemTyped'
<1>1. NoResponse \in Answer
  BY DEF NoResponse, Answer, Node
<1>2. CASE Serve
  <2>1. call \in Request
    BY <1>2 DEF Serve, Waiting, SystemTyped, ClientTyped
  <2>2. reply' \in Answer
    BY <1>1, <1>2, <2>1, ResultTyped DEF Serve, Execute, Answer
  <2>3. IsTree(remote') /\ server' \in {"up", "down", "terminated"}
    BY <1>2, <2>1, ResultTyped DEF Serve, Execute, SystemTyped
  <2> QED
    BY <1>2, <2>2, <2>3 DEF Serve, SystemTyped, ClientTyped, dataVars, At
<1>3. CASE NoServer \/ Timeout
  <2>1. /\ reply' \in Answer
        /\ UNCHANGED <<dataVars, pc, call, remote, server, stray, version, disturbed>>
    BY <1>1, <1>3 DEF NoServer, Timeout, serverVars
  <2>2. late' = NoCall \/ late' \in Request
    BY <1>3 DEF NoServer, Timeout, serverVars, Waiting, SystemTyped, ClientTyped
  <2>3. faults' \in 0 .. MaxFaults
    BY <1>3, BackupAssumption DEF NoServer, Timeout, SystemTyped
  <2> QED
    BY <2>1, <2>2, <2>3 DEF SystemTyped, ClientTyped, dataVars, At
<1>4. ASSUME NEW req \in Request, ExecuteUnheard(req)
      PROVE  IsTree(remote') /\ server' \in {"up", "down", "terminated"}
  BY <1>4, ResultTyped DEF ExecuteUnheard, SystemTyped
<1>5. CASE ServeLate
  <2>1. late \in Request /\ ExecuteUnheard(late)
    BY <1>5 DEF ServeLate, SystemTyped
  <2>2. IsTree(remote') /\ server' \in {"up", "down", "terminated"}
    BY <1>4, <2>1
  <2> QED
    BY <1>5, <2>2 DEF ServeLate, SystemTyped, ClientTyped, clientVars, dataVars, At
<1>6. CASE ServeStray
  <2>1. PICK s \in stray : ExecuteUnheard(s[2]) /\ stray' = stray \ {s}
    BY <1>6 DEF ServeStray
  <2>2. s[2] \in Request
    BY DEF SystemTyped
  <2>3. IsTree(remote') /\ server' \in {"up", "down", "terminated"}
    BY <1>4, <2>1, <2>2
  <2> QED
    BY <1>6, <2>1, <2>3 DEF ServeStray, SystemTyped, ClientTyped, clientVars, dataVars, At
<1>7. CASE DropLate \/ DropStray \/ ServerStart
  BY <1>7 DEF DropLate, DropStray, ServerStart, SystemTyped, ClientTyped, clientVars, dataVars, At
<1>8. CASE ServerCrash
  BY <1>8, BackupAssumption
  DEF ServerCrash, SystemTyped, ClientTyped, clientVars, dataVars, At
<1> QED
  BY <1>2, <1>3, <1>5, <1>6, <1>7, <1>8 DEF ServerStep, Unheard

LEMMA InitTyped == Init => SystemTyped
<1> SUFFICES ASSUME Init PROVE SystemTyped
  OBVIOUS
<1>1. ClientTyped
  BY ParentAssumption
  DEF Init, ClientInit, ClientTyped, NoPaths, NoEntry, Node, PC, IteratorPC, ScanPC
<1>2. stray \subseteq (0 .. MaxFaults) \X Request
  <2>1. stray = {}
    BY DEF Init
  <2> QED
    BY <2>1
<1>3. /\ IsTree(remote) /\ late = NoCall /\ disturbed = FALSE /\ server = "up"
      /\ version = 1 /\ faults = 0
  BY DEF Init
<1>4. version \in 1 .. MaxVersion /\ faults \in 0 .. MaxFaults
  BY <1>3, BackupAssumption
<1> QED
  BY <1>1, <1>2, <1>3, <1>4 DEF SystemTyped

LEMMA NextTyped == SystemTyped /\ [Next]_vars => SystemTyped'
<1> SUFFICES ASSUME SystemTyped, [Next]_vars PROVE SystemTyped'
  OBVIOUS
<1>1. CASE UNCHANGED vars
  BY <1>1 DEF vars, clientVars, dataVars, serverVars, SystemTyped, ClientTyped, At
<1>2. CASE ClientStep
  <2>1. ClientTyped'
    BY <1>2, WalkTyped, WatchTyped DEF ClientStep, SystemTyped
  <2> QED
    BY <1>2, <2>1 DEF ClientStep, SystemTyped, serverVars
<1>3. CASE StartClient
  <2>1. <<Root>> \in Seq(Path)
    BY ParentAssumption
  <2>2. ClientTyped'
    BY <1>3, <2>1 DEF StartClient, Initialization, SystemTyped, ClientTyped, NoPaths, Node, PC,
       WalkPC, IteratorPC, ScanPC, At
  <2>3. stray' \subseteq (0 .. MaxFaults) \X Request
    BY <1>3, BackupAssumption DEF StartClient, SystemTyped
  <2> QED
    BY <1>3, <2>2, <2>3 DEF StartClient, SystemTyped
<1>4. CASE ServerStep \/ Unheard \/ ServerStart \/ Timeout \/ ServerCrash
  BY <1>4, ServerTyped
<1>5. CASE User
  BY <1>5, UserTyped
<1> QED
  BY <1>1, <1>2, <1>3, <1>4, <1>5 DEF Next

\* The variables have their types: above all, the user's folder and the server's
\* copy are trees, whatever the user does and whatever requests are executed, late
\* or not.
THEOREM TypeCorrect == Spec => []TypeOK
BY InitTyped, NextTyped, SystemTypedIsTypeOK, PTL DEF Spec

-----------------------------------------------------------------------------
(***************************************************************************)
(* What holds whatever the user does and whatever request is executed,     *)
(* also a stray one: one request is waited for at a time; every request    *)
(* under way, waited for or given up, saves what the user has had, at the  *)
(* path of a file, or makes the path of a folder; and so both folders have *)
(* their usual names and the server nothing that is newer than the user's. *)
(* From here a new walk can start, whatever has happened before it.        *)
(***************************************************************************)
GivenUp == reply.status = "no_response"

RequestPC ==
    {"probing", "creating", "probed", "replacing", "replaced", "uploaded",
     "deleting", "removing", "making", "saving"}

OneRequest ==
    /\ pc \notin RequestPC => call = NoCall /\ reply = NoReply
    /\ late # NoCall => pc \in {"off", "retry"} \/ GivenUp

\* Content c of path p is one that the user has had, and no newer one than now.
Past(p, c) ==
    /\ c <= version
    /\ IsFile(local, p) => c <= local[p]

InOrder ==
    \A p \in Path : /\ IsFile(local, p) => local[p] <= version
                    /\ IsFile(remote, p) => Past(p, remote[p])

PastRequest(req) ==
    /\ req.op = "save" => req.path \in FileName /\ Past(req.path, req.content)
    /\ req.op = "mkdir" => req.path \in FolderName

UnderWay ==
    /\ Waiting => PastRequest(call)
    /\ late # NoCall => PastRequest(late)
    /\ \A s \in stray : PastRequest(s[2])

\* The folders that the client may yet make.
FoldersNamed ==
    /\ pc = "probing" => At \in FolderName
    /\ \A i \in 1 .. Len(open) : \A e \in open[i] : e[2] = "folder" => e[1] \in FolderName

BaseInv ==
    /\ OneRequest /\ InOrder /\ UnderWay /\ FoldersNamed
    /\ HasNames(local) /\ HasNames(remote)
    /\ pc \in {"off", "retry"} => open = <<>> /\ mtime = Absent

\* While the client waits it has no answer; without a request it waits for none.
LEMMA StatusOfNoReply == reply = NoReply => reply.status = "none" /\ ~GivenUp /\ ~Accepted
BY DEF NoReply, GivenUp, Accepted

\* The client waits for at most one request, and none is left of those given up
\* since its walk began.
LEMMA WaitingForOne ==
    ASSUME BaseInv, Waiting
    PROVE  late = NoCall /\ pc \in RequestPC
<1>1. pc \in RequestPC /\ ~GivenUp
  BY StatusOfNoReply DEF Waiting, BaseInv, OneRequest
<1> QED
  BY <1>1 DEF BaseInv, OneRequest, RequestPC

\* A step of the client goes on only after an answer, so that no request is left;
\* it makes no other save than of what is there, and no other folder than one that
\* has been there.
ClientGoesOn ==
    /\ reply' = NoReply
    /\ pc' \notin RequestPC => call' = NoCall
    /\ late # NoCall => pc' \in {"off", "retry"}
    /\ call' # NoCall =>
         \/ call'.op \notin {"save", "mkdir"}
         \/ call' = Save(At) /\ IsFile(local, At)
         \/ call'.op = "mkdir" /\ call'.path \in FolderName

LEMMA DieOrRetryGoesOn ==
    ASSUME Die \/ Retry
    PROVE  ClientGoesOn
BY DEF Die, Retry, Proceed, ClientGoesOn

LEMMA AnsweredIsLast ==
    ASSUME BaseInv, pc \notin {"off", "retry"}, Accepted
    PROVE  late = NoCall
BY DEF BaseInv, OneRequest, GivenUp, Accepted

LEMMA NoRequestIsLast ==
    ASSUME BaseInv, pc \notin {"off", "retry"}, pc \notin RequestPC
    PROVE  late = NoCall /\ call = NoCall /\ reply = NoReply
BY StatusOfNoReply DEF BaseInv, OneRequest

LEMMA WalkGoesOn ==
    ASSUME BaseInv, Walk
    PROVE  ClientGoesOn
<1>1. CASE Die
  BY <1>1, DieOrRetryGoesOn
<1>2. CASE ~Die /\ (\/ WalkFolder \/ OpenFolder \/ WalkEntry \/ UploadFile \/ RecordFile
                    \/ FolderDone \/ WalkDone)
  <2>1. pc \in {"take", "open", "entry", "replace", "upload", "record"}
    BY <1>2 DEF WalkFolder, OpenFolder, WalkEntry, UploadFile, RecordFile, FolderDone, WalkDone
  <2>2. late = NoCall /\ call = NoCall /\ reply = NoReply
    BY <2>1, NoRequestIsLast DEF RequestPC
  <2> QED
    BY <1>2, <2>1, <2>2 DEF WalkFolder, OpenFolder, WalkEntry, UploadFile, RecordFile, FolderDone,
       WalkDone, Send, OnPath, Save, ClientGoesOn, RequestPC
<1>3. CASE ~Die /\ (\/ FolderProbed \/ FolderCreated \/ FileProbed \/ FileReplacing
                    \/ FileReplaced \/ FileUploaded)
  <2>1. pc \in RequestPC /\ Accepted
    BY <1>3 DEF FolderProbed, FolderCreated, FileProbed, FileReplacing, FileReplaced, FileUploaded,
       WalkAnswer, Answered, Accepted, RequestPC
  <2>2. late = NoCall
    BY <2>1, AnsweredIsLast DEF RequestPC
  <2>3. CASE FolderProbed
    BY <1>3, <2>2, <2>3 DEF FolderProbed, Answered, Send, Proceed, OnPath, ClientGoesOn,
       RequestPC, BaseInv, FoldersNamed
  <2>4. CASE ~FolderProbed
    BY <1>3, <2>2, <2>4 DEF FolderCreated, FileProbed, FileReplacing, FileReplaced,
       FileUploaded, WalkAnswer, Send, Proceed, OnPath, ClientGoesOn, RequestPC
  <2> QED
    BY <2>3, <2>4
<1> QED
  BY <1>1, <1>2, <1>3 DEF Walk

\* The first of the open iterators.
LEMMA HeadNamed ==
    ASSUME SystemTyped, BaseInv, open # <<>>, NEW e \in Head(open), e[2] = "folder"
    PROVE  e[1] \in FolderName
<1>1. 1 \in 1 .. Len(open) /\ Head(open) = open[1]
  BY DEF SystemTyped, ClientTyped
<1> QED
  BY <1>1 DEF BaseInv, FoldersNamed

LEMMA WatchGoesOn ==
    ASSUME SystemTyped, BaseInv, Watch
    PROVE  ClientGoesOn
<1>1. CASE Die \/ Retry
  BY <1>1, DieOrRetryGoesOn
<1>2. CASE ~Die /\ (\/ Poll \/ CheckPath \/ ParentUpdated \/ CheckDone \/ ScanEntry \/ EncodeFile
                    \/ NextEntry \/ ScanPop)
  <2>1. pc \in {"sleep", "check", "parent", "scan", "encode", "next"}
    BY <1>2 DEF Poll, CheckPath, ParentUpdated, CheckDone, ScanEntry, EncodeFile, NextEntry,
       NextEntryWith, ScanPop
  <2>2. late = NoCall /\ call = NoCall /\ reply = NoReply
    BY <2>1, NoRequestIsLast DEF RequestPC
  <2>3. CASE ScanEntry
    <3>1. PICK e \in Head(open) :
            /\ reply' = NoReply /\ pc' \in {"making", "encode", "removing", "next"}
            /\ \/ call' = NoCall /\ pc' \notin RequestPC
               \/ call' = OnPath("delete", e[1]) /\ pc' \in RequestPC
               \/ call' = OnPath("mkdir", e[1]) /\ e[2] = "folder" /\ pc' \in RequestPC
      BY <1>2, <2>3 DEF ScanEntry, Send, Proceed, RequestPC
    <3>2. open # <<>>
      BY <2>3 DEF ScanEntry, SystemTyped, ClientTyped, IteratorPC, ScanPC
    <3>3. e[2] = "folder" => e[1] \in FolderName
      BY <3>2, HeadNamed
    <3> QED
      BY <2>2, <3>1, <3>3 DEF ClientGoesOn, OnPath
  <2>4. CASE ~ScanEntry
    BY <1>2, <2>1, <2>2, <2>4 DEF Poll, CheckPath, ParentUpdated, CheckDone, EncodeFile, NextEntry,
       NextEntryWith, ScanPop, Send, Proceed, OnPath, Save, ClientGoesOn, RequestPC
  <2> QED
    BY <2>3, <2>4
<1>3. CASE ~Retry /\ (PathDeleted \/ FolderMade \/ FileRemoved \/ FileSaved)
  <2>1. pc \in RequestPC /\ Accepted
    BY <1>3 DEF PathDeleted, FolderMade, FileRemoved, FileSaved, ScanAnswer, Answered, RequestPC
  <2>2. late = NoCall
    BY <2>1, AnsweredIsLast DEF RequestPC
  <2> QED
    BY <1>3, <2>2 DEF PathDeleted, FolderMade, FileRemoved, FileSaved, ScanAnswer, Proceed,
       ClientGoesOn
<1> QED
  BY <1>1, <1>2, <1>3 DEF Watch

LEMMA ClientLeavesFolder ==
    ASSUME ClientStep
    PROVE  UNCHANGED local
BY DEF ClientStep, Walk, WalkFolder, FolderProbed, FolderCreated, OpenFolder, WalkEntry,
   FileProbed, FileReplacing, UploadFile, FileReplaced, FileUploaded, RecordFile, FolderDone,
   WalkDone, WalkAnswer, Watch, Poll, CheckPath, PathDeleted, ParentUpdated, CheckDone, ScanEntry,
   FolderMade, FileRemoved, FileSaved, EncodeFile, NextEntry, NextEntryWith, ScanPop, ScanAnswer,
   Die, Retry, Unwind, dataVars

LEMMA ListingNamed ==
    ASSUME HasNames(local), NEW p, NEW e \in Listing(local, p), e[2] = "folder"
    PROVE  e[1] \in FolderName
<1>1. PICK q \in Entries(local, p) : e = <<q, Kind(local, q)>>
  BY DEF Listing
<1>2. q \in Path /\ local[q] = Folder
  BY <1>1 DEF Entries, Kind
<1> QED
  BY <1>1, <1>2 DEF HasNames

\* The iterators a step leaves: those that were there, with fewer entries, and a
\* new one.
OpenShrinks ==
    \/ open' = open
    \/ open' = <<>>
    \/ \E p : open' = <<Listing(local, p)>>
    \/ \E p : open' = <<Listing(local, p)>> \o open
    \/ open # <<>> /\ \E e : open' = <<Head(open) \ {e}>>
    \/ open # <<>> /\ \E e : open' = <<Head(open) \ {e}>> \o Tail(open)
    \/ open # <<>> /\ open' = Tail(open)

LEMMA ClientShrinksOpen ==
    ASSUME SystemTyped, ClientStep
    PROVE  OpenShrinks
<1>1. CASE Die \/ Retry
  BY <1>1 DEF Die, Retry, Unwind, OpenShrinks
<1>2. pc \in IteratorPC => open # <<>>
  BY DEF SystemTyped, ClientTyped
<1>3. CASE Walk /\ ~Die
  BY <1>2, <1>3 DEF Walk, WalkFolder, FolderProbed, FolderCreated, OpenFolder, WalkEntry,
     FileProbed, FileReplacing, UploadFile, FileReplaced, FileUploaded, RecordFile, FolderDone,
     WalkDone, WalkAnswer, dataVars, OpenShrinks, IteratorPC
<1>4. CASE Watch /\ ~Die /\ ~Retry
  BY <1>2, <1>4 DEF Watch, Poll, CheckPath, PathDeleted, ParentUpdated, CheckDone, ScanEntry,
     FolderMade, FileRemoved, FileSaved, EncodeFile, NextEntry, NextEntryWith, ScanPop,
     ScanAnswer, dataVars, OpenShrinks, IteratorPC, ScanPC
<1> QED
  BY <1>1, <1>3, <1>4 DEF ClientStep

LEMMA ClientKeepsNamed ==
    ASSUME SystemTyped, SystemTyped', BaseInv, ClientStep
    PROVE  FoldersNamed'
<1> DEFINE Good(S) == \A e \in S : e[2] = "folder" => e[1] \in FolderName
<1>1. \A p : Good(Listing(local, p))
  BY ListingNamed DEF BaseInv
<1>2. /\ open \in Seq(SUBSET (Path \X {"file", "folder"}))
      /\ open' \in Seq(SUBSET (Path \X {"file", "folder"}))
  BY DEF SystemTyped, ClientTyped
<1>3. \A i \in 1 .. Len(open) : Good(open[i])
  BY DEF BaseInv, FoldersNamed
<1>4. open # <<>> => Good(Head(open)) /\ \A i \in 1 .. Len(Tail(open)) : Good(Tail(open)[i])
  BY <1>2, <1>3
<1>5. \A S : Good(S) => \A e : Good(S \ {e})
  OBVIOUS
<1> HIDE DEF Good
<1>6. \A i \in 1 .. Len(open') : Good(open'[i])
  <2>1. ASSUME NEW S, Good(S), NEW s \in Seq(SUBSET (Path \X {"file", "folder"})),
               \A i \in 1 .. Len(s) : Good(s[i]), open' = <<S>> \o s
        PROVE  \A i \in 1 .. Len(open') : Good(open'[i])
    <3> SUFFICES ASSUME NEW i \in 1 .. Len(open') PROVE Good(open'[i])
      OBVIOUS
    <3>1. S = open'[1] /\ Len(open') = Len(s) + 1
      BY <2>1
    <3>2. CASE i = 1
      BY <2>1, <3>1, <3>2
    <3>3. CASE i # 1
      <4>1. i - 1 \in 1 .. Len(s) /\ open'[i] = s[i - 1]
        BY <2>1, <3>1, <3>3
      <4> QED
        BY <2>1, <4>1
    <3> QED
      BY <3>2, <3>3
  <2>2. ASSUME NEW S, Good(S), open' = <<S>> PROVE \A i \in 1 .. Len(open') : Good(open'[i])
    BY <2>2
  <2>3. open # <<>> => Tail(open) \in Seq(SUBSET (Path \X {"file", "folder"}))
    BY <1>2
  <2>4. CASE \E p : open' = <<Listing(local, p)>> \o open
    BY <1>1, <1>2, <1>3, <2>1, <2>4
  <2>5. CASE \E p : open' = <<Listing(local, p)>>
    BY <1>1, <2>2, <2>5
  <2>6. CASE open # <<>> /\ \E e : open' = <<Head(open) \ {e}>>
    BY <1>4, <1>5, <2>2, <2>6
  <2>7. CASE open # <<>> /\ \E e : open' = <<Head(open) \ {e}>> \o Tail(open)
    BY <1>4, <1>5, <2>1, <2>3, <2>7
  <2>8. CASE open' = open \/ open' = <<>> \/ (open # <<>> /\ open' = Tail(open))
    BY <1>3, <1>4, <2>8
  <2> QED
    BY <2>4, <2>5, <2>6, <2>7, <2>8, ClientShrinksOpen DEF OpenShrinks
<1>7. pc' = "probing" => At' \in FolderName
  <2> SUFFICES ASSUME pc' = "probing" PROVE At' \in FolderName
    OBVIOUS
  <2>1. WalkFolder /\ ~Die
    BY DEF ClientStep, Walk, WalkFolder, FolderProbed, FolderCreated, OpenFolder, WalkEntry,
       FileProbed, FileReplacing, UploadFile, FileReplaced, FileUploaded, RecordFile, FolderDone,
       WalkDone, WalkAnswer, Watch, Poll, CheckPath, PathDeleted, ParentUpdated, CheckDone,
       ScanEntry, FolderMade, FileRemoved, FileSaved, EncodeFile, NextEntry, NextEntryWith,
       ScanPop, ScanAnswer, Die, Retry, Proceed, Send, Answered
  <2>2. local[Head(jobs)] = Folder /\ At' = Head(jobs) /\ Head(jobs) \in Path
    BY <2>1 DEF WalkFolder, At, SystemTyped, ClientTyped
  <2> QED
    BY <2>2 DEF BaseInv, HasNames
<1> QED
  BY <1>6, <1>7 DEF FoldersNamed, Good

LEMMA ClientKeepsBase ==
    ASSUME SystemTyped, SystemTyped', BaseInv, ClientStep
    PROVE  BaseInv'
<1>1. ClientGoesOn /\ UNCHANGED <<local, remote, late, stray, version>>
  BY ClientLeavesFolder, WalkGoesOn, WatchGoesOn DEF ClientStep, serverVars
<1>2. OneRequest'
  BY <1>1 DEF ClientGoesOn, OneRequest
<1>3. InOrder' /\ HasNames(local)' /\ HasNames(remote)'
  BY <1>1 DEF BaseInv, InOrder, Past, IsFile, HasNames
<1>4. IsFile(local, At) => PastRequest(Save(At))
  <2>1. At \in Path
    BY DEF SystemTyped, ClientTyped, At
  <2>2. \A c \in Content : c <= c
    BY BackupAssumption
  <2>3. Save(At).op = "save" /\ Save(At).path = At /\ Save(At).content = local[At]
    BY DEF Save
  <2> QED
    BY <2>1, <2>2, <2>3 DEF BaseInv, InOrder, Past, IsFile, PastRequest, HasNames
<1>5. \A req : PastRequest(req)' <=> PastRequest(req)
  BY <1>1 DEF PastRequest, Past, IsFile
<1>6. call' # NoCall => PastRequest(call')
  BY <1>1, <1>4 DEF ClientGoesOn, PastRequest
<1>7. UnderWay'
  BY <1>1, <1>5, <1>6 DEF BaseInv, UnderWay, Waiting, PastRequest, Past, IsFile
<1>8. pc' \in {"off", "retry"} => open' = <<>> /\ mtime' = Absent
  BY DEF ClientStep, Walk, WalkFolder, FolderProbed, FolderCreated, OpenFolder, WalkEntry,
     FileProbed, FileReplacing, UploadFile, FileReplaced, FileUploaded, RecordFile, FolderDone,
     WalkDone, WalkAnswer, Watch, Poll, CheckPath, PathDeleted, ParentUpdated, CheckDone,
     ScanEntry, FolderMade, FileRemoved, FileSaved, EncodeFile, NextEntry, NextEntryWith,
     ScanPop, ScanAnswer, Die, Retry, Unwind, Proceed, Send, Answered
<1> QED
  BY <1>2, <1>3, <1>7, <1>8, ClientKeepsNamed DEF BaseInv

\* What a request of the past leaves on the server: usual names, and no file that
\* is newer than the user's.
LEMMA PastResult ==
    ASSUME SystemTyped, BaseInv, NEW req \in Request, PastRequest(req)
    PROVE  LET u == HandleRequest(remote, req).tree
           IN HasNames(u) /\ \A p \in Path : IsFile(u, p) => Past(p, u[p])
<1> DEFINE u == HandleRequest(remote, req).tree
<1>1. Effect(remote, u, req) /\ IsTree(remote)
  BY RequestEffect DEF SystemTyped
<1> HIDE DEF u
<1>2. ASSUME NEW p \in Path, IsFile(u, p) PROVE p \in FileName /\ Past(p, u[p])
  <2>1. CASE u[p] = remote[p]
    BY <1>2, <2>1 DEF BaseInv, InOrder, HasNames, IsFile
  <2>2. CASE req.op = "save" /\ p = req.path /\ u[p] = req.content
    BY <2>2 DEF PastRequest
  <2> QED
    BY <1>1, <1>2, <2>1, <2>2, NodeAssumption DEF Effect, IsTree, IsFile
<1>3. ASSUME NEW p \in Path, u[p] = Folder PROVE p \in FolderName
  <2>1. CASE u[p] = remote[p]
    BY <1>3, <2>1 DEF BaseInv, HasNames
  <2>2. CASE req.op = "mkdir" /\ p = req.path
    BY <2>2 DEF PastRequest
  <2> QED
    BY <1>1, <1>3, <2>1, <2>2, NodeAssumption DEF Effect, IsTree, IsFile, Request
<1> QED
  BY <1>2, <1>3 DEF HasNames, u

LEMMA ServerKeepsBase ==
    ASSUME SystemTyped, BaseInv, ServerStep \/ Unheard \/ ServerStart \/ Timeout \/ ServerCrash
    PROVE  BaseInv'
<1>1. UNCHANGED <<local, pc, cur, mtime, open, call, version>>
  BY DEF ServerStep, Serve, NoServer, Unheard, ServeLate, ServeStray, DropLate, DropStray,
     ServerStart, Timeout, ServerCrash, clientVars, dataVars
<1>2. /\ FoldersNamed' /\ HasNames(local)'
      /\ pc' \in {"off", "retry"} => open' = <<>> /\ mtime' = Absent
  BY <1>1 DEF BaseInv, FoldersNamed, HasNames, IsFile, At
<1>3. /\ \A req : PastRequest(req)' <=> PastRequest(req)
      /\ \A p, c : Past(p, c)' <=> Past(p, c)
  BY <1>1 DEF PastRequest, Past, IsFile
<1>4. ASSUME UNCHANGED remote PROVE HasNames(remote)' /\ InOrder'
  BY <1>1, <1>4 DEF BaseInv, HasNames, InOrder, Past, IsFile
<1>5. ASSUME NEW req \in Request, PastRequest(req), remote' = HandleRequest(remote, req).tree
      PROVE  HasNames(remote)' /\ InOrder'
  <2>1. HasNames(remote') /\ \A p \in Path : IsFile(remote', p) => Past(p, remote'[p])
    BY <1>5, PastResult
  <2> QED
    BY <1>1, <2>1 DEF BaseInv, HasNames, InOrder, Past, IsFile
<1>6. CASE Serve
  <2>1. Waiting /\ Execute(call) /\ call \in Request /\ UNCHANGED <<late, stray>>
    BY <1>6 DEF Serve, Waiting, SystemTyped, ClientTyped
  <2>2. remote' = HandleRequest(remote, call).tree /\ reply' # NoReply
    <3>1. HandleRequest(remote, call).status \in Status
      BY <2>1, ResultTyped
    <3> QED
      BY <2>1, <3>1 DEF Execute, NoResponse, NoReply, Status
  <2>3. HasNames(remote)' /\ InOrder'
    BY <1>5, <2>1, <2>2 DEF BaseInv, UnderWay
  <2>4. late = NoCall /\ pc \in RequestPC
    BY <2>1, WaitingForOne
  <2>5. OneRequest' /\ UnderWay'
    BY <1>1, <1>3, <2>1, <2>2, <2>4 DEF BaseInv, OneRequest, UnderWay, Waiting
  <2> QED
    BY <1>2, <2>3, <2>5 DEF BaseInv
<1>7. CASE ServeLate
  <2>1. late # NoCall /\ late' = NoCall /\ UNCHANGED <<reply, stray>> /\ late \in Request
    BY <1>7 DEF ServeLate, clientVars, SystemTyped
  <2>2. remote' = HandleRequest(remote, late).tree
    BY <1>7 DEF ServeLate, ExecuteUnheard
  <2>3. HasNames(remote)' /\ InOrder'
    BY <1>5, <2>1, <2>2 DEF BaseInv, UnderWay
  <2>4. OneRequest' /\ UnderWay'
    BY <1>1, <1>3, <2>1 DEF BaseInv, OneRequest, UnderWay, Waiting
  <2> QED
    BY <1>2, <2>3, <2>4 DEF BaseInv
<1>8. CASE ServeStray
  <2>1. PICK s \in stray : ExecuteUnheard(s[2]) /\ stray' = stray \ {s}
    BY <1>8 DEF ServeStray
  <2>2. s[2] \in Request /\ PastRequest(s[2]) /\ UNCHANGED <<reply, late>>
    BY <1>8 DEF SystemTyped, BaseInv, UnderWay, ServeStray, clientVars
  <2>3. HasNames(remote)' /\ InOrder'
    BY <1>5, <2>1, <2>2 DEF ExecuteUnheard
  <2>4. OneRequest' /\ UnderWay'
    BY <1>1, <1>3, <2>1, <2>2 DEF BaseInv, OneRequest, UnderWay, Waiting, GivenUp
  <2> QED
    BY <1>2, <2>3, <2>4 DEF BaseInv
<1>9. CASE NoServer \/ Timeout
  <2>1. /\ Waiting /\ reply' = NoResponse /\ UNCHANGED <<remote, stray>>
        /\ late' = late \/ late' = call
    BY <1>9 DEF NoServer, Timeout, serverVars
  <2>2. pc \in RequestPC /\ reply' # NoReply /\ GivenUp'
    BY <2>1, WaitingForOne DEF NoResponse, NoReply, GivenUp
  <2>3. OneRequest' /\ UnderWay'
    BY <1>1, <1>3, <2>1, <2>2 DEF BaseInv, OneRequest, UnderWay, Waiting
  <2> QED
    BY <1>2, <1>4, <2>1, <2>3 DEF BaseInv
<1>10. CASE DropLate \/ DropStray \/ ServerStart \/ ServerCrash
  <2>1. /\ UNCHANGED <<reply, remote>> /\ (late' = late \/ late' = NoCall)
        /\ stray' \subseteq stray
    BY <1>10 DEF DropLate, DropStray, ServerStart, ServerCrash, clientVars
  <2>2. OneRequest' /\ UnderWay'
    BY <1>1, <1>3, <2>1 DEF BaseInv, OneRequest, UnderWay, Waiting, GivenUp
  <2> QED
    BY <1>2, <1>4, <2>1, <2>2 DEF BaseInv
<1> QED
  BY <1>6, <1>7, <1>8, <1>9, <1>10 DEF ServerStep, Unheard

\* What the user writes is newer than all there is, and what is under way.
LEMMA UserKeepsBase ==
    ASSUME SystemTyped, BaseInv, User
    PROVE  BaseInv'
<1>1. /\ UNCHANGED <<pc, cur, mtime, open, call, reply, remote, late, stray>>
      /\ version' = version + 1 /\ version \in Nat
  <2>1. version \in Nat
    BY BackupAssumption DEF SystemTyped
  <2> QED
    BY <2>1 DEF User, WriteFile, MakeFolder, Remove, Edit, serverVars
<1>2. \A p \in Path : IsFile(local, p)' => local'[p] = local[p] \/ local'[p] = version + 1
  <2>1. ASSUME NEW q \in Path, NEW node \in {version + 1, Folder, Absent}, Edit(q, node)
        PROVE  \A p \in Path : IsFile(local, p)' => local'[p] = local[p] \/ local'[p] = version + 1
    BY <2>1, NodeAssumption DEF Edit, RemoveAll, IsFile
  <2>2. FileName \subseteq Path /\ UserFolder \subseteq Path
    BY BackupAssumption
  <2> QED
    BY <2>1, <2>2 DEF User, WriteFile, MakeFolder, Remove
<1>3. HasNames(local)'
  <2>1. ASSUME NEW q \in Path, NEW node, Edit(q, node), NEW p \in Path, local'[p] # Absent
        PROVE  local'[p] = local[p] \/ (p = q /\ local'[p] = node)
    BY <2>1 DEF Edit, RemoveAll
  <2>2. FileName \subseteq Path /\ UserFolder \subseteq Path /\ UserFolder \subseteq FolderName
    BY BackupAssumption
  <2>3. version' \in Content
    <3>1. version < MaxVersion /\ MaxVersion \in Nat /\ Content = 0 .. MaxVersion
      BY BackupAssumption DEF User, WriteFile, MakeFolder, Remove, Edit
    <3> QED
      BY <1>1, <3>1
  <2>4. CASE \E q \in FileName : WriteFile(q)
    <3>1. PICK q \in FileName : Edit(q, version')
      BY <1>1, <2>4 DEF WriteFile
    <3> QED
      BY <2>1, <2>2, <2>3, <3>1, NodeAssumption DEF BaseInv, HasNames, IsFile
  <2>5. CASE \E q \in UserFolder : MakeFolder(q)
    BY <2>1, <2>2, <2>5, NodeAssumption DEF MakeFolder, BaseInv, HasNames, IsFile
  <2>6. CASE \E q \in FileName \cup UserFolder : Remove(q)
    BY <2>1, <2>2, <2>6, NodeAssumption DEF Remove, BaseInv, HasNames, IsFile
  <2> QED
    BY <2>4, <2>5, <2>6 DEF User
<1>4. ASSUME NEW p \in Path, NEW c \in Nat, Past(p, c) PROVE Past(p, c)'
  <2>1. c <= version + 1 /\ c <= version'
    BY <1>1, <1>4 DEF Past
  <2> QED
    BY <1>2, <1>4, <2>1 DEF Past, IsFile
<1>5. InOrder'
  <2>1. ASSUME NEW p \in Path, IsFile(local, p)' PROVE local'[p] <= version'
    BY <1>1, <1>2, <2>1, BackupAssumption DEF BaseInv, InOrder, IsFile
  <2>2. ASSUME NEW p \in Path, IsFile(remote, p)' PROVE Past(p, remote[p])'
    BY <1>1, <1>4, <2>2, BackupAssumption DEF BaseInv, InOrder, IsFile
  <2> QED
    BY <1>1, <2>1, <2>2 DEF InOrder
<1>6. ASSUME NEW req \in Request, PastRequest(req) PROVE PastRequest(req)'
  <2>1. req.op = "save" => req.path \in Path /\ req.content \in Nat
    BY BackupAssumption DEF Request
  <2> QED
    BY <1>4, <1>6, <2>1 DEF PastRequest
<1>7. /\ Waiting' => Waiting /\ call \in Request
      /\ late # NoCall => late \in Request
      /\ \A s \in stray : s[2] \in Request
  BY <1>1 DEF Waiting, SystemTyped, ClientTyped
<1>8. UnderWay'
  BY <1>1, <1>6, <1>7 DEF BaseInv, UnderWay, PastRequest, Past, IsFile
<1>9. OneRequest' /\ FoldersNamed' /\ HasNames(remote)'
  BY <1>1 DEF BaseInv, OneRequest, GivenUp, FoldersNamed, At, HasNames, IsFile
<1> QED
  BY <1>1, <1>3, <1>5, <1>8, <1>9 DEF BaseInv

LEMMA InitBase == Init => BaseInv
<1> SUFFICES ASSUME Init PROVE BaseInv
  OBVIOUS
<1>1. /\ pc = "off" /\ call = NoCall /\ reply = NoReply /\ late = NoCall /\ version = 1
      /\ stray = {} /\ open = <<>> /\ mtime = Absent /\ HasNames(local) /\ HasNames(remote)
      /\ local \in [Path -> {1, Folder, Absent}] /\ remote \in [Path -> {0, 1, Folder, Absent}]
  BY DEF Init, ClientInit
<1>2. \A p \in Path : /\ IsFile(local, p) => local[p] = 1
                      /\ IsFile(remote, p) => remote[p] \in {0, 1}
  BY <1>1, NodeAssumption DEF IsFile
<1>3. InOrder
  <2>1. ASSUME NEW p \in Path, NEW c \in {0, 1} PROVE Past(p, c)
    BY <1>1, <1>2 DEF Past
  <2>2. ASSUME NEW p \in Path, IsFile(local, p) PROVE local[p] <= version
    BY <1>1, <1>2, <2>2
  <2> QED
    BY <1>2, <2>1, <2>2 DEF InOrder
<1> QED
  BY <1>1, <1>3 DEF BaseInv, OneRequest, UnderWay, FoldersNamed, Waiting

\* A new walk: what was given up in the last one is a stray request now.
LEMMA StartKeepsBase ==
    ASSUME SystemTyped, BaseInv, StartClient
    PROVE  BaseInv'
<1>1. /\ UNCHANGED <<local, remote, version, call, reply, open>> /\ pc' = "take"
      /\ late' = NoCall /\ call = NoCall /\ reply = NoReply /\ open = <<>>
  BY DEF StartClient, Initialization, BaseInv, OneRequest, RequestPC
<1>2. \A s \in stray' : s \in stray \/ (late # NoCall /\ s[2] = late)
  BY DEF StartClient
<1>3. \A req : PastRequest(req)' <=> PastRequest(req)
  BY <1>1 DEF PastRequest, Past, IsFile
<1>4. UnderWay'
  BY <1>1, <1>2, <1>3 DEF BaseInv, UnderWay, Waiting
<1>5. OneRequest' /\ InOrder' /\ FoldersNamed' /\ HasNames(local)' /\ HasNames(remote)'
  BY <1>1 DEF BaseInv, OneRequest, InOrder, Past, IsFile, FoldersNamed, HasNames
<1> QED
  BY <1>1, <1>4, <1>5 DEF BaseInv

LEMMA NextBase == SystemTyped /\ SystemTyped' /\ BaseInv /\ [Next]_vars => BaseInv'
<1> SUFFICES ASSUME SystemTyped, SystemTyped', BaseInv, [Next]_vars PROVE BaseInv'
  OBVIOUS
<1>1. CASE UNCHANGED vars
  BY <1>1 DEF vars, clientVars, dataVars, serverVars, BaseInv, OneRequest, GivenUp, InOrder,
     Past, IsFile, UnderWay, PastRequest, Waiting, FoldersNamed, At, HasNames
<1> QED
  BY <1>1, ClientKeepsBase, StartKeepsBase, ServerKeepsBase, UserKeepsBase DEF Next

LEMMA BaseAlways == Spec => []BaseInv
BY InitTyped, NextTyped, InitBase, NextBase, PTL DEF Spec

-----------------------------------------------------------------------------

(***************************************************************************)
(* The inductive invariant of a walk that the user does not interfere      *)
(* with.  It says which request the client waits for and what its answer   *)
(* means, that nothing recorded in paths_ differs on the server, and that  *)
(* whatever is in a recorded folder is recorded or will be reached.  Once  *)
(* the client has given a request up it promises nothing: the request may  *)
(* still be executed, but the walk will end with the process.              *)
(***************************************************************************)
FolderPC == {"probing", "creating", "open"}

FilePC == {"probed", "replacing", "replace", "replaced", "upload", "uploaded", "record"}

\* The request at each point, and none where there is no request.
Asked ==
    /\ pc = "probing" =>
         call = [op |-> "probefolder", path |-> At, children |-> Entries(local, At)]
    /\ pc = "creating" => call = OnPath("mkdir", At)
    /\ pc = "probed" => call = OnPath("probefile", At)
    /\ pc = "replacing" => call = OnPath("delete", At)
    /\ pc \in {"replaced", "uploaded"} => call = Save(At)
    /\ pc \in {"take", "open", "entry", "replace", "upload", "record"} =>
         call = NoCall /\ reply = NoReply

\* The copy of a folder contains nothing that is not in the folder.
FolderReady(p) == remote[p] = Folder /\ Entries(remote, p) \subseteq Entries(local, p)

\* What the answers mean.
Learnt ==
    /\ pc = "probing" /\ reply.status = "ok" => FolderReady(At)
    /\ pc = "creating" /\ Accepted => FolderReady(At)
    /\ pc = "open" => FolderReady(At)
    /\ pc = "probed" /\ reply.status = "ok" => reply.digest = remote[At]
    /\ pc \in {"replaced", "uploaded"} /\ Accepted => remote[At] = local[At]
    /\ pc = "record" => remote[At] = local[At]

\* The kinds of what is walked are those of the entries in the user's folder.
Kinds ==
    /\ pc \in FolderPC => local[At] = Folder
    /\ pc \in FilePC => IsFile(local, At)
    /\ open # <<>> => \A e \in Head(open) : local[e[1]] # Absent /\ e[2] = Kind(local, e[1])

Recorded(p) == paths[p] # Absent

\* What is recorded is on the server, except for a file that is being treated.
Copied ==
    \A p \in Path : Recorded(p) =>
        /\ local[p] # Absent
        /\ ~(pc \in FilePC /\ p = At) => remote[p] = local[p]
        /\ local[p] = Folder => Entries(remote, p) \subseteq Entries(local, p)

\* The client will come to p.
Coming(p) ==
    \/ \E i \in 1 .. Len(jobs) : jobs[i] = p
    \/ open # <<>> /\ \E e \in Head(open) : e[1] = p
    \/ pc \in FolderPC \cup FilePC /\ At = p

Complete ==
    /\ Recorded(Root) \/ Coming(Root)
    /\ \A p \in Path \ {Root} :
         (Recorded(Parent[p]) /\ local[p] # Absent) => Recorded(p) \/ Coming(p)

WalkInv ==
    /\ pc \in {"off", "retry"} => call = NoCall /\ reply = NoReply /\ open = <<>>
    /\ pc \in {"take"} \cup FolderPC => open = <<>>
    /\ pc \in WalkPC =>
        /\ Asked
        /\ late # NoCall => GivenUp
        /\ GivenUp \/ (Learnt /\ Kinds /\ Copied /\ Complete)

\* What holds of a walk whose requests have all been answered so far.
Walking == Asked /\ late = NoCall /\ Learnt /\ Kinds /\ Copied /\ Complete

LEMMA NotGivenUp ==
    ASSUME WalkInv, pc \in WalkPC, ~GivenUp
    PROVE  Walking
BY DEF Walking, WalkInv

-----------------------------------------------------------------------------
(* What each request of a walk does to the server's copy.                  *)

LEMMA ProbeFolderKeeps ==
    ASSUME SystemTyped, Copied, pc = "probing", local[At] = Folder,
           UNCHANGED <<local, paths, pc, cur>>,
           remote' = RemoveAll(remote, Entries(remote, At) \ Entries(local, At)),
           remote[At] = Folder
    PROVE  Copied' /\ FolderReady(At)'
<1> DEFINE S == Entries(remote, At) \ Entries(local, At)
<1>1. IsTree(local) /\ At \in Path /\ S \in SUBSET Path
  BY DEF SystemTyped, ClientTyped, At, Entries
<1>2. \A q \in S : local[q] = Absent
  BY DEF Entries
<1>3. \A p \in Path : local[p] # Absent => remote'[p] = remote[p]
  BY <1>1, <1>2, RemoveAllKeeps, NodeAssumption
<1>4. \A p \in Path : Entries(remote', p) \subseteq Entries(remote, p)
  BY RemoveAllShrinks
<1>5. Entries(remote', At) \cap S = {}
  BY <1>1, ParentAssumption DEF Entries, RemoveAll
<1>6. FolderReady(At)'
  BY <1>1, <1>3, <1>4, <1>5, NodeAssumption DEF FolderReady, Entries, At
<1>7. Copied'
  BY <1>3, <1>4 DEF Copied, Recorded, Entries, At
<1> QED
  BY <1>6, <1>7

\* Something is put at the entry: what is there is in the user's folder.
LEMMA PutKeeps ==
    ASSUME SystemTyped, Copied, UNCHANGED <<local, paths, pc, cur>>, NEW node,
           remote' = [remote EXCEPT ![At] = node], local[At] # Absent,
           pc \in FilePC \/ node = local[At],
           local[At] = Folder => Entries(remote', At) = {}
    PROVE  Copied'
<1>1. \A p \in Path : remote'[p] = IF p = At THEN node ELSE remote[p]
  BY DEF SystemTyped, IsTree
<1>2. ASSUME NEW p \in Path, p # At, local[p] = Folder, Recorded(p)
      PROVE  Entries(remote', p) \subseteq Entries(local, p)
  <2>1. Entries(remote, p) \subseteq Entries(local, p)
    BY <1>2 DEF Copied
  <2> QED
    BY <1>1, <2>1 DEF Entries
<1>3. ASSUME NEW p \in Path, Recorded(p)
      PROVE  /\ ~(pc \in FilePC /\ p = At) => remote'[p] = local[p]
             /\ local[p] = Folder => Entries(remote', p) \subseteq Entries(local, p)
  BY <1>1, <1>2, <1>3 DEF Copied
<1> QED
  BY <1>3 DEF Copied, Recorded, Entries, At

LEMMA MakeFolderKeeps ==
    ASSUME SystemTyped, Copied, pc = "creating", local[At] = Folder,
           UNCHANGED <<local, paths, pc, cur>>,
           remote' = [remote EXCEPT ![At] = Folder], remote[At] = Absent
    PROVE  Copied' /\ FolderReady(At)'
<1>1. At \in Path /\ IsTree(remote)
  BY DEF SystemTyped, ClientTyped, At
<1>2. \A p \in Path \ {Root} : Parent[p] = At => remote[p] = Absent /\ p # At
  BY <1>1, NodeAssumption, ParentAssumption DEF IsTree
<1>3. Entries(remote', At) = {}
  BY <1>1, <1>2 DEF Entries, IsTree
<1>4. Copied'
  BY <1>3, PutKeeps, NodeAssumption
<1>5. remote'[At] = Folder /\ At' = At
  BY <1>1 DEF IsTree, At
<1> QED
  BY <1>3, <1>4, <1>5 DEF FolderReady

LEMMA DeleteKeeps ==
    ASSUME SystemTyped, Copied, pc \in FilePC, IsFile(local, At),
           UNCHANGED <<local, paths, pc, cur>>,
           remote' = RemoveAll(remote, {At})
    PROVE  Copied'
<1>1. IsTree(local) /\ At \in Path /\ local[At] # Folder
  BY NodeAssumption DEF SystemTyped, ClientTyped, At, IsFile
<1>2. \A p \in Path \ {At} : local[p] # Absent => remote'[p] = remote[p]
  BY <1>1, RemoveAllKeeps
<1>3. \A p \in Path : Entries(remote', p) \subseteq Entries(remote, p)
  BY RemoveAllShrinks
<1>4. ASSUME NEW p \in Path, Recorded(p)
      PROVE  /\ p # At => remote'[p] = local[p]
             /\ local[p] = Folder => Entries(remote', p) \subseteq Entries(local, p)
  BY <1>2, <1>3, <1>4 DEF Copied
<1> QED
  BY <1>4 DEF Copied, Recorded, Entries, At

-----------------------------------------------------------------------------
(* The server executes the request of a walk.                              *)

LEMMA ServeWalking ==
    ASSUME SystemTyped, WalkInv, pc \in WalkPC, Serve
    PROVE  WalkInv'
<1> DEFINE result == HandleRequest(remote, call)
<1>1. /\ Waiting /\ Execute(call)
      /\ UNCHANGED <<local, paths, pc, cur, jobs, open, call, late>>
  BY DEF Serve, dataVars
<1>2. Walking /\ reply = NoReply
  BY <1>1, NotGivenUp, StatusOfNoReply DEF Waiting
<1>3. /\ remote' = result.tree
      /\ reply'.status = IF result.status = "terminated" THEN "no_response" ELSE result.status
      /\ result.status # "terminated" => reply'.digest = result.digest
  BY <1>1 DEF Execute, NoResponse
<1>4. Asked' /\ (late' = NoCall) /\ Kinds' /\ Complete'
  <2>1. pc \notin {"take", "open", "entry", "replace", "upload", "record"}
    BY <1>1, <1>2 DEF Walking, Asked, Waiting
  <2> QED
    BY <1>1, <1>2, <2>1 DEF Walking, Asked, Kinds, Complete, Coming, Recorded, At, Save
<1>5. /\ pc' \in {"take"} \cup FolderPC => open' = <<>>
      /\ pc' \notin {"off", "retry"} /\ pc' \in WalkPC
  BY <1>1 DEF WalkInv, WalkPC
<1> SUFFICES GivenUp' \/ (Learnt' /\ Copied')
  BY <1>4, <1>5 DEF WalkInv
<1>6. At' = At /\ At \in Path /\ IsTree(remote)
  BY <1>1 DEF At, SystemTyped, ClientTyped
<1>7. ASSUME remote' = remote PROVE Copied'
  BY <1>1, <1>2, <1>7 DEF Walking, Copied, Recorded, At
<1> HIDE DEF result
<1>8. CASE pc = "probing"
  <2>1. call = [op |-> "probefolder", path |-> At, children |-> Entries(local, At)]
    BY <1>2, <1>8 DEF Walking, Asked
  <2>2. result = ProbeDirectory(remote, At, Entries(local, At))
    BY <2>1 DEF HandleRequest, result
  <2>3. CASE remote[At] = Folder
    <3>1. remote' = RemoveAll(remote, Entries(remote, At) \ Entries(local, At))
      BY <1>3, <2>2, <2>3 DEF ProbeDirectory, Done
    <3>2. Copied' /\ FolderReady(At)'
      BY <1>1, <1>2, <1>8, <2>3, <3>1, ProbeFolderKeeps DEF Walking, Kinds, FolderPC
    <3> QED
      BY <1>1, <1>8, <3>2 DEF Learnt
  <2>4. CASE remote[At] # Folder
    <3>1. remote' = remote /\ reply'.status = "not_found"
      BY <1>3, <2>2, <2>4 DEF ProbeDirectory, Done
    <3> QED
      BY <1>1, <1>7, <1>8, <3>1 DEF Learnt
  <2> QED
    BY <2>3, <2>4
<1>9. CASE pc = "creating"
  <2>1. call = OnPath("mkdir", At)
    BY <1>2, <1>9 DEF Walking, Asked
  <2>2. result = NewDirectory(remote, At)
    BY <2>1 DEF HandleRequest, OnPath, result
  <2>3. CASE remote[At] = Absent /\ HasPlace(remote, At)
    <3>1. remote' = [remote EXCEPT ![At] = Folder]
      BY <1>3, <2>2, <2>3, NodeAssumption DEF NewDirectory, Done
    <3>2. Copied' /\ FolderReady(At)'
      BY <1>1, <1>2, <1>9, <2>3, <3>1, MakeFolderKeeps DEF Walking, Kinds, FolderPC
    <3> QED
      BY <1>1, <1>9, <3>2 DEF Learnt
  <2>4. CASE ~(remote[At] = Absent /\ HasPlace(remote, At))
    <3>1. remote' = remote /\ reply'.status \in {"server_error", "no_response"}
      BY <1>3, <2>2, <2>4 DEF NewDirectory, Done
    <3> QED
      BY <1>1, <1>7, <1>9, <3>1 DEF Learnt, Accepted
  <2> QED
    BY <2>3, <2>4
<1>10. CASE pc = "probed"
  <2>1. call = OnPath("probefile", At)
    BY <1>2, <1>10 DEF Walking, Asked
  <2>2. result = GetFileDigest(remote, At)
    BY <2>1 DEF HandleRequest, OnPath, result
  <2>3. remote' = remote /\ (reply'.status = "ok" => reply'.digest = remote[At])
    BY <1>3, <2>2 DEF GetFileDigest, Done
  <2> QED
    BY <1>1, <1>6, <1>7, <1>10, <2>3 DEF Learnt
<1>11. CASE pc = "replacing"
  <2>1. call = OnPath("delete", At)
    BY <1>2, <1>11 DEF Walking, Asked
  <2>2. result = BackupDelete(remote, At)
    BY <2>1 DEF HandleRequest, OnPath, result
  <2>3. remote' = remote \/ remote' = RemoveAll(remote, {At})
    BY <1>3, <2>2 DEF BackupDelete, Done
  <2>4. Copied'
    BY <1>1, <1>2, <1>7, <1>11, <2>3, DeleteKeeps DEF Walking, Kinds, FilePC
  <2> QED
    BY <1>1, <1>11, <2>4 DEF Learnt
<1>12. CASE pc \in {"replaced", "uploaded"}
  <2>1. IsFile(local, At) /\ local[At] # Absent /\ local[At] # Folder
    BY <1>2, <1>12, NodeAssumption DEF Walking, Kinds, FilePC, IsFile
  <2>2. call = Save(At)
    BY <1>2, <1>12 DEF Walking, Asked
  <2>3. result = SaveFile(remote, At, local[At])
    BY <2>2 DEF HandleRequest, Save, result
  <2>4. CASE HasPlace(remote, At) /\ remote[At] # Folder
    <3>1. remote' = [remote EXCEPT ![At] = local[At]]
      BY <1>3, <2>3, <2>4 DEF SaveFile, Done
    <3>2. Copied'
      BY <1>1, <1>2, <1>12, <2>1, <3>1, PutKeeps DEF Walking, FilePC
    <3>3. remote'[At] = local[At]
      BY <1>6, <3>1 DEF IsTree
    <3> QED
      BY <1>1, <1>6, <1>12, <3>2, <3>3 DEF Learnt
  <2>5. CASE ~(HasPlace(remote, At) /\ remote[At] # Folder)
    <3>1. remote' = remote /\ reply'.status = "server_error"
      BY <1>3, <2>3, <2>5 DEF SaveFile, Done
    <3> QED
      BY <1>1, <1>7, <1>12, <3>1 DEF Learnt, Accepted
  <2> QED
    BY <2>4, <2>5
<1> QED
  BY <1>1, <1>2, <1>8, <1>9, <1>10, <1>11, <1>12 DEF Waiting, Walking, Asked, WalkPC

-----------------------------------------------------------------------------
(* The client's steps.                                                     *)

LEMMA ResetKeepsWalk ==
    ASSUME Unwind, NEW then \in {"off", "retry"}, Proceed(then)
    PROVE  WalkInv'
BY DEF Unwind, Proceed, WalkInv, WalkPC, FolderPC

LEMMA DieKeepsWalk == ASSUME Die PROVE WalkInv'
BY ResetKeepsWalk DEF Die

LEMMA RetryKeepsWalk == ASSUME Retry PROVE WalkInv'
BY ResetKeepsWalk DEF Retry

\* When a request has been given up, the walk ends.
LEMMA GivenUpDies ==
    ASSUME WalkInv, pc \in WalkPC, GivenUp, Walk
    PROVE  Die
<1>1. reply # NoReply /\ ~Accepted /\ reply.status \notin {"ok", "not_found"}
  BY StatusOfNoReply DEF GivenUp, Accepted
<1>2. pc \notin {"take", "open", "entry", "replace", "upload", "record"}
  BY <1>1 DEF WalkInv, Asked
<1> QED
  BY <1>1, <1>2 DEF Walk, WalkFolder, FolderProbed, FolderCreated, OpenFolder, WalkEntry,
     FileProbed, FileReplacing, UploadFile, FileReplaced, FileUploaded, RecordFile, FolderDone,
     WalkDone, WalkAnswer

\* The client goes on with the same entry, or makes the next request about it.
LEMMA GoOn ==
    ASSUME WalkInv, Walking, UNCHANGED <<dataVars, remote, late>>, pc' \in WalkPC,
           \/ pc \in FolderPC /\ pc' \in FolderPC
           \/ pc \in FilePC /\ pc' \in FilePC,
           Asked', Learnt'
    PROVE  WalkInv'
<1>1. (late' = NoCall) /\ Kinds' /\ Copied' /\ Complete'
  BY DEF Walking, dataVars, Kinds, Copied, Complete, Coming, Recorded, At, FolderPC, FilePC
<1>2. pc' \in {"take"} \cup FolderPC => open' = <<>>
  BY DEF WalkInv, dataVars, FolderPC, FilePC
<1> QED
  BY <1>1, <1>2 DEF WalkInv, WalkPC

\* It goes on with another one.
LEMMA GoTo ==
    ASSUME late' = NoCall, pc' \in {"take", "probing", "entry", "probed"},
           pc' \in {"take", "probing"} => open' = <<>>,
           pc' = "probing" =>
             call' = [op |-> "probefolder", path |-> At, children |-> Entries(local, At)]',
           pc' = "probed" => call' = OnPath("probefile", At)',
           pc' \in {"take", "entry"} => call' = NoCall,
           reply' = NoReply, Kinds', Copied', Complete'
    PROVE  WalkInv'
<1>1. Asked'
  BY DEF Asked
<1>2. Learnt'
  BY DEF Learnt, Accepted, NoReply
<1> QED
  BY <1>1, <1>2 DEF WalkInv, FolderPC

LEMMA StepWalking ==
    ASSUME SystemTyped, Walking, WalkInv, pc \in WalkPC, Walk, ~Die, UNCHANGED <<remote, late>>
    PROVE  WalkInv'
<1>1. /\ late' = NoCall
      /\ At \in Path /\ IsTree(local) /\ jobs \in Seq(Path)
      /\ open \in Seq(SUBSET (Path \X {"file", "folder"}))
  BY DEF Walking, SystemTyped, ClientTyped, At
<1>2. CASE WalkFolder
  <2>1. /\ pc = "take" /\ jobs # <<>> /\ local[Head(jobs)] = Folder
        /\ cur' = <<Head(jobs), "folder">>
        /\ jobs' = Tail(jobs)
        /\ Send([op |-> "probefolder", path |-> Head(jobs),
                 children |-> Entries(local, Head(jobs))], "probing")
        /\ UNCHANGED <<local, paths, mtime, open, check>>
    BY <1>2 DEF WalkFolder
  <2>2. At' = Head(jobs) /\ open = <<>>
    BY <2>1 DEF At, WalkInv
  <2>3. Kinds'
    BY <2>1, <2>2 DEF Kinds, Send, FilePC
  <2>4. Copied'
    BY <1>1, <2>1 DEF Walking, Copied, Recorded, Send, FilePC
  <2>5. ASSUME NEW p \in Path, Coming(p) PROVE Coming(p)'
    <3>1. PICK i \in 1 .. Len(jobs) : jobs[i] = p
      BY <2>1, <2>2, <2>5 DEF Coming, FolderPC, FilePC
    <3>2. CASE i = 1
      BY <2>1, <2>2, <3>1, <3>2 DEF Coming, Send, FolderPC
    <3>3. CASE i # 1
      <4>1. i - 1 \in 1 .. Len(jobs') /\ jobs'[i - 1] = p
        BY <1>1, <2>1, <3>1, <3>3
      <4> QED
        BY <4>1 DEF Coming
    <3> QED
      BY <3>2, <3>3
  <2>6. Complete'
    BY <2>1, <2>5, ParentAssumption DEF Walking, Complete, Recorded
  <2> QED
    BY <1>1, <2>1, <2>2, <2>3, <2>4, <2>6, GoTo DEF Send
<1>3. CASE FolderProbed
  <2>1. pc = "probing" /\ UNCHANGED dataVars /\ At' = At
    BY <1>3 DEF FolderProbed, Answered, dataVars, At
  <2>2. CASE reply.status = "ok" /\ Proceed("open")
    <3>1. FolderReady(At)'
      BY <2>1, <2>2 DEF Walking, Learnt, FolderReady, dataVars
    <3>2. Asked' /\ Learnt'
      BY <2>2, <3>1 DEF Proceed, Asked, Learnt
    <3> QED
      BY <2>1, <2>2, <3>2, GoOn DEF Proceed, FolderPC, WalkPC
  <2>3. CASE Send(OnPath("mkdir", At), "creating")
    <3>1. Asked' /\ Learnt'
      BY <2>1, <2>3, StatusOfNoReply DEF Send, Asked, Learnt, Accepted, NoReply
    <3> QED
      BY <2>1, <2>3, <3>1, GoOn DEF Send, FolderPC, WalkPC
  <2> QED
    BY <1>3, <2>2, <2>3 DEF FolderProbed
<1>4. CASE FolderCreated
  <2>1. /\ pc = "creating" /\ Accepted /\ Proceed("open")
        /\ UNCHANGED dataVars /\ At' = At
    BY <1>4 DEF FolderCreated, WalkAnswer, Answered, dataVars, At
  <2>2. FolderReady(At)'
    BY <2>1 DEF Walking, Learnt, FolderReady, dataVars
  <2>3. Asked' /\ Learnt'
    BY <2>1, <2>2 DEF Proceed, Asked, Learnt
  <2> QED
    BY <2>1, <2>3, GoOn DEF Proceed, FolderPC, WalkPC
<1>5. CASE OpenFolder
  <2>1. /\ pc = "open" /\ local[At] = Folder
        /\ paths' = [paths EXCEPT ![At] = Folder]
        /\ open' = <<Listing(local, At)>>
        /\ pc' = "entry"
        /\ UNCHANGED <<local, cur, mtime, jobs, check, call, reply>>
    BY <1>5 DEF OpenFolder
  <2>2. Head(open') = Listing(local, At) /\ open' # <<>>
    BY <2>1
  <2>3. Kinds'
    BY <2>1, <2>2 DEF Kinds, FolderPC, FilePC, Listing, Entries
  <2>4. \A p \in Path : paths'[p] = IF p = At THEN Folder ELSE paths[p]
    BY <1>1, <2>1 DEF SystemTyped, ClientTyped, Key
  <2>5. FolderReady(At)
    BY <2>1 DEF Walking, Learnt
  <2>6. Copied'
    BY <2>1, <2>4, <2>5, NodeAssumption DEF Walking, Copied, Recorded, FolderReady, Entries, FilePC
  <2>7. ASSUME NEW p \in Path, Coming(p) PROVE Recorded(p)' \/ Coming(p)'
    <3>1. open = <<>>
      BY <2>1 DEF WalkInv, FolderPC
    <3> QED
      BY <2>1, <2>4, <2>7, <3>1, NodeAssumption DEF Coming, Recorded, FilePC
  <2>8. ASSUME NEW p \in Path \ {Root}, Parent[p] = At, local[p] # Absent PROVE Coming(p)'
    <3>1. <<p, Kind(local, p)>> \in Head(open')
      BY <2>2, <2>8 DEF Listing, Entries
    <3> QED
      BY <2>2, <3>1 DEF Coming
  <2>9. Complete'
    BY <2>1, <2>4, <2>7, <2>8, NodeAssumption, ParentAssumption
    DEF Walking, Complete, Recorded
  <2> QED
    BY <1>1, <2>1, <2>3, <2>6, <2>9, GoTo DEF Walking, Asked
<1>6. CASE WalkEntry
  <2>1. PICK e \in Head(open) :
          /\ open' = <<Head(open) \ {e}>>
          /\ \/ /\ e[2] = "file"
                /\ cur' = e
                /\ Send(OnPath("probefile", e[1]), "probed")
                /\ UNCHANGED jobs
             \/ /\ e[2] = "folder"
                /\ jobs' = Append(jobs, e[1])
                /\ UNCHANGED <<pc, cur, call, reply>>
    BY <1>6 DEF WalkEntry
  <2>2. pc = "entry" /\ UNCHANGED <<local, paths, mtime, check>>
    BY <1>6 DEF WalkEntry
  <2>3. open # <<>> /\ Head(open) \in SUBSET (Path \X {"file", "folder"})
    BY <2>2 DEF SystemTyped, ClientTyped, IteratorPC
  <2>4. /\ e \in Path \X {"file", "folder"}
        /\ local[e[1]] # Absent /\ e[2] = Kind(local, e[1])
        /\ Head(open') = Head(open) \ {e} /\ open' # <<>>
    BY <2>1, <2>3 DEF Walking, Kinds
  <2>5. \A d \in Head(open') : local[d[1]] # Absent /\ d[2] = Kind(local, d[1])
    BY <2>3, <2>4 DEF Walking, Kinds
  <2>6. CASE e[2] = "file"
    <3>1. cur' = e /\ Send(OnPath("probefile", e[1]), "probed") /\ UNCHANGED jobs /\ At' = e[1]
      BY <2>1, <2>6 DEF At
    <3>2. IsFile(local, e[1])
      BY <1>1, <2>4, <2>6 DEF Kind, IsFile, IsTree, Node
    <3>3. Kinds'
      BY <2>2, <2>5, <3>1, <3>2 DEF Kinds, Send, FolderPC, IsFile
    <3>4. Copied'
      BY <2>2, <3>1 DEF Walking, Copied, Recorded, Entries, FilePC
    <3>5. ASSUME NEW p \in Path, Coming(p) PROVE Coming(p)'
      BY <2>2, <2>3, <2>4, <3>1, <3>5 DEF Coming, FolderPC, FilePC, Send
    <3>6. Complete'
      BY <2>2, <3>5, ParentAssumption DEF Walking, Complete, Recorded
    <3> QED
      BY <1>1, <3>1, <3>3, <3>4, <3>6, GoTo DEF Send
  <2>7. CASE e[2] = "folder"
    <3>1. jobs' = Append(jobs, e[1]) /\ UNCHANGED <<pc, cur, call, reply>> /\ At' = At
      BY <2>1, <2>7 DEF At
    <3>2. Kinds'
      BY <2>2, <2>5, <3>1 DEF Kinds, FolderPC, FilePC
    <3>3. Copied'
      BY <2>2, <3>1 DEF Walking, Copied, Recorded, Entries
    <3>4. /\ \A i \in 1 .. Len(jobs) : i \in 1 .. Len(jobs') /\ jobs'[i] = jobs[i]
          /\ Len(jobs') \in 1 .. Len(jobs') /\ jobs'[Len(jobs')] = e[1]
      BY <1>1, <2>4, <3>1
    <3>5. ASSUME NEW p \in Path, Coming(p) PROVE Coming(p)'
      BY <2>2, <2>3, <2>4, <3>1, <3>4, <3>5 DEF Coming, FolderPC, FilePC
    <3>6. Complete'
      BY <2>2, <3>5, ParentAssumption DEF Walking, Complete, Recorded
    <3> QED
      BY <1>1, <2>2, <3>1, <3>2, <3>3, <3>6, GoTo DEF Walking, Asked
  <2> QED
    BY <2>4, <2>6, <2>7
<1>7. CASE FileProbed
  <2>1. pc = "probed" /\ UNCHANGED dataVars /\ At' = At
    BY <1>7 DEF FileProbed, Answered, dataVars, At
  <2>2. CASE reply.status = "ok" /\ reply.digest = Digest(At) /\ Proceed("record")
    <3>1. remote[At] = local[At]
      BY <2>1, <2>2 DEF Walking, Learnt, Kinds, FilePC, Digest
    <3>2. Asked' /\ Learnt'
      BY <2>1, <2>2, <3>1 DEF Proceed, Asked, Learnt, dataVars
    <3> QED
      BY <2>1, <2>2, <3>2, GoOn DEF Proceed, FilePC, WalkPC
  <2>3. CASE Send(OnPath("delete", At), "replacing")
    <3>1. Asked' /\ Learnt'
      BY <2>1, <2>3 DEF Send, Asked, Learnt
    <3> QED
      BY <2>1, <2>3, <3>1, GoOn DEF Send, FilePC, WalkPC
  <2>4. CASE Proceed("upload")
    <3>1. Asked' /\ Learnt'
      BY <2>4 DEF Proceed, Asked, Learnt
    <3> QED
      BY <2>1, <2>4, <3>1, GoOn DEF Proceed, FilePC, WalkPC
  <2> QED
    BY <1>7, <2>2, <2>3, <2>4 DEF FileProbed
<1>8. CASE FileReplacing
  <2>1. pc = "replacing" /\ UNCHANGED dataVars /\ Proceed("replace")
    BY <1>8 DEF FileReplacing, WalkAnswer, Answered
  <2>2. Asked' /\ Learnt'
    BY <2>1 DEF Proceed, Asked, Learnt
  <2> QED
    BY <2>1, <2>2, GoOn DEF Proceed, FilePC, WalkPC
<1>9. CASE UploadFile
  <2>1. /\ pc \in {"replace", "upload"} /\ UNCHANGED dataVars /\ At' = At
        /\ Send(Save(At), IF pc = "replace" THEN "replaced" ELSE "uploaded")
    BY <1>9 DEF UploadFile, dataVars, At
  <2>2. pc' \in {"replaced", "uploaded"} /\ call' = Save(At) /\ reply' = NoReply
    BY <2>1 DEF Send
  <2>3. Save(At)' = Save(At)
    BY <2>1 DEF Save, dataVars
  <2>4. Asked' /\ Learnt'
    BY <2>2, <2>3 DEF Asked, Learnt, Accepted, NoReply
  <2> QED
    BY <2>1, <2>2, <2>4, GoOn DEF FilePC, WalkPC
<1>10. CASE FileReplaced
  <2>1. /\ pc = "replaced" /\ UNCHANGED dataVars /\ At' = At
        /\ Send(OnPath("probefile", At), "probed")
    BY <1>10 DEF FileReplaced, Answered, dataVars, At
  <2>2. Asked' /\ Learnt'
    BY <2>1 DEF Send, Asked, Learnt, NoReply
  <2> QED
    BY <2>1, <2>2, GoOn DEF Send, FilePC, WalkPC
<1>11. CASE FileUploaded
  <2>1. /\ pc = "uploaded" /\ UNCHANGED dataVars /\ At' = At /\ Accepted
        /\ Proceed("record")
    BY <1>11 DEF FileUploaded, WalkAnswer, Answered, dataVars, At
  <2>2. remote[At] = local[At]
    BY <2>1 DEF Walking, Learnt
  <2>3. Asked' /\ Learnt'
    BY <2>1, <2>2 DEF Proceed, Asked, Learnt, dataVars
  <2> QED
    BY <2>1, <2>3, GoOn DEF Proceed, FilePC, WalkPC
<1>12. CASE RecordFile
  <2>1. /\ pc = "record" /\ local[At] # Absent
        /\ paths' = [paths EXCEPT ![At] = local[At]]
        /\ pc' = "entry"
        /\ UNCHANGED <<local, cur, mtime, jobs, open, check, call, reply>>
    BY <1>12 DEF RecordFile
  <2>2. \A p \in Path : paths'[p] = IF p = At THEN local[At] ELSE paths[p]
    BY <1>1, <2>1 DEF SystemTyped, ClientTyped, Key
  <2>3. remote[At] = local[At] /\ IsFile(local, At) /\ local[At] # Folder
    BY <2>1, NodeAssumption DEF Walking, Learnt, Kinds, FilePC, IsFile
  <2>4. Kinds'
    BY <2>1 DEF Walking, Kinds, FolderPC, FilePC
  <2>5. Copied'
    BY <2>1, <2>2, <2>3 DEF Walking, Copied, Recorded, Entries, FilePC
  <2>6. ASSUME NEW p \in Path, Coming(p) PROVE Recorded(p)' \/ Coming(p)'
    BY <2>1, <2>2, <2>6 DEF Coming, Recorded
  <2>7. \A p \in Path \ {Root} : Recorded(Parent[p])' /\ local[p] # Absent => Recorded(Parent[p])
    BY <1>1, <2>2, <2>3, ParentAssumption DEF Recorded, IsTree
  <2>8. \A p \in Path : Recorded(p) => Recorded(p)'
    BY <2>1, <2>2 DEF Recorded
  <2>9. Complete'
    BY <2>1, <2>6, <2>7, <2>8, ParentAssumption DEF Walking, Complete
  <2> QED
    BY <1>1, <2>1, <2>4, <2>5, <2>9, GoTo DEF Walking, Asked
<1>13. CASE FolderDone
  <2>1. /\ pc = "entry" /\ Head(open) = {} /\ open' = <<>> /\ pc' = "take"
        /\ UNCHANGED <<local, paths, cur, mtime, jobs, check, call, reply>>
    BY <1>13 DEF FolderDone
  <2>2. Kinds' /\ Copied'
    BY <2>1 DEF Walking, Kinds, Copied, Recorded, Entries, FolderPC, FilePC
  <2>3. ASSUME NEW p \in Path, Coming(p) PROVE Coming(p)'
    BY <2>1, <2>3 DEF Coming, FolderPC, FilePC
  <2>4. Complete'
    BY <2>1, <2>3, ParentAssumption DEF Walking, Complete, Recorded
  <2> QED
    BY <1>1, <2>1, <2>2, <2>4, GoTo DEF Walking, Asked
<1>14. CASE WalkDone
  BY <1>14 DEF WalkDone, WalkInv, FolderPC, WalkPC
<1> QED
  BY <1>2, <1>3, <1>4, <1>5, <1>6, <1>7, <1>8, <1>9, <1>10, <1>11, <1>12, <1>13, <1>14 DEF Walk

-----------------------------------------------------------------------------
(* All steps.                                                              *)

LEMMA WalkStepKeeps ==
    ASSUME SystemTyped, WalkInv, Walk, UNCHANGED <<remote, late>>
    PROVE  WalkInv'
<1>1. CASE Die
  BY <1>1, DieKeepsWalk
<1>2. pc \in WalkPC
  BY DEF Walk, WalkFolder, FolderProbed, FolderCreated, OpenFolder, WalkEntry, FileProbed,
     FileReplacing, UploadFile, FileReplaced, FileUploaded, RecordFile, FolderDone, WalkDone,
     WalkAnswer, Answered, WalkPC
<1> QED
  BY <1>1, <1>2, GivenUpDies, NotGivenUp, StepWalking

\* A poll ends where it began, or in retry or off.
LEMMA WatchStepKeeps ==
    ASSUME WalkInv, Watch
    PROVE  WalkInv'
<1>1. CASE Die
  BY <1>1, DieKeepsWalk
<1>2. CASE Retry
  BY <1>2, RetryKeepsWalk
<1>3. CASE ~Die /\ ~Retry
  <2>1. pc' \in {"sleep"} \cup CheckPC \cup ScanPC
    BY <1>3 DEF Watch, Poll, CheckPath, PathDeleted, ParentUpdated, CheckDone, ScanEntry,
       FolderMade, FileRemoved, FileSaved, EncodeFile, NextEntry, NextEntryWith, ScanPop,
       ScanAnswer, Answered, Send, Proceed, CheckPC, ScanPC
  <2> QED
    BY <2>1 DEF WalkInv, WalkPC, CheckPC, ScanPC, FolderPC
<1> QED
  BY <1>1, <1>2, <1>3

LEMMA InitWalk == Init => WalkInv
BY DEF Init, ClientInit, WalkInv, WalkPC, FolderPC

\* Only a new walk ends what a stray request has disturbed.
LEMMA OnlyStartUndisturbs ==
    ASSUME SystemTyped, [Next]_vars, disturbed, ~disturbed'
    PROVE  StartClient
BY DEF Next, vars, serverVars, ClientStep, ServerStep, Serve, NoServer, Unheard, ServeLate,
   ServeStray, DropLate, DropStray, ServerStart, Timeout, ServerCrash, User, WriteFile,
   MakeFolder, Remove, Edit

\* Whatever state the last walk and the stray requests have left.
LEMMA StartKeepsWalk ==
    ASSUME BaseInv, StartClient
    PROVE  WalkInv'
<1>1. /\ paths' = NoPaths /\ jobs' = <<Root>> /\ pc' = "take" /\ late' = NoCall
      /\ call' = NoCall /\ reply' = NoReply /\ open' = <<>>
  BY DEF StartClient, Initialization, BaseInv, OneRequest, RequestPC
<1>2. \A p \in Path : paths'[p] = Absent
  BY <1>1 DEF NoPaths, Key
<1>3. Kinds'
  BY <1>1 DEF Kinds, FolderPC, FilePC
<1>4. Copied'
  BY <1>2 DEF Copied, Recorded
<1>5. Coming(Root)'
  <2>1. 1 \in 1 .. Len(jobs') /\ jobs'[1] = Root
    BY <1>1
  <2> QED
    BY <2>1 DEF Coming
<1>6. Complete'
  BY <1>2, <1>5, ParentAssumption DEF Complete, Recorded
<1> QED
  BY <1>1, <1>3, <1>4, <1>6, GoTo

LEMMA NextWalk ==
    ASSUME WalkPC \subseteq QuietAt, SystemTyped, WalkInv, [Next]_vars,
           ~StartClient, ~disturbed'
    PROVE  WalkInv'
<1>1. CASE UNCHANGED vars
  BY <1>1 DEF vars, clientVars, dataVars, serverVars, WalkInv, Asked, Learnt, FolderReady, Kinds,
     Copied, Recorded, Complete, Coming, GivenUp, Accepted, At, Save
<1>2. CASE ClientStep
  BY <1>2, WalkStepKeeps, WatchStepKeeps DEF ClientStep, serverVars
<1>3. CASE Serve
  <2>1. CASE pc \in WalkPC
    BY <1>3, <2>1, ServeWalking
  <2>2. CASE pc \notin WalkPC
    BY <1>3, <2>2 DEF Serve, Waiting, dataVars, WalkInv, WalkPC, FolderPC
  <2> QED
    BY <2>1, <2>2
<1>4. CASE NoServer \/ Timeout
  <2>1. /\ Waiting /\ reply' = NoResponse /\ UNCHANGED <<dataVars, pc, call>>
    BY <1>4 DEF NoServer, Timeout
  <2>2. GivenUp'
    BY <2>1 DEF GivenUp, NoResponse
  <2>3. pc \in WalkPC => Asked'
    BY <2>1 DEF Waiting, WalkInv, Asked, dataVars, At, Save
  <2> QED
    BY <2>1, <2>2, <2>3 DEF Waiting, WalkInv, dataVars
<1>5. CASE ServeLate \/ DropLate
  <2>1. late # NoCall /\ late' = NoCall /\ UNCHANGED clientVars
    BY <1>5 DEF ServeLate, DropLate
  <2>2. pc \in WalkPC => GivenUp' /\ Asked'
    BY <2>1 DEF WalkInv, GivenUp, Asked, clientVars, dataVars, At, Save
  <2> QED
    BY <2>1, <2>2 DEF WalkInv, clientVars, dataVars
<1>6. CASE ServerStart \/ ServerCrash
  BY <1>6 DEF ServerStart, ServerCrash, clientVars, dataVars, WalkInv, Asked, Learnt, FolderReady,
     Kinds, Copied, Recorded, Complete, Coming, GivenUp, Accepted, At, Save
<1>7. CASE DropStray
  BY <1>7 DEF DropStray, clientVars, dataVars, WalkInv, Asked, Learnt, FolderReady, Kinds,
     Copied, Recorded, Complete, Coming, GivenUp, Accepted, At, Save
<1>8. CASE User
  <2>1. /\ pc \notin WalkPC
        /\ UNCHANGED <<paths, pc, cur, mtime, jobs, open, check, call, reply, serverVars, faults>>
    BY <1>8 DEF User, WriteFile, MakeFolder, Remove, Edit
  <2> QED
    BY <2>1 DEF WalkInv, FolderPC, WalkPC
<1> QED
  BY <1>1, <1>2, <1>7, <1>3, <1>4, <1>5, <1>6, <1>8
  DEF Next, ServerStep, Unheard, ServeStray

\* When nothing is left to be walked, everything that exists has been recorded,
\* for a folder whose entries were missing would have been recorded without them;
\* and then the server has it all, and nothing else.
LEMMA WalkedIsRecorded ==
    ASSUME SystemTyped, Walking, pc = "take", jobs = <<>>, open = <<>>
    PROVE  \A p \in Path : local[p] # Absent => Recorded(p)
<1> DEFINE S == {p \in Path : local[p] # Absent => Recorded(p)}
<1>1. \A p \in Path : ~Coming(p)
  BY DEF Coming, FolderPC, FilePC
<1>2. Root \in S
  BY <1>1, ParentAssumption DEF Walking, Complete
<1>3. ASSUME NEW p \in Path \ {Root}, Parent[p] \in S, local[p] # Absent PROVE Recorded(p)
  <2>1. local[Parent[p]] # Absent
    BY <1>3, NodeAssumption DEF SystemTyped, ClientTyped, IsTree
  <2> QED
    BY <1>1, <1>3, <2>1 DEF Walking, Complete
<1>4. S = Path
  BY <1>2, <1>3, ReachableAssumption
<1> QED
  BY <1>4

LEMMA WalkedIsEqual ==
    ASSUME SystemTyped, Walking, pc = "take", jobs = <<>>, open = <<>>
    PROVE  remote = local
<1>1. IsTree(local) /\ IsTree(remote)
  BY DEF SystemTyped, ClientTyped
<1>2. \A p \in Path : local[p] # Absent => Recorded(p)
  BY WalkedIsRecorded
<1>3. \A p \in Path : local[p] # Absent =>
        /\ remote[p] = local[p]
        /\ local[p] = Folder => Entries(remote, p) \subseteq Entries(local, p)
  BY <1>2 DEF Walking, Copied, FilePC
<1>4. \A p \in Path : remote[p] = local[p]
  <2> DEFINE S == {p \in Path : remote[p] = local[p]}
  <2>1. Root \in S
    BY <1>1, ParentAssumption DEF IsTree
  <2>2. ASSUME NEW p \in Path \ {Root}, Parent[p] \in S PROVE remote[p] = local[p]
    <3>1. CASE local[p] # Absent
      BY <1>3, <3>1
    <3>2. CASE local[p] = Absent /\ remote[p] # Absent
      <4>1. local[Parent[p]] = Folder /\ p \in Entries(remote, Parent[p])
        BY <1>1, <2>2, <3>2 DEF IsTree, Entries
      <4>2. p \in Entries(local, Parent[p])
        BY <1>3, <2>2, <4>1, NodeAssumption
      <4> QED
        BY <3>2, <4>2 DEF Entries
    <3> QED
      BY <3>1, <3>2
  <2>3. S = Path
    BY <2>1, <2>2, ReachableAssumption
  <2> QED
    BY <2>3
<1> QED
  BY <1>1, <1>4 DEF IsTree

LEMMA WalkEndsEqual ==
    ASSUME SystemTyped, WalkInv, [Next]_vars, pc = "take", pc' = "sleep"
    PROVE  remote = local
<1>1. jobs = <<>>
  <2>1. ClientStep
    BY DEF Next, vars, clientVars, ServerStep, ServerStart, Serve, NoServer, Unheard, ServeLate,
       ServeStray, DropLate, DropStray, Timeout, ServerCrash, StartClient, Initialization, User,
       WriteFile, MakeFolder, Remove, Edit
  <2>2. WalkDone \/ WalkFolder
    BY <2>1 DEF ClientStep, Walk, FolderProbed, FolderCreated, OpenFolder, WalkEntry, FileProbed,
       FileReplacing, UploadFile, FileReplaced, FileUploaded, RecordFile, FolderDone, WalkAnswer,
       Answered, Watch, Poll, CheckPath, PathDeleted, ParentUpdated, CheckDone, ScanEntry,
       FolderMade, FileRemoved, FileSaved, EncodeFile, NextEntry, NextEntryWith, ScanPop,
       ScanAnswer
  <2> QED
    BY <2>2 DEF WalkDone, WalkFolder, Send, Die, Proceed
<1>2. Walking /\ open = <<>>
  BY NotGivenUp, StatusOfNoReply DEF WalkInv, Asked, WalkPC
<1> QED
  BY <1>1, <1>2, WalkedIsEqual

LEMMA WalkAlways ==
    ASSUME WalkPC \subseteq QuietAt
    PROVE  Spec => [](~disturbed => WalkInv)
<1>1. SystemTyped /\ BaseInv /\ (~disturbed => WalkInv) /\ [Next]_vars => (~disturbed => WalkInv)'
  BY NextWalk, StartKeepsWalk, OnlyStartUndisturbs
<1> QED
  BY <1>1, InitTyped, NextTyped, InitWalk, BaseAlways, PTL DEF Spec

\* When the user does not interfere with a walk, the server's copy is equal to
\* the user's folder at its end: for every folder, whatever the server had before,
\* whatever was given up, lost or crashed on the way, and whatever the server has
\* still got of earlier walks, as long as it does not execute it during this one.
THEOREM WalksSynchronize ==
    ASSUME WalkPC \subseteq QuietAt
    PROVE  Spec => WalkSynchronizes
<1>1. SystemTyped /\ (~disturbed => WalkInv) /\ [Next]_vars
        => [(pc = "take" /\ pc' = "sleep" /\ ~disturbed) => remote = local]_vars
  BY WalkEndsEqual
<1> QED
  BY <1>1, InitTyped, NextTyped, WalkAlways, PTL DEF Spec, WalkSynchronizes

-----------------------------------------------------------------------------

(***************************************************************************)
(* The inductive invariant for RecordedIsStored and ServerSurvives: what   *)
(* the client has recorded, while the user edits the folder between the    *)
(* walks, under names that are always those of files or always those of    *)
(* folders, and makes no folder again before the client has seen that it   *)
(* is gone; from the start of a walk until a stray request is executed.    *)
(***************************************************************************)
Current(p) == Recorded(p) /\ paths[p] = local[p]

\* A request that takes nothing from the server that the client counts as sent.
Harmless(req) ==
    /\ req.op = "delete" => \A p \in Within[req.path] : ~Current(p)
    /\ req.op = "save" => ~Current(req.path)
    /\ req.op = "probefolder" =>
         \A q \in Path \ {Root} : (Parent[q] = req.path /\ q \notin req.children) =>
             \A p \in Within[q] : ~Current(p)

\* A folder that is there already, or can be made.
CanMake(req) ==
    req.op = "mkdir" =>
        \/ remote[req.path] = Folder
        \/ remote[req.path] = Absent /\ HasPlace(remote, req.path)

Named(req) ==
    /\ req.op = "save" => req.path \in FileName
    /\ req.op = "mkdir" => req.path \in FolderName

SafeRequest(req) == Harmless(req) /\ CanMake(req) /\ Named(req)

\* That of the client, until it is executed, and the one it has given up.
SafeRequests ==
    /\ Waiting => SafeRequest(call)
    /\ late # NoCall => SafeRequest(late)

Names == HasNames(local) /\ HasNames(remote) /\ HasNames(paths)

\* An edit's content is a new one.
Versions ==
    /\ \A p \in Path : /\ IsFile(local, p) => local[p] <= version
                       /\ IsFile(paths, p) => paths[p] <= version
    /\ mtime \in Content => mtime <= version

\* What is recorded is in a recorded folder, unless the folder is gone.
ParentRecorded ==
    \A p \in Path \ {Root} : Recorded(p) =>
        /\ Parent[p] \in FolderName
        /\ local[Parent[p]] = Folder => Recorded(Parent[p])

\* In a walk an entry is in one place: recorded, queued, listed or being treated.
Ahead(p) == ~Recorded(p) /\ (p = Root \/ Recorded(Parent[p]))

WalkOrder ==
    /\ \A p \in Path \ {Root} : Recorded(p) => Recorded(Parent[p])
    /\ \A i \in 1 .. Len(jobs) : Ahead(jobs[i])
    /\ \A i, j \in 1 .. Len(jobs) : jobs[i] = jobs[j] => i = j
    /\ pc \in FolderPC \cup FilePC => Ahead(At) /\ \A i \in 1 .. Len(jobs) : jobs[i] # At
    /\ open # <<>> => \A e \in Head(open) :
         /\ Ahead(e[1]) /\ e[1] # Root
         /\ pc \in FilePC => e[1] # At
         /\ \A i \in 1 .. Len(jobs) : jobs[i] # e[1]

\* A folder that the server has not got is about to be made, in one it has.
WalkMakes ==
    /\ pc = "probing" /\ reply.status = "not_found" => remote[At] # Folder
    /\ pc = "creating" /\ reply = NoReply => remote[At] # Folder

\* An entry that a poll has listed.
Listed(e) ==
    /\ e[1] # Root /\ Recorded(Parent[e[1]]) /\ Parent[e[1]] \in FolderName
    /\ e[2] = "folder" => e[1] \in FolderName
    /\ e[2] = "file" => e[1] \in FileName

PollAsks ==
    /\ pc \in {"deleting", "removing"} => call = OnPath("delete", At)
    /\ pc = "making" => call = OnPath("mkdir", At)
    /\ pc = "saving" => /\ call.op = "save" /\ call.path = At
                        /\ mtime = local[At] => call.content = mtime
    /\ pc \in {"sleep", "check", "parent", "scan", "encode", "next"} =>
         call = NoCall /\ reply = NoReply

PollKnows ==
    /\ Recorded(Root)
    /\ pc \in CheckPC => \A k \in check : paths[k] # Absent
    /\ pc \in {"deleting", "parent"} => Recorded(At) /\ At \notin check /\ local[At] # Folder
    /\ pc \in ScanPC => \A i \in 1 .. Len(open) : \A e \in open[i] : Listed(e)
    /\ pc \in ScanPC \ {"scan"} =>
         /\ Listed(cur)
         /\ IF cur[2] = "folder" THEN mtime = Folder ELSE mtime \in Content
    /\ pc = "making" => cur[2] = "folder" /\ (Accepted => remote[At] = Folder)
    /\ pc \in {"removing", "encode", "saving"} => cur[2] = "file" /\ ~Current(At)
    /\ pc = "saving" /\ Accepted => remote[At] = call.content
    /\ pc = "next" /\ cur[2] = "folder" => Recorded(At) \/ remote[At] = Folder
    /\ pc = "next" /\ cur[2] = "file" /\ mtime = local[At] => remote[At] = local[At]

PollPC == {"sleep"} \cup CheckPC \cup ScanPC

AllStored ==
    \A p \in Path : (paths[p] # Absent /\ paths[p] = local[p]) => remote[p] = local[p]

StoredInv ==
    /\ AllStored
    /\ SafeRequests /\ Names /\ Versions /\ ParentRecorded
    /\ pc \in WalkPC => WalkOrder /\ WalkMakes
    /\ pc = "off" => paths = NoPaths
    /\ pc \in PollPC => PollAsks /\ PollKnows /\ (late # NoCall => GivenUp)

(***************************************************************************)
(* What the user leaves undone: editing during a walk; making a folder     *)
(* again before the client has seen that it is gone; having a file and a   *)
(* folder at one path at different times.  TLC finds a counterexample when *)
(* one of them is allowed: walk_race, server_terminates, and for the last  *)
(* MCFolderToFile and MCFileOnServer.                                      *)
(***************************************************************************)
UsualNames ==
    /\ WalkPC \subseteq QuietAt
    /\ ReuseNames = FALSE
    /\ FileName \cap FolderName = {}

\* One request of the client is under way at a time.
LEMMA WaitingAlone ==
    ASSUME SystemTyped, WalkInv, StoredInv, Waiting
    PROVE  late = NoCall
<1>1. pc \notin {"off", "retry"} /\ ~GivenUp
  BY StatusOfNoReply DEF Waiting, WalkInv
<1> QED
  BY <1>1 DEF WalkInv, StoredInv, SystemTyped, ClientTyped, PC, PollPC

-----------------------------------------------------------------------------
(* The user's edits.                                                       *)

\* What an edit does to the folder.
LEMMA EditResult ==
    ASSUME SystemTyped, UsualNames, User
    PROVE  \E p \in Path \ {Root}, node \in Node :
             /\ \/ node = Absent
                \/ node = version + 1 /\ version + 1 \in Content /\ p \in FileName
                \/ node = Folder /\ p \in FolderName /\ \A q \in Within[p] : paths[q] = Absent
             /\ \A q \in Path :
                  local'[q] = IF q = p THEN node ELSE IF q \in Within[p] THEN Absent ELSE local[q]
<1>1. ASSUME NEW p \in Path \ {Root}, NEW node, Edit(p, node)
      PROVE  \A q \in Path :
               local'[q] = IF q = p THEN node ELSE IF q \in Within[p] THEN Absent ELSE local[q]
  BY <1>1 DEF Edit, RemoveAll
<1>2. Absent \in Node /\ Folder \in Node /\ (version < MaxVersion => version + 1 \in Content)
  BY BackupAssumption DEF Node, SystemTyped
<1>3. ASSUME NEW p \in FileName, WriteFile(p)
      PROVE  /\ Edit(p, version + 1) /\ version + 1 \in Content /\ version + 1 \in Node
             /\ p \in Path \ {Root}
  BY <1>2, <1>3, BackupAssumption DEF WriteFile, Edit, Node
<1>4. ASSUME NEW p \in UserFolder, MakeFolder(p)
      PROVE  /\ Edit(p, Folder) /\ \A q \in Within[p] : paths[q] = Absent
             /\ p \in Path \ {Root} /\ p \in FolderName
  BY <1>4, BackupAssumption DEF MakeFolder, UsualNames
<1>5. ASSUME NEW p \in FileName \cup UserFolder, Remove(p)
      PROVE  Edit(p, Absent) /\ p \in Path \ {Root}
  BY <1>5, BackupAssumption DEF Remove
<1>6. CASE \E p \in FileName : WriteFile(p)
  BY <1>1, <1>3, <1>6
<1>7. CASE \E p \in UserFolder : MakeFolder(p)
  BY <1>1, <1>2, <1>4, <1>7
<1>8. CASE \E p \in FileName \cup UserFolder : Remove(p)
  BY <1>1, <1>2, <1>5, <1>8
<1> QED
  BY <1>6, <1>7, <1>8 DEF User

LEMMA UserKeepsStored ==
    ASSUME SystemTyped, StoredInv, UsualNames, User
    PROVE  StoredInv'
<1>1. /\ pc \notin WalkPC
      /\ UNCHANGED <<paths, pc, cur, mtime, jobs, open, check, call, reply, remote, server, late>>
      /\ version' = version + 1
  BY DEF User, WriteFile, MakeFolder, Remove, Edit, serverVars, UsualNames
<1>2. PICK p \in Path \ {Root}, node \in Node :
        /\ \/ node = Absent
           \/ node = version + 1 /\ version + 1 \in Content /\ p \in FileName
           \/ node = Folder /\ p \in FolderName /\ \A q \in Within[p] : paths[q] = Absent
        /\ \A q \in Path :
             local'[q] = IF q = p THEN node ELSE IF q \in Within[p] THEN Absent ELSE local[q]
  BY EditResult
<1>3. /\ version \in Nat /\ Content \subseteq Nat /\ At \in Path /\ At' = At
      /\ p \in Within[p] /\ Within[p] \subseteq Path
      /\ Absent \notin Content /\ Folder \notin Content /\ Absent # Folder
  BY <1>1, BackupAssumption, ParentAssumption, NodeAssumption DEF SystemTyped, ClientTyped, At
<1>4. \A q \in Path : \/ local'[q] = local[q]
                      \/ local'[q] = Absent
                      \/ local'[q] = version + 1 /\ version + 1 \in Content /\ q \in FileName
                      \/ local'[q] = Folder /\ q \in FolderName /\ paths[q] = Absent
  BY <1>2, <1>3
<1>5. \A q \in Path : Current(q)' => Current(q) /\ local'[q] = local[q]
  <2> SUFFICES ASSUME NEW q \in Path, Current(q)', local'[q] # local[q] PROVE FALSE
    BY <1>1 DEF Current, Recorded
  <2>1. paths[q] = local'[q] /\ paths[q] # Absent
    BY <1>1 DEF Current, Recorded
  <2>2. paths[q] = version + 1 /\ version + 1 \in Content
    BY <1>4, <2>1
  <2> QED
    BY <1>3, <2>2 DEF StoredInv, Versions, IsFile
<1>6. AllStored'
  BY <1>1, <1>5 DEF StoredInv, AllStored, Current, Recorded
<1>7. SafeRequests'
  <2>1. ASSUME NEW req \in Request, SafeRequest(req) PROVE SafeRequest(req)'
    <3>1. req.path \in Path
      BY DEF Request
    <3>2. Harmless(req)'
      BY <1>5, <2>1, <3>1, ParentAssumption DEF SafeRequest, Harmless
    <3> QED
      BY <1>1, <2>1, <3>2 DEF SafeRequest, CanMake, Named, HasPlace
  <2> QED
    BY <1>1, <2>1 DEF StoredInv, SafeRequests, Waiting, SystemTyped, ClientTyped
<1>8. Names'
  BY <1>1, <1>3, <1>4 DEF StoredInv, Names, HasNames, IsFile
<1>9. Versions'
  <2>1. \A n \in Content : n <= version => n <= version'
    BY <1>1, <1>3
  <2>2. \A q \in Path : local'[q] \in Content => local'[q] <= version'
    <3> SUFFICES ASSUME NEW q \in Path, local'[q] \in Content PROVE local'[q] <= version'
      OBVIOUS
    <3>1. CASE local'[q] = local[q]
      BY <2>1, <3>1 DEF StoredInv, Versions, IsFile
    <3>2. CASE local'[q] = version + 1
      BY <1>1, <1>3, <3>2
    <3> QED
      BY <1>3, <1>4, <3>1, <3>2
  <2> QED
    BY <1>1, <2>1, <2>2 DEF StoredInv, Versions, IsFile
<1>10. ASSUME NEW q \in Path, local'[q] = Folder, local[q] # Folder
      PROVE  \A r \in Within[q] : ~Recorded(r)
  BY <1>2, <1>3, <1>10 DEF Recorded
<1>11. ParentRecorded'
  <2> SUFFICES ASSUME NEW q \in Path \ {Root}, Recorded(q), local'[Parent[q]] = Folder
               PROVE  Recorded(Parent[q])
    BY <1>1 DEF StoredInv, ParentRecorded, Recorded
  <2>1. Parent[q] \in Path /\ q \in Within[Parent[q]]
    BY ParentAssumption
  <2> QED
    BY <1>10, <2>1 DEF StoredInv, ParentRecorded
<1>12. ASSUME mtime = local'[At], mtime \in Content PROVE mtime = local[At]
  BY <1>3, <1>4, <1>12 DEF StoredInv, Versions
<1>13. CASE pc \notin PollPC
  BY <1>1, <1>6, <1>7, <1>8, <1>9, <1>11, <1>13 DEF StoredInv
<1>14. CASE pc \in PollPC
  <2>1. PollAsks'
    <3>1. pc = "saving" => mtime \in Content
      BY <1>14 DEF StoredInv, PollKnows, ScanPC
    <3> QED
      BY <1>1, <1>3, <1>12, <1>14, <3>1 DEF StoredInv, PollAsks
  <2>2. PollKnows'
    <3>1. pc \in {"deleting", "parent"} => local'[At] # Folder
      BY <1>3, <1>10, <1>14, ParentAssumption DEF StoredInv, PollKnows
    <3>2. pc \in {"removing", "encode", "saving"} => ~Current(At)'
      BY <1>3, <1>5, <1>14 DEF StoredInv, PollKnows
    <3>3. pc = "next" /\ cur[2] = "file" /\ mtime = local'[At] => remote[At] = local'[At]
      BY <1>12, <1>14 DEF StoredInv, PollKnows, ScanPC
    <3>4. \A e : Listed(e)' <=> Listed(e)
      BY <1>1 DEF Listed, Recorded
    <3> QED
      BY <1>1, <1>3, <1>14, <3>1, <3>2, <3>3, <3>4
      DEF StoredInv, PollKnows, Recorded, Accepted
  <2> QED
    BY <1>1, <1>6, <1>7, <1>8, <1>9, <1>11, <2>1, <2>2
    DEF StoredInv, GivenUp, PollPC, CheckPC, ScanPC, WalkPC
<1> QED
  BY <1>13, <1>14

-----------------------------------------------------------------------------
(* The server and the connections.                                         *)

\* What a safe request leaves on the server.
LEMMA SafeResult ==
    ASSUME SystemTyped, AllStored, Names, NEW req \in Request, SafeRequest(req)
    PROVE  LET result == HandleRequest(remote, req)
           IN /\ \A p \in Path : Current(p) => result.tree[p] = local[p]
              /\ HasNames(result.tree)
              /\ result.status # "terminated"
<1> DEFINE result == HandleRequest(remote, req)
<1>1. /\ req.path \in Path /\ IsTree(remote)
      /\ \A p \in Path : Current(p) => remote[p] = local[p] /\ local[p] # Absent
      /\ Absent \notin Content /\ Folder \notin Content /\ Absent # Folder
      /\ HasNames(remote)
  BY NodeAssumption
  DEF Request, SystemTyped, AllStored, Current, Recorded, Names
<1>2. CASE result.tree = remote /\ result.status # "terminated"
  BY <1>1, <1>2
<1>3. CASE req.op = "save"
  <2>1. req.content \in Content /\ req.path \in FileName /\ ~Current(req.path)
    BY <1>3 DEF Request, SafeRequest, Harmless, Named
  <2>2. result = SaveFile(remote, req.path, req.content)
    BY <1>3 DEF HandleRequest
  <2>3. CASE HasPlace(remote, req.path) /\ remote[req.path] # Folder
    <3>1. result.tree = [remote EXCEPT ![req.path] = req.content] /\ result.status = "ok"
      BY <2>2, <2>3 DEF SaveFile, Done
    <3>2. \A p \in Path : result.tree[p] = IF p = req.path THEN req.content ELSE remote[p]
      BY <1>1, <3>1 DEF IsTree
    <3> HIDE DEF result
    <3>3. HasNames(result.tree)
      BY <1>1, <2>1, <3>2 DEF HasNames, IsFile
    <3> QED
      BY <1>1, <2>1, <3>1, <3>2, <3>3 DEF result
  <2>4. CASE ~(HasPlace(remote, req.path) /\ remote[req.path] # Folder)
    BY <1>2, <2>2, <2>4 DEF SaveFile, Done
  <2> QED
    BY <2>3, <2>4
<1>4. CASE req.op = "mkdir"
  <2>1. /\ req.path \in FolderName
        /\ \/ remote[req.path] = Folder
           \/ remote[req.path] = Absent /\ HasPlace(remote, req.path)
    BY <1>4 DEF SafeRequest, CanMake, Named
  <2>2. result = NewDirectory(remote, req.path)
    BY <1>4 DEF HandleRequest
  <2>3. CASE remote[req.path] = Folder
    BY <1>1, <1>2, <2>2, <2>3 DEF NewDirectory, Done
  <2>4. CASE remote[req.path] = Absent /\ HasPlace(remote, req.path)
    <3>1. result.tree = [remote EXCEPT ![req.path] = Folder] /\ result.status = "ok"
      <4>1. NewDirectory(remote, req.path) = Done([remote EXCEPT ![req.path] = Folder], "ok")
        BY <2>4, NodeAssumption DEF NewDirectory
      <4> QED
        BY <2>2, <4>1 DEF Done
    <3>2. \A p \in Path : result.tree[p] = IF p = req.path THEN Folder ELSE remote[p]
      BY <1>1, <3>1 DEF IsTree
    <3> HIDE DEF result
    <3>3. HasNames(result.tree)
      BY <1>1, <2>1, <3>2 DEF HasNames, IsFile
    <3> QED
      BY <1>1, <2>4, <3>1, <3>2, <3>3 DEF result
  <2> QED
    BY <2>1, <2>3, <2>4
<1>5. ASSUME NEW S \in SUBSET Path, result.tree = RemoveAll(remote, S), result.status = "ok",
             \A q \in S : \A p \in Within[q] : ~Current(p)
      PROVE  /\ \A p \in Path : Current(p) => result.tree[p] = local[p]
             /\ HasNames(result.tree)
             /\ result.status # "terminated"
  <2>1. \A p \in Path : \/ result.tree[p] = remote[p]
                        \/ result.tree[p] = Absent /\ ~Current(p)
    BY <1>5 DEF RemoveAll
  <2> HIDE DEF result
  <2>2. HasNames(result.tree)
    BY <1>1, <2>1 DEF HasNames, IsFile
  <2> QED
    BY <1>1, <1>5, <2>1, <2>2
<1>6. CASE req.op = "probefolder"
  <2>1. result = ProbeDirectory(remote, req.path, req.children)
    BY <1>6 DEF HandleRequest
  <2>2. CASE remote[req.path] # Folder
    BY <1>2, <2>1, <2>2 DEF ProbeDirectory, Done
  <2>3. CASE remote[req.path] = Folder
    <3> DEFINE S == Entries(remote, req.path) \ req.children
    <3>1. \A q \in S : \A p \in Within[q] : ~Current(p)
      BY <1>6 DEF SafeRequest, Harmless, Entries
    <3>2. S \in SUBSET Path
      BY DEF Entries
    <3>3. result.tree = RemoveAll(remote, S) /\ result.status = "ok"
      BY <2>1, <2>3 DEF ProbeDirectory, Done
    <3> QED
      BY <1>5, <3>1, <3>2, <3>3
  <2> QED
    BY <2>2, <2>3
<1>7. CASE req.op = "probefile"
  <2>1. result = GetFileDigest(remote, req.path)
    BY <1>7 DEF HandleRequest
  <2> QED
    BY <1>2, <2>1 DEF GetFileDigest, Done
<1>8. CASE req.op = "delete"
  <2>1. result = BackupDelete(remote, req.path)
    BY <1>8 DEF HandleRequest
  <2>2. CASE req.path = Root \/ remote[req.path] = Absent
    BY <1>2, <2>1, <2>2 DEF BackupDelete, Done
  <2>3. CASE req.path # Root /\ remote[req.path] # Absent
    <3>1. result.tree = RemoveAll(remote, {req.path}) /\ result.status = "ok"
      BY <2>1, <2>3 DEF BackupDelete, Done
    <3>2. \A p \in Within[req.path] : ~Current(p)
      BY <1>8 DEF SafeRequest, Harmless
    <3> QED
      BY <1>1, <1>5, <3>1, <3>2
  <2> QED
    BY <2>2, <2>3
<1> QED
  BY <1>3, <1>4, <1>6, <1>7, <1>8 DEF Request

LEMMA ServeKeepsStored ==
    ASSUME SystemTyped, WalkInv, StoredInv, Serve
    PROVE  StoredInv'
<1> DEFINE result == HandleRequest(remote, call)
<1>1. /\ Waiting /\ Execute(call) /\ late = NoCall
      /\ UNCHANGED <<local, paths, pc, cur, mtime, jobs, open, check, call, late, version>>
  BY WaitingAlone DEF Serve, dataVars
<1>2. call \in Request /\ call # NoCall /\ SafeRequest(call)
  BY <1>1 DEF Waiting, SystemTyped, ClientTyped, StoredInv, SafeRequests
<1>3. /\ \A p \in Path : Current(p) => result.tree[p] = local[p]
      /\ HasNames(result.tree)
      /\ result.status # "terminated" /\ result.status \in Status
  BY <1>2, SafeResult, RequestsAreSound DEF StoredInv, SystemTyped, Sound
<1> HIDE DEF result
<1>4. /\ remote' = result.tree /\ server' = server
      /\ reply' = [status |-> result.status, digest |-> result.digest]
      /\ reply'.status = result.status
  BY <1>1, <1>3 DEF Execute, result
<1>5. reply' # NoReply
  BY <1>3, <1>4 DEF NoReply, Status
<1>6. AllStored'
  BY <1>1, <1>3, <1>4 DEF StoredInv, AllStored, Current, Recorded
<1>7. SafeRequests'
  BY <1>1, <1>5 DEF SafeRequests, Waiting
<1>8. Names' /\ Versions' /\ ParentRecorded'
  BY <1>1, <1>3, <1>4 DEF StoredInv, Names, HasNames, IsFile, Versions, ParentRecorded, Recorded
<1>9. At' = At /\ At \in Path
  BY <1>1 DEF At, SystemTyped, ClientTyped
<1>10. CASE pc \in WalkPC
  <2>1. WalkOrder'
    BY <1>1, <1>10 DEF StoredInv, WalkOrder, Ahead, Recorded, At
  <2>2. pc = "probing" /\ result.status = "not_found" => result.tree[At] # Folder
    <3> SUFFICES ASSUME pc = "probing", result.status = "not_found"
                 PROVE  result.tree[At] # Folder
      OBVIOUS
    <3>1. call = [op |-> "probefolder", path |-> At, children |-> Entries(local, At)]
      BY <1>10 DEF WalkInv, Asked
    <3>2. result = ProbeDirectory(remote, At, Entries(local, At))
      BY <3>1 DEF HandleRequest, result
    <3> QED
      BY <3>2 DEF ProbeDirectory, Done
  <2>3. WalkMakes'
    BY <1>1, <1>4, <1>5, <1>9, <2>2 DEF WalkMakes
  <2> QED
    BY <1>1, <1>6, <1>7, <1>8, <1>10, <2>1, <2>3
    DEF StoredInv, PollPC, CheckPC, ScanPC, WalkPC
<1>11. CASE pc \in PollPC
  <2>1. PollAsks'
    BY <1>1, <1>9, <1>11 DEF StoredInv, PollAsks, Waiting
  <2>2. pc = "making" /\ result.status \in {"ok", "not_found"} => result.tree[At] = Folder
    <3> SUFFICES ASSUME pc = "making", result.status \in {"ok", "not_found"}
                 PROVE  result.tree[At] = Folder
      OBVIOUS
    <3>1. call = OnPath("mkdir", At)
      BY <1>11 DEF StoredInv, PollAsks
    <3>2. result = NewDirectory(remote, At)
      BY <3>1 DEF HandleRequest, OnPath, result
    <3>3. result = Done([remote EXCEPT ![At] = Folder], "ok")
      BY <3>2 DEF NewDirectory, Done
    <3> QED
      BY <1>9, <3>3 DEF Done, SystemTyped, IsTree
  <2>3. pc = "saving" /\ result.status \in {"ok", "not_found"} => result.tree[At] = call.content
    <3> SUFFICES ASSUME pc = "saving", result.status \in {"ok", "not_found"}
                 PROVE  result.tree[At] = call.content
      OBVIOUS
    <3>1. call.op = "save" /\ call.path = At
      BY <1>11 DEF StoredInv, PollAsks
    <3>2. result = SaveFile(remote, At, call.content)
      BY <3>1 DEF HandleRequest, result
    <3>3. result = Done([remote EXCEPT ![At] = call.content], "ok")
      BY <3>2 DEF SaveFile, Done
    <3> QED
      BY <1>9, <3>3 DEF Done, SystemTyped, IsTree
  <2>4. pc # "next"
    BY <1>1, <1>2, <1>11 DEF StoredInv, PollAsks
  <2>5. \A e : Listed(e)' <=> Listed(e)
    BY <1>1 DEF Listed, Recorded
  <2>6. PollKnows'
    BY <1>1, <1>4, <1>9, <1>11, <2>2, <2>3, <2>4, <2>5
    DEF StoredInv, PollKnows, Recorded, Current, Accepted
  <2> QED
    BY <1>1, <1>6, <1>7, <1>8, <1>11, <2>1, <2>6 DEF StoredInv, PollPC, CheckPC, ScanPC, WalkPC
<1>12. CASE pc \notin WalkPC /\ pc \notin PollPC
  BY <1>1, <1>6, <1>7, <1>8, <1>12 DEF StoredInv
<1> QED
  BY <1>10, <1>11, <1>12

LEMMA ServeLateKeepsStored ==
    ASSUME SystemTyped, WalkInv, StoredInv, ServeLate
    PROVE  StoredInv'
<1> DEFINE result == HandleRequest(remote, late)
<1>1. /\ late # NoCall /\ late' = NoCall /\ ~Waiting
      /\ UNCHANGED <<local, paths, pc, cur, mtime, jobs, open, check, call, reply, version>>
  BY WaitingAlone DEF ServeLate, clientVars, dataVars
<1>2. late \in Request /\ SafeRequest(late)
  BY <1>1 DEF SystemTyped, StoredInv, SafeRequests
<1>3. /\ \A p \in Path : Current(p) => result.tree[p] = local[p]
      /\ HasNames(result.tree)
      /\ result.status # "terminated"
  BY <1>2, SafeResult DEF StoredInv
<1>4. remote' = result.tree
  BY DEF ServeLate, ExecuteUnheard
<1> HIDE DEF result
<1>5. AllStored'
  BY <1>1, <1>3, <1>4 DEF StoredInv, AllStored, Current, Recorded
<1>6. SafeRequests'
  BY <1>1 DEF SafeRequests, Waiting
<1>7. Names' /\ Versions' /\ ParentRecorded'
  BY <1>1, <1>3, <1>4 DEF StoredInv, Names, HasNames, IsFile, Versions, ParentRecorded, Recorded
<1>8. At' = At
  BY <1>1 DEF At
<1>9. CASE pc \in WalkPC
  <2>1. GivenUp /\ WalkOrder'
    BY <1>1, <1>9 DEF WalkInv, StoredInv, WalkOrder, Ahead, Recorded, At
  <2>2. WalkMakes'
    BY <1>1, <2>1, StatusOfNoReply DEF WalkMakes, GivenUp
  <2> QED
    BY <1>1, <1>5, <1>6, <1>7, <1>9, <2>1, <2>2
    DEF StoredInv, PollPC, CheckPC, ScanPC, WalkPC
<1>10. CASE pc \in PollPC
  <2>1. GivenUp /\ ~Accepted /\ reply # NoReply
    BY <1>1, <1>10, StatusOfNoReply DEF StoredInv, GivenUp, Accepted
  <2>2. PollAsks'
    BY <1>1, <1>8, <1>10 DEF StoredInv, PollAsks
  <2>3. pc # "next"
    BY <1>10, <2>1 DEF StoredInv, PollAsks
  <2>4. \A e : Listed(e)' <=> Listed(e)
    BY <1>1 DEF Listed, Recorded
  <2>5. PollKnows'
    BY <1>1, <1>8, <1>10, <2>1, <2>3, <2>4 DEF StoredInv, PollKnows, Recorded, Current, Accepted
  <2> QED
    BY <1>1, <1>5, <1>6, <1>7, <1>10, <2>2, <2>5 DEF StoredInv, PollPC, CheckPC, ScanPC, WalkPC
<1>11. CASE pc \notin WalkPC /\ pc \notin PollPC
  BY <1>1, <1>5, <1>6, <1>7, <1>11 DEF StoredInv
<1> QED
  BY <1>9, <1>10, <1>11

\* A request fails or is given up: the client will not get its answer.
LEMMA NoAnswerKeepsStored ==
    ASSUME SystemTyped, WalkInv, StoredInv, NoServer \/ Timeout
    PROVE  StoredInv'
<1>1. /\ Waiting /\ late = NoCall /\ reply' = NoResponse
      /\ late' = NoCall \/ late' = call
      /\ UNCHANGED <<local, paths, pc, cur, mtime, jobs, open, check, call>>
      /\ UNCHANGED <<remote, server, version>>
  BY WaitingAlone DEF NoServer, Timeout, dataVars, serverVars
<1>2. reply' # NoReply /\ GivenUp' /\ ~Accepted' /\ reply'.status = "no_response"
  BY <1>1 DEF NoResponse, NoReply, GivenUp, Accepted
<1>3. SafeRequest(call)'
  BY <1>1 DEF StoredInv, SafeRequests, SafeRequest, Harmless, Current, Recorded, CanMake, HasPlace,
     Named
<1>4. SafeRequests'
  BY <1>1, <1>2, <1>3 DEF SafeRequests, Waiting
<1>5. AllStored' /\ Names' /\ Versions' /\ ParentRecorded'
  BY <1>1 DEF StoredInv, AllStored, Names, HasNames, IsFile, Versions,
     ParentRecorded, Recorded
<1>6. pc \in WalkPC => WalkOrder' /\ WalkMakes'
  BY <1>1, <1>2 DEF StoredInv, WalkOrder, Ahead, Recorded, WalkMakes, At
<1>7. pc \in PollPC => PollAsks'
  BY <1>1, <1>2 DEF StoredInv, PollAsks, Waiting, At
<1>8. \A e : Listed(e)' <=> Listed(e)
  BY <1>1 DEF Listed, Recorded
<1>9. pc \in PollPC => PollKnows'
  BY <1>1, <1>2, <1>8 DEF StoredInv, PollKnows, Recorded, Current, At
<1> QED
  BY <1>1, <1>2, <1>4, <1>5, <1>6, <1>7, <1>9 DEF StoredInv

LEMMA ServerKeepsStored ==
    ASSUME SystemTyped, WalkInv, StoredInv,
           ServerStep \/ ServeLate \/ DropLate \/ DropStray \/ ServerStart \/ Timeout \/ ServerCrash
    PROVE  StoredInv'
<1>1. CASE DropLate \/ DropStray \/ ServerStart \/ ServerCrash
  <2>1. /\ UNCHANGED clientVars /\ UNCHANGED <<remote, version>>
        /\ late' = late \/ late' = NoCall
    BY <1>1 DEF DropLate, DropStray, ServerStart, ServerCrash
  <2>2. SafeRequests'
    BY <2>1 DEF clientVars, dataVars, StoredInv, SafeRequests, Waiting, SafeRequest, Harmless,
       Current, Recorded, CanMake, HasPlace, Named
  <2>3. AllStored' /\ Names' /\ Versions' /\ ParentRecorded'
    BY <2>1 DEF clientVars, dataVars, StoredInv, AllStored, Names, HasNames,
       IsFile, Versions, ParentRecorded, Recorded
  <2>4. pc \in WalkPC => WalkOrder' /\ WalkMakes'
    BY <2>1 DEF clientVars, dataVars, StoredInv, WalkOrder, Ahead, Recorded, WalkMakes, At
  <2>5. pc \in PollPC => PollAsks' /\ PollKnows'
    BY <2>1 DEF clientVars, dataVars, StoredInv, PollAsks, PollKnows, Listed, Recorded, Current,
       Accepted, At
  <2> QED
    BY <2>1, <2>2, <2>3, <2>4, <2>5 DEF StoredInv, clientVars, dataVars, GivenUp
<1> QED
  BY <1>1, ServeKeepsStored, ServeLateKeepsStored, NoAnswerKeepsStored DEF ServerStep

-----------------------------------------------------------------------------
(* The end of a walk or a poll by an exception, and the start of a walk.   *)

LEMMA DieKeepsStored ==
    ASSUME SystemTyped, StoredInv, Die, UNCHANGED <<serverVars, version>>
    PROVE  StoredInv'
<1>1. /\ paths' = NoPaths /\ pc' = "off" /\ call' = NoCall /\ mtime' = Absent
      /\ UNCHANGED <<local, remote, server, late, version>>
  BY DEF Die, Unwind, Proceed, serverVars
<1>2. \A p \in Path : ~Recorded(p)' /\ ~Current(p)' /\ paths'[p] = Absent
  BY <1>1 DEF NoPaths, Recorded, Current, Key
<1>3. AllStored' /\ ParentRecorded'
  BY <1>1, <1>2 DEF StoredInv, AllStored, ParentRecorded, Recorded
<1>4. Names' /\ Versions'
  BY <1>1, <1>2, NodeAssumption DEF StoredInv, Names, HasNames, IsFile, Versions
<1>5. SafeRequests'
  <2>1. ASSUME NEW req \in Request PROVE Harmless(req)'
    <3>1. req.path \in Path
      BY DEF Request
    <3> QED
      BY <1>2, <3>1, ParentAssumption DEF Harmless
  <2>2. late # NoCall => SafeRequest(late)'
    BY <1>1, <2>1 DEF StoredInv, SafeRequests, SafeRequest, CanMake, HasPlace, Named, SystemTyped
  <2> QED
    BY <1>1, <2>2 DEF SafeRequests, Waiting
<1> QED
  BY <1>1, <1>3, <1>4, <1>5 DEF StoredInv, WalkPC, PollPC, CheckPC, ScanPC

LEMMA RetryKeepsStored ==
    ASSUME SystemTyped, StoredInv, Retry, UNCHANGED <<serverVars, version>>
    PROVE  StoredInv'
<1>1. /\ pc' = "retry" /\ call' = NoCall /\ mtime' = Absent
      /\ UNCHANGED <<local, paths, remote, server, late, version>>
  BY DEF Retry, Unwind, Proceed, serverVars
<1>2. SafeRequests'
  BY <1>1 DEF StoredInv, SafeRequests, Waiting, SafeRequest, Harmless, Current, Recorded, CanMake,
     HasPlace, Named
<1>3. AllStored' /\ Names' /\ Versions' /\ ParentRecorded'
  BY <1>1, NodeAssumption DEF StoredInv, AllStored, Names, HasNames,
     IsFile, Versions, ParentRecorded, Recorded
<1> QED
  BY <1>1, <1>2, <1>3 DEF StoredInv, WalkPC, PollPC, CheckPC, ScanPC

LEMMA StartKeepsStored ==
    ASSUME SystemTyped, BaseInv, StartClient
    PROVE  StoredInv'
<1>1. /\ paths' = NoPaths /\ pc' = "take" /\ call' = NoCall /\ jobs' = <<Root>>
      /\ open' = <<>> /\ reply' = NoReply /\ late' = NoCall
      /\ UNCHANGED <<local, remote, server, mtime, version>>
  BY DEF StartClient, Initialization, BaseInv, OneRequest, RequestPC
<1>2. \A p \in Path : ~Recorded(p)' /\ paths'[p] = Absent
  BY <1>1 DEF NoPaths, Recorded, Key
<1>3. AllStored' /\ ParentRecorded'
  BY <1>2 DEF AllStored, ParentRecorded, Recorded
<1>4. Names' /\ Versions'
  <2>1. mtime = Absent
    BY DEF StartClient, Initialization, BaseInv
  <2> QED
    BY <1>1, <1>2, <2>1, NodeAssumption DEF BaseInv, InOrder, Names, HasNames, IsFile, Versions
<1>5. SafeRequests'
  BY <1>1 DEF SafeRequests, Waiting
<1>6. WalkOrder'
  <2>1. \A i \in 1 .. Len(jobs') : i = 1 /\ jobs'[i] = Root
    BY <1>1
  <2>2. Ahead(Root)'
    BY <1>2, ParentAssumption DEF Ahead
  <2> QED
    BY <1>1, <1>2, <2>1, <2>2 DEF WalkOrder, FolderPC, FilePC
<1>7. WalkMakes'
  BY <1>1 DEF WalkMakes
<1> QED
  BY <1>1, <1>3, <1>4, <1>5, <1>6, <1>7 DEF StoredInv, WalkPC, PollPC, CheckPC, ScanPC

-----------------------------------------------------------------------------
(* The client's steps in a walk.                                           *)

\* Nothing at or below a path where there is nothing is current, and nothing
\* below a file is.
LEMMA NothingBelow ==
    ASSUME SystemTyped, NEW p \in Path, NEW q \in Within[p], Current(q)
    PROVE  local[p] # Absent /\ (q # p => local[p] = Folder)
<1>1. q \in Path /\ local[q] # Absent
  BY ParentAssumption DEF Current, Recorded
<1>2. IsTree(local)
  BY DEF SystemTyped, ClientTyped
<1> QED
  BY <1>1, <1>2, AboveIsFolder, NodeAssumption

\* A request is as safe after a step that leaves the trees and paths_ alone.
LEMMA StillSafe ==
    ASSUME NEW req, SafeRequest(req), UNCHANGED <<local, paths, remote>>
    PROVE  SafeRequest(req)'
BY DEF SafeRequest, Harmless, Current, Recorded, CanMake, HasPlace, Named

\* A step of the walk that only asks, lists or goes on.
LEMMA AskKeepsStored ==
    ASSUME StoredInv, UNCHANGED <<local, paths, mtime, remote, server, version>>, late' = NoCall,
           call' = NoCall \/ SafeRequest(call'), pc' \in WalkPC, WalkOrder', WalkMakes'
    PROVE  StoredInv'
<1>1. SafeRequests'
  BY StillSafe DEF SafeRequests, Waiting
<1>2. AllStored' /\ Names' /\ Versions' /\ ParentRecorded'
  BY DEF StoredInv, AllStored, Names, HasNames, IsFile, Versions,
     ParentRecorded, Recorded
<1> QED
  BY <1>1, <1>2 DEF StoredInv, WalkPC, PollPC, CheckPC, ScanPC

\* The same entry is treated: the order of the walk is what it was.
LEMMA SameEntryOrder ==
    ASSUME WalkOrder, UNCHANGED dataVars,
           \/ pc \in FolderPC /\ pc' \in FolderPC
           \/ pc \in FilePC /\ pc' \in FilePC
    PROVE  WalkOrder'
BY DEF WalkOrder, dataVars, Ahead, Recorded, At, FolderPC, FilePC

\* The requests a walk makes are safe.
LEMMA ProbeFolderIsSafe ==
    ASSUME SystemTyped, NEW p \in Path
    PROVE  SafeRequest([op |-> "probefolder", path |-> p, children |-> Entries(local, p)])
<1>1. ASSUME NEW q \in Path \ {Root}, Parent[q] = p, q \notin Entries(local, p),
             NEW r \in Within[q]
      PROVE  ~Current(r)
  BY <1>1, NothingBelow DEF Entries
<1> QED
  BY <1>1 DEF SafeRequest, Harmless, CanMake, Named

LEMMA WalkMakeIsSafe ==
    ASSUME SystemTyped, Walking, StoredInv, WalkOrder, UsualNames,
           pc = "probing", remote[At] # Folder
    PROVE  SafeRequest(OnPath("mkdir", At))
<1>1. At \in Path /\ IsTree(local) /\ IsTree(remote) /\ local[At] = Folder
  BY DEF SystemTyped, ClientTyped, At, Walking, Kinds, FolderPC
<1>2. At # Root
  BY <1>1 DEF IsTree
<1>3. Recorded(Parent[At]) /\ Parent[At] \in Path /\ local[Parent[At]] = Folder
  BY <1>1, <1>2, ParentAssumption, NodeAssumption DEF WalkOrder, Ahead, FolderPC, IsTree
<1>4. remote[Parent[At]] = Folder
  BY <1>3 DEF Walking, Copied, FilePC
<1>5. At \in FolderName /\ remote[At] \notin Content
  BY <1>1 DEF StoredInv, Names, HasNames, IsFile, UsualNames
<1>6. remote[At] = Absent
  BY <1>1, <1>5 DEF IsTree, Node
<1> QED
  BY <1>2, <1>4, <1>5, <1>6 DEF OnPath, SafeRequest, Harmless, CanMake, HasPlace, Named

LEMMA FileRequestsAreSafe ==
    ASSUME SystemTyped, Walking, StoredInv, WalkOrder, pc \in FilePC
    PROVE  /\ SafeRequest(OnPath("probefile", At))
           /\ SafeRequest(OnPath("delete", At))
           /\ SafeRequest(Save(At))
<1>1. At \in Path /\ IsFile(local, At) /\ local[At] # Folder /\ ~Current(At)
  BY NodeAssumption
  DEF SystemTyped, ClientTyped, At, Walking, Kinds, WalkOrder, Ahead, Current, IsFile
<1>2. \A p \in Within[At] : ~Current(p)
  BY <1>1, NothingBelow
<1>3. At \in FileName
  BY <1>1 DEF StoredInv, Names, HasNames
<1> QED
  BY <1>1, <1>2, <1>3 DEF OnPath, Save, SafeRequest, Harmless, CanMake, Named

LEMMA StepKeepsStored ==
    ASSUME SystemTyped, Walking, WalkInv, StoredInv, UsualNames, pc \in WalkPC, Walk, ~Die,
           UNCHANGED <<serverVars, version>>
    PROVE  StoredInv'
<1>1. /\ late' = NoCall /\ UNCHANGED <<remote, server, version>>
      /\ WalkOrder /\ WalkMakes
      /\ At \in Path /\ IsTree(local) /\ jobs \in Seq(Path)
      /\ open \in Seq(SUBSET (Path \X {"file", "folder"}))
  BY DEF Walking, StoredInv, SystemTyped, ClientTyped, At, serverVars
<1>2. CASE WalkFolder
  <2>1. /\ pc = "take" /\ jobs # <<>> /\ open = <<>>
        /\ cur' = <<Head(jobs), "folder">>
        /\ jobs' = Tail(jobs)
        /\ call' = [op |-> "probefolder", path |-> Head(jobs),
                    children |-> Entries(local, Head(jobs))]
        /\ pc' = "probing" /\ reply' = NoReply
        /\ UNCHANGED <<local, paths, mtime, open, check>>
    BY <1>2 DEF WalkFolder, Send, WalkInv
  <2>2. At' = Head(jobs) /\ Head(jobs) = jobs[1] /\ 1 \in 1 .. Len(jobs) /\ Head(jobs) \in Path
    BY <1>1, <2>1 DEF At
  <2>3. \A i \in 1 .. Len(jobs') : i + 1 \in 1 .. Len(jobs) /\ jobs'[i] = jobs[i + 1] /\ i + 1 # 1
    BY <1>1, <2>1
  <2>4. \A i, j \in 1 .. Len(jobs') : i + 1 = j + 1 => i = j
    OBVIOUS
  <2>5. \A p : Ahead(p)' <=> Ahead(p)
    BY <2>1 DEF Ahead, Recorded
  <2>6. WalkOrder'
    <3>1. \A i, j \in 1 .. Len(jobs') : jobs'[i] = jobs'[j] => i = j
      BY <1>1, <2>3, <2>4 DEF WalkOrder
    <3>2. \A i \in 1 .. Len(jobs') : Ahead(jobs'[i]) /\ jobs'[i] # At'
      BY <1>1, <2>2, <2>3 DEF WalkOrder
    <3>3. Ahead(At')
      BY <1>1, <2>2 DEF WalkOrder
    <3> QED
      BY <1>1, <2>1, <2>5, <3>1, <3>2, <3>3 DEF WalkOrder, Recorded
  <2>7. WalkMakes'
    BY <2>1 DEF WalkMakes, NoReply
  <2> QED
    BY <1>1, <2>1, <2>2, <2>6, <2>7, ProbeFolderIsSafe, AskKeepsStored DEF WalkPC
<1>3. CASE FolderProbed
  <2>1. pc = "probing" /\ UNCHANGED dataVars /\ UNCHANGED <<local, paths, mtime>> /\ At' = At
    BY <1>3 DEF FolderProbed, Answered, dataVars, At
  <2>2. CASE Proceed("open")
    <3>1. WalkOrder' /\ WalkMakes'
      BY <1>1, <2>1, <2>2, SameEntryOrder DEF Proceed, FolderPC, WalkMakes
    <3> QED
      BY <1>1, <2>1, <2>2, <3>1, AskKeepsStored DEF Proceed, WalkPC
  <2>3. CASE reply.status = "not_found" /\ Send(OnPath("mkdir", At), "creating")
    <3>1. remote[At] # Folder
      BY <1>1, <2>1, <2>3 DEF WalkMakes
    <3>2. SafeRequest(OnPath("mkdir", At))
      BY <1>1, <2>1, <3>1, WalkMakeIsSafe
    <3>3. WalkOrder' /\ WalkMakes'
      BY <1>1, <2>1, <2>3, <3>1, SameEntryOrder DEF Send, FolderPC, WalkMakes
    <3> QED
      BY <1>1, <2>1, <2>3, <3>2, <3>3, AskKeepsStored DEF Send, WalkPC
  <2> QED
    BY <1>3, <2>2, <2>3 DEF FolderProbed
<1>4. CASE FolderCreated
  <2>1. /\ pc = "creating" /\ Proceed("open")
        /\ UNCHANGED dataVars /\ UNCHANGED <<local, paths, mtime>>
    BY <1>4 DEF FolderCreated, WalkAnswer, Answered, dataVars
  <2>2. WalkOrder' /\ WalkMakes'
    BY <1>1, <2>1, SameEntryOrder DEF Proceed, FolderPC, WalkMakes
  <2> QED
    BY <1>1, <2>1, <2>2, AskKeepsStored DEF Proceed, WalkPC
<1>5. CASE OpenFolder
  <2>1. /\ pc = "open" /\ local[At] = Folder /\ open = <<>>
        /\ paths' = [paths EXCEPT ![At] = Folder]
        /\ open' = <<Listing(local, At)>>
        /\ pc' = "entry"
        /\ UNCHANGED <<local, cur, mtime, jobs, check, call, reply>>
    BY <1>5 DEF OpenFolder, WalkInv, FolderPC
  <2>2. Head(open') = Listing(local, At)
    BY <2>1
  <2>3. \A p \in Path : paths'[p] = IF p = At THEN Folder ELSE paths[p]
    BY <1>1, <2>1 DEF SystemTyped, ClientTyped, Key
  <2>4. call' = NoCall /\ FolderReady(At)
    BY <2>1 DEF Walking, Asked, Learnt
  <2>5. AllStored'
    BY <1>1, <2>1, <2>3, <2>4 DEF StoredInv, AllStored, FolderReady
  <2>6. SafeRequests'
    BY <1>1, <2>4 DEF SafeRequests, Waiting
  <2>7. Names' /\ Versions'
    BY <1>1, <2>1, <2>3, NodeAssumption DEF StoredInv, Names, HasNames, IsFile, Versions
  <2>8. WalkOrder'
    <3>1. /\ ~Recorded(At) /\ (At = Root \/ Recorded(Parent[At]))
          /\ \A i \in 1 .. Len(jobs) : jobs[i] # At
      BY <1>1, <2>1 DEF WalkOrder, Ahead, FolderPC
    <3>2. \A p \in Path : Recorded(p)' <=> (p = At \/ Recorded(p))
      BY <2>1, <2>3, NodeAssumption DEF Recorded
    <3>3. \A p \in Path : Ahead(p) /\ p # At => Ahead(p)'
      BY <3>2, ParentAssumption DEF Ahead
    <3>4. \A i \in 1 .. Len(jobs) : Ahead(jobs[i])'
      <4>1. \A i \in 1 .. Len(jobs) : jobs[i] \in Path /\ Ahead(jobs[i])
        BY <1>1 DEF WalkOrder
      <4> QED
        BY <2>1, <3>1, <3>3, <4>1
    <3>5. ASSUME NEW e \in Listing(local, At)
          PROVE  Ahead(e[1])' /\ e[1] # Root /\ \A i \in 1 .. Len(jobs) : jobs[i] # e[1]
      <4>1. e[1] \in Path \ {Root} /\ Parent[e[1]] = At /\ e[1] # At
        BY <3>5, ParentAssumption DEF Listing, Entries
      <4>2. ~Recorded(e[1])
        BY <1>1, <3>1, <4>1 DEF WalkOrder
      <4>3. Ahead(e[1])'
        BY <1>1, <3>2, <4>1, <4>2 DEF Ahead
      <4>4. \A i \in 1 .. Len(jobs) : jobs[i] # e[1]
        BY <1>1, <3>1, <4>1 DEF WalkOrder, Ahead
      <4> QED
        BY <4>1, <4>3, <4>4
    <3>6. \A p \in Path \ {Root} : Recorded(p)' => Recorded(Parent[p])'
      BY <1>1, <3>1, <3>2, ParentAssumption DEF WalkOrder
    <3> QED
      BY <1>1, <2>1, <2>2, <3>4, <3>5, <3>6 DEF WalkOrder, FolderPC, FilePC
  <2>9. ParentRecorded' /\ WalkMakes'
    <3>1. At # Root => Parent[At] \in FolderName
      BY <1>1, <2>1, ParentAssumption, NodeAssumption DEF IsTree, StoredInv, Names, HasNames
    <3>2. \A p \in Path : Recorded(p)' => p = At \/ Recorded(p)
      BY <2>3 DEF Recorded
    <3> QED
      BY <2>1, <2>8, <3>1, <3>2 DEF StoredInv, ParentRecorded, WalkOrder, WalkMakes
  <2> QED
    BY <2>1, <2>5, <2>6, <2>7, <2>8, <2>9 DEF StoredInv, PollPC, CheckPC, ScanPC
<1>6. CASE WalkEntry
  <2>1. PICK e \in Head(open) :
          /\ open' = <<Head(open) \ {e}>>
          /\ \/ /\ e[2] = "file"
                /\ cur' = e
                /\ Send(OnPath("probefile", e[1]), "probed")
                /\ UNCHANGED jobs
             \/ /\ e[2] = "folder"
                /\ jobs' = Append(jobs, e[1])
                /\ UNCHANGED <<pc, cur, call, reply>>
    BY <1>6 DEF WalkEntry
  <2>2. pc = "entry" /\ UNCHANGED <<local, paths, mtime, check>> /\ call = NoCall
    BY <1>6 DEF WalkEntry, Walking, Asked
  <2>3. open # <<>> /\ Head(open) \in SUBSET (Path \X {"file", "folder"})
    BY <1>1, <2>2 DEF SystemTyped, ClientTyped, IteratorPC
  <2>4. /\ e[1] \in Path /\ e[2] \in {"file", "folder"}
        /\ Head(open') = Head(open) \ {e} /\ open' # <<>>
    BY <2>1, <2>3
  <2>5. \A d \in Head(open') : d[1] # e[1]
    <3>1. ASSUME NEW d \in Head(open), d[1] = e[1] PROVE d = e
      <4>1. d[2] = e[2]
        BY <2>3, <3>1 DEF Walking, Kinds
      <4>2. d = <<d[1], d[2]>> /\ e = <<e[1], e[2]>>
        BY <2>3
      <4> QED
        BY <3>1, <4>1, <4>2
    <3> QED
      BY <2>4, <3>1
  <2>6. \A p : Ahead(p)' <=> Ahead(p)
    BY <2>2 DEF Ahead, Recorded
  <2>7. Ahead(e[1]) /\ \A i \in 1 .. Len(jobs) : jobs[i] # e[1]
    BY <1>1, <2>3 DEF WalkOrder
  <2>8. CASE e[2] = "file"
    <3>1. /\ cur' = e /\ At' = e[1] /\ UNCHANGED jobs
          /\ pc' = "probed" /\ call' = OnPath("probefile", e[1]) /\ reply' = NoReply
      BY <2>1, <2>8 DEF At, Send
    <3>2. SafeRequest(call')
      BY <3>1 DEF OnPath, SafeRequest, Harmless, CanMake, Named
    <3>3. WalkOrder'
      BY <1>1, <2>2, <2>3, <2>4, <2>5, <2>6, <2>7, <3>1 DEF WalkOrder, Recorded
    <3> QED
      BY <1>1, <2>2, <3>1, <3>2, <3>3, AskKeepsStored DEF WalkMakes, WalkPC
  <2>9. CASE e[2] = "folder"
    <3>1. jobs' = Append(jobs, e[1]) /\ UNCHANGED <<pc, cur, call, reply>>
      BY <2>1, <2>9
    <3>2. /\ \A i \in 1 .. Len(jobs') : i \in 1 .. Len(jobs) \/ i = Len(jobs')
          /\ \A i \in 1 .. Len(jobs) : jobs'[i] = jobs[i] /\ i # Len(jobs')
          /\ jobs'[Len(jobs')] = e[1]
      BY <1>1, <2>4, <3>1
    <3>3. \A i \in 1 .. Len(jobs') : Ahead(jobs'[i])
      BY <1>1, <2>7, <3>2 DEF WalkOrder
    <3>4. \A i, j \in 1 .. Len(jobs') : jobs'[i] = jobs'[j] => i = j
      BY <1>1, <2>7, <3>2 DEF WalkOrder
    <3>5. \A d \in Head(open') : \A i \in 1 .. Len(jobs') : jobs'[i] # d[1]
      BY <1>1, <2>3, <2>4, <2>5, <3>2 DEF WalkOrder
    <3>6. WalkOrder'
      BY <1>1, <2>2, <2>3, <2>4, <2>6, <3>1, <3>3, <3>4, <3>5
      DEF WalkOrder, Recorded, FolderPC, FilePC
    <3> QED
      BY <1>1, <2>2, <3>1, <3>6, AskKeepsStored DEF WalkMakes
  <2> QED
    BY <2>4, <2>8, <2>9
<1>7. CASE FileProbed \/ FileReplacing \/ UploadFile \/ FileReplaced \/ FileUploaded
  <2>1. /\ pc \in FilePC /\ pc' \in FilePC /\ UNCHANGED dataVars
        /\ UNCHANGED <<local, paths, mtime>>
    BY <1>7 DEF FileProbed, FileReplacing, UploadFile, FileReplaced, FileUploaded, WalkAnswer,
       Answered, Proceed, Send, dataVars, FilePC
  <2>2. call' \in {NoCall, OnPath("probefile", At), OnPath("delete", At), Save(At)}
    BY <1>7 DEF FileProbed, FileReplacing, UploadFile, FileReplaced, FileUploaded, WalkAnswer,
       Proceed, Send
  <2>3. call' = NoCall \/ SafeRequest(call')
    BY <1>1, <2>1, <2>2, FileRequestsAreSafe
  <2>4. WalkOrder' /\ WalkMakes'
    BY <1>1, <2>1, SameEntryOrder DEF WalkMakes, FilePC
  <2> QED
    BY <1>1, <2>1, <2>3, <2>4, AskKeepsStored DEF FilePC, WalkPC
<1>8. CASE RecordFile
  <2>1. /\ pc = "record"
        /\ paths' = [paths EXCEPT ![At] = local[At]]
        /\ pc' = "entry"
        /\ UNCHANGED <<local, cur, mtime, jobs, open, check, call, reply>>
    BY <1>8 DEF RecordFile
  <2>2. \A p \in Path : paths'[p] = IF p = At THEN local[At] ELSE paths[p]
    BY <1>1, <2>1 DEF SystemTyped, ClientTyped, Key
  <2>3. call' = NoCall /\ remote[At] = local[At] /\ IsFile(local, At) /\ local[At] # Absent
    BY <2>1, NodeAssumption DEF Walking, Asked, Learnt, Kinds, FilePC, IsFile
  <2>4. AllStored'
    BY <1>1, <2>1, <2>2, <2>3 DEF StoredInv, AllStored
  <2>5. SafeRequests'
    BY <1>1, <2>3 DEF SafeRequests, Waiting
  <2>6. Names' /\ Versions'
    BY <1>1, <2>1, <2>2, NodeAssumption DEF StoredInv, Names, HasNames, IsFile, Versions
  <2>7. WalkOrder'
    <3>1. Ahead(At) /\ \A i \in 1 .. Len(jobs) : jobs[i] # At
      BY <1>1, <2>1 DEF WalkOrder, FilePC
    <3>2. \A p \in Path : Recorded(p)' <=> (p = At \/ Recorded(p))
      BY <2>1, <2>2, <2>3 DEF Recorded
    <3>3. \A p \in Path : Ahead(p) /\ p # At => Ahead(p)'
      BY <3>2, ParentAssumption DEF Ahead
    <3>4. \A i \in 1 .. Len(jobs) : Ahead(jobs[i])'
      <4>1. \A i \in 1 .. Len(jobs) : jobs[i] \in Path /\ Ahead(jobs[i])
        BY <1>1 DEF WalkOrder
      <4> QED
        BY <2>1, <3>1, <3>3, <4>1
    <3>5. open # <<>> => \A e \in Head(open) :
            Ahead(e[1])' /\ e[1] # Root /\ \A i \in 1 .. Len(jobs) : jobs[i] # e[1]
      <4>1. open # <<>> => \A e \in Head(open) :
              e[1] \in Path /\ e[1] # At /\ Ahead(e[1]) /\ e[1] # Root
        BY <1>1, <2>1 DEF WalkOrder, FilePC
      <4> QED
        BY <1>1, <2>1, <3>3, <4>1 DEF WalkOrder
    <3>6. \A p \in Path \ {Root} : Recorded(p)' => Recorded(Parent[p])'
      BY <1>1, <3>1, <3>2, ParentAssumption DEF WalkOrder, Ahead
    <3> QED
      BY <1>1, <2>1, <3>4, <3>5, <3>6 DEF WalkOrder, FolderPC, FilePC
  <2>8. ParentRecorded' /\ WalkMakes'
    <3>1. At # Root => Parent[At] \in FolderName
      BY <1>1, <2>3, ParentAssumption, NodeAssumption DEF IsTree, StoredInv, Names, HasNames
    <3>2. \A p \in Path : Recorded(p)' => p = At \/ Recorded(p)
      BY <2>2 DEF Recorded
    <3> QED
      BY <2>1, <2>7, <3>1, <3>2 DEF StoredInv, ParentRecorded, WalkOrder, WalkMakes
  <2> QED
    BY <2>1, <2>4, <2>5, <2>6, <2>7, <2>8 DEF StoredInv, PollPC, CheckPC, ScanPC
<1>9. CASE FolderDone
  <2>1. /\ pc = "entry" /\ open' = <<>> /\ pc' = "take"
        /\ UNCHANGED <<local, paths, cur, mtime, jobs, check, call, reply>>
    BY <1>9 DEF FolderDone
  <2>2. WalkOrder' /\ WalkMakes' /\ call' = NoCall
    BY <1>1, <2>1 DEF WalkOrder, Ahead, Recorded, WalkMakes, Walking, Asked, FolderPC, FilePC
  <2> QED
    BY <1>1, <2>1, <2>2, AskKeepsStored DEF WalkPC
<1>10. CASE WalkDone
  <2>1. /\ pc = "take" /\ jobs = <<>> /\ pc' = "sleep" /\ open = <<>>
        /\ UNCHANGED <<local, paths, mtime, jobs, open, check, call, reply>>
        /\ call = NoCall /\ reply = NoReply
    BY <1>10 DEF WalkDone, WalkInv, Walking, Asked
  <2>2. Recorded(Root)
    BY <2>1 DEF Walking, Complete, Coming, FolderPC, FilePC
  <2>3. SafeRequests'
    BY <1>1, <2>1 DEF SafeRequests, Waiting
  <2>4. AllStored' /\ Names' /\ Versions' /\ ParentRecorded'
    BY <1>1, <2>1 DEF StoredInv, AllStored, Names, HasNames, IsFile,
       Versions, ParentRecorded, Recorded
  <2>5. PollAsks' /\ PollKnows'
    BY <2>1, <2>2 DEF PollAsks, PollKnows, Recorded, CheckPC, ScanPC
  <2> QED
    BY <1>1, <2>1, <2>3, <2>4, <2>5 DEF StoredInv, WalkPC
<1> QED
  BY <1>2, <1>3, <1>4, <1>5, <1>6, <1>7, <1>8, <1>9, <1>10 DEF Walk

-----------------------------------------------------------------------------
(* The client's steps in a poll.                                           *)

\* A poll that has given up a request can only end.
LEMMA PollNotGivenUp ==
    ASSUME StoredInv, Watch, ~Die, ~Retry
    PROVE  pc \in PollPC /\ late = NoCall
<1>1. pc \in PollPC
  BY DEF Watch, Poll, CheckPath, PathDeleted, ParentUpdated, CheckDone, ScanEntry, FolderMade,
     FileRemoved, FileSaved, EncodeFile, NextEntry, NextEntryWith, ScanPop, ScanAnswer, Answered,
     PollPC, CheckPC, ScanPC
<1>2. CASE pc \in {"sleep", "check", "parent", "scan", "encode", "next"}
  BY <1>1, <1>2, StatusOfNoReply DEF StoredInv, PollAsks
<1>3. CASE pc \in {"deleting", "making", "removing", "saving"}
  <2>1. Accepted
    BY <1>3 DEF Watch, Poll, CheckPath, PathDeleted, ParentUpdated, CheckDone, ScanEntry,
       FolderMade, FileRemoved, FileSaved, EncodeFile, NextEntry, NextEntryWith, ScanPop,
       ScanAnswer, Answered
  <2> QED
    BY <1>1, <2>1 DEF StoredInv, Accepted, GivenUp
<1> QED
  BY <1>1, <1>2, <1>3 DEF PollPC, CheckPC, ScanPC

\* A step of a poll that records nothing and forgets nothing.
LEMMA PollStepKeeps ==
    ASSUME StoredInv, UNCHANGED <<local, paths, remote, server, version>>, late' = NoCall,
           call' = NoCall \/ SafeRequest(call'), mtime' \in Content => mtime' <= version,
           pc' \in PollPC, PollAsks', PollKnows'
    PROVE  StoredInv'
<1>1. SafeRequests'
  BY StillSafe DEF SafeRequests, Waiting
<1>2. AllStored' /\ Names' /\ Versions' /\ ParentRecorded'
  BY DEF StoredInv, AllStored, Names, HasNames, IsFile, Versions,
     ParentRecorded, Recorded
<1> QED
  BY <1>1, <1>2 DEF StoredInv, WalkPC, PollPC, CheckPC, ScanPC

\* The deletion of what is gone, or of a file, takes nothing else.
LEMMA DeleteIsSafe ==
    ASSUME SystemTyped, NEW p \in Path, local[p] # Folder, ~Current(p)
    PROVE  SafeRequest(OnPath("delete", p))
<1>1. \A q \in Within[p] : ~Current(q)
  BY NothingBelow
<1> QED
  BY <1>1 DEF OnPath, SafeRequest, Harmless, CanMake, Named

\* A recorded folder that exists is on the server.
LEMMA RecordedFolder ==
    ASSUME SystemTyped, StoredInv, UsualNames, NEW p \in Path, Recorded(p), local[p] = Folder
    PROVE  paths[p] = Folder /\ remote[p] = Folder
<1>1. p \in FolderName /\ paths[p] \in Node
  BY DEF StoredInv, Names, HasNames, SystemTyped, ClientTyped, Key
<1>2. paths[p] = Folder
  BY <1>1 DEF Recorded, StoredInv, Names, HasNames, IsFile, UsualNames, Node
<1> QED
  BY <1>2 DEF StoredInv, AllStored, Recorded

\* What the listing of a recorded folder has.
LEMMA ListingIsListed ==
    ASSUME SystemTyped, StoredInv, NEW p \in Path, local[p] = Folder,
           NEW e \in Listing(local, p)
    PROVE  /\ e[1] \in Path \ {Root} /\ Parent[e[1]] = p /\ p \in FolderName
           /\ e[2] = "folder" => e[1] \in FolderName
           /\ e[2] = "file" => e[1] \in FileName
<1>1. PICK q \in Entries(local, p) : e = <<q, Kind(local, q)>>
  BY DEF Listing
<1>2. e[1] = q /\ e[2] = Kind(local, q)
  BY <1>1
<1>3. q \in Path \ {Root} /\ Parent[q] = p /\ local[q] # Absent /\ local[q] \in Node
  BY <1>1 DEF Entries, SystemTyped, ClientTyped, IsTree
<1> QED
  BY <1>2, <1>3 DEF Kind, Node, StoredInv, Names, HasNames, IsFile

\* The first loop.
LEMMA CheckKeepsStored ==
    ASSUME SystemTyped, StoredInv, UsualNames, pc \in PollPC, late' = NoCall,
           Poll \/ CheckPath \/ CheckDone, UNCHANGED <<remote, server, version>>
    PROVE  StoredInv'
<1>1. /\ IsTree(local) /\ check \subseteq Key
      /\ mtime \in Content => mtime <= version
      /\ PollAsks /\ PollKnows
  BY DEF SystemTyped, ClientTyped, StoredInv, Versions
<1>2. CASE Poll
  <2>1. /\ pc = "sleep" /\ pc' = "check" /\ check' = {k \in Key : paths[k] # Absent}
        /\ UNCHANGED <<local, paths, cur, mtime, jobs, open, call, reply>>
    BY <1>2 DEF Poll
  <2>2. PollAsks' /\ PollKnows' /\ call' = NoCall
    BY <1>1, <2>1 DEF PollAsks, PollKnows, Recorded, CheckPC, ScanPC
  <2> QED
    BY <1>1, <2>1, <2>2, PollStepKeeps DEF PollPC, CheckPC
<1>3. CASE CheckPath
  <2>1. PICK k \in check :
          /\ check' = check \ {k}
          /\ IF NodeOf(k) # Absent
             THEN UNCHANGED <<cur, pc, call, reply>>
             ELSE cur' = <<k, "file">> /\ Send(OnPath("delete", k), "deleting")
    BY <1>3 DEF CheckPath
  <2>2. pc = "check" /\ UNCHANGED <<local, paths, mtime, jobs, open>>
    BY <1>3 DEF CheckPath
  <2>3. CASE NodeOf(k) # Absent
    <3>1. UNCHANGED <<cur, pc, call, reply>>
      BY <2>1, <2>3
    <3>2. PollAsks' /\ PollKnows' /\ call' = NoCall
      BY <1>1, <2>1, <2>2, <3>1 DEF PollAsks, PollKnows, Recorded, CheckPC, ScanPC
    <3> QED
      BY <1>1, <2>2, <3>1, <3>2, PollStepKeeps
  <2>4. CASE NodeOf(k) = Absent
    <3>1. k \in Path /\ local[k] = Absent /\ paths[k] # Absent
      BY <1>1, <2>2, <2>4, NodeAssumption DEF NodeOf, IsTree, Key, PollKnows, CheckPC
    <3>2. /\ cur' = <<k, "file">> /\ At' = k /\ call' = OnPath("delete", k)
          /\ reply' = NoReply /\ pc' = "deleting"
      BY <2>1, <2>4 DEF Send, At
    <3>3. SafeRequest(call')
      BY <3>1, <3>2, DeleteIsSafe, NodeAssumption DEF Current
    <3>4. PollAsks' /\ PollKnows'
      BY <1>1, <2>1, <2>2, <3>1, <3>2, NodeAssumption
      DEF PollAsks, PollKnows, Recorded, CheckPC, ScanPC
    <3> QED
      BY <1>1, <2>2, <3>2, <3>3, <3>4, PollStepKeeps DEF PollPC, CheckPC
  <2> QED
    BY <2>3, <2>4
<1>4. CASE CheckDone
  <2>1. /\ pc = "check" /\ pc' = "scan" /\ open' = <<Listing(local, Root)>>
        /\ UNCHANGED <<local, paths, cur, mtime, jobs, check, call, reply>>
    BY <1>4 DEF CheckDone
  <2>2. \A i \in 1 .. Len(open') : open'[i] = Listing(local, Root)
    BY <2>1
  <2>3. Root \in Path /\ local[Root] = Folder /\ Recorded(Root)
    BY <1>1, ParentAssumption DEF IsTree, PollKnows
  <2>4. \A e \in Listing(local, Root) : Listed(e)'
    BY <2>1, <2>3, ListingIsListed DEF Listed, Recorded
  <2>5. PollAsks' /\ PollKnows' /\ call' = NoCall
    BY <1>1, <2>1, <2>2, <2>4 DEF PollAsks, PollKnows, Recorded, CheckPC, ScanPC
  <2> QED
    BY <1>1, <2>1, <2>5, PollStepKeeps DEF PollPC, ScanPC
<1> QED
  BY <1>2, <1>3, <1>4

\* What is gone is forgotten, and nothing else about a path changes: the time of
\* the folder it was in is that of a folder that has been recorded, or that of the
\* key nobody sends.
LEMMA PathIsForgotten ==
    ASSUME SystemTyped, StoredInv, UsualNames, PathDeleted \/ ParentUpdated, pc' = "check"
    PROVE  /\ pc \in {"deleting", "parent"} /\ Recorded(At) /\ local[At] # Folder
           /\ At \in Path \ {Root}
           /\ \A p \in Path : paths'[p] = IF p = At THEN Absent ELSE paths[p]
           /\ \A k \in check' : paths'[k] # Absent
<1> DEFINE parent == ParentKey(At)
           parentExists == NodeOf(parent) # Absent
<1>1. /\ pc \in {"deleting", "parent"}
      /\ \/ /\ parentExists
            /\ paths' = [paths EXCEPT ![parent] = NodeOf(parent), ![At] = Absent]
            /\ IF paths[parent] = Absent
               THEN check' \in SUBSET {k \in Key : paths'[k] # Absent}
               ELSE UNCHANGED check
         \/ /\ ~parentExists
            /\ paths' = [paths EXCEPT ![At] = Absent]
            /\ UNCHANGED check
  BY DEF PathDeleted, ParentUpdated, Answered, Proceed, Retry, Die
<1>2. /\ IsTree(local) /\ paths \in [Key -> Node]
      /\ Recorded(At) /\ At \notin check /\ local[At] # Folder
      /\ \A k \in check : k \in Key /\ paths[k] # Absent
      /\ At \in Path \ {Root}
  BY <1>1 DEF SystemTyped, ClientTyped, StoredInv, PollPC, PollKnows, CheckPC, At
<1>3. Parent[At] \in Path /\ Parent[At] # At /\ Parent[At] \in FolderName
  BY <1>2, ParentAssumption DEF StoredInv, ParentRecorded
<1>4. parent # At /\ parent \in Key
  BY <1>2, <1>3, AliasAssumption DEF ParentKey, Key
<1>5. \A k \in Key : paths'[k] = IF k = At THEN Absent
                                ELSE IF k = parent /\ parentExists THEN NodeOf(parent)
                                ELSE paths[k]
  BY <1>1, <1>2, <1>4
<1>6. parent \in Path /\ parentExists => NodeOf(parent) = paths[parent]
  <2> SUFFICES ASSUME parent \in Path, parentExists PROVE NodeOf(parent) = paths[parent]
    OBVIOUS
  <2>1. parent = Parent[At] /\ NodeOf(parent) = local[Parent[At]]
    BY AliasAssumption DEF ParentKey, NodeOf
  <2>2. local[Parent[At]] = Folder
    BY <1>2, <1>3, <2>1 DEF IsTree, Node, IsFile, StoredInv, Names, HasNames, UsualNames
  <2>3. Recorded(Parent[At])
    BY <1>2, <2>2 DEF StoredInv, ParentRecorded
  <2> QED
    BY <1>3, <2>1, <2>2, <2>3, RecordedFolder
<1> HIDE DEF parent, parentExists
<1>7. \A p \in Path : paths'[p] = IF p = At THEN Absent ELSE paths[p]
  BY <1>5, <1>6 DEF Key
<1>8. \A k \in check' : paths'[k] # Absent
  <2>1. CASE parentExists /\ paths[parent] = Absent
    BY <1>1, <2>1
  <2>2. CASE ~(parentExists /\ paths[parent] = Absent)
    <3>1. check' = check
      BY <1>1, <2>2
    <3>2. \A k \in check : k # At /\ k \in Key /\ paths[k] # Absent
      BY <1>2
    <3> QED
      BY <1>5, <3>1, <3>2 DEF parentExists
  <2> QED
    BY <2>1, <2>2
<1> QED
  BY <1>1, <1>2, <1>7, <1>8

\* The server has deleted the path, its parent is there: the client goes on to it.
LEMMA ParentFoundKeepsStored ==
    ASSUME SystemTyped, StoredInv, UsualNames, late' = NoCall,
           PathDeleted, pc' = "parent", UNCHANGED <<remote, server, version>>
    PROVE  StoredInv'
<1>1. /\ pc = "deleting" /\ Proceed("parent") /\ UNCHANGED dataVars
  BY DEF PathDeleted, Answered, Proceed, Retry
<1>2. /\ PollAsks' /\ PollKnows' /\ call' = NoCall
      /\ mtime' \in Content => mtime' <= version
  BY <1>1 DEF StoredInv, Versions, PollPC, PollAsks, PollKnows, Recorded, CheckPC, ScanPC, Proceed,
     dataVars, At
<1> QED
  BY <1>1, <1>2, PollStepKeeps DEF dataVars, PollPC, CheckPC

LEMMA PathForgottenKeepsStored ==
    ASSUME SystemTyped, StoredInv, UsualNames, late' = NoCall,
           PathDeleted \/ ParentUpdated, pc' = "check", UNCHANGED <<remote, server, version>>
    PROVE  StoredInv'
<1>1. /\ call' = NoCall /\ reply' = NoReply
      /\ UNCHANGED <<local, mtime, jobs, open>>
  BY DEF PathDeleted, ParentUpdated, Proceed, Retry, Die
<1>2. /\ pc \in {"deleting", "parent"} /\ Recorded(At) /\ local[At] # Folder
      /\ At \in Path \ {Root}
      /\ \A p \in Path : paths'[p] = IF p = At THEN Absent ELSE paths[p]
      /\ \A k \in check' : paths'[k] # Absent
  BY PathIsForgotten
<1>3. AllStored' /\ SafeRequests'
  BY <1>1, <1>2 DEF StoredInv, AllStored, SafeRequests, Waiting
<1>4. Names' /\ Versions'
  BY <1>1, <1>2, NodeAssumption DEF StoredInv, Names, HasNames, IsFile, Versions
<1>5. ParentRecorded'
  BY <1>1, <1>2, ParentAssumption DEF StoredInv, ParentRecorded, Recorded
<1>6. Recorded(Root)'
  BY <1>2, ParentAssumption DEF StoredInv, PollPC, CheckPC, PollKnows, Recorded
<1>7. PollAsks' /\ PollKnows'
  BY <1>1, <1>2, <1>6 DEF PollAsks, PollKnows, CheckPC, ScanPC
<1> QED
  BY <1>1, <1>3, <1>4, <1>5, <1>7 DEF StoredInv, WalkPC, PollPC, CheckPC, ScanPC

\* The second loop comes to an entry.
LEMMA ScanEntryKeepsStored ==
    ASSUME SystemTyped, StoredInv, UsualNames, pc \in PollPC, late' = NoCall,
           ScanEntry, ~Die, UNCHANGED <<remote, server, version>>
    PROVE  StoredInv'
<1>1. /\ pc = "scan" /\ IsTree(local) /\ IsTree(remote) /\ PollKnows /\ open # <<>>
      /\ open \in Seq(SUBSET (Path \X {"file", "folder"}))
  BY DEF ScanEntry, SystemTyped, ClientTyped, StoredInv, IteratorPC, ScanPC
<1>2. PICK e \in Head(open) :
        LET p == e[1]
            new == paths[p] = Absent
            modified == ~new /\ paths[p] # local[p]
        IN /\ local[p] # Absent
           /\ cur' = e
           /\ mtime' = local[p]
           /\ open' = <<Head(open) \ {e}>> \o Tail(open)
           /\ CASE new /\ e[2] = "folder"     -> Send(OnPath("mkdir", p), "making")
                [] new /\ e[2] = "file"       -> Proceed("encode")
                [] modified /\ e[2] = "file"  -> Send(OnPath("delete", p), "removing")
                [] OTHER                      -> Proceed("next")
           /\ UNCHANGED <<local, paths, jobs, check>>
  BY DEF ScanEntry
<1> DEFINE p == e[1]
<1>3. Head(open) = open[1] /\ 1 \in 1 .. Len(open) /\ e \in Path \X {"file", "folder"}
  BY <1>1, <1>2
<1>4. p \in Path /\ e[2] \in {"file", "folder"} /\ Listed(e) /\ local[p] \in Node
  BY <1>1, <1>3 DEF PollKnows, ScanPC, IsTree
<1>5. IF e[2] = "folder" THEN local[p] = Folder ELSE local[p] \in Content
  BY <1>2, <1>4 DEF Listed, StoredInv, Names, HasNames, IsFile, UsualNames, Node
<1>6. /\ local[p] # Absent /\ cur' = e /\ At' = p /\ mtime' = local[p]
      /\ UNCHANGED <<local, paths, jobs, check>> /\ reply' = NoReply
      /\ mtime' \in Content => mtime' <= version
  BY <1>2, <1>4 DEF At, Send, Proceed, StoredInv, Versions, IsFile
<1>7. \/ e[2] = "folder" /\ ~Recorded(p) /\ call' = OnPath("mkdir", p) /\ pc' = "making"
      \/ e[2] = "file" /\ ~Recorded(p) /\ call' = NoCall /\ pc' = "encode"
      \/ /\ e[2] = "file" /\ Recorded(p) /\ ~Current(p)
         /\ call' = OnPath("delete", p) /\ pc' = "removing"
      \/ /\ Recorded(p) /\ (e[2] = "file" => Current(p))
         /\ call' = NoCall /\ pc' = "next"
  BY <1>2, <1>4 DEF Recorded, Current, Send, Proceed
<1>8. \A i \in 1 .. Len(open') : \A d \in open'[i] : Listed(d)
  <2>1. ASSUME NEW l \in SUBSET (Path \X {"file", "folder"}),
               NEW i \in 1 .. Len(<<l>> \o Tail(open))
        PROVE  \/ (<<l>> \o Tail(open))[i] = l
               \/ i \in 1 .. Len(open) /\ (<<l>> \o Tail(open))[i] = open[i]
    BY <1>1
  <2>2. Head(open) \ {e} \in SUBSET (Path \X {"file", "folder"})
    BY <1>1
  <2>3. \A i \in 1 .. Len(open) : \A d \in open[i] : Listed(d)
    BY <1>1 DEF PollKnows, ScanPC
  <2> QED
    BY <1>2, <1>3, <2>1, <2>2, <2>3
<1>9. \A d : Listed(d)' <=> Listed(d)
  BY <1>6 DEF Listed, Recorded
<1>10. call' = NoCall \/ SafeRequest(call')
  <2>1. CASE e[2] = "folder" /\ ~Recorded(p) /\ call' = OnPath("mkdir", p)
    <3>1. p # Root /\ Parent[p] \in Path /\ Recorded(Parent[p]) /\ local[Parent[p]] = Folder
      BY <1>1, <1>4, <1>6, ParentAssumption DEF Listed, IsTree
    <3>2. HasPlace(remote, p)
      BY <3>1, RecordedFolder DEF HasPlace
    <3>3. p \in FolderName /\ remote[p] \in {Folder, Absent}
      BY <1>1, <1>4, <2>1
      DEF Listed, IsTree, Node, StoredInv, Names, HasNames, IsFile, UsualNames
    <3> QED
      BY <2>1, <3>2, <3>3 DEF OnPath, SafeRequest, Harmless, CanMake, Named
  <2>2. CASE e[2] = "file" /\ ~Current(p) /\ call' = OnPath("delete", p)
    BY <1>4, <1>5, <2>2, DeleteIsSafe, NodeAssumption
  <2> QED
    BY <1>7, <2>1, <2>2
<1>11. PollAsks'
  BY <1>6, <1>7 DEF PollAsks
<1>12. PollKnows'
  <2>1. Recorded(Root)' /\ Listed(cur)'
    BY <1>1, <1>4, <1>6, <1>9 DEF PollKnows, Recorded
  <2>2. IF cur'[2] = "folder" THEN mtime' = Folder ELSE mtime' \in Content
    BY <1>5, <1>6
  <2>3. ~Accepted'
    BY <1>6, StatusOfNoReply DEF Accepted, NoReply
  <2>4. pc' \in {"removing", "encode", "saving"} => cur'[2] = "file" /\ ~Current(At)'
    BY <1>6, <1>7 DEF Current, Recorded
  <2>5. pc' = "next" => /\ cur'[2] = "folder" => Recorded(At)'
                        /\ cur'[2] = "file" => remote'[At'] = local'[At']
    BY <1>4, <1>6, <1>7 DEF Recorded, Current, StoredInv, AllStored
  <2> QED
    BY <1>6, <1>7, <1>8, <1>9, <2>1, <2>2, <2>3, <2>4, <2>5 DEF PollKnows, CheckPC, ScanPC
<1> QED
  BY <1>6, <1>7, <1>10, <1>11, <1>12, PollStepKeeps DEF PollPC, ScanPC

\* A new or modified entry is sent.
LEMMA SendEntryKeepsStored ==
    ASSUME SystemTyped, StoredInv, UsualNames, pc \in PollPC, late' = NoCall,
           FolderMade \/ FileRemoved \/ EncodeFile \/ FileSaved, ~Die, ~Retry,
           UNCHANGED <<remote, server, version>>
    PROVE  StoredInv'
<1>1. /\ pc \in {"making", "removing", "encode", "saving"}
      /\ UNCHANGED <<local, paths, cur, mtime, jobs, open, check>> /\ reply' = NoReply
      /\ mtime \in Content => mtime <= version
      /\ PollAsks /\ PollKnows /\ At' = At /\ At \in Path
  BY DEF FolderMade, FileRemoved, EncodeFile, FileSaved, ScanAnswer, Answered, Proceed, Send,
     dataVars, StoredInv, Versions, At, SystemTyped, ClientTyped
<1>2. \A d : Listed(d)' <=> Listed(d)
  BY <1>1 DEF Listed, Recorded
<1>3. ~Accepted'
  BY <1>1, StatusOfNoReply DEF Accepted, NoReply
<1>4. CASE FolderMade
  <2>1. pc = "making" /\ Accepted /\ pc' = "next" /\ call' = NoCall
    BY <1>4 DEF FolderMade, ScanAnswer, Answered, Proceed
  <2>2. PollAsks' /\ PollKnows'
    BY <1>1, <1>2, <2>1 DEF PollAsks, PollKnows, Recorded, CheckPC, ScanPC
  <2> QED
    BY <1>1, <2>1, <2>2, PollStepKeeps DEF PollPC, ScanPC
<1>5. CASE FileRemoved
  <2>1. pc = "removing" /\ pc' = "encode" /\ call' = NoCall
    BY <1>5 DEF FileRemoved, ScanAnswer, Answered, Proceed
  <2>2. PollAsks' /\ PollKnows'
    BY <1>1, <1>2, <2>1 DEF PollAsks, PollKnows, Recorded, Current, CheckPC, ScanPC
  <2> QED
    BY <1>1, <2>1, <2>2, PollStepKeeps DEF PollPC, ScanPC
<1>6. CASE EncodeFile
  <2>1. pc = "encode" /\ IsFile(local, At) /\ pc' = "saving" /\ call' = Save(At)
    BY <1>6 DEF EncodeFile, Send
  <2>2. ~Current(At) /\ cur[2] = "file" /\ At \in FileName
    BY <1>1, <2>1 DEF PollKnows, StoredInv, Names, HasNames
  <2>3. SafeRequest(call')
    BY <2>1, <2>2 DEF Save, SafeRequest, Harmless, CanMake, Named
  <2>4. PollAsks'
    BY <1>1, <2>1 DEF PollAsks, Save
  <2>5. PollKnows'
    BY <1>1, <1>2, <1>3, <2>1 DEF PollKnows, Recorded, Current, CheckPC, ScanPC
  <2> QED
    BY <1>1, <2>1, <2>3, <2>4, <2>5, PollStepKeeps DEF PollPC, ScanPC
<1>7. CASE FileSaved
  <2>1. pc = "saving" /\ Accepted /\ pc' = "next" /\ call' = NoCall
    BY <1>7 DEF FileSaved, ScanAnswer, Answered, Proceed
  <2>2. cur[2] = "file" /\ (mtime = local[At] => remote[At] = local[At])
    BY <1>1, <2>1 DEF PollAsks, PollKnows
  <2>3. PollAsks' /\ PollKnows'
    BY <1>1, <1>2, <2>1, <2>2 DEF PollAsks, PollKnows, Recorded, CheckPC, ScanPC
  <2> QED
    BY <1>1, <2>1, <2>3, PollStepKeeps DEF PollPC, ScanPC
<1> QED
  BY <1>4, <1>5, <1>6, <1>7

\* The entry is recorded with the time it had before it was sent.
LEMMA NextEntryKeepsStored ==
    ASSUME SystemTyped, StoredInv, UsualNames, pc \in PollPC, late' = NoCall,
           NextEntry, ~Die, UNCHANGED <<remote, server, version>>
    PROVE  StoredInv'
<1>1. /\ pc = "next" /\ (cur[2] = "folder" => local[At] = Folder)
      /\ paths' = [paths EXCEPT ![At] = mtime]
      /\ open' = IF cur[2] = "folder" THEN <<Listing(local, At)>> \o open ELSE open
      /\ pc' = "scan" /\ mtime' = Absent
      /\ UNCHANGED <<local, jobs, check, call, reply>>
  BY DEF NextEntry, NextEntryWith
<1>2. /\ At \in Path /\ cur[2] \in {"file", "folder"} /\ At = cur[1]
      /\ open \in Seq(SUBSET (Path \X {"file", "folder"}))
      /\ paths \in [Key -> Node]
      /\ PollKnows /\ call = NoCall /\ reply = NoReply /\ Listed(cur)
      /\ IF cur[2] = "folder" THEN mtime = Folder ELSE mtime \in Content
      /\ \A i \in 1 .. Len(open) : \A e \in open[i] : Listed(e)
  BY <1>1 DEF At, SystemTyped, ClientTyped, StoredInv, PollAsks, PollKnows, ScanPC
<1>3. \A p \in Path : paths'[p] = IF p = At THEN mtime ELSE paths[p]
  BY <1>1, <1>2 DEF Key
<1>4. \A p \in Path : Recorded(p)' <=> (p = At \/ Recorded(p))
  BY <1>2, <1>3, NodeAssumption DEF Recorded
<1>5. mtime = local[At] => remote[At] = local[At]
  BY <1>1, <1>2, RecordedFolder DEF PollKnows
<1>6. AllStored' /\ SafeRequests'
  BY <1>1, <1>2, <1>3, <1>5
  DEF StoredInv, AllStored, SafeRequests, Waiting
<1>7. Names' /\ Versions'
  <2>1. Names'
    BY <1>1, <1>2, <1>3, NodeAssumption DEF StoredInv, Names, HasNames, IsFile, Listed
  <2>2. Versions'
    BY <1>1, <1>2, <1>3, NodeAssumption DEF StoredInv, Versions, IsFile
  <2> QED
    BY <2>1, <2>2
<1>8. ParentRecorded'
  BY <1>1, <1>2, <1>4, ParentAssumption DEF StoredInv, ParentRecorded, Listed
<1>9. \A e \in Path \X {"file", "folder"} : Listed(e) => Listed(e)'
  BY <1>4, ParentAssumption DEF Listed
<1>10. \A i \in 1 .. Len(open) : \A e \in open[i] : Listed(e)'
  <2>1. \A i \in 1 .. Len(open) : \A e \in open[i] : e \in Path \X {"file", "folder"}
    BY <1>2
  <2> QED
    BY <1>2, <1>9, <2>1
<1>11. \A i \in 1 .. Len(open') : \A e \in open'[i] : Listed(e)'
  <2>1. CASE cur[2] = "folder"
    <3>1. ASSUME NEW l \in SUBSET (Path \X {"file", "folder"}), NEW i \in 1 .. Len(<<l>> \o open)
          PROVE  \/ (<<l>> \o open)[i] = l
                 \/ i - 1 \in 1 .. Len(open) /\ (<<l>> \o open)[i] = open[i - 1]
      BY <1>2
    <3>2. ASSUME NEW e \in Listing(local, At) PROVE Listed(e)'
      BY <1>1, <1>2, <1>4, <2>1, <3>2, ListingIsListed DEF Listed
    <3> QED
      BY <1>1, <1>10, <2>1, <3>1, <3>2, ListingTyped
  <2>2. CASE cur[2] # "folder"
    BY <1>1, <1>10, <2>2
  <2> QED
    BY <2>1, <2>2
<1>12. PollAsks' /\ PollKnows'
  BY <1>1, <1>2, <1>4, <1>11, ParentAssumption DEF PollAsks, PollKnows, CheckPC, ScanPC
<1> QED
  BY <1>1, <1>6, <1>7, <1>8, <1>12 DEF StoredInv, WalkPC, PollPC, CheckPC, ScanPC

LEMMA ScanPopKeepsStored ==
    ASSUME SystemTyped, StoredInv, pc \in PollPC, late' = NoCall,
           ScanPop, UNCHANGED <<remote, server, version>>
    PROVE  StoredInv'
<1>1. /\ pc = "scan" /\ pc' \in {"sleep", "scan"} /\ open' = Tail(open)
      /\ UNCHANGED <<local, paths, cur, mtime, jobs, check, call, reply>>
  BY DEF ScanPop
<1>2. /\ open # <<>> /\ open \in Seq(SUBSET (Path \X {"file", "folder"}))
      /\ PollKnows /\ call = NoCall /\ reply = NoReply
      /\ mtime \in Content => mtime <= version
  BY <1>1 DEF SystemTyped, ClientTyped, IteratorPC, ScanPC, StoredInv, PollAsks, Versions
<1>3. \A i \in 1 .. Len(open') : i + 1 \in 1 .. Len(open) /\ open'[i] = open[i + 1]
  BY <1>1, <1>2
<1>4. \A e : Listed(e)' <=> Listed(e)
  BY <1>1 DEF Listed, Recorded
<1>5. PollAsks' /\ PollKnows'
  BY <1>1, <1>2, <1>3, <1>4 DEF PollAsks, PollKnows, Recorded, CheckPC, ScanPC
<1> QED
  BY <1>1, <1>2, <1>5, PollStepKeeps DEF PollPC, ScanPC

LEMMA WatchKeepsStored ==
    ASSUME SystemTyped, StoredInv, UsualNames, Watch, UNCHANGED <<serverVars, version>>
    PROVE  StoredInv'
<1>1. UNCHANGED <<remote, server, version>> /\ late' = late
  BY DEF serverVars
<1>2. CASE Die \/ Retry
  BY <1>2, DieKeepsStored, RetryKeepsStored
<1>3. CASE ~Die /\ ~Retry
  <2>1. pc \in PollPC /\ late' = NoCall
    BY <1>1, <1>3, PollNotGivenUp
  <2>2. (PathDeleted => pc' \in {"parent", "check"}) /\ (ParentUpdated => pc' = "check")
    BY <1>3 DEF PathDeleted, ParentUpdated, Proceed
  <2> QED
    BY <1>1, <1>3, <2>1, <2>2, CheckKeepsStored, ParentFoundKeepsStored, PathForgottenKeepsStored,
       ScanEntryKeepsStored, SendEntryKeepsStored, NextEntryKeepsStored, ScanPopKeepsStored
    DEF Watch
<1> QED
  BY <1>2, <1>3

-----------------------------------------------------------------------------
(* The theorems.                                                           *)

LEMMA InitStored == Init => StoredInv
<1> SUFFICES ASSUME Init PROVE StoredInv
  OBVIOUS
<1>1. /\ pc = "off" /\ paths = NoPaths /\ call = NoCall /\ late = NoCall /\ mtime = Absent
      /\ server = "up" /\ version = 1
      /\ local \in [Path -> {1, Folder, Absent}] /\ HasNames(local) /\ HasNames(remote)
  BY DEF Init, ClientInit
<1>2. \A p \in Path : paths[p] = Absent /\ ~Recorded(p)
  BY <1>1 DEF NoPaths, Recorded, Key
<1>3. AllStored /\ ParentRecorded
  BY <1>1, <1>2 DEF AllStored, ParentRecorded, Recorded
<1>4. SafeRequests /\ Names
  BY <1>1, <1>2, NodeAssumption DEF SafeRequests, Waiting, Names, HasNames, IsFile
<1>5. Versions
  <2>1. \A p \in Path : IsFile(local, p) => local[p] = 1
    BY <1>1, NodeAssumption DEF IsFile
  <2> QED
    BY <1>1, <1>2, <2>1, NodeAssumption DEF Versions, IsFile
<1> QED
  BY <1>1, <1>3, <1>4, <1>5 DEF StoredInv, WalkPC, PollPC, CheckPC, ScanPC

LEMMA NextStored ==
    ASSUME UsualNames, SystemTyped, WalkInv, StoredInv, [Next]_vars, ~StartClient, ~disturbed'
    PROVE  StoredInv'
<1>1. CASE UNCHANGED vars
  BY <1>1 DEF vars, clientVars, dataVars, serverVars, StoredInv, AllStored, SafeRequests, Waiting, SafeRequest, Harmless, Current, Recorded, CanMake, HasPlace, Named,
     Names, HasNames, IsFile, Versions, ParentRecorded, WalkOrder, Ahead, WalkMakes, PollAsks,
     PollKnows, Listed, Accepted, GivenUp, At
<1>2. CASE ClientStep
  <2>1. UNCHANGED <<serverVars, version>>
    BY <1>2 DEF ClientStep
  <2>2. CASE Watch
    BY <2>1, <2>2, WatchKeepsStored
  <2>3. CASE Walk /\ Die
    BY <2>1, <2>3, DieKeepsStored
  <2>4. CASE Walk /\ ~Die
    <3>1. pc \in WalkPC
      BY <2>4 DEF Walk, WalkFolder, FolderProbed, FolderCreated, OpenFolder, WalkEntry,
         FileProbed, FileReplacing, UploadFile, FileReplaced, FileUploaded, RecordFile,
         FolderDone, WalkDone, WalkAnswer, Answered, WalkPC
    <3>2. Walking
      BY <2>4, <3>1, GivenUpDies, NotGivenUp
    <3> QED
      BY <2>1, <2>4, <3>1, <3>2, StepKeepsStored
  <2> QED
    BY <1>2, <2>2, <2>3, <2>4 DEF ClientStep
<1>3. CASE ServerStep \/ Unheard \/ ServerStart \/ Timeout \/ ServerCrash
  <2>1. ~ServeStray
    BY DEF ServeStray
  <2> QED
    BY <1>3, <2>1, ServerKeepsStored DEF Unheard
<1>4. CASE User
  BY <1>4, UserKeepsStored
<1> QED
  BY <1>1, <1>2, <1>3, <1>4 DEF Next

LEMMA StoredAlways == ASSUME UsualNames PROVE Spec => [](~disturbed => StoredInv)
<1>1. Spec => [](~disturbed => WalkInv)
  BY WalkAlways DEF UsualNames
<1>2. SystemTyped /\ BaseInv /\ (~disturbed => WalkInv) /\ (~disturbed => StoredInv)
        /\ [Next]_vars => (~disturbed => StoredInv)'
  BY NextStored, StartKeepsStored, OnlyStartUndisturbs
<1> QED
  BY <1>1, <1>2, InitTyped, NextTyped, InitStored, BaseAlways, PTL DEF Spec

\* Whatever paths_ has with the current write time is on the server as it is: no
\* file that a poll will never look at again is missing or old in the backup,
\* whatever the user edited while it was being sent, and whatever was given up
\* since the last walk began and is executed late.
THEOREM RecordedFilesAreStored ==
    ASSUME UsualNames
    PROVE  Spec => []RecordedIsStored
<1>1. (~disturbed => StoredInv) => RecordedIsStored
  BY DEF StoredInv, AllStored, RecordedIsStored
<1> QED
  BY <1>1, StoredAlways, PTL

\* No request of the client makes the server process end: every folder that it
\* asks for is there, or is absent in a folder that is there.
THEOREM ServerKeepsRunning ==
    ASSUME UsualNames
    PROVE  Spec => ServerSurvives
<1> DEFINE Survives == (~disturbed' /\ server # "terminated") => server' # "terminated"
<1>1. SystemTyped /\ (~disturbed => StoredInv) /\ [Next]_vars => [Survives]_vars
  <2> SUFFICES ASSUME SystemTyped, ~disturbed => StoredInv, Next, ~disturbed',
                      server # "terminated"
               PROVE  server' # "terminated"
    OBVIOUS
  <2>1. CASE StartClient
    BY <2>1 DEF StartClient
  <2>2. CASE ~StartClient
    <3>1. StoredInv
      BY <2>2, OnlyStartUndisturbs
    <3>2. ASSUME NEW req \in Request, SafeRequest(req)
          PROVE  HandleRequest(remote, req).status # "terminated"
      BY <3>1, <3>2, SafeResult DEF StoredInv
    <3>3. CASE Serve
      <4>1. call \in Request /\ SafeRequest(call) /\ Execute(call)
        BY <3>1, <3>3 DEF Serve, Waiting, SystemTyped, ClientTyped, StoredInv, SafeRequests
      <4> QED
        BY <3>2, <4>1 DEF Execute
    <3>4. CASE ServeLate
      <4>1. late \in Request /\ SafeRequest(late) /\ ExecuteUnheard(late)
        BY <3>1, <3>4 DEF ServeLate, SystemTyped, StoredInv, SafeRequests
      <4> QED
        BY <3>2, <4>1 DEF ExecuteUnheard
    <3> QED
      BY <2>2, <3>3, <3>4 DEF Next, ClientStep, ServerStep, NoServer, Unheard, ServeStray,
         DropLate, DropStray, ServerStart, Timeout, ServerCrash, User, WriteFile, MakeFolder,
         Remove, Edit, serverVars
  <2> QED
    BY <2>1, <2>2
<1> QED
  BY <1>1, StoredAlways, InitTyped, NextTyped, PTL DEF Spec, ServerSurvives

\* The first loop of a poll makes no path known, although it writes paths_[parent]:
\* the parent of a path that is gone is known with the same value, or is gone too,
\* or is the watched folder, whose key there is another one. (PollOnlyForgets says
\* it also of a poll that a stray request has disturbed.)
THEOREM PollsOnlyForget ==
    ASSUME UsualNames
    PROVE  Spec => [][(pc \in CheckPC /\ ~disturbed) => Known' \subseteq Known]_vars
<1>1. SystemTyped /\ (~disturbed => StoredInv) /\ [Next]_vars
        => [(pc \in CheckPC /\ ~disturbed) => Known' \subseteq Known]_vars
  <2> SUFFICES ASSUME SystemTyped, StoredInv, Next, pc \in CheckPC PROVE Known' \subseteq Known
    OBVIOUS
  <2>1. CASE (PathDeleted \/ ParentUpdated) /\ pc' = "check"
    BY <2>1, PathIsForgotten DEF Known
  <2>2. CASE Die
    <3>1. \A p \in Path : paths'[p] = Absent
      BY <2>2 DEF Die, NoPaths, Key
    <3> QED
      BY <3>1 DEF Known
  <2>3. CASE ~Die /\ ~((PathDeleted \/ ParentUpdated) /\ pc' = "check")
    <3>1. UNCHANGED paths
      BY <2>3 DEF CheckPC, Next, ClientStep, Walk, WalkFolder, FolderProbed, FolderCreated,
         OpenFolder, WalkEntry, FileProbed, FileReplacing, UploadFile, FileReplaced, FileUploaded,
         RecordFile, FolderDone, WalkDone, WalkAnswer, Answered, Watch, Poll, CheckPath,
         PathDeleted, ParentUpdated, Proceed, Retry, CheckDone, ScanEntry, FolderMade, FileRemoved,
         FileSaved, EncodeFile, NextEntry, NextEntryWith, ScanPop, ScanAnswer, StartClient,
         Initialization, ServerStep, Serve, NoServer, Unheard, ServeLate, ServeStray, DropLate,
         DropStray, ServerStart, Timeout, ServerCrash, User, WriteFile, MakeFolder, Remove, Edit,
         clientVars, dataVars
    <3> QED
      BY <3>1 DEF Known
  <2> QED
    BY <2>1, <2>2, <2>3
<1> QED
  BY <1>1, StoredAlways, InitTyped, NextTyped, PTL DEF Spec

-----------------------------------------------------------------------------
(***************************************************************************)
(* The inductive invariant for the order of the contents, whatever the     *)
(* user does: what a request saves is not older than what the server has.  *)
(* That it is not newer than what the user has is in BaseInv.              *)
(***************************************************************************)
InTurn(req) ==
    req.op = "save" => (IsFile(remote, req.path) => remote[req.path] <= req.content)

ForwardInv ==
    /\ Waiting => InTurn(call)
    /\ late # NoCall => InTurn(late)

LEMMA ClientKeepsForward ==
    ASSUME SystemTyped, BaseInv, ForwardInv, ClientStep
    PROVE  ForwardInv'
<1>1. ClientGoesOn /\ UNCHANGED <<local, remote, late>>
  BY ClientLeavesFolder, WalkGoesOn, WatchGoesOn DEF ClientStep, serverVars
<1>2. \A req : InTurn(req)' <=> InTurn(req)
  BY <1>1 DEF InTurn, IsFile
<1>3. IsFile(local, At) => InTurn(Save(At))
  <2>1. At \in Path
    BY DEF SystemTyped, ClientTyped, At
  <2>2. Save(At).path = At /\ Save(At).content = local[At]
    BY DEF Save
  <2> QED
    BY <2>1, <2>2 DEF BaseInv, InOrder, Past, InTurn
<1>4. call' # NoCall => InTurn(call')
  BY <1>1, <1>3 DEF ClientGoesOn, InTurn
<1> QED
  BY <1>1, <1>2, <1>4 DEF ForwardInv, Waiting, InTurn

LEMMA ServerKeepsForward ==
    ASSUME SystemTyped, BaseInv, ForwardInv,
           ServerStep \/ Unheard \/ ServerStart \/ Timeout \/ ServerCrash, ~disturbed'
    PROVE  ForwardInv'
<1>1. UNCHANGED call
  BY DEF ServerStep, Serve, NoServer, Unheard, ServeLate, ServeStray, DropLate, DropStray,
     ServerStart, Timeout, ServerCrash, clientVars, dataVars
<1>2. CASE Serve
  <2>1. late = NoCall /\ late' = NoCall
    BY <1>2, WaitingForOne DEF Serve
  <2>2. reply' # NoReply
    <3>1. Execute(call) /\ call \in Request
      BY <1>2 DEF Serve, Waiting, SystemTyped, ClientTyped
    <3>2. HandleRequest(remote, call).status \in Status
      BY <3>1, ResultTyped
    <3> QED
      BY <3>1, <3>2 DEF Execute, NoResponse, NoReply, Status
  <2> QED
    BY <2>1, <2>2 DEF ForwardInv, Waiting
<1>3. CASE ServeLate
  <2>1. ~Waiting
    BY <1>3, WaitingForOne DEF ServeLate
  <2> QED
    BY <1>3, <2>1 DEF ServeLate, clientVars, ForwardInv, Waiting
<1>4. CASE NoServer \/ Timeout
  <2>1. Waiting /\ reply' = NoResponse /\ remote' = remote /\ (late' = late \/ late' = call)
    BY <1>4 DEF NoServer, Timeout, serverVars
  <2>2. reply' # NoReply /\ \A req : InTurn(req)' <=> InTurn(req)
    BY <2>1 DEF NoResponse, NoReply, InTurn, IsFile
  <2> QED
    BY <1>1, <2>1, <2>2 DEF ForwardInv, Waiting, InTurn, IsFile
<1>5. CASE DropLate \/ DropStray \/ ServerStart \/ ServerCrash
  <2>1. UNCHANGED <<reply, remote>> /\ (late' = late \/ late' = NoCall)
    BY <1>5 DEF DropLate, DropStray, ServerStart, ServerCrash, clientVars
  <2> QED
    BY <1>1, <2>1 DEF ForwardInv, Waiting, InTurn, IsFile
<1> QED
  BY <1>2, <1>3, <1>4, <1>5 DEF ServerStep, Unheard, ServeStray

LEMMA NextForward ==
    SystemTyped /\ BaseInv /\ (~disturbed => ForwardInv) /\ [Next]_vars => (~disturbed => ForwardInv)'
<1> SUFFICES ASSUME SystemTyped, BaseInv, ~disturbed => ForwardInv, [Next]_vars, ~disturbed'
             PROVE  ForwardInv'
  OBVIOUS
<1>1. CASE StartClient
  BY <1>1 DEF StartClient, Initialization, BaseInv, OneRequest, RequestPC, ForwardInv, Waiting
<1>2. CASE ~StartClient
  <2>1. ForwardInv
    BY <1>2, OnlyStartUndisturbs
  <2>2. CASE UNCHANGED vars \/ User
    <3>1. UNCHANGED <<call, reply, remote, late>>
      BY <2>2 DEF vars, clientVars, dataVars, serverVars, User, WriteFile, MakeFolder, Remove, Edit
    <3> QED
      BY <2>1, <3>1 DEF ForwardInv, Waiting, InTurn, IsFile
  <2> QED
    BY <1>2, <2>1, <2>2, ClientKeepsForward, ServerKeepsForward DEF Next
<1> QED
  BY <1>1, <1>2

LEMMA InitForward == Init => ForwardInv
BY DEF Init, ClientInit, ForwardInv, Waiting

LEMMA ForwardAlways == Spec => [](~disturbed => ForwardInv)
BY InitTyped, NextTyped, BaseAlways, InitForward, NextForward, PTL DEF Spec

-----------------------------------------------------------------------------
(***************************************************************************)
(* The system is a mirror.  Beyond the invariants above this needs that    *)
(* what a poll is about to forget, or to record anew, does not count as    *)
(* sent, unless it is recorded with the time it has.                       *)
(***************************************************************************)
MirrorInv ==
    /\ pc \in {"deleting", "parent"} => ~Current(At)
    /\ pc \in ScanPC \ {"scan"} /\ Current(At) => mtime = local[At]

MirrorStep == [Copies!Next]_(Copies!vars)

LEMMA NothingMirrored ==
    ASSUME ~disturbed, ~disturbed', UNCHANGED <<local, remote, Sent>>
    PROVE  MirrorStep
BY DEF MirrorStep, Copies!vars

LEMMA SentIsCurrent ==
    /\ \A p : p \in Sent <=> p \in Path /\ Current(p)
    /\ \A p : p \in Sent' <=> p \in Path /\ Current(p)'
BY DEF Sent, Known, Current, Recorded

\* No edit makes a path current: contents are new, and folders not recorded.
LEMMA EditsAreNew ==
    ASSUME SystemTyped, StoredInv, UsualNames, User
    PROVE  \A p \in Path : Current(p)' <=> (Current(p) /\ local'[p] = local[p])
<1>1. UNCHANGED paths /\ version \in Nat
  <2>1. version \in Nat
    BY BackupAssumption DEF SystemTyped
  <2> QED
    BY <2>1 DEF User, WriteFile, MakeFolder, Remove, Edit
<1>2. PICK p \in Path \ {Root}, node \in Node :
        /\ \/ node = Absent
           \/ node = version + 1 /\ version + 1 \in Content /\ p \in FileName
           \/ node = Folder /\ p \in FolderName /\ \A q \in Within[p] : paths[q] = Absent
        /\ \A q \in Path :
             local'[q] = IF q = p THEN node ELSE IF q \in Within[p] THEN Absent ELSE local[q]
  BY EditResult
<1>3. version + 1 \in Content => paths[p] # version + 1
  <2>1. IsFile(paths, p) => paths[p] <= version /\ paths[p] \in Nat
    BY BackupAssumption DEF StoredInv, Versions, IsFile
  <2> QED
    BY <1>1, <2>1 DEF IsFile
<1>4. p \in Within[p]
  BY ParentAssumption
<1>5. ASSUME NEW q \in Path, Current(q)' PROVE local'[q] = local[q]
  <2>1. paths[q] # Absent /\ paths[q] = local'[q]
    BY <1>1, <1>5 DEF Current, Recorded
  <2>2. q # p
    BY <1>2, <1>3, <1>4, <2>1
  <2> QED
    BY <1>2, <2>1, <2>2
<1> QED
  BY <1>1, <1>5 DEF Current, Recorded

LEMMA EditMirrors ==
    ASSUME SystemTyped, SystemTyped', StoredInv, UsualNames, User, ~disturbed
    PROVE  MirrorStep
<1>1. local' \in [Path -> Node] /\ remote' = remote /\ ~disturbed'
  BY DEF SystemTyped, ClientTyped, IsTree, User, WriteFile, MakeFolder, Remove, Edit, serverVars
<1>2. Sent' = {p \in Sent : local'[p] = local[p]}
  BY SentIsCurrent, EditsAreNew
<1> QED
  BY <1>1, <1>2 DEF MirrorStep, Copies!Next, Copies!Edit, Copies!Node, Node

\* A request that is executed leaves alone what counts as sent.
LEMMA RequestMirrors ==
    ASSUME SystemTyped, StoredInv, NEW req \in Request, SafeRequest(req), InTurn(req),
           PastRequest(req), remote' = HandleRequest(remote, req).tree,
           UNCHANGED <<local, paths>>, ~disturbed, ~disturbed'
    PROVE  MirrorStep
<1>1. /\ Effect(remote, remote', req) /\ remote \in [Path -> Node] /\ req.path \in Path
      /\ UNCHANGED <<local, Sent>>
  BY RequestEffect DEF SystemTyped, IsTree, Request, Sent, Known
<1>2. \A p \in Sent : remote'[p] = local[p] /\ remote[p] = local[p] /\ local[p] # Absent
  <2>1. \A p \in Path : Current(p) => remote'[p] = local[p]
    BY SafeResult DEF StoredInv
  <2>2. \A p \in Path : Current(p) => remote[p] = local[p] /\ local[p] # Absent
    BY DEF StoredInv, AllStored, Current, Recorded
  <2> QED
    BY <2>1, <2>2, SentIsCurrent
<1>3. CASE remote' = remote
  BY <1>1, <1>3, NothingMirrored
<1>4. CASE req.op = "save" /\ remote' = [remote EXCEPT ![req.path] = req.content]
  <2>1. req.content \in Content /\ req.path \in Path \ Sent
    BY <1>1, <1>4, SentIsCurrent DEF Request, SafeRequest, Harmless
  <2>2. /\ remote[req.path] \in Content => remote[req.path] <= req.content
        /\ local[req.path] \in Content => req.content <= local[req.path]
    BY <1>4 DEF InTurn, PastRequest, Past, IsFile
  <2>3. Copies!Put(req.path)
    BY <1>1, <1>4, <2>1, <2>2 DEF Copies!Put, Copies!NotOlder
  <2> QED
    BY <2>1, <2>3 DEF MirrorStep, Copies!Next
<1>5. CASE remote[req.path] = Absent /\ remote' = [remote EXCEPT ![req.path] = Folder]
  <2>1. req.path \in Path \ Sent /\ Copies!Make(req.path)
    BY <1>1, <1>2, <1>5 DEF Copies!Make
  <2> QED
    BY <2>1 DEF MirrorStep, Copies!Next
<1>6. CASE remote' \in [Path -> Node] /\ \A p \in Path : remote'[p] \in {remote[p], Absent}
  <2> DEFINE S == {p \in Path : remote'[p] # remote[p]}
  <2>1. S \in SUBSET (Path \ Sent)
    BY <1>2
  <2>2. remote' = [p \in Path |-> IF p \in S THEN Absent ELSE remote[p]]
    BY <1>6
  <2>3. Copies!Drop(S)
    BY <1>1, <2>2 DEF Copies!Drop
  <2> QED
    BY <2>1, <2>3 DEF MirrorStep, Copies!Next
<1> QED
  BY <1>1, <1>3, <1>4, <1>5, <1>6 DEF Effect

\* A path that is recorded counts, if it has still the time it is recorded with.
LEMMA RecordMirrors ==
    ASSUME SystemTyped, NEW p \in Path, NEW time \in Node, time # Absent,
           paths' = [paths EXCEPT ![p] = time], UNCHANGED <<local, remote>>,
           time = local[p] => remote[p] = local[p],
           Current(p) => time = local[p], ~disturbed, ~disturbed'
    PROVE  MirrorStep
<1>1. \A q \in Path : paths'[q] = IF q = p THEN time ELSE paths[q]
  BY DEF SystemTyped, ClientTyped, Key
<1>2. CASE time = local[p]
  <2>1. Sent' = Sent \cup {p}
    BY <1>1, <1>2, SentIsCurrent DEF Current, Recorded
  <2>2. CASE p \in Sent
    BY <2>1, <2>2, NothingMirrored
  <2>3. CASE p \notin Sent
    BY <1>2, <2>1, <2>3 DEF MirrorStep, Copies!Next, Copies!Count
  <2> QED
    BY <2>2, <2>3
<1>3. CASE time # local[p]
  <2>1. Sent' = Sent
    BY <1>1, <1>3, SentIsCurrent DEF Current, Recorded
  <2> QED
    BY <2>1, NothingMirrored
<1> QED
  BY <1>2, <1>3

\* The steps of the client that write paths_ are those that open a folder, record a
\* file or an entry, forget what is gone, and give up.
LEMMA PathsKept ==
    ASSUME Walk \/ Watch, ~Die, ~OpenFolder, ~RecordFile,
           ~((PathDeleted \/ ParentUpdated) /\ pc' = "check"), ~NextEntry
    PROVE  UNCHANGED paths
BY DEF Walk, WalkFolder, FolderProbed, FolderCreated, WalkEntry, FileProbed, FileReplacing,
   UploadFile, FileReplaced, FileUploaded, FolderDone, WalkDone, WalkAnswer, Watch, Poll,
   CheckPath, PathDeleted, ParentUpdated, Proceed, CheckDone, ScanEntry, FolderMade, FileRemoved,
   FileSaved, EncodeFile, ScanPop, ScanAnswer, Retry, dataVars

LEMMA ClientMirrors ==
    ASSUME SystemTyped, WalkInv, StoredInv, MirrorInv, UsualNames, ClientStep, ~disturbed
    PROVE  MirrorStep
<1>1. /\ UNCHANGED <<local, remote, late, server, version>> /\ ~disturbed'
      /\ At \in Path /\ IsTree(local) /\ paths \in [Key -> Node]
  <2>1. UNCHANGED local
    BY ClientLeavesFolder
  <2> QED
    BY <2>1 DEF ClientStep, serverVars, SystemTyped, ClientTyped, At
<1>2. CASE UNCHANGED paths
  BY <1>1, <1>2, NothingMirrored DEF Sent, Known
<1>3. CASE Die
  <2>1. \A p \in Path : paths'[p] = Absent
    BY <1>3 DEF Die, NoPaths, Key
  <2>2. Sent' = {}
    BY <2>1, SentIsCurrent DEF Current, Recorded
  <2> QED
    BY <1>1, <2>2 DEF MirrorStep, Copies!Next, Copies!Forget
<1>4. CASE OpenFolder /\ ~Die
  <2>1. pc = "open" /\ local[At] = Folder /\ paths' = [paths EXCEPT ![At] = Folder]
    BY <1>4 DEF OpenFolder
  <2>2. ~GivenUp
    BY <2>1, StatusOfNoReply DEF WalkInv, WalkPC, Asked
  <2>3. remote[At] = Folder
    BY <2>1, <2>2 DEF WalkInv, WalkPC, Learnt, FolderReady
  <2> QED
    BY <1>1, <2>1, <2>3, RecordMirrors, NodeAssumption DEF Node
<1>5. CASE RecordFile /\ ~Die
  <2>1. pc = "record" /\ local[At] # Absent /\ paths' = [paths EXCEPT ![At] = local[At]]
    BY <1>5 DEF RecordFile
  <2>2. ~GivenUp
    BY <2>1, StatusOfNoReply DEF WalkInv, WalkPC, Asked
  <2>3. remote[At] = local[At] /\ local[At] \in Node
    BY <1>1, <2>1, <2>2 DEF WalkInv, WalkPC, Learnt, IsTree
  <2> QED
    BY <1>1, <2>1, <2>3, RecordMirrors
<1>6. CASE NextEntry /\ ~Die
  <2>1. pc = "next" /\ paths' = [paths EXCEPT ![At] = mtime] /\ pc \in PollPC
        /\ (cur[2] = "folder" => local[At] = Folder)
    BY <1>6 DEF NextEntry, NextEntryWith, PollPC, ScanPC
  <2>2. mtime \in Node /\ mtime # Absent /\ (Current(At) => mtime = local[At])
    BY <2>1, NodeAssumption DEF StoredInv, PollKnows, ScanPC, MirrorInv, SystemTyped, ClientTyped
  <2>3. mtime = local[At] => remote[At] = local[At]
    <3>1. cur[2] \in {"file", "folder"}
      BY DEF SystemTyped, ClientTyped
    <3>2. PollKnows
      BY <2>1 DEF StoredInv
    <3>3. Recorded(At) /\ local[At] = Folder => remote[At] = local[At]
      BY <1>1, RecordedFolder DEF Recorded
    <3> QED
      BY <2>1, <3>1, <3>2, <3>3 DEF PollKnows
  <2> QED
    BY <1>1, <2>1, <2>2, <2>3, RecordMirrors
<1>7. CASE (PathDeleted \/ ParentUpdated) /\ pc' = "check"
  <2>1. /\ pc \in {"deleting", "parent"}
        /\ \A p \in Path : paths'[p] = IF p = At THEN Absent ELSE paths[p]
    BY <1>7, PathIsForgotten
  <2>2. Sent' = Sent
    BY <1>1, <2>1, SentIsCurrent DEF MirrorInv, Current, Recorded
  <2> QED
    BY <1>1, <2>2, NothingMirrored
<1>8. Retry => UNCHANGED paths
  BY DEF Retry
<1> QED
  BY <1>2, <1>3, <1>4, <1>5, <1>6, <1>7, <1>8, PathsKept DEF ClientStep

LEMMA ServerMirrors ==
    ASSUME SystemTyped, BaseInv, StoredInv, ForwardInv, ~disturbed, ~disturbed',
           StartClient \/ ServerStep \/ Unheard \/ ServerStart \/ Timeout \/ ServerCrash
    PROVE  MirrorStep
<1>1. CASE Serve
  <2>1. /\ call \in Request /\ SafeRequest(call) /\ InTurn(call) /\ PastRequest(call)
        /\ remote' = HandleRequest(remote, call).tree /\ UNCHANGED <<local, paths>>
    BY <1>1 DEF Serve, Execute, dataVars, Waiting, SystemTyped, ClientTyped, StoredInv,
       SafeRequests, ForwardInv, BaseInv, UnderWay
  <2> QED
    BY <2>1, RequestMirrors
<1>2. CASE ServeLate
  <2>1. /\ late \in Request /\ SafeRequest(late) /\ InTurn(late) /\ PastRequest(late)
        /\ remote' = HandleRequest(remote, late).tree /\ UNCHANGED <<local, paths>>
    BY <1>2 DEF ServeLate, ExecuteUnheard, clientVars, dataVars, SystemTyped, StoredInv,
       SafeRequests, ForwardInv, BaseInv, UnderWay
  <2> QED
    BY <2>1, RequestMirrors
<1>3. CASE StartClient
  <2>1. UNCHANGED <<local, remote>> /\ \A p \in Path : paths'[p] = Absent
    BY <1>3 DEF StartClient, Initialization, serverVars, NoPaths, Key
  <2>2. Sent' = {}
    BY <2>1, SentIsCurrent DEF Current, Recorded
  <2> QED
    BY <2>1, <2>2 DEF MirrorStep, Copies!Next, Copies!Forget
<1>4. CASE NoServer \/ DropLate \/ DropStray \/ ServerStart \/ Timeout \/ ServerCrash
  <2>1. UNCHANGED <<local, paths, remote>>
    BY <1>4 DEF NoServer, DropLate, DropStray, ServerStart, Timeout, ServerCrash, clientVars,
       dataVars, serverVars
  <2> QED
    BY <2>1, NothingMirrored DEF Sent, Known
<1> QED
  BY <1>1, <1>2, <1>3, <1>4 DEF ServerStep, Unheard, ServeStray

\* What a stray request does, and all that comes after it, is of no account until
\* the client starts anew.
LEMMA DisturbedMirrors ==
    ASSUME SystemTyped, SystemTyped', Next, disturbed \/ disturbed'
    PROVE  MirrorStep
<1>1. local' \in [Path -> Node] /\ remote' \in [Path -> Node] /\ Copies!Node = Node
  BY DEF SystemTyped, ClientTyped, IsTree, Copies!Node, Node
<1>2. CASE StartClient
  <2>1. UNCHANGED <<local, remote>> /\ ~disturbed' /\ \A p \in Path : paths'[p] = Absent
    BY <1>2 DEF StartClient, Initialization, NoPaths, Key
  <2>2. Sent' = {}
    BY <2>1, SentIsCurrent DEF Current, Recorded
  <2> QED
    BY <2>1, <2>2 DEF MirrorStep, Copies!Next, Copies!Forget
<1>3. CASE User
  <2>1. disturbed /\ disturbed' /\ remote' = remote
    BY <1>3 DEF User, WriteFile, MakeFolder, Remove, Edit, serverVars, SystemTyped
  <2> QED
    BY <1>1, <2>1 DEF MirrorStep, Copies!Next, Copies!Edit
<1>4. CASE ~StartClient /\ ~User
  <2>1. disturbed' /\ local' = local
    BY <1>4, OnlyStartUndisturbs, ClientLeavesFolder
    DEF Next, ServerStep, Serve, NoServer, Unheard, ServeLate, ServeStray, DropLate, DropStray,
        ServerStart, Timeout, ServerCrash, clientVars, dataVars
  <2> QED
    BY <1>1, <2>1 DEF MirrorStep, Copies!Next, Copies!Interfere
<1> QED
  BY <1>2, <1>3, <1>4

LEMMA ClientKeepsMirror ==
    ASSUME SystemTyped, StoredInv, MirrorInv, Walk \/ Watch, UNCHANGED local
    PROVE  MirrorInv'
<1>1. local[Root] = Folder
  BY DEF SystemTyped, ClientTyped, IsTree
<1>2. CASE pc' \notin {"deleting", "parent"} \cup (ScanPC \ {"scan"})
  BY <1>2 DEF MirrorInv
<1>3. CASE CheckPath
  <2>1. CASE pc' = "deleting"
    <3>1. PICK k \in check : cur' = <<k, "file">> /\ NodeOf(k) = Absent /\ UNCHANGED paths
      BY <1>3, <2>1 DEF CheckPath
    <3>2. At' = k /\ local[k] = Absent
      BY <1>1, <3>1, NodeAssumption DEF NodeOf, At
    <3>3. paths'[At'] = local'[At'] => paths'[At'] = Absent
      BY <3>2
    <3> QED
      BY <2>1, <3>3 DEF MirrorInv, Current, Recorded, ScanPC
  <2>2. CASE pc' # "deleting"
    BY <1>2, <1>3, <2>2 DEF CheckPath, Send, ScanPC
  <2> QED
    BY <2>1, <2>2
<1>4. CASE ScanEntry /\ ~Die
  <2>1. pc' \notin {"deleting", "parent"} /\ UNCHANGED paths /\ mtime' = local[At']
    BY <1>4 DEF ScanEntry, Send, Proceed, At
  <2> QED
    BY <2>1 DEF MirrorInv, Current, Recorded
<1>5. CASE (FolderMade \/ FileRemoved \/ FileSaved \/ EncodeFile) /\ ~Die /\ ~Retry
  <2>1. /\ pc \in ScanPC \ {"scan"} /\ pc' \notin {"deleting", "parent"}
        /\ UNCHANGED <<cur, mtime, paths>>
    BY <1>5 DEF FolderMade, FileRemoved, FileSaved, EncodeFile, ScanAnswer, Answered, Send, Proceed,
       dataVars, ScanPC
  <2> QED
    BY <2>1 DEF MirrorInv, Current, Recorded, At
<1>6. CASE Die \/ Retry
  BY <1>2, <1>6 DEF Die, Retry, Proceed, ScanPC
<1>7. CASE Walk /\ ~Die
  BY <1>2, <1>7 DEF Walk, WalkFolder, FolderProbed, FolderCreated, OpenFolder, WalkEntry,
     FileProbed, FileReplacing, UploadFile, FileReplaced, FileUploaded, RecordFile, FolderDone,
     WalkDone, WalkAnswer, Send, Proceed, ScanPC
<1>8. CASE (Poll \/ CheckDone \/ NextEntry \/ ScanPop \/ ParentUpdated) /\ ~Die
  BY <1>2, <1>8 DEF Poll, CheckDone, NextEntry, NextEntryWith, ScanPop, ParentUpdated, Proceed,
     ScanPC
<1>9. CASE PathDeleted /\ ~Retry
  <2>1. CASE pc' = "parent"
    <3>1. pc = "deleting" /\ UNCHANGED <<cur, mtime, paths>>
      BY <1>9, <2>1 DEF PathDeleted, Answered, Proceed, dataVars
    <3> QED
      BY <2>1, <3>1 DEF MirrorInv, Current, Recorded, At, ScanPC
  <2>2. CASE pc' = "check"
    BY <1>2, <2>2 DEF ScanPC
  <2> QED
    BY <1>9, <2>1, <2>2 DEF PathDeleted, Proceed
<1> QED
  BY <1>3, <1>4, <1>5, <1>6, <1>7, <1>8, <1>9 DEF Watch

LEMMA NextMirror ==
    ASSUME UsualNames, SystemTyped, StoredInv, MirrorInv, [Next]_vars, ~StartClient
    PROVE  MirrorInv'
<1>1. CASE ClientStep
  BY <1>1, ClientLeavesFolder, ClientKeepsMirror DEF ClientStep
<1>2. CASE User
  <2>1. UNCHANGED <<pc, cur, mtime>> /\ At \in Path /\ At' = At
    BY <1>2 DEF User, WriteFile, MakeFolder, Remove, Edit, At, SystemTyped, ClientTyped
  <2>2. Current(At)' => Current(At) /\ local'[At] = local[At]
    BY <1>2, <2>1, EditsAreNew DEF Current, Recorded
  <2> QED
    BY <2>1, <2>2 DEF MirrorInv
<1>3. CASE ServerStep \/ Unheard \/ ServerStart \/ Timeout \/ ServerCrash \/ UNCHANGED vars
  <2>1. UNCHANGED <<pc, cur, mtime, paths, local>>
    BY <1>3 DEF ServerStep, Serve, NoServer, Unheard, ServeLate, ServeStray, DropLate, DropStray,
       ServerStart, Timeout, ServerCrash, vars, clientVars, dataVars
  <2> QED
    BY <2>1 DEF MirrorInv, Current, Recorded, At
<1> QED
  BY <1>1, <1>2, <1>3 DEF Next

LEMMA InitMirror == Init => MirrorInv /\ Copies!Init
<1> SUFFICES ASSUME Init PROVE MirrorInv /\ Copies!Init
  OBVIOUS
<1>1. /\ pc = "off" /\ paths = NoPaths /\ IsTree(local) /\ IsTree(remote) /\ ~disturbed
  BY DEF Init, ClientInit
<1>2. Sent = {}
  BY <1>1 DEF Sent, Known, NoPaths, Key
<1> QED
  BY <1>1, <1>2 DEF MirrorInv, ScanPC, Copies!Init, Copies!Node, IsTree, Node

\* To the user the client is a mirror: what it counts as sent is on the server as
\* it is, is left alone by every request, and stays so until the user edits it;
\* and what a request brings is never older than what was there. A stray request
\* ends this; the start of the client begins it again.
THEOREM SystemIsMirror ==
    ASSUME UsualNames
    PROVE  Spec => IsMirror
<1> DEFINE Inv == /\ ~disturbed => WalkInv
                  /\ ~disturbed => StoredInv
                  /\ ~disturbed => ForwardInv
<1>1. SystemTyped /\ SystemTyped' /\ BaseInv /\ Inv /\ (~disturbed => MirrorInv) /\ [Next]_vars
        => (~disturbed => MirrorInv)' /\ [Copies!Next]_(Copies!vars)
  <2> SUFFICES ASSUME SystemTyped, SystemTyped', BaseInv, Inv, ~disturbed => MirrorInv, [Next]_vars
               PROVE  (~disturbed' => MirrorInv') /\ MirrorStep
    BY DEF MirrorStep
  <2>1. ASSUME ~disturbed' PROVE MirrorInv'
    <3>1. CASE StartClient
      BY <3>1 DEF StartClient, Initialization, MirrorInv, ScanPC
    <3>2. CASE ~StartClient
      BY <2>1, <3>2, OnlyStartUndisturbs, NextMirror
    <3> QED
      BY <3>1, <3>2
  <2>2. ASSUME UNCHANGED vars PROVE MirrorStep
    <3>1. UNCHANGED <<local, remote, Sent, disturbed>>
      BY <2>2 DEF vars, clientVars, dataVars, serverVars, Sent, Known
    <3> QED
      BY <3>1 DEF MirrorStep, Copies!vars
  <2>3. ASSUME Next, disturbed \/ disturbed' PROVE MirrorStep
    BY <2>3, DisturbedMirrors
  <2>4. ASSUME Next, ~disturbed, ~disturbed' PROVE MirrorStep
    BY <2>4, EditMirrors, ClientMirrors, ServerMirrors DEF Next
  <2> QED
    BY <2>1, <2>2, <2>3, <2>4
<1>2. Spec => [](~disturbed => WalkInv)
  BY WalkAlways DEF UsualNames
<1> QED
  BY <1>1, <1>2, InitTyped, NextTyped, InitMirror, BaseAlways, StoredAlways, ForwardAlways, PTL
  DEF Spec, IsMirror, Copies!Spec

-----------------------------------------------------------------------------
(***************************************************************************)
(* The inductive invariant for StoredIsKnown, for users who do not edit    *)
(* during a walk but do whatever they like otherwise: a poll only puts     *)
(* what it is at on the server, and forgets only what it has deleted.      *)
(* Like the others it holds until a stray request is executed.             *)
(***************************************************************************)
AtEntryPC == ScanPC \ {"scan"}

KnownAsks ==
    /\ pc \in {"deleting", "removing"} => call = OnPath("delete", At)
    /\ pc = "making" => call = OnPath("mkdir", At)
    /\ pc = "saving" => call.op = "save" /\ call.path = At
    /\ late # NoCall => pc \in {"off", "retry"} \/ late = call

AllKnown ==
    pc \in PollPC =>
        \A p \in Path : remote[p] # Absent =>
            paths[p] # Absent \/ (pc \in AtEntryPC /\ p = At)

KnownInv ==
    /\ AllKnown /\ KnownAsks
    /\ pc = "deleting" /\ Accepted => remote[At] = Absent
    /\ pc = "parent" => remote[At] = Absent
    /\ pc \in AtEntryPC => mtime # Absent

\* Outside of the polls there is nothing to know.
LEMMA KnownElsewhere ==
    ASSUME pc' \notin PollPC, late' # NoCall => pc' \in {"off", "retry"} \/ late' = call'
    PROVE  KnownInv'
BY DEF KnownInv, KnownAsks, AllKnown, AtEntryPC, PollPC, CheckPC, ScanPC

\* What a poll asks for is there afterwards only where the poll is.
LEMMA PollRequestIsKnown ==
    ASSUME SystemTyped, KnownInv, pc \in PollPC, pc \in RequestPC, call \in Request,
           remote' = HandleRequest(remote, call).tree, UNCHANGED <<paths, pc, cur>>
    PROVE  AllKnown'
<1>1. /\ Effect(remote, remote', call) /\ remote \in [Path -> Node] /\ At' = At
      /\ pc \in {"deleting", "removing", "making", "saving"}
  BY RequestEffect DEF SystemTyped, IsTree, At, PollPC, CheckPC, ScanPC, RequestPC
<1>2. call.op \in {"save", "mkdir"} => pc \in AtEntryPC /\ call.path = At
  BY <1>1 DEF KnownInv, KnownAsks, OnPath, AtEntryPC, ScanPC
<1>3. ASSUME NEW p \in Path, remote'[p] # Absent
      PROVE  remote[p] # Absent \/ (pc \in AtEntryPC /\ p = At)
  <2>1. CASE remote' = remote
    BY <1>3, <2>1
  <2>2. CASE call.op = "save" /\ remote' = [remote EXCEPT ![call.path] = call.content]
    BY <1>1, <1>2, <1>3, <2>2
  <2>3. CASE call.op = "mkdir" /\ remote' = [remote EXCEPT ![call.path] = Folder]
    BY <1>1, <1>2, <1>3, <2>3
  <2>4. CASE \A q \in Path : remote'[q] \in {remote[q], Absent}
    BY <1>3, <2>4
  <2> QED
    BY <1>1, <2>1, <2>2, <2>3, <2>4 DEF Effect
<1>4. \A p \in Path : remote[p] # Absent => paths[p] # Absent \/ (pc \in AtEntryPC /\ p = At)
  BY DEF KnownInv, AllKnown
<1>5. \A p \in Path : remote'[p] # Absent => paths'[p] # Absent \/ (pc' \in AtEntryPC /\ p = At')
  BY <1>1, <1>3, <1>4
<1> QED
  BY <1>5 DEF AllKnown, AtEntryPC

\* An accepted deletion leaves nothing.
LEMMA AcceptedDeletion ==
    ASSUME NEW t, NEW p \in Path,
           HandleRequest(t, OnPath("delete", p)).status \in {"ok", "not_found"}
    PROVE  HandleRequest(t, OnPath("delete", p)).tree[p] = Absent
<1>1. HandleRequest(t, OnPath("delete", p)) = BackupDelete(t, p)
  BY DEF HandleRequest, OnPath
<1>2. CASE p = Root
  BY <1>1, <1>2 DEF BackupDelete, Done
<1>3. CASE p # Root /\ t[p] = Absent
  BY <1>1, <1>3 DEF BackupDelete, Done
<1>4. CASE p # Root /\ t[p] # Absent
  BY <1>1, <1>4, ParentAssumption DEF BackupDelete, Done, RemoveAll
<1> QED
  BY <1>2, <1>3, <1>4

LEMMA ServerKeepsKnown ==
    ASSUME SystemTyped, BaseInv, KnownInv,
           ServerStep \/ ServeLate \/ DropLate \/ DropStray \/ ServerStart \/ Timeout \/ ServerCrash
    PROVE  KnownInv'
<1>1. UNCHANGED <<paths, pc, cur, mtime, call>> /\ At' = At /\ At \in Path
  BY DEF ServerStep, Serve, NoServer, ServeLate, DropLate, DropStray, ServerStart, Timeout,
     ServerCrash, clientVars, dataVars, At, SystemTyped, ClientTyped
<1>2. late' # NoCall => pc' \in {"off", "retry"} \/ late' = call'
  BY <1>1 DEF ServerStep, Serve, NoServer, ServeLate, DropLate, DropStray, ServerStart, Timeout,
     ServerCrash, serverVars, KnownInv, KnownAsks
<1>3. CASE pc \notin PollPC
  BY <1>1, <1>2, <1>3, KnownElsewhere
<1>4. ASSUME pc \in PollPC, AllKnown', pc = "deleting" /\ Accepted' => remote'[At] = Absent,
             pc = "parent" => remote' = remote
      PROVE  KnownInv'
  BY <1>1, <1>2, <1>4 DEF KnownInv, KnownAsks, AtEntryPC
<1>5. CASE Serve /\ pc \in PollPC
  <2>1. /\ call \in Request /\ pc \in RequestPC
        /\ remote' = HandleRequest(remote, call).tree
    BY <1>5 DEF Serve, Waiting, Execute, SystemTyped, ClientTyped, BaseInv, OneRequest
  <2>2. Accepted' => HandleRequest(remote, call).status \in {"ok", "not_found"}
    BY <1>5 DEF Serve, Execute, NoResponse, Accepted
  <2>3. pc = "deleting" /\ Accepted' => remote'[At] = Absent
    BY <1>1, <2>1, <2>2, AcceptedDeletion DEF KnownInv, KnownAsks
  <2> QED
    BY <1>1, <1>4, <1>5, <2>1, <2>3, PollRequestIsKnown DEF RequestPC
<1>6. CASE ServeLate /\ pc \in PollPC
  <2>1. pc \in RequestPC /\ GivenUp /\ late = call /\ late \in Request /\ reply' = reply
    BY <1>6, StatusOfNoReply DEF ServeLate, clientVars, BaseInv, OneRequest, PollPC, CheckPC,
       ScanPC, KnownInv, KnownAsks, SystemTyped
  <2>2. remote' = HandleRequest(remote, call).tree /\ ~Accepted'
    BY <1>6, <2>1 DEF ServeLate, ExecuteUnheard, GivenUp, Accepted
  <2> QED
    BY <1>1, <1>4, <1>6, <2>1, <2>2, PollRequestIsKnown DEF RequestPC
<1>7. CASE /\ NoServer \/ DropLate \/ DropStray \/ ServerStart \/ Timeout \/ ServerCrash
           /\ pc \in PollPC
  <2>1. remote' = remote /\ (Accepted' => Accepted)
    BY <1>7 DEF NoServer, DropLate, DropStray, ServerStart, Timeout, ServerCrash, clientVars, serverVars,
       NoResponse, Accepted
  <2>2. AllKnown'
    BY <1>1, <2>1 DEF KnownInv, AllKnown
  <2> QED
    BY <1>4, <1>7, <2>1, <2>2 DEF KnownInv
<1> QED
  BY <1>3, <1>5, <1>6, <1>7 DEF ServerStep

\* At the end of a walk everything is known.
LEMMA WalkedIsKnown ==
    ASSUME SystemTyped, WalkInv, BaseInv, WalkDone
    PROVE  \A p \in Path : remote[p] # Absent => paths[p] # Absent
<1>1. pc = "take" /\ jobs = <<>>
  BY DEF WalkDone
<1>2. Walking /\ open = <<>>
  BY <1>1, NotGivenUp, StatusOfNoReply DEF WalkInv, Asked, WalkPC
<1>3. remote = local
  BY <1>1, <1>2, WalkedIsEqual
<1>4. \A p \in Path : local[p] # Absent => Recorded(p)
  BY <1>1, <1>2, WalkedIsRecorded
<1> QED
  BY <1>3, <1>4 DEF Recorded

LEMMA ClientKeepsKnown ==
    ASSUME SystemTyped, WalkInv, BaseInv, KnownInv, ClientStep
    PROVE  KnownInv'
<1>1. /\ UNCHANGED <<local, remote, late>> /\ ClientGoesOn
      /\ At \in Path /\ IsTree(local) /\ paths \in [Key -> Node]
  BY ClientLeavesFolder, WalkGoesOn, WatchGoesOn
  DEF ClientStep, serverVars, SystemTyped, ClientTyped, At
<1>2. late' # NoCall => pc' \in {"off", "retry"}
  BY <1>1 DEF ClientGoesOn
<1>3. CASE pc' \notin PollPC
  BY <1>2, <1>3, KnownElsewhere
<1>4. ~Accepted'
  BY <1>1, StatusOfNoReply DEF ClientGoesOn, NoReply, Accepted
<1>5. CASE WalkDone
  <2>1. pc' = "sleep" /\ UNCHANGED paths
    BY <1>5 DEF WalkDone
  <2>2. AllKnown'
    BY <1>1, <1>5, <2>1, WalkedIsKnown DEF AllKnown
  <2> QED
    BY <1>2, <2>1, <2>2 DEF KnownInv, KnownAsks, AtEntryPC, ScanPC
<1>6. CASE Walk /\ ~WalkDone
  BY <1>3, <1>6 DEF Walk, WalkFolder, FolderProbed, FolderCreated, OpenFolder, WalkEntry,
     FileProbed, FileReplacing, UploadFile, FileReplaced, FileUploaded, RecordFile, FolderDone,
     WalkAnswer, Send, Proceed, Die, PollPC, CheckPC, ScanPC
<1>7. CASE Die \/ Retry
  BY <1>3, <1>7 DEF Die, Retry, Proceed, PollPC, CheckPC, ScanPC
<1>8. ASSUME pc \in {"sleep", "check", "scan"}, UNCHANGED paths
      PROVE  \A p \in Path : remote'[p] # Absent => paths'[p] # Absent
  BY <1>1, <1>8 DEF KnownInv, AllKnown, AtEntryPC, PollPC, CheckPC, ScanPC
<1>9. CASE Poll \/ CheckDone \/ ScanPop
  <2>1. pc \in {"sleep", "check", "scan"} /\ pc' \in {"check", "scan", "sleep"} /\ UNCHANGED paths
    BY <1>9 DEF Poll, CheckDone, ScanPop
  <2> QED
    BY <1>2, <1>8, <2>1 DEF KnownInv, KnownAsks, AllKnown, AtEntryPC, ScanPC
<1>10. CASE CheckPath
  <2>1. pc = "check" /\ pc' \in {"check", "deleting"} /\ UNCHANGED paths
    BY <1>10 DEF CheckPath, Send
  <2>2. pc' = "deleting" => call' = OnPath("delete", At)'
    BY <1>10 DEF CheckPath, Send, OnPath, At
  <2> QED
    BY <1>2, <1>4, <1>8, <2>1, <2>2 DEF KnownInv, KnownAsks, AllKnown, AtEntryPC, ScanPC
<1>11. CASE PathDeleted /\ pc' = "parent"
  <2>1. pc = "deleting" /\ Accepted /\ UNCHANGED <<cur, mtime, paths>> /\ At' = At
    BY <1>11 DEF PathDeleted, Answered, Proceed, Retry, dataVars, At
  <2>2. remote[At] = Absent /\ AllKnown'
    BY <1>1, <1>11, <2>1 DEF KnownInv, AllKnown, AtEntryPC, PollPC, CheckPC, ScanPC
  <2> QED
    BY <1>1, <1>2, <1>11, <2>1, <2>2 DEF KnownInv, KnownAsks, AtEntryPC, ScanPC
<1>12. CASE (PathDeleted \/ ParentUpdated) /\ pc' = "check"
  <2>1. /\ remote[At] = Absent /\ pc \in {"deleting", "parent"}
        /\ \A k \in Key : k # At /\ paths[k] # Absent => paths'[k] # Absent
    BY <1>1, <1>12, NodeAssumption
    DEF PathDeleted, ParentUpdated, Answered, Proceed, Retry, Die, Key, KnownInv
  <2>2. \A p \in Path : remote'[p] # Absent => paths'[p] # Absent
    BY <1>1, <2>1 DEF KnownInv, AllKnown, AtEntryPC, PollPC, CheckPC, ScanPC, Key
  <2> QED
    BY <1>2, <1>12, <2>2 DEF KnownInv, KnownAsks, AllKnown, AtEntryPC, ScanPC
<1>13. CASE (PathDeleted \/ ParentUpdated) /\ ~Die /\ ~Retry
  BY <1>11, <1>12, <1>13 DEF PathDeleted, ParentUpdated, Proceed
<1>14. CASE ScanEntry /\ ~Die
  <2>1. /\ pc = "scan" /\ pc' \in AtEntryPC /\ UNCHANGED paths /\ mtime' # Absent
        /\ pc' # "saving"
    BY <1>14 DEF ScanEntry, Send, Proceed, AtEntryPC, ScanPC
  <2>2. /\ pc' = "removing" => call' = OnPath("delete", At)'
        /\ pc' = "making" => call' = OnPath("mkdir", At)'
    BY <1>14 DEF ScanEntry, Send, Proceed, OnPath, At
  <2> QED
    BY <1>2, <1>8, <2>1, <2>2 DEF KnownInv, KnownAsks, AllKnown, AtEntryPC, ScanPC
<1>15. CASE (FolderMade \/ FileRemoved \/ FileSaved \/ EncodeFile) /\ ~Die /\ ~Retry
  <2>1. /\ pc \in AtEntryPC /\ pc' \in {"next", "encode", "saving"}
        /\ UNCHANGED <<paths, cur, mtime>>
        /\ pc' = "saving" => call' = Save(At)
    BY <1>15 DEF FolderMade, FileRemoved, FileSaved, EncodeFile, ScanAnswer, Answered, Send,
       Proceed, dataVars, AtEntryPC, ScanPC
  <2>2. At' = At /\ (pc' = "saving" => call'.op = "save" /\ call'.path = At)
    BY <2>1 DEF At, Save
  <2>3. AllKnown'
    BY <1>1, <2>1, <2>2 DEF KnownInv, AllKnown, AtEntryPC, PollPC, ScanPC
  <2> QED
    BY <1>2, <2>1, <2>2, <2>3 DEF KnownInv, KnownAsks, AtEntryPC, ScanPC
<1>16. CASE NextEntry /\ ~Die
  <2>1. pc = "next" /\ pc' = "scan" /\ paths' = [paths EXCEPT ![At] = mtime] /\ mtime # Absent
    BY <1>16 DEF NextEntry, NextEntryWith, KnownInv, AtEntryPC, ScanPC
  <2>2. \A p \in Path : remote'[p] # Absent => paths'[p] # Absent
    BY <1>1, <2>1 DEF KnownInv, AllKnown, AtEntryPC, PollPC, ScanPC, Key
  <2> QED
    BY <1>2, <2>1, <2>2 DEF KnownInv, KnownAsks, AllKnown, AtEntryPC, ScanPC
<1> QED
  BY <1>5, <1>6, <1>7, <1>9, <1>10, <1>14, <1>15, <1>16, <1>13
  DEF ClientStep, Watch

LEMMA NextKnown ==
    ASSUME SystemTyped, WalkInv, BaseInv, KnownInv, [Next]_vars, ~StartClient, ~disturbed'
    PROVE  KnownInv'
<1>1. CASE User \/ UNCHANGED vars
  <2>1. UNCHANGED <<paths, pc, cur, mtime, call, reply, remote, late>>
    BY <1>1 DEF User, WriteFile, MakeFolder, Remove, Edit, serverVars, vars, clientVars, dataVars
  <2> QED
    BY <2>1 DEF KnownInv, KnownAsks, AllKnown, AtEntryPC, Accepted, At
<1> QED
  BY <1>1, ClientKeepsKnown, ServerKeepsKnown DEF Next, Unheard, ServeStray

LEMMA InitKnown == Init => KnownInv
BY DEF Init, ClientInit, KnownInv, KnownAsks, AllKnown, AtEntryPC, PollPC, CheckPC, ScanPC

\* Whatever is on the server is known to the client while it polls, but for the
\* entry it is at: a poll that finds it gone from the user's folder deletes it.
THEOREM StoredFilesAreKnown ==
    ASSUME WalkPC \subseteq QuietAt
    PROVE  Spec => []StoredIsKnown
<1>1. ASSUME SystemTyped, BaseInv, ~disturbed => WalkInv, ~disturbed => KnownInv, [Next]_vars,
             ~disturbed'
      PROVE  KnownInv'
  <2>1. CASE StartClient
    <3>1. pc' = "take" /\ late' = NoCall
      BY <2>1 DEF StartClient, Initialization
    <3> QED
      BY <3>1, KnownElsewhere DEF PollPC, CheckPC, ScanPC
  <2>2. CASE ~StartClient
    BY <1>1, <2>2, OnlyStartUndisturbs, NextKnown
  <2> QED
    BY <2>1, <2>2
<1>2. SystemTyped /\ BaseInv /\ (~disturbed => WalkInv) /\ (~disturbed => KnownInv)
        /\ [Next]_vars => (~disturbed => KnownInv)'
  BY <1>1
<1>3. (~disturbed => KnownInv) => StoredIsKnown
  BY DEF KnownInv, AllKnown, StoredIsKnown, AtEntryPC, PollPC
<1> QED
  BY <1>3, <1>2, InitTyped, NextTyped, BaseAlways, WalkAlways, InitKnown, PTL DEF Spec

\* A poll that finds nothing to do leaves nothing to do: the copy is then equal to
\* the folder, and not only as far as the client knows, unless a stray request has
\* been executed since the last walk began.
THEOREM NothingToDoMeansEqual ==
    ASSUME UsualNames
    PROVE  Spec => [](~disturbed /\ pc = "sleep" /\ (\A p \in Path : paths[p] = local[p])
                        => remote = local)
<1>1. Spec => []StoredIsKnown
  BY StoredFilesAreKnown DEF UsualNames
<1>2. Spec => []RecordedIsStored
  BY RecordedFilesAreStored
<1>3. SystemTyped /\ RecordedIsStored /\ StoredIsKnown
        => (~disturbed /\ pc = "sleep" /\ (\A p \in Path : paths[p] = local[p])
              => remote = local)
  <2> SUFFICES ASSUME SystemTyped, RecordedIsStored, StoredIsKnown, ~disturbed,
                      pc = "sleep", \A p \in Path : paths[p] = local[p]
               PROVE  remote = local
    OBVIOUS
  <2>1. \A p \in Path : remote[p] = local[p]
    BY DEF RecordedIsStored, StoredIsKnown, ScanPC
  <2> QED
    BY <2>1 DEF SystemTyped, ClientTyped, IsTree
<1> QED
  BY <1>1, <1>2, <1>3, InitTyped, NextTyped, PTL DEF Spec

=============================================================================
