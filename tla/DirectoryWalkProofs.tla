------------------------ MODULE DirectoryWalkProofs ------------------------
(***************************************************************************)
(* Proofs about DirectoryWalk, for every tree and every number of threads. *)
(***************************************************************************)
EXTENDS DirectoryWalk, FiniteSetTheorems, SequenceTheorems, TLAPS

(***************************************************************************)
(* Types, and that a file that is treated has been returned by the         *)
(* iterator.  That count_leaves is never negative is not a matter of types: *)
(* see CountCorrect.                                                       *)
(***************************************************************************)
Typed ==
    /\ jobs \in Seq(Dir)
    /\ active \in BOOLEAN
    /\ count_leaves \in Int
    /\ paths \subseteq Entry
    /\ stored \subseteq Entry /\ stale \subseteq stored
    /\ pc \in [Worker -> PC]
    /\ path_entry \in [Worker -> Dir]
    /\ unread \in [Worker -> SUBSET Entry]
    /\ directories \in [Worker -> Nat]
    /\ child \in [Worker -> Dir]
    /\ file \in [Worker -> Entry]
    /\ \A w \in Worker : pc[w] \in Treating => file[w] \in unread[w] \cap File
    /\ terminated \in BOOLEAN

LEMMA InitTyped == Init => Typed
<1> SUFFICES ASSUME Init PROVE Typed
  OBVIOUS
<1>1. Root \in Dir
  BY EntryAssumption
<1>2. <<Root>> \in Seq(Dir)
  BY <1>1
<1>3. stored \subseteq Entry /\ stale \subseteq stored
  BY DEF Init
<1>4. /\ pc \in [Worker -> PC]
      /\ path_entry \in [Worker -> Dir]
      /\ unread \in [Worker -> SUBSET Entry]
      /\ directories \in [Worker -> Nat]
      /\ child \in [Worker -> Dir]
      /\ file \in [Worker -> Entry]
      /\ \A w \in Worker : pc[w] \notin Treating
  BY <1>1 DEF Init, PC, Entry, Treating
<1>5. jobs \in Seq(Dir) /\ active \in BOOLEAN /\ terminated \in BOOLEAN
  BY <1>2 DEF Init
<1>6. count_leaves \in Int /\ paths \subseteq Entry
  BY DEF Init
<1> QED
  BY <1>3, <1>4, <1>5, <1>6 DEF Typed

LEMMA NextTyped == Typed /\ [Next]_vars => Typed'
<1> SUFFICES ASSUME Typed, [Next]_vars PROVE Typed'
  OBVIOUS
<1> USE DEF Typed
<1>1. CASE UNCHANGED vars
  BY <1>1 DEF vars
<1>2. CASE Over
  BY <1>2 DEF Over, vars
<1>3. ASSUME NEW w \in Worker, Step(w) PROVE Typed'
  <2> USE DEF queueVars, serverVars, localVars, PC, Visiting, Reading, Treating
  <2>1. CASE GetJob(w)
    <3>1. Head(jobs) \in Dir /\ Tail(jobs) \in Seq(Dir)
      BY <2>1, HeadTailProperties DEF GetJob
    <3> QED
      BY <2>1, <3>1 DEF GetJob
  <2>2. CASE GetWait(w)
    BY <2>2 DEF GetWait
  <2>3. CASE GetNothing(w)
    BY <2>3 DEF GetNothing
  <2>4. CASE Put(w)
    <3>1. Append(jobs, child[w]) \in Seq(Dir)
      BY AppendProperties
    <3> QED
      BY <2>4, <3>1 DEF Put, Waiting
  <2>5. CASE Ended(w)
    BY <2>5 DEF Ended
  <2>6. CASE ProbeFolder(w)
    BY <2>6 DEF ProbeFolder
  <2>7. CASE BackupFolder(w)
    BY <2>7 DEF BackupFolder, Entry
  <2>8. CASE WatchFolder(w)
    <3>1. Children[path_entry[w]] \subseteq Entry
      BY ChildrenAssumption
    <3> QED
      BY <2>8, <3>1 DEF WatchFolder, Entry
  <2>9. CASE ScanFile(w)
    <3> PICK f \in unread[w] \cap File : file' = [file EXCEPT ![w] = f]
      BY <2>9 DEF ScanFile
    <3>1. f \in Entry
      BY DEF Entry
    <3> QED
      BY <2>9, <3>1 DEF ScanFile
  <2>10. CASE ProbeFile(w)
    BY <2>10 DEF ProbeFile
  <2>11. CASE DeleteFile(w)
    BY <2>11 DEF DeleteFile
  <2>12. CASE BackupFile(w)
    <3>1. file[w] \in Entry
      BY <2>12 DEF BackupFile
    <3> QED
      BY <2>12, <3>1 DEF BackupFile
  <2>13. CASE WatchFile(w)
    <3>1. file[w] \in Entry
      BY <2>13 DEF WatchFile
    <3> QED
      BY <2>13, <3>1 DEF WatchFile
  <2>14. CASE ScanDirectory(w)
    <3> PICK d \in unread[w] \cap Dir :
           /\ child' = [child EXCEPT ![w] = d]
           /\ unread' = [unread EXCEPT ![w] = @ \ {d}]
      BY <2>14 DEF ScanDirectory
    <3>1. count_leaves' \in Int /\ directories' \in [Worker -> Nat]
      BY <2>14 DEF ScanDirectory
    <3>2. child' \in [Worker -> Dir] /\ unread' \in [Worker -> SUBSET Entry]
      OBVIOUS
    <3> QED
      BY <2>14, <3>1, <3>2 DEF ScanDirectory
  <2>15. CASE EndScan(w)
    BY <2>15 DEF EndScan
  <2>16. CASE CloseBranch(w)
    BY <2>16 DEF CloseBranch
  <2>17. CASE CheckLeaves(w)
    BY <2>17 DEF CheckLeaves
  <2>18. CASE RequestFails(w)
    BY <2>18 DEF RequestFails
  <2> QED
    BY <1>3, <2>1, <2>2, <2>3, <2>4, <2>5, <2>6, <2>7, <2>8, <2>9, <2>14, <2>15,
       <2>16, <2>17, <2>18, <2>10, <2>11, <2>12, <2>13 DEF Step
<1> QED
  BY <1>1, <1>2, <1>3 DEF Next

LEMMA AlwaysTyped == Spec => []Typed
BY InitTyped, NextTyped, PTL DEF Spec

-----------------------------------------------------------------------------
(***************************************************************************)
(* count_leaves counts the open branches.  A worker that has just taken a  *)
(* folder has seen none of its sub-folders, one that puts a sub-folder has *)
(* seen it: without these two facts the invariant is not inductive.        *)
(***************************************************************************)
CountInv ==
    /\ CountIsOpenBranches
    /\ \A w \in Worker : pc[w] \in {"probe", "backup", "watch"} => directories[w] = 0
    /\ \A w \in Worker : pc[w] = "put" => directories[w] >= 1

LEMMA OpenBranchFinite == IsFiniteSet(OpenBranch) /\ Cardinality(OpenBranch) \in Nat
<1>1. OpenBranch \in SUBSET Worker
  BY DEF OpenBranch
<1>2. IsFiniteSet(OpenBranch)
  BY <1>1, WorkerAssumption, FS_Subset
<1> QED
  BY <1>2, FS_CardinalityType

LEMMA InitCount == Init => CountInv
<1> SUFFICES ASSUME Init PROVE CountInv
  OBVIOUS
<1>1. OpenBranch = {}
  BY DEF Init, OpenBranch, Treating
<1>2. Cardinality(OpenBranch) = 0
  BY <1>1, FS_EmptySet
<1>3. Len(jobs) = 1 /\ count_leaves = 1
  BY DEF Init
<1>4. \A w \in Worker : pc[w] = "get"
  BY DEF Init
<1> QED
  BY <1>2, <1>3, <1>4 DEF CountInv, CountIsOpenBranches

LEMMA NextCount == Typed /\ CountInv /\ [Next]_vars => CountInv'
<1> SUFFICES ASSUME Typed, CountInv, [Next]_vars PROVE CountInv'
  OBVIOUS
<1> USE DEF Typed, CountInv, CountIsOpenBranches
<1>1. Len(jobs) \in Nat /\ Cardinality(OpenBranch) \in Nat /\ IsFiniteSet(OpenBranch)
  BY OpenBranchFinite, LenProperties
<1>2. CASE UNCHANGED vars
  BY <1>2 DEF vars, OpenBranch
<1>3. CASE Over
  BY <1>3 DEF Over, vars, OpenBranch
<1>4. ASSUME NEW w \in Worker, Step(w) PROVE CountInv'
  <2> USE DEF queueVars, serverVars, localVars, Treating
  <2>1. /\ w \notin OpenBranch => Cardinality(OpenBranch \cup {w}) = Cardinality(OpenBranch) + 1
        /\ w \in OpenBranch => Cardinality(OpenBranch \ {w}) = Cardinality(OpenBranch) - 1
    BY <1>1, FS_AddElement, FS_RemoveElement
  <2>2. CASE GetJob(w)
    <3>1. Len(jobs') = Len(jobs) - 1
      BY <2>2, HeadTailProperties DEF GetJob
    <3>2. w \notin OpenBranch /\ OpenBranch' = OpenBranch \cup {w}
      BY <2>2 DEF GetJob, OpenBranch
    <3>3. count_leaves' = Len(jobs') + Cardinality(OpenBranch')
      BY <2>1, <2>2, <3>1, <3>2, <1>1 DEF GetJob
    <3> QED
      BY <2>2, <3>3 DEF GetJob
  <2>3. CASE GetWait(w)
    <3>1. OpenBranch' = OpenBranch
      BY <2>3 DEF GetWait, OpenBranch
    <3> QED
      BY <2>3, <3>1 DEF GetWait
  <2>4. CASE GetNothing(w)
    <3>1. OpenBranch' = OpenBranch
      BY <2>4 DEF GetNothing, OpenBranch
    <3> QED
      BY <2>4, <3>1 DEF GetNothing
  <2>5. CASE Put(w)
    <3>1. Len(jobs') = Len(jobs) + 1
      BY <2>5, AppendProperties DEF Put
    <3>2. /\ pc' \in [Worker -> PC]
          /\ pc'[w] = "scan"
          /\ \A v \in Worker \ {w} : pc'[v] = pc[v] \/ (pc[v] = "wait" /\ pc'[v] = "get")
      BY <2>5 DEF Put, Waiting, PC, Visiting, Reading
    <3>3. w \in OpenBranch /\ OpenBranch' = OpenBranch \ {w}
      BY <2>5, <3>2 DEF Put, OpenBranch
    <3>4. count_leaves' = Len(jobs') + Cardinality(OpenBranch')
      BY <2>1, <2>5, <3>1, <3>3, <1>1 DEF Put
    <3> QED
      BY <2>5, <3>2, <3>4 DEF Put
  <2>6. CASE Ended(w)
    <3>1. OpenBranch' = OpenBranch
      BY <2>6 DEF Ended, OpenBranch
    <3> QED
      BY <2>6, <3>1 DEF Ended
  <2>7. CASE ProbeFolder(w)
    <3>1. OpenBranch' = OpenBranch
      BY <2>7 DEF ProbeFolder, OpenBranch
    <3> QED
      BY <2>7, <3>1 DEF ProbeFolder
  <2>8. CASE BackupFolder(w)
    <3>1. OpenBranch' = OpenBranch
      BY <2>8 DEF BackupFolder, OpenBranch
    <3> QED
      BY <2>8, <3>1 DEF BackupFolder
  <2>9. CASE WatchFolder(w)
    <3>1. OpenBranch' = OpenBranch
      BY <2>9 DEF WatchFolder, OpenBranch
    <3> QED
      BY <2>9, <3>1 DEF WatchFolder
  <2>10. CASE ScanFile(w)
    <3>1. OpenBranch' = OpenBranch
      BY <2>10 DEF ScanFile, OpenBranch
    <3> QED
      BY <2>10, <3>1 DEF ScanFile
  <2>11. CASE ProbeFile(w)
    <3>1. OpenBranch' = OpenBranch
      BY <2>11 DEF ProbeFile, OpenBranch
    <3> QED
      BY <2>11, <3>1 DEF ProbeFile
  <2>12. CASE DeleteFile(w)
    <3>1. OpenBranch' = OpenBranch
      BY <2>12 DEF DeleteFile, OpenBranch
    <3> QED
      BY <2>12, <3>1 DEF DeleteFile
  <2>13. CASE BackupFile(w)
    <3>1. OpenBranch' = OpenBranch
      BY <2>13 DEF BackupFile, OpenBranch
    <3> QED
      BY <2>13, <3>1 DEF BackupFile
  <2>14. CASE WatchFile(w)
    <3>1. OpenBranch' = OpenBranch
      BY <2>14 DEF WatchFile, OpenBranch
    <3> QED
      BY <2>14, <3>1 DEF WatchFile
  <2>15. CASE ScanDirectory(w)
    <3>1. /\ pc[w] = "scan" /\ pc' = [pc EXCEPT ![w] = "put"]
          /\ directories' = [directories EXCEPT ![w] = @ + 1]
          /\ count_leaves' = IF directories[w] + 1 >= 2 THEN count_leaves + 1 ELSE count_leaves
          /\ jobs' = jobs
      BY <2>15 DEF ScanDirectory
    <3>2. OpenBranch' = OpenBranch \cup {w}
      BY <3>1 DEF OpenBranch
    <3>3. w \in OpenBranch <=> directories[w] = 0
      BY <3>1 DEF OpenBranch
    <3>4. CASE directories[w] = 0
      <4>1. OpenBranch' = OpenBranch
        BY <3>2, <3>3, <3>4
      <4> QED
        BY <3>1, <3>4, <4>1
    <3>5. CASE directories[w] # 0
      <4>1. Cardinality(OpenBranch') = Cardinality(OpenBranch) + 1
        BY <2>1, <3>2, <3>3, <3>5
      <4>2. count_leaves' = count_leaves + 1
        BY <3>1, <3>5
      <4> QED
        BY <1>1, <3>1, <3>5, <4>1, <4>2
    <3> QED
      BY <3>4, <3>5
  <2>16. CASE EndScan(w)
    <3>1. OpenBranch' = OpenBranch
      BY <2>16 DEF EndScan, OpenBranch
    <3> QED
      BY <2>16, <3>1 DEF EndScan
  <2>17. CASE CloseBranch(w)
    <3>1. w \in OpenBranch /\ OpenBranch' = OpenBranch \ {w}
      BY <2>17 DEF CloseBranch, OpenBranch
    <3>2. count_leaves' = Len(jobs') + Cardinality(OpenBranch')
      BY <1>1, <2>1, <2>17, <3>1 DEF CloseBranch
    <3> QED
      BY <2>17, <3>2 DEF CloseBranch
  <2>18. CASE CheckLeaves(w)
    <3>1. OpenBranch' = OpenBranch
      BY <2>18 DEF CheckLeaves, OpenBranch
    <3> QED
      BY <2>18, <3>1 DEF CheckLeaves
  <2>19. CASE RequestFails(w)
    <3>1. OpenBranch' = OpenBranch
      BY <2>19 DEF RequestFails, OpenBranch
    <3> QED
      BY <2>19, <3>1 DEF RequestFails
  <2> QED
    BY <1>4, <2>2, <2>3, <2>4, <2>5, <2>6, <2>7, <2>8, <2>9, <2>10, <2>15, <2>16,
       <2>17, <2>18, <2>19, <2>11, <2>12, <2>13, <2>14 DEF Step
<1> QED
  BY <1>2, <1>3, <1>4 DEF Next

\* At every instant count_leaves is the number of open branches: the folders in
\* the queue and the branches that workers hold.
THEOREM CountCorrect == Spec => []CountIsOpenBranches
<1>1. CountInv => CountIsOpenBranches
  BY DEF CountInv
<1> QED
  BY <1>1, AlwaysTyped, InitCount, NextCount, PTL DEF Spec

\* The variables keep their types; count_leaves is never negative, because it is
\* the size of something.
THEOREM TypeCorrect == Spec => []TypeOK
<1>1. Typed /\ CountIsOpenBranches => TypeOK
  <2> SUFFICES ASSUME Typed, CountIsOpenBranches PROVE TypeOK
    OBVIOUS
  <2>1. count_leaves \in Nat
    BY OpenBranchFinite, LenProperties DEF Typed, CountIsOpenBranches
  <2> QED
    BY <2>1 DEF Typed, TypeOK
<1> QED
  BY <1>1, AlwaysTyped, CountCorrect, PTL

-----------------------------------------------------------------------------
(***************************************************************************)
(* Completeness.  What has not been recorded yet but is bound to be: it is *)
(* in the queue, held by a worker that has not recorded it yet, not read   *)
(* yet by the worker that reads its folder, or about to be queued.         *)
(***************************************************************************)
Held(w, e) == pc[w] \in {"probe", "backup", "watch"} /\ path_entry[w] = e

Unread(w, e) == pc[w] \in Reading /\ e \in unread[w]

Coming(e) ==
    \/ e \in Queued
    \/ \E w \in Worker : Held(w, e) \/ Unread(w, e) \/ (pc[w] = "put" /\ child[w] = e)

(***************************************************************************)
(* The root and the children of every recorded folder are recorded or      *)
(* coming; and as long as there is something in the queue there is a       *)
(* worker to take it, so that nothing is coming when all have ended.       *)
(***************************************************************************)
CoverInv ==
    /\ Root \in paths \/ Coming(Root)
    /\ \A d \in Dir \cap paths : \A e \in Children[d] : e \in paths \/ Coming(e)
    /\ (\A w \in Worker : pc[w] = "exited") => jobs = <<>>

LEMMA CoverComplete == Typed /\ CoverInv => WalkComplete
<1> SUFFICES ASSUME Typed, CoverInv, Returned PROVE paths = Entry
  BY DEF WalkComplete
<1>1. jobs = <<>>
  BY DEF CoverInv, Returned
<1>2. Queued = {}
  BY <1>1 DEF Queued
<1>3. \A e : ~Coming(e)
  BY <1>2 DEF Coming, Held, Unread, Reading, Treating, Returned
<1>4. Root \in paths /\ \A d \in Dir \cap paths : Children[d] \subseteq paths
  BY <1>3 DEF CoverInv
<1>5. paths \in SUBSET Entry
  BY DEF Typed
<1> QED
  BY <1>4, <1>5, ReachableAssumption

LEMMA InitCover == Init => CoverInv
<1> SUFFICES ASSUME Init PROVE CoverInv
  OBVIOUS
<1>1. Root \in Queued
  BY DEF Init, Queued
<1>2. paths = {} /\ \A w \in Worker : pc[w] = "get"
  BY DEF Init
<1> QED
  BY <1>1, <1>2, WorkerAssumption DEF CoverInv, Coming

LEMMA QueuedAppend ==
    ASSUME Typed, NEW w \in Worker, jobs' = Append(jobs, child[w])
    PROVE  Queued \subseteq Queued' /\ child[w] \in Queued' /\ jobs' # <<>>
<1>1. jobs \in Seq(Dir) /\ child[w] \in Dir
  BY DEF Typed
<1>2. /\ jobs' # <<>> /\ Len(jobs') = Len(jobs) + 1 /\ Len(jobs) \in Nat
      /\ \A i \in 1 .. Len(jobs) : jobs'[i] = jobs[i]
      /\ jobs'[Len(jobs) + 1] = child[w]
  BY <1>1, AppendProperties, LenProperties
<1> QED
  BY <1>2 DEF Queued

LEMMA QueuedTail ==
    ASSUME Typed, jobs # <<>>, jobs' = Tail(jobs)
    PROVE  Queued \subseteq Queued' \cup {Head(jobs)}
<1>1. /\ Len(jobs') = Len(jobs) - 1 /\ Len(jobs) \in Nat
      /\ \A i \in 1 .. Len(jobs') : jobs'[i] = jobs[i + 1]
      /\ Head(jobs) = jobs[1]
  BY HeadTailProperties, LenProperties DEF Typed
<1> SUFFICES ASSUME NEW i \in 1 .. Len(jobs) PROVE jobs[i] \in Queued' \cup {Head(jobs)}
  BY DEF Queued
<1>2. CASE i = 1
  BY <1>1, <1>2
<1>3. CASE i # 1
  <2>1. i - 1 \in 1 .. Len(jobs') /\ jobs'[i - 1] = jobs[i]
    BY <1>1, <1>3
  <2> QED
    BY <2>1 DEF Queued
<1> QED
  BY <1>2, <1>3

(***************************************************************************)
(* A step keeps CoverInv when everything that was coming still is, or has  *)
(* been recorded, and so have the children of a folder it records.         *)
(***************************************************************************)
Keeps ==
    /\ paths \subseteq paths'
    /\ \A e \in Entry : Coming(e) => e \in paths' \/ Coming(e)'
    /\ \A d \in Dir \cap (paths' \ paths) : \A e \in Children[d] : e \in paths' \/ Coming(e)'

LEMMA KeepsCover ==
    ASSUME CoverInv, Keeps, (\A w \in Worker : pc'[w] = "exited") => jobs' = <<>>
    PROVE  CoverInv'
<1>1. Root \in Entry /\ \A d \in Dir : Children[d] \subseteq Entry
  BY EntryAssumption, ChildrenAssumption DEF Entry
<1> QED
  BY <1>1 DEF CoverInv, Keeps

LEMMA NextKeeps == ASSUME Typed, CoverInv, NEW w \in Worker, Step(w) PROVE CoverInv'
<1> USE DEF Typed, queueVars, serverVars, localVars, PC, Visiting, Reading, Treating
<1>1. CASE GetJob(w)
  <2>1. /\ pc[w] = "get" /\ pc' = [pc EXCEPT ![w] = "probe"]
        /\ path_entry' = [path_entry EXCEPT ![w] = Head(jobs)]
        /\ unread' = unread /\ child' = child /\ paths' = paths
    BY <1>1 DEF GetJob
  <2>2. Queued \subseteq Queued' \cup {Head(jobs)}
    BY <1>1, QueuedTail DEF GetJob
  <2>3. Head(jobs) \in Dir
    BY <1>1, HeadTailProperties DEF GetJob
  <2>4. pc'[w] = "probe" /\ path_entry'[w] = Head(jobs)
    BY <2>1, <2>3
  <2>5. ASSUME NEW e \in Entry, Coming(e) PROVE Coming(e)'
    <3>1. CASE e \in Queued
      <4>1. e \in Queued' \/ e = path_entry'[w]
        BY <2>2, <2>4, <3>1
      <4> QED
        BY <2>4, <4>1 DEF Coming, Held
    <3>2. ASSUME NEW v \in Worker, Held(v, e) \/ Unread(v, e) \/ (pc[v] = "put" /\ child[v] = e)
          PROVE  Coming(e)'
      <4>1. v # w
        BY <2>1, <3>2 DEF Held, Unread
      <4> QED
        BY <2>1, <3>2, <4>1 DEF Coming, Held, Unread
    <3> QED
      BY <2>5, <3>1, <3>2 DEF Coming
  <2>6. Keeps
    BY <2>1, <2>5 DEF Keeps
  <2>7. pc'[w] # "exited"
    BY <2>1
  <2> QED
    BY <2>6, <2>7, KeepsCover
<1>2. CASE GetWait(w)
  <2>1. Keeps
    BY <1>2 DEF GetWait, Keeps, Coming, Held, Unread, Queued
  <2> QED
    BY <1>2, <2>1, KeepsCover DEF GetWait
<1>3. CASE GetNothing(w)
  <2>1. Keeps
    BY <1>3 DEF GetNothing, Keeps, Coming, Held, Unread, Queued
  <2> QED
    BY <1>3, <2>1, KeepsCover DEF GetNothing
<1>4. CASE Put(w)
  <2>1. Queued \subseteq Queued' /\ child[w] \in Queued' /\ jobs' # <<>>
    BY <1>4, QueuedAppend DEF Put
  <2>2. /\ pc[w] = "put" /\ pc'[w] = "scan"
        /\ \A v \in Worker \ {w} : pc'[v] = pc[v] \/ (pc[v] = "wait" /\ pc'[v] = "get")
        /\ path_entry' = path_entry /\ unread' = unread /\ child' = child /\ paths' = paths
    BY <1>4 DEF Put, Waiting
  <2>3. Keeps
    BY <2>1, <2>2 DEF Keeps, Coming, Held, Unread
  <2> QED
    BY <2>2, <2>3, KeepsCover
<1>5. CASE Ended(w)
  <2>1. /\ pc[w] = "end" /\ pc'[w] = "get"
        /\ \A v \in Worker \ {w} : pc'[v] = pc[v] \/ (pc[v] = "wait" /\ pc'[v] = "get")
        /\ jobs' = jobs /\ path_entry' = path_entry /\ unread' = unread /\ child' = child
        /\ paths' = paths
    BY <1>5 DEF Ended
  <2>2. Keeps
    BY <2>1 DEF Keeps, Coming, Held, Unread, Queued
  <2> QED
    BY <2>1, <2>2, KeepsCover
<1>6. CASE ProbeFolder(w)
  <2>1. Keeps
    BY <1>6 DEF ProbeFolder, Keeps, Coming, Held, Unread, Queued
  <2> QED
    BY <1>6, <2>1, KeepsCover DEF ProbeFolder
<1>7. CASE BackupFolder(w)
  <2>1. Keeps
    BY <1>7 DEF BackupFolder, Keeps, Coming, Held, Unread, Queued
  <2> QED
    BY <1>7, <2>1, KeepsCover DEF BackupFolder
<1>8. CASE WatchFolder(w)
  <2>1. /\ pc[w] = "watch" /\ pc' = [pc EXCEPT ![w] = "scan"]
        /\ paths' = paths \cup {path_entry[w]}
        /\ unread' = [unread EXCEPT ![w] = Children[path_entry[w]]]
        /\ jobs' = jobs /\ path_entry' = path_entry /\ child' = child
    BY <1>8 DEF WatchFolder
  <2>2. \A e \in Children[path_entry[w]] : Coming(e)'
    BY <2>1 DEF Coming, Unread
  <2>3. \A e \in Entry : Coming(e) => e \in paths' \/ Coming(e)'
    BY <2>1 DEF Coming, Held, Unread, Queued
  <2>4. Keeps
    BY <2>1, <2>2, <2>3 DEF Keeps
  <2> QED
    BY <2>1, <2>4, KeepsCover
<1>9. CASE ScanFile(w)
  <2>1. Keeps
    BY <1>9 DEF ScanFile, Keeps, Coming, Held, Unread, Queued
  <2> QED
    BY <1>9, <2>1, KeepsCover DEF ScanFile
<1>10. CASE ProbeFile(w)
  <2>1. Keeps
    BY <1>10 DEF ProbeFile, Keeps, Coming, Held, Unread, Queued
  <2> QED
    BY <1>10, <2>1, KeepsCover DEF ProbeFile
<1>11. CASE DeleteFile(w)
  <2>1. Keeps
    BY <1>11 DEF DeleteFile, Keeps, Coming, Held, Unread, Queued
  <2> QED
    BY <1>11, <2>1, KeepsCover DEF DeleteFile
<1>12. CASE BackupFile(w)
  <2>1. Keeps
    BY <1>12 DEF BackupFile, Keeps, Coming, Held, Unread, Queued
  <2> QED
    BY <1>12, <2>1, KeepsCover DEF BackupFile
<1>13. CASE WatchFile(w)
  <2>1. /\ pc[w] = "watchfile" /\ pc' = [pc EXCEPT ![w] = "scan"]
        /\ paths' = paths \cup {file[w]}
        /\ unread' = [unread EXCEPT ![w] = @ \ {file[w]}]
        /\ jobs' = jobs /\ path_entry' = path_entry /\ child' = child
    BY <1>13 DEF WatchFile
  <2>2. \A e \in Entry : Coming(e) => e \in paths' \/ Coming(e)'
    BY <2>1 DEF Coming, Held, Unread, Queued
  <2>3. file[w] \notin Dir
    BY <2>1, EntryAssumption
  <2>4. Keeps
    BY <2>1, <2>2, <2>3 DEF Keeps
  <2> QED
    BY <2>1, <2>4, KeepsCover
<1>14. CASE ScanDirectory(w)
  <2>1. PICK d \in unread[w] \cap Dir :
           /\ child' = [child EXCEPT ![w] = d]
           /\ unread' = [unread EXCEPT ![w] = @ \ {d}]
    BY <1>14 DEF ScanDirectory
  <2>2. /\ pc[w] = "scan" /\ pc' = [pc EXCEPT ![w] = "put"]
        /\ jobs' = jobs /\ path_entry' = path_entry /\ paths' = paths
    BY <1>14 DEF ScanDirectory
  <2>3. \A e \in Entry : Coming(e) => Coming(e)'
    BY <2>1, <2>2 DEF Coming, Held, Unread, Queued
  <2>4. Keeps
    BY <2>2, <2>3 DEF Keeps
  <2> QED
    BY <2>2, <2>4, KeepsCover
<1>15. CASE EndScan(w)
  <2>1. Keeps
    BY <1>15 DEF EndScan, Keeps, Coming, Held, Unread, Queued
  <2> QED
    BY <1>15, <2>1, KeepsCover DEF EndScan
<1>16. CASE CloseBranch(w)
  <2>1. Keeps
    BY <1>16 DEF CloseBranch, Keeps, Coming, Held, Unread, Queued
  <2> QED
    BY <1>16, <2>1, KeepsCover DEF CloseBranch
<1>17. CASE CheckLeaves(w)
  <2>1. Keeps
    BY <1>17 DEF CheckLeaves, Keeps, Coming, Held, Unread, Queued
  <2> QED
    BY <1>17, <2>1, KeepsCover DEF CheckLeaves
<1>18. CASE RequestFails(w)
  <2>1. Keeps
    BY <1>18 DEF RequestFails, Keeps, Coming, Held, Unread, Queued
  <2> QED
    BY <1>18, <2>1, KeepsCover DEF RequestFails, CoverInv
<1> QED
  BY <1>1, <1>2, <1>3, <1>4, <1>5, <1>6, <1>7, <1>8, <1>9, <1>14, <1>15,
     <1>16, <1>17, <1>18, <1>10, <1>11, <1>12, <1>13 DEF Step

LEMMA NextCover == Typed /\ CoverInv /\ [Next]_vars => CoverInv'
<1> SUFFICES ASSUME Typed, CoverInv, [Next]_vars PROVE CoverInv'
  OBVIOUS
<1>1. CASE UNCHANGED vars
  BY <1>1 DEF vars, CoverInv, Coming, Held, Unread, Queued
<1>2. CASE Next
  <2>1. CASE Over
    BY <2>1 DEF Over, vars, CoverInv, Coming, Held, Unread, Queued
  <2>2. CASE \E w \in Worker : Step(w)
    BY <2>2, NextKeeps
  <2> QED
    BY <1>2, <2>1, <2>2 DEF Next
<1> QED
  BY <1>1, <1>2

\* initialization() returns only when the whole tree has been recorded, for every
\* tree and every number of threads: a queue that ended() has closed too early
\* loses no folder.
THEOREM WalkIsComplete == Spec => []WalkComplete
<1>1. Init => CoverInv
  BY InitCover
<1>2. Typed /\ CoverInv /\ [Next]_vars => CoverInv'
  BY NextCover
<1>3. Typed /\ CoverInv => WalkComplete
  BY CoverComplete
<1> QED
  BY <1>1, <1>2, <1>3, AlwaysTyped, PTL DEF Spec

-----------------------------------------------------------------------------
(* The order of the walk: no folder is visited twice, the requests of      *)
(* different workers do not depend on each other, the server gets parents  *)
(* first, nobody waits for ever, and the pool implements WatchAll.         *)

(***************************************************************************)
(* An entry is with a worker from the moment the worker takes it out of    *)
(* the queue or reads its folder until it is recorded or queued.           *)
(***************************************************************************)
Carries(w, e) == Held(w, e) \/ Unread(w, e) \/ (pc[w] = "put" /\ child[w] = e)

\* The root, or in a folder that has been recorded.
Found(e) == e = Root \/ \E d \in Dir \cap paths : e \in Children[d]

\* An entry that is not recorded yet is in one place only.
OnePlace ==
    /\ \A i, j \in 1 .. Len(jobs) : jobs[i] = jobs[j] => i = j
    /\ Queued \cap paths = {}
    /\ \A w \in Worker : \A e \in Entry : Carries(w, e) => e \notin Queued /\ e \notin paths
    /\ \A w, v \in Worker : \A e \in Entry : Carries(w, e) /\ Carries(v, e) => w = v
    /\ \A w \in Worker : pc[w] = "put" => child[w] \notin unread[w]

\* A worker that is past recording its folder has recorded it, and no other has it.
Entered(w) == pc[w] \in Reading \cup {"leaf", "check", "end"}

OwnFolder ==
    /\ \A w \in Worker : Entered(w) => path_entry[w] \in paths
    /\ \A w, v \in Worker :
          (Entered(w) /\ Entered(v) /\ path_entry[w] = path_entry[v]) => w = v

(***************************************************************************)
(* Whatever is recorded or coming has been found: this is why the entries  *)
(* of a folder that is recorded only now are in no other place.            *)
(***************************************************************************)
OnceInv ==
    /\ OnePlace
    /\ OwnFolder
    /\ \A e \in Entry : e \in paths \/ Coming(e) => Found(e)

\* What is recorded is on the server as it is, and so is what is about to be.
StoredInv ==
    /\ ParentFirst
    /\ RecordedIsSaved
    /\ \A w \in Worker : pc[w] = "watch" => path_entry[w] \in stored
    /\ \A w \in Worker : pc[w] = "watchfile" => file[w] \in stored \ stale
    /\ stale \subseteq File

(***************************************************************************)
(* Whoever waits can still be woken up: the queue is open, somebody is at  *)
(* work while there is a job, and an open queue has an open branch or a    *)
(* worker that is about to look at the counter.                            *)
(***************************************************************************)
WakeInv ==
    /\ \A w \in Worker : pc[w] = "wait" => active
    /\ (\A w \in Worker : pc[w] \in {"wait", "exited"}) => jobs = <<>>
    /\ active => count_leaves > 0 \/ \E w \in Worker : pc[w] \in {"check", "end"}

-----------------------------------------------------------------------------
(***************************************************************************)
(* What the queue does to the set of queued folders.                       *)
(***************************************************************************)
NoRepeats == \A i, j \in 1 .. Len(jobs) : jobs[i] = jobs[j] => i = j

LEMMA TakeFirst ==
    ASSUME Typed, NoRepeats, jobs # <<>>, jobs' = Tail(jobs)
    PROVE  /\ NoRepeats'
           /\ Queued' = Queued \ {Head(jobs)}
           /\ Head(jobs) \in Queued /\ Head(jobs) \in Dir
<1>1. /\ Len(jobs') = Len(jobs) - 1 /\ Len(jobs) \in Nat /\ Len(jobs) >= 1
      /\ \A i \in 1 .. Len(jobs') : jobs'[i] = jobs[i + 1]
      /\ Head(jobs) = jobs[1] /\ Head(jobs) \in Dir
  BY HeadTailProperties, LenProperties, EmptySeq DEF Typed
<1>2. NoRepeats'
  <2> SUFFICES ASSUME NEW i \in 1 .. Len(jobs'), NEW j \in 1 .. Len(jobs'),
                      jobs'[i] = jobs'[j]
               PROVE  i = j
    BY DEF NoRepeats
  <2>1. i + 1 \in 1 .. Len(jobs) /\ j + 1 \in 1 .. Len(jobs) /\ jobs[i + 1] = jobs[j + 1]
    BY <1>1
  <2>2. i + 1 = j + 1
    BY <2>1 DEF NoRepeats
  <2> QED
    BY <2>2, <1>1
<1>3. Queued' \subseteq Queued \ {Head(jobs)}
  <2> SUFFICES ASSUME NEW i \in 1 .. Len(jobs')
               PROVE  jobs'[i] \in Queued \ {Head(jobs)}
    BY DEF Queued
  <2>1. /\ i + 1 \in 1 .. Len(jobs) /\ 1 \in 1 .. Len(jobs) /\ i + 1 # 1
        /\ jobs'[i] = jobs[i + 1]
    BY <1>1
  <2> QED
    BY <1>1, <2>1 DEF Queued, NoRepeats
<1>4. Queued \subseteq Queued' \cup {Head(jobs)}
  BY QueuedTail
<1>5. Head(jobs) \in Queued
  BY <1>1 DEF Queued
<1> QED
  BY <1>1, <1>2, <1>3, <1>4, <1>5

LEMMA AddLast ==
    ASSUME Typed, NoRepeats, NEW d \in Dir, d \notin Queued, jobs' = Append(jobs, d)
    PROVE  NoRepeats' /\ Queued' = Queued \cup {d}
<1>1. /\ Len(jobs') = Len(jobs) + 1 /\ Len(jobs) \in Nat
      /\ \A i \in 1 .. Len(jobs) : jobs'[i] = jobs[i]
      /\ jobs'[Len(jobs) + 1] = d
  BY AppendProperties, LenProperties DEF Typed
<1>2. \A i \in 1 .. Len(jobs') : i \in 1 .. Len(jobs) \/ i = Len(jobs) + 1
  BY <1>1
<1>3. \A i \in 1 .. Len(jobs) : jobs[i] # d
  BY DEF Queued
<1>4. NoRepeats'
  BY <1>1, <1>2, <1>3 DEF NoRepeats
<1>5. Queued' = Queued \cup {d}
  <2>1. Len(jobs) + 1 \in 1 .. Len(jobs') /\ 1 .. Len(jobs) \subseteq 1 .. Len(jobs')
    BY <1>1
  <2> QED
    BY <1>1, <1>2, <2>1 DEF Queued
<1> QED
  BY <1>4, <1>5

LEMMA ComingIsCarried ==
    \A e : Coming(e) <=> e \in Queued \/ \E w \in Worker : Carries(w, e)
BY DEF Coming, Carries

(***************************************************************************)
(* A step that takes nothing up and leaves the folders alone.              *)
(***************************************************************************)
LEMMA QuietOnce ==
    ASSUME OnceInv,
           jobs' = jobs, paths' = paths,
           path_entry' = path_entry, unread' = unread, child' = child,
           \A v \in Worker : Entered(v)' => Entered(v),
           \A v \in Worker : pc'[v] = "put" => pc[v] = "put",
           \A v \in Worker : pc'[v] \in {"probe", "backup", "watch"}
                                => pc[v] \in {"probe", "backup", "watch"},
           \A v \in Worker : pc'[v] \in Reading => pc[v] \in Reading
    PROVE  OnceInv'
<1>1. \A v \in Worker : \A e : Carries(v, e)' => Carries(v, e)
  BY DEF Carries, Held, Unread
<1>2. Queued' = Queued
  BY DEF Queued
<1>3. \A e : Coming(e)' => Coming(e)
  BY <1>1, <1>2 DEF Coming, Carries, Held, Unread
<1>4. OnePlace'
  BY <1>1, <1>2 DEF OnceInv, OnePlace
<1>5. OwnFolder'
  BY DEF OnceInv, OwnFolder
<1>6. \A e \in Entry : (e \in paths \/ Coming(e))' => Found(e)'
  BY <1>3 DEF OnceInv, Found
<1> QED
  BY <1>4, <1>5, <1>6 DEF OnceInv

LEMMA InitOnce == Init => OnceInv
<1> SUFFICES ASSUME Init PROVE OnceInv
  OBVIOUS
<1>1. \A w \in Worker : pc[w] = "get"
  BY DEF Init
<1>2. jobs = <<Root>> /\ Len(jobs) = 1 /\ paths = {}
  BY DEF Init
<1>3. Queued = {Root} /\ \A i, j \in 1 .. Len(jobs) : i = j
  BY <1>2 DEF Queued
<1>4. \A w \in Worker : \A e : ~Carries(w, e)
  BY <1>1 DEF Carries, Held, Unread, Reading, Treating
<1>5. OnePlace
  BY <1>1, <1>2, <1>3, <1>4 DEF OnePlace
<1>6. OwnFolder
  BY <1>1 DEF OwnFolder, Entered, Reading, Treating
<1>7. \A e \in Entry : e \in paths \/ Coming(e) => Found(e)
  BY <1>2, <1>3, <1>4, ComingIsCarried DEF Found
<1> QED
  BY <1>5, <1>6, <1>7 DEF OnceInv

LEMMA GetJobOnce ==
    ASSUME Typed, OnceInv, NEW w \in Worker, GetJob(w) PROVE OnceInv'
<1> USE DEF Reading, Treating
<1> DEFINE h == Head(jobs)
<1>1. NoRepeats
  BY DEF OnceInv, OnePlace, NoRepeats
<1>2. NoRepeats' /\ Queued' = Queued \ {h} /\ h \in Queued /\ h \in Dir
  BY <1>1, TakeFirst DEF GetJob
<1>3. /\ pc[w] = "get" /\ pc' = [pc EXCEPT ![w] = "probe"]
      /\ path_entry' = [path_entry EXCEPT ![w] = h]
      /\ unread' = unread /\ child' = child /\ paths' = paths
  BY DEF GetJob
<1>4. \A e : Carries(w, e)' => e = h
  BY <1>3 DEF Typed, Carries, Held, Unread
<1>5. \A v \in Worker \ {w} : \A e : Carries(v, e)' => Carries(v, e)
  BY <1>3 DEF Typed, Carries, Held, Unread
<1>6. \A v \in Worker : \A e \in Entry : Carries(v, e) => e # h /\ e \notin Queued /\ e \notin paths
  BY <1>2 DEF OnceInv, OnePlace
<1>7. h \notin paths
  BY <1>2 DEF OnceInv, OnePlace
<1>8. OnePlace'
  <2>1. Queued' \cap paths' = {}
    BY <1>2, <1>3 DEF OnceInv, OnePlace
  <2>2. \A v \in Worker : \A e \in Entry : Carries(v, e)' => e \notin Queued' /\ e \notin paths'
    BY <1>2, <1>3, <1>4, <1>5, <1>6, <1>7
  <2>3. \A v, u \in Worker : \A e \in Entry : Carries(v, e)' /\ Carries(u, e)' => v = u
    <3> SUFFICES ASSUME NEW v \in Worker, NEW u \in Worker, NEW e \in Entry,
                        Carries(v, e)', Carries(u, e)'
                 PROVE  v = u
      OBVIOUS
    <3> QED
      BY <1>4, <1>5, <1>6 DEF OnceInv, OnePlace
  <2>4. \A v \in Worker : pc'[v] = "put" => child'[v] \notin unread'[v]
    BY <1>3 DEF Typed, OnceInv, OnePlace
  <2> QED
    BY <1>2, <2>1, <2>2, <2>3, <2>4 DEF OnePlace, NoRepeats
<1>9. OwnFolder'
  <2>1. \A v \in Worker : Entered(v)' => Entered(v) /\ path_entry'[v] = path_entry[v]
    BY <1>3 DEF Typed, Entered
  <2> QED
    BY <1>3, <2>1 DEF OnceInv, OwnFolder
<1>10. \A e \in Entry : (e \in paths \/ Coming(e))' => Found(e)'
  <2>1. \A e : Coming(e)' => Coming(e)
    <3> SUFFICES ASSUME NEW e, Coming(e)' PROVE Coming(e)
      OBVIOUS
    <3>1. e \in Queued' \/ \E v \in Worker : Carries(v, e)'
      BY DEF Coming, Carries
    <3>2. e \in Queued \/ \E v \in Worker : Carries(v, e)
      BY <1>2, <1>4, <1>5, <3>1
    <3> QED
      BY <3>2, ComingIsCarried
  <2> QED
    BY <1>3, <2>1 DEF OnceInv, Found
<1> QED
  BY <1>8, <1>9, <1>10 DEF OnceInv

LEMMA PutOnce ==
    ASSUME Typed, OnceInv, NEW w \in Worker, Put(w) PROVE OnceInv'
<1> USE DEF Reading, Treating
<1> DEFINE c == child[w]
<1>1. /\ pc[w] = "put" /\ pc' \in [Worker -> PC] /\ pc'[w] = "scan"
      /\ \A v \in Worker \ {w} : pc'[v] = pc[v] \/ (pc[v] = "wait" /\ pc'[v] = "get")
      /\ path_entry' = path_entry /\ unread' = unread /\ child' = child /\ paths' = paths
  BY DEF Put, Waiting, Typed, PC, Visiting, localVars
<1>2. c \in Dir /\ c \in Entry /\ Carries(w, c)
  BY <1>1 DEF Typed, Carries, Entry
<1>3. c \notin Queued /\ c \notin paths /\ NoRepeats
  BY <1>2 DEF OnceInv, OnePlace, NoRepeats
<1>4. NoRepeats' /\ Queued' = Queued \cup {c}
  BY <1>2, <1>3, AddLast DEF Put
<1>5. \A v \in Worker : \A e : Carries(v, e)' => Carries(v, e)
  BY <1>1 DEF Carries, Held, Unread
<1>6. ~Carries(w, c)'
  BY <1>1 DEF Carries, Held, Unread, OnceInv, OnePlace
<1>7. \A v \in Worker : ~Carries(v, c)'
  BY <1>1, <1>2, <1>5, <1>6 DEF OnceInv, OnePlace
<1>8. OnePlace'
  <2>1. Queued' \cap paths' = {}
    BY <1>1, <1>3, <1>4 DEF OnceInv, OnePlace
  <2>2. \A v \in Worker : \A e \in Entry : Carries(v, e)' => e \notin Queued' /\ e \notin paths'
    BY <1>1, <1>4, <1>5, <1>7 DEF OnceInv, OnePlace
  <2>3. \A v, u \in Worker : \A e \in Entry : Carries(v, e)' /\ Carries(u, e)' => v = u
    BY <1>5 DEF OnceInv, OnePlace
  <2>4. \A v \in Worker : pc'[v] = "put" => child'[v] \notin unread'[v]
    BY <1>1 DEF OnceInv, OnePlace
  <2> QED
    BY <1>4, <2>1, <2>2, <2>3, <2>4 DEF OnePlace, NoRepeats
<1>9. OwnFolder'
  <2>1. \A v \in Worker : Entered(v)' => Entered(v)
    BY <1>1 DEF Entered
  <2> QED
    BY <1>1, <2>1 DEF OnceInv, OwnFolder
<1>10. \A e \in Entry : (e \in paths \/ Coming(e))' => Found(e)'
  <2>1. \A e : Coming(e)' => Coming(e)
    <3> SUFFICES ASSUME NEW e, Coming(e)' PROVE Coming(e)
      OBVIOUS
    <3>1. e \in Queued' \/ \E v \in Worker : Carries(v, e)'
      BY DEF Coming, Carries
    <3>2. e \in Queued \/ \E v \in Worker : Carries(v, e)
      BY <1>2, <1>4, <1>5, <3>1
    <3> QED
      BY <3>2, ComingIsCarried
  <2> QED
    BY <1>1, <2>1 DEF OnceInv, Found
<1> QED
  BY <1>8, <1>9, <1>10 DEF OnceInv

LEMMA WatchFolderOnce ==
    ASSUME Typed, OnceInv, NEW w \in Worker, WatchFolder(w) PROVE OnceInv'
<1> USE DEF Reading, Treating
<1> DEFINE p == path_entry[w]
<1>1. /\ pc[w] = "watch" /\ pc' = [pc EXCEPT ![w] = "scan"]
      /\ paths' = paths \cup {p}
      /\ unread' = [unread EXCEPT ![w] = Children[p]]
      /\ jobs' = jobs /\ path_entry' = path_entry /\ child' = child
  BY DEF WatchFolder, queueVars
<1>2. p \in Dir /\ p \in Entry /\ Carries(w, p)
  BY <1>1 DEF Typed, Carries, Held, Entry
<1>3. p \notin Queued /\ p \notin paths
  BY <1>2 DEF OnceInv, OnePlace
\* Nothing in the folder is recorded or coming: it would have been found in it.
<1>4. \A e \in Children[p] : ~Found(e)
  BY <1>2, <1>3, ChildrenAssumption DEF Found
<1>5. \A e \in Children[p] : e \in Entry /\ e \notin paths /\ e # p /\ ~Coming(e)
  BY <1>2, <1>4, ChildrenAssumption, ComingIsCarried DEF OnceInv
<1>6. \A e : Carries(w, e)' <=> e \in Children[p]
  BY <1>1 DEF Typed, Carries, Held, Unread
<1>7. \A v \in Worker \ {w} : \A e : Carries(v, e)' <=> Carries(v, e)
  BY <1>1 DEF Typed, Carries, Held, Unread
<1>8. \A v \in Worker \ {w} : ~Carries(v, p)'
  BY <1>1, <1>2, <1>7 DEF OnceInv, OnePlace
<1>9. Queued' = Queued
  BY <1>1 DEF Queued
<1>10. OnePlace'
  <2>1. Queued' \cap paths' = {}
    BY <1>1, <1>3, <1>9 DEF OnceInv, OnePlace
  <2>2. \A v \in Worker : \A e \in Entry : Carries(v, e)' => e \notin Queued' /\ e \notin paths'
    BY <1>1, <1>5, <1>6, <1>7, <1>8, <1>9, ComingIsCarried DEF OnceInv, OnePlace
  <2>3. \A v, u \in Worker : \A e \in Entry : Carries(v, e)' /\ Carries(u, e)' => v = u
    BY <1>5, <1>6, <1>7, ComingIsCarried DEF OnceInv, OnePlace
  <2>4. \A v \in Worker : pc'[v] = "put" => child'[v] \notin unread'[v]
    BY <1>1 DEF Typed, OnceInv, OnePlace
  <2> QED
    BY <1>1, <2>1, <2>2, <2>3, <2>4 DEF OnceInv, OnePlace
<1>11. OwnFolder'
  <2>1. \A v \in Worker \ {w} : Entered(v)' => Entered(v) /\ path_entry'[v] \in paths
    BY <1>1 DEF Typed, Entered, OnceInv, OwnFolder
  <2> QED
    BY <1>1, <1>3, <2>1 DEF OnceInv, OwnFolder
<1>12. \A e \in Entry : (e \in paths \/ Coming(e))' => Found(e)'
  <2>1. \A e \in Entry : Found(e) => Found(e)'
    BY <1>1 DEF Found
  <2>2. \A e \in Children[p] : Found(e)'
    BY <1>1, <1>2 DEF Found
  <2>3. Found(p)
    BY <1>2, ComingIsCarried DEF OnceInv
  <2> SUFFICES ASSUME NEW e \in Entry, e \in paths' \/ Coming(e)' PROVE Found(e)'
    OBVIOUS
  <2>4. CASE e \in paths'
    BY <1>1, <1>2, <2>1, <2>3, <2>4 DEF OnceInv
  <2>5. CASE Coming(e)'
    <3>1. e \in Queued' \/ \E v \in Worker : Carries(v, e)'
      BY <2>5 DEF Coming, Carries
    <3>2. Coming(e) \/ e \in Children[p]
      BY <1>6, <1>7, <1>9, <3>1, ComingIsCarried
    <3> QED
      BY <2>1, <2>2, <3>2 DEF OnceInv
  <2> QED
    BY <2>4, <2>5
<1> QED
  BY <1>10, <1>11, <1>12 DEF OnceInv

LEMMA WatchFileOnce ==
    ASSUME Typed, OnceInv, NEW w \in Worker, WatchFile(w) PROVE OnceInv'
<1> USE DEF Reading, Treating
<1> PICK f : f = file[w]
  OBVIOUS
<1>1. /\ paths' = paths \cup {f}
      /\ unread' = [unread EXCEPT ![w] = @ \ {f}]
  BY DEF WatchFile
<1>2. /\ pc[w] = "watchfile" /\ pc' = [pc EXCEPT ![w] = "scan"]
      /\ jobs' = jobs /\ path_entry' = path_entry /\ child' = child
  BY DEF WatchFile, queueVars
<1>3. f \in unread[w] /\ f \in Entry /\ f \notin Dir /\ Carries(w, f)
  BY <1>2, EntryAssumption DEF Typed, Carries, Unread, Entry
<1>4. f \notin Queued /\ f \notin paths /\ Found(f)
  BY <1>3, ComingIsCarried DEF OnceInv, OnePlace
<1>5. \A v \in Worker : \A e : Carries(v, e)' => Carries(v, e)
  BY <1>1, <1>2 DEF Typed, Carries, Held, Unread
<1>6. ~Carries(w, f)'
  BY <1>1, <1>2 DEF Typed, Carries, Held, Unread
<1>7. \A v \in Worker : ~Carries(v, f)'
  BY <1>3, <1>5, <1>6 DEF OnceInv, OnePlace
<1>8. Queued' = Queued
  BY <1>2 DEF Queued
<1>9. OnePlace'
  <2>1. Queued' \cap paths' = {}
    BY <1>1, <1>4, <1>8 DEF OnceInv, OnePlace
  <2>2. \A v \in Worker : \A e \in Entry : Carries(v, e)' => e \notin Queued' /\ e \notin paths'
    BY <1>1, <1>5, <1>7, <1>8 DEF OnceInv, OnePlace
  <2>3. \A v, u \in Worker : \A e \in Entry : Carries(v, e)' /\ Carries(u, e)' => v = u
    BY <1>5 DEF OnceInv, OnePlace
  <2>4. \A v \in Worker : pc'[v] = "put" => child'[v] \notin unread'[v]
    BY <1>1, <1>2 DEF Typed, OnceInv, OnePlace
  <2> QED
    BY <1>2, <2>1, <2>2, <2>3, <2>4 DEF OnceInv, OnePlace
<1>10. OwnFolder'
  <2>1. \A v \in Worker : Entered(v)' => Entered(v)
    BY <1>2 DEF Typed, Entered
  <2> QED
    BY <1>1, <1>2, <2>1 DEF OnceInv, OwnFolder
<1>11. \A e \in Entry : (e \in paths \/ Coming(e))' => Found(e)'
  <2>1. \A e : Coming(e)' => Coming(e)
    BY <1>5, <1>8 DEF Coming, Carries
  <2>2. \A e \in Entry : Found(e) => Found(e)'
    BY <1>1 DEF Found
  <2> QED
    BY <1>1, <1>4, <2>1, <2>2 DEF OnceInv
<1> QED
  BY <1>9, <1>10, <1>11 DEF OnceInv

LEMMA ScanDirectoryOnce ==
    ASSUME Typed, OnceInv, NEW w \in Worker, ScanDirectory(w) PROVE OnceInv'
<1> USE DEF Reading, Treating
<1>1. PICK d \in unread[w] \cap Dir :
         /\ child' = [child EXCEPT ![w] = d]
         /\ unread' = [unread EXCEPT ![w] = @ \ {d}]
  BY DEF ScanDirectory
<1>2. /\ pc[w] = "scan" /\ pc' = [pc EXCEPT ![w] = "put"]
      /\ jobs' = jobs /\ path_entry' = path_entry /\ paths' = paths
  BY DEF ScanDirectory, queueVars
<1>3. \A v \in Worker : \A e : Carries(v, e)' => Carries(v, e)
  BY <1>1, <1>2 DEF Typed, Carries, Held, Unread
<1>4. Queued' = Queued
  BY <1>2 DEF Queued
<1>5. OnePlace'
  <2>1. \A v \in Worker : pc'[v] = "put" => child'[v] \notin unread'[v]
    BY <1>1, <1>2 DEF Typed, OnceInv, OnePlace
  <2> QED
    BY <1>2, <1>3, <1>4, <2>1 DEF OnceInv, OnePlace
<1>6. OwnFolder'
  <2>1. \A v \in Worker : Entered(v)' => Entered(v)
    BY <1>2 DEF Typed, Entered
  <2> QED
    BY <1>2, <2>1 DEF OnceInv, OwnFolder
<1>7. \A e \in Entry : (e \in paths \/ Coming(e))' => Found(e)'
  BY <1>2, <1>3, <1>4 DEF OnceInv, Found, Coming, Carries
<1> QED
  BY <1>5, <1>6, <1>7 DEF OnceInv

LEMMA StepOnce == ASSUME Typed, OnceInv, NEW w \in Worker, Step(w) PROVE OnceInv'
<1> USE DEF Typed, queueVars, serverVars, localVars, PC, Visiting, Reading, Treating, Entered
<1>1. CASE GetJob(w)
  BY <1>1, GetJobOnce
<1>2. CASE GetWait(w)
  BY <1>2, QuietOnce DEF GetWait
<1>3. CASE GetNothing(w)
  BY <1>3, QuietOnce DEF GetNothing
<1>4. CASE Put(w)
  BY <1>4, PutOnce
<1>5. CASE Ended(w)
  BY <1>5, QuietOnce DEF Ended
<1>6. CASE ProbeFolder(w)
  BY <1>6, QuietOnce DEF ProbeFolder
<1>7. CASE BackupFolder(w)
  BY <1>7, QuietOnce DEF BackupFolder
<1>8. CASE WatchFolder(w)
  BY <1>8, WatchFolderOnce
<1>9. CASE ScanFile(w)
  BY <1>9, QuietOnce DEF ScanFile
<1>10. CASE ProbeFile(w)
  BY <1>10, QuietOnce DEF ProbeFile
<1>11. CASE DeleteFile(w)
  BY <1>11, QuietOnce DEF DeleteFile
<1>12. CASE BackupFile(w)
  BY <1>12, QuietOnce DEF BackupFile
<1>13. CASE WatchFile(w)
  BY <1>13, WatchFileOnce
<1>14. CASE ScanDirectory(w)
  BY <1>14, ScanDirectoryOnce
<1>15. CASE EndScan(w)
  BY <1>15, QuietOnce DEF EndScan
<1>16. CASE CloseBranch(w)
  BY <1>16, QuietOnce DEF CloseBranch
<1>17. CASE CheckLeaves(w)
  BY <1>17, QuietOnce DEF CheckLeaves
<1>18. CASE RequestFails(w)
  BY <1>18, QuietOnce DEF RequestFails
<1> QED
  BY <1>1, <1>2, <1>3, <1>4, <1>5, <1>6, <1>7, <1>8, <1>9, <1>14, <1>15,
     <1>16, <1>17, <1>18, <1>10, <1>11, <1>12, <1>13 DEF Step

LEMMA NextOnce == Typed /\ OnceInv /\ [Next]_vars => OnceInv'
<1> SUFFICES ASSUME Typed, OnceInv, [Next]_vars PROVE OnceInv'
  OBVIOUS
<1>1. CASE UNCHANGED vars
  BY <1>1, QuietOnce DEF vars, Entered
<1>2. CASE Over
  BY <1>2, QuietOnce DEF Over, vars, Entered
<1>3. CASE \E w \in Worker : Step(w)
  BY <1>3, StepOnce
<1> QED
  BY <1>1, <1>2, <1>3 DEF Next

LEMMA AlwaysOnce == Spec => []OnceInv
BY InitOnce, NextOnce, AlwaysTyped, PTL DEF Spec

\* No folder is ever visited, or going to be visited, twice: the comment
\* FileWatcher.cpp:112 relies on it to use paths_ without looking.
THEOREM EachFolderIsVisitedOnce == Spec => []EachFolderOnce
<1>1. Typed /\ OnceInv => EachFolderOnce
  <2> SUFFICES ASSUME Typed, OnceInv PROVE EachFolderOnce
    OBVIOUS
  <2>1. \A w \in Worker : pc[w] \in Visiting => Entered(w) \/ Carries(w, path_entry[w])
    BY DEF Visiting, Reading, Entered, Carries, Held
  <2>2. \A w \in Worker : path_entry[w] \in Entry
    BY DEF Typed, Entry
  <2>3. \A w, v \in Worker :
           (pc[w] \in Visiting /\ pc[v] \in Visiting /\ path_entry[w] = path_entry[v]) => w = v
    BY <2>1, <2>2 DEF OnceInv, OnePlace, OwnFolder
  <2>4. \A w \in Worker : pc[w] \in Visiting => path_entry[w] \notin Queued
    BY <2>1, <2>2 DEF OnceInv, OnePlace, OwnFolder
  <2> QED
    BY <2>3, <2>4 DEF EachFolderOnce, OnceInv, OnePlace
<1> QED
  BY <1>1, AlwaysOnce, AlwaysTyped, PTL

\* The requests of two workers never touch what the other one's need, so the
\* server may treat them in any order.
THEOREM RequestsStayApart == Spec => []RequestsApart
<1>1. Typed /\ OnceInv => RequestsApart
  <2> SUFFICES ASSUME Typed, OnceInv,
                      NEW w \in Worker, NEW v \in Worker, w # v,
                      NEW e \in Changes(w), e \in Needs(v)
               PROVE  FALSE
    BY DEF RequestsApart
  <2>1. \A u \in Worker : \A t \in Target(u) : t \in Entry /\ Carries(u, t)
    BY DEF Typed, Target, Carries, Held, Unread, Reading, Entry
  <2>2. e \in Target(w)
    BY DEF Changes
  <2>3. e \in Entry /\ Carries(w, e) /\ e \notin paths
    BY <2>1, <2>2 DEF OnceInv, OnePlace
  <2>4. CASE e \in Target(v)
    BY <2>1, <2>3, <2>4 DEF OnceInv, OnePlace
  <2>5. CASE e \in Dir /\ Children[e] \cap Target(v) # {}
    <3>1. PICK t \in Target(v) : t \in Children[e]
      BY <2>5
    <3>2. Found(t) /\ t \in Entry
      BY <2>1, <3>1, ComingIsCarried DEF OnceInv
    <3>3. t # Root /\ \A d \in Dir : t \in Children[d] => d = e
      BY <2>5, <3>1, ChildrenAssumption
    <3> QED
      BY <2>3, <3>2, <3>3 DEF Found
  <2> QED
    BY <2>4, <2>5 DEF Needs
<1> QED
  BY <1>1, AlwaysOnce, AlwaysTyped, PTL

-----------------------------------------------------------------------------
(***************************************************************************)
(* Parents first: what a worker is about to create is in a folder that has *)
(* been recorded, and what has been recorded is on the server.             *)
(***************************************************************************)
LEMMA StoreChild ==
    ASSUME Typed, OnceInv, StoredInv, NEW w \in Worker, NEW e \in Entry, Carries(w, e)
    PROVE  ParentClosed(stored \cup {e})
<1>1. Found(e)
  BY ComingIsCarried DEF OnceInv
<1>2. \A d \in Dir : e \in Children[d] => d \in paths
  BY <1>1, ChildrenAssumption DEF Found
<1> QED
  BY <1>2 DEF StoredInv, ParentFirst, ParentClosed, RecordedIsSaved

\* What a worker deletes, no other has recorded or is about to record.
LEMMA FileIsItsOwn ==
    ASSUME Typed, OnceInv, NEW w \in Worker, pc[w] \in Treating
    PROVE  /\ file[w] \in File /\ file[w] \in Entry /\ Carries(w, file[w])
           /\ file[w] \notin paths
           /\ \A v \in Worker \ {w} : pc[v] \in Treating => file[v] # file[w]
<1>1. \A v \in Worker :
        pc[v] \in Treating => file[v] \in File /\ file[v] \in Entry /\ Carries(v, file[v])
  BY DEF Typed, Entry, Carries, Unread, Reading
<1> QED
  BY <1>1 DEF OnceInv, OnePlace

LEMMA StepStored == ASSUME Typed, OnceInv, StoredInv, NEW w \in Worker, Step(w) PROVE StoredInv'
<1> USE DEF queueVars, serverVars, localVars, RecordedIsSaved, Treating
<1>1. CASE ProbeFolder(w)
  BY <1>1 DEF ProbeFolder, StoredInv, ParentFirst, ParentClosed, Typed
<1>2. CASE BackupFolder(w)
  <2>1. path_entry[w] \in Entry /\ Carries(w, path_entry[w])
    BY <1>2 DEF BackupFolder, Typed, Entry, Carries, Held
  <2>2. ParentClosed(stored \cup {path_entry[w]})
    BY <2>1, StoreChild
  <2>3. ParentFirst'
    BY <1>2, <2>2 DEF BackupFolder, ParentFirst, ParentClosed
  <2> QED
    BY <1>2, <2>3 DEF BackupFolder, StoredInv, Typed
<1>3. CASE WatchFolder(w)
  <2>1. path_entry[w] \notin stale
    BY EntryAssumption DEF StoredInv, Typed
  <2> QED
    BY <1>3, <2>1 DEF WatchFolder, StoredInv, ParentFirst, ParentClosed, Typed
<1>4. CASE ProbeFile(w)
  BY <1>4 DEF ProbeFile, StoredInv, ParentFirst, ParentClosed, Typed
<1>5. CASE DeleteFile(w)
  <2>1. /\ pc[w] = "deletefile" /\ pc' = [pc EXCEPT ![w] = "resendfile"]
        /\ stored' = stored \ {file[w]} /\ stale' = stale \ {file[w]}
        /\ paths' = paths /\ path_entry' = path_entry /\ file' = file
    BY <1>5 DEF DeleteFile
  <2>2. /\ file[w] \in File /\ file[w] \notin paths
        /\ \A v \in Worker \ {w} : pc[v] \in Treating => file[v] # file[w]
    BY <2>1, FileIsItsOwn
  <2>3. file[w] \notin Dir
    BY <2>2, EntryAssumption
  <2>4. ParentFirst'
    BY <2>1, <2>3 DEF StoredInv, ParentFirst, ParentClosed
  <2>5. RecordedIsSaved' /\ stale' \subseteq File
    BY <2>1, <2>2 DEF StoredInv
  <2>6. \A v \in Worker : pc'[v] = "watch" => path_entry'[v] \in stored'
    BY <2>1, <2>3 DEF StoredInv, Typed
  <2>7. \A v \in Worker : pc'[v] = "watchfile" => file'[v] \in stored' \ stale'
    BY <2>1, <2>2 DEF StoredInv, Typed
  <2> QED
    BY <2>4, <2>5, <2>6, <2>7 DEF StoredInv
<1>6. CASE BackupFile(w)
  <2>1. /\ pc[w] \in {"resendfile", "backupfile"}
        /\ \A v \in Worker \ {w} : pc'[v] = pc[v]
        /\ pc'[w] # "watch"
        /\ stored' = stored \cup {file[w]} /\ stale' = stale \ {file[w]}
        /\ paths' = paths /\ path_entry' = path_entry /\ file' = file
    BY <1>6 DEF BackupFile, Typed
  <2>2. file[w] \in Entry /\ Carries(w, file[w])
    BY <2>1, FileIsItsOwn
  <2>3. ParentClosed(stored \cup {file[w]})
    BY <2>2, StoreChild
  <2>4. ParentFirst'
    BY <2>1, <2>3 DEF ParentFirst, ParentClosed
  <2> QED
    BY <2>1, <2>4 DEF StoredInv
<1>7. CASE WatchFile(w)
  <2>1. /\ pc[w] = "watchfile" /\ pc' = [pc EXCEPT ![w] = "scan"]
        /\ stored' = stored /\ stale' = stale /\ file' = file /\ path_entry' = path_entry
        /\ paths' = paths \cup {file[w]}
    BY <1>7 DEF WatchFile
  <2> QED
    BY <2>1 DEF StoredInv, ParentFirst, ParentClosed, Typed
<1>8. CASE Put(w)
  <2>1. /\ \A v \in Worker : pc'[v] = "watch" => pc[v] = "watch"
        /\ \A v \in Worker : pc'[v] = "watchfile" => pc[v] = "watchfile"
    BY <1>8 DEF Put, Waiting, Typed
  <2> QED
    BY <1>8, <2>1 DEF Put, StoredInv, ParentFirst, ParentClosed
<1>9. CASE Ended(w)
  BY <1>9 DEF Ended, StoredInv, ParentFirst, ParentClosed
<1>10. CASE GetJob(w) \/ GetWait(w) \/ GetNothing(w) \/ ScanFile(w) \/ ScanDirectory(w)
           \/ EndScan(w) \/ CloseBranch(w) \/ CheckLeaves(w) \/ RequestFails(w)
  <2>1. stored' = stored /\ stale' = stale /\ paths' = paths
    BY <1>10 DEF GetJob, GetWait, GetNothing, ScanFile, ScanDirectory, EndScan, CloseBranch,
                 CheckLeaves, RequestFails
  <2>2. \A v \in Worker : pc'[v] = "watch" => pc[v] = "watch" /\ path_entry'[v] = path_entry[v]
    BY <1>10 DEF GetJob, GetWait, GetNothing, ScanFile, ScanDirectory, EndScan, CloseBranch,
                 CheckLeaves, RequestFails, Typed
  <2>3. \A v \in Worker : pc'[v] = "watchfile" => pc[v] = "watchfile" /\ file'[v] = file[v]
    BY <1>10 DEF GetJob, GetWait, GetNothing, ScanFile, ScanDirectory, EndScan, CloseBranch,
                 CheckLeaves, RequestFails, Typed
  <2> QED
    BY <2>1, <2>2, <2>3 DEF StoredInv, ParentFirst, ParentClosed
<1> QED
  BY <1>1, <1>2, <1>3, <1>4, <1>5, <1>6, <1>7, <1>8, <1>9, <1>10 DEF Step

LEMMA AlwaysStored == Spec => []StoredInv
<1>1. Init => StoredInv
  BY DEF Init, StoredInv, ParentFirst, RecordedIsSaved
<1>2. Typed /\ OnceInv /\ StoredInv /\ [Next]_vars => StoredInv'
  <2> SUFFICES ASSUME Typed, OnceInv, StoredInv, [Next]_vars PROVE StoredInv'
    OBVIOUS
  <2>1. CASE UNCHANGED vars \/ Over
    BY <2>1 DEF Over, vars, StoredInv, ParentFirst, ParentClosed, RecordedIsSaved
  <2>2. CASE \E w \in Worker : Step(w)
    BY <2>2, StepStored
  <2> QED
    BY <2>1, <2>2 DEF Next
<1> QED
  BY <1>1, <1>2, AlwaysTyped, AlwaysOnce, PTL DEF Spec

\* A folder is on the server before anything that is in it, whatever part of the
\* tree the server had and however the threads interleave.
THEOREM ParentsComeFirst == Spec => []ParentFirst
<1>1. StoredInv => ParentFirst
  BY DEF StoredInv
<1> QED
  BY <1>1, AlwaysStored, PTL

\* What a thread has recorded is on the server with the content it has, although
\* all threads send, delete and record at the same time.
THEOREM RecordedStaysSaved == Spec => []RecordedIsSaved
<1>1. StoredInv => RecordedIsSaved
  BY DEF StoredInv
<1> QED
  BY <1>1, AlwaysStored, PTL

-----------------------------------------------------------------------------
(***************************************************************************)
(* Nobody waits in vain.                                                   *)
(***************************************************************************)
LEMMA StepWake == ASSUME Typed, CountInv, WakeInv, NEW w \in Worker, Step(w) PROVE WakeInv'
<1> USE DEF queueVars, serverVars, localVars, Treating, Typed
<1>1. Len(jobs) \in Nat /\ Cardinality(OpenBranch) \in Nat /\ count_leaves \in Nat
  BY OpenBranchFinite, LenProperties DEF CountInv, CountIsOpenBranches
<1>2. CASE GetWait(w)
  BY <1>2 DEF GetWait, WakeInv
<1>3. CASE GetNothing(w)
  BY <1>3 DEF GetNothing, WakeInv
<1>4. CASE Put(w)
  <2>1. /\ pc[w] = "put" /\ pc'[w] = "scan"
        /\ \A v \in Worker \ {w} : pc'[v] = pc[v] \/ (pc[v] = "wait" /\ pc'[v] = "get")
    BY <1>4 DEF Put, Waiting
  <2> QED
    BY <1>4, <2>1 DEF Put, WakeInv
<1>5. CASE Ended(w)
  BY <1>5 DEF Ended, WakeInv
<1>6. CASE CloseBranch(w)
  BY <1>6, <1>1 DEF CloseBranch, WakeInv
<1>7. CASE CheckLeaves(w)
  BY <1>7, <1>1 DEF CheckLeaves, WakeInv
<1>8. CASE ScanDirectory(w)
  BY <1>8, <1>1 DEF ScanDirectory, WakeInv
<1>9. CASE GetJob(w)
  BY <1>9 DEF GetJob, WakeInv
<1>10. CASE ProbeFolder(w) \/ BackupFolder(w) \/ WatchFolder(w) \/ ScanFile(w) \/ EndScan(w)
           \/ ProbeFile(w) \/ DeleteFile(w) \/ BackupFile(w) \/ WatchFile(w) \/ RequestFails(w)
  <2>1. active' = active /\ count_leaves' = count_leaves /\ jobs' = jobs
    BY <1>10 DEF ProbeFolder, BackupFolder, WatchFolder, ScanFile, EndScan, ProbeFile, DeleteFile,
                BackupFile, WatchFile, RequestFails
  <2>2. /\ pc[w] \in Treating \cup {"probe", "backup", "watch", "scan"}
        /\ pc'[w] \in Treating \cup {"probe", "backup", "watch", "scan", "leaf", "check"}
        /\ \A v \in Worker \ {w} : pc'[v] = pc[v]
    BY <1>10 DEF ProbeFolder, BackupFolder, WatchFolder, ScanFile, EndScan, ProbeFile, DeleteFile,
                BackupFile, WatchFile, RequestFails
  <2> QED
    BY <2>1, <2>2 DEF WakeInv
<1> QED
  BY <1>2, <1>3, <1>4, <1>5, <1>6, <1>7, <1>8, <1>9, <1>10 DEF Step

\* The threads never all wait for a notification: join() cannot hang because of
\* the queue, although ended() is called once and put() wakes up one thread.
THEOREM NobodyIsStuck == Spec => []NoStuckWait
<1>1. Init => WakeInv
  BY WorkerAssumption DEF Init, WakeInv
<1>2. Typed /\ CountInv /\ WakeInv /\ [Next]_vars => WakeInv'
  <2> SUFFICES ASSUME Typed, CountInv, WakeInv, [Next]_vars PROVE WakeInv'
    OBVIOUS
  <2>1. CASE UNCHANGED vars \/ Over
    BY <2>1 DEF Over, vars, WakeInv
  <2>2. CASE \E w \in Worker : Step(w)
    BY <2>2, StepWake
  <2> QED
    BY <2>1, <2>2 DEF Next
<1>3. Typed /\ CountInv /\ WakeInv => NoStuckWait
  <2> SUFFICES ASSUME Typed, CountInv, WakeInv,
                      \A w \in Worker : pc[w] \in {"wait", "exited"},
                      NEW v \in Worker, pc[v] # "exited"
               PROVE  FALSE
    BY DEF NoStuckWait, Returned
  <2>1. count_leaves > 0
    BY DEF WakeInv
  <2>2. Len(jobs) = 0
    BY DEF WakeInv
  <2>3. OpenBranch = {}
    BY DEF OpenBranch, Treating
  <2>4. Cardinality(OpenBranch) = 0
    BY <2>3, FS_EmptySet
  <2> QED
    BY <2>1, <2>2, <2>4 DEF CountInv, CountIsOpenBranches
<1> QED
  BY <1>1, <1>2, <1>3, AlwaysTyped, InitCount, NextCount, PTL DEF Spec

-----------------------------------------------------------------------------
(***************************************************************************)
(* The pool of threads implements WatchAll: a folder or file is recorded   *)
(* once and after the folder it is in, the last thread returns when all is *)
(* recorded, and nothing else can be seen from outside.                    *)
(***************************************************************************)
LEMMA StepWatches ==
    ASSUME Typed, OnceInv, WalkComplete', NEW w \in Worker, Step(w)
    PROVE  [Walk!Next]_<<paths, Returned>>
<1> USE DEF queueVars, serverVars, localVars, Treating, Typed
<1>1. DOMAIN Children = Dir
  BY ChildrenAssumption
<1>2. CASE WatchFolder(w)
  <2>1. path_entry[w] \in Entry /\ Carries(w, path_entry[w])
    BY <1>2 DEF WatchFolder, Entry, Carries, Held
  <2>2. path_entry[w] \notin paths /\ Found(path_entry[w])
    BY <2>1, ComingIsCarried DEF OnceInv, OnePlace
  <2>3. Returned = FALSE /\ Returned' = FALSE
    BY <1>2 DEF WatchFolder, Returned
  <2>4. Walk!Watch(path_entry[w])
    BY <1>1, <1>2, <2>2, <2>3 DEF WatchFolder, Walk!Watch, Found
  <2> QED
    BY <2>1, <2>4 DEF Walk!Next
<1>3. CASE WatchFile(w)
  <2>1. pc[w] = "watchfile" /\ paths' = paths \cup {file[w]}
    BY <1>3 DEF WatchFile
  <2>2. file[w] \in Entry /\ Carries(w, file[w])
    BY <2>1, FileIsItsOwn
  <2>3. file[w] \notin paths /\ Found(file[w])
    BY <2>2, ComingIsCarried DEF OnceInv, OnePlace
  <2>4. Returned = FALSE /\ Returned' = FALSE
    BY <1>3 DEF WatchFile, Returned
  <2>5. Walk!Watch(file[w])
    BY <1>1, <2>1, <2>3, <2>4 DEF Walk!Watch, Found
  <2> QED
    BY <2>2, <2>5 DEF Walk!Next
<1>4. CASE GetNothing(w)
  <2>1. ~Returned /\ paths' = paths
    BY <1>4 DEF GetNothing, Returned
  <2>2. CASE Returned'
    <3>1. paths = Entry
      BY <2>1, <2>2 DEF WalkComplete
    <3>2. Returned' = TRUE
      BY <2>2 DEF Returned
    <3> QED
      BY <2>1, <3>1, <3>2 DEF Walk!Next, Walk!Return
  <2>3. CASE ~Returned'
    BY <2>1, <2>3 DEF Returned
  <2> QED
    BY <2>2, <2>3
<1>5. CASE GetJob(w) \/ GetWait(w) \/ Put(w) \/ Ended(w) \/ ProbeFolder(w) \/ BackupFolder(w)
           \/ ScanFile(w) \/ ProbeFile(w) \/ DeleteFile(w) \/ BackupFile(w)
           \/ ScanDirectory(w) \/ EndScan(w) \/ CloseBranch(w) \/ CheckLeaves(w) \/ RequestFails(w)
  <2>1. paths' = paths /\ pc[w] # "exited" /\ pc'[w] # "exited"
    BY <1>5 DEF GetJob, GetWait, Put, Waiting, Ended, ProbeFolder, BackupFolder, ScanFile,
                ProbeFile, DeleteFile, BackupFile, ScanDirectory, EndScan, CloseBranch,
                CheckLeaves, RequestFails
  <2>2. Returned = FALSE /\ Returned' = FALSE
    BY <2>1 DEF Returned
  <2> QED
    BY <2>1, <2>2
<1> QED
  BY <1>2, <1>3, <1>4, <1>5 DEF Step

\* For whoever calls initialization() the threads, the queue and the counter do
\* what a loop over the tree would do.
THEOREM PoolWatchesAll == Spec => WatchesAll
<1>1. Init => Walk!Init
  BY WorkerAssumption DEF Init, Walk!Init, Returned
<1>2. Typed /\ OnceInv /\ WalkComplete' /\ [Next]_vars => [Walk!Next]_<<paths, Returned>>
  <2> SUFFICES ASSUME Typed, OnceInv, WalkComplete', [Next]_vars
               PROVE  [Walk!Next]_<<paths, Returned>>
    OBVIOUS
  <2>1. CASE UNCHANGED vars \/ Over
    BY <2>1 DEF Over, vars, Returned
  <2>2. CASE \E w \in Worker : Step(w)
    BY <2>2, StepWatches
  <2> QED
    BY <2>1, <2>2 DEF Next
<1> QED
  BY <1>1, <1>2, AlwaysTyped, AlwaysOnce, WalkIsComplete, PTL DEF Spec, WatchesAll, Walk!Spec, Walk!vars

=============================================================================
