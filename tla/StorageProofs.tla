--------------------------- MODULE StorageProofs ---------------------------
(***************************************************************************)
(* What the operators of FileTree and Storage preserve, for every set of   *)
(* paths, every tree and every request: the lemmas on which the proofs     *)
(* about the server and about the whole system rest.                       *)
(***************************************************************************)
EXTENDS Storage, TLAPS

-----------------------------------------------------------------------------
(* Trees.                                                                  *)

\* A regular file or a new folder at a path that has a place and is no folder.
LEMMA PutTree ==
    ASSUME NEW t, IsTree(t), NEW p \in Path, HasPlace(t, p), t[p] # Folder,
           NEW node \in Node
    PROVE  IsTree([t EXCEPT ![p] = node])
<1> DEFINE u == [t EXCEPT ![p] = node]
<1>1. u \in [Path -> Node] /\ u[Root] = Folder
  BY DEF IsTree, HasPlace
<1>2. ASSUME NEW q \in Path \ {Root}, u[q] # Absent PROVE u[Parent[q]] = Folder
  <2>1. Parent[q] \in Path /\ Parent[q] # q
    BY ParentAssumption
  <2>2. CASE q = p
    BY <2>1, <2>2 DEF IsTree, HasPlace
  <2>3. CASE q # p
    <3>1. t[Parent[q]] = Folder
      BY <1>2, <2>3 DEF IsTree
    <3> QED
      BY <2>1, <3>1 DEF IsTree
  <2> QED
    BY <2>2, <2>3
<1> QED
  BY <1>1, <1>2 DEF IsTree

\* Removing paths and all below them; never the root.
LEMMA RemoveAllTree ==
    ASSUME NEW t, IsTree(t), NEW S \in SUBSET Path, Root \notin S
    PROVE  IsTree(RemoveAll(t, S))
<1> DEFINE u == RemoveAll(t, S)
<1>1. u \in [Path -> Node]
  BY DEF RemoveAll, IsTree, Node
<1>2. u[Root] = Folder
  BY ParentAssumption DEF RemoveAll, IsTree
<1>3. ASSUME NEW q \in Path \ {Root}, u[q] # Absent PROVE u[Parent[q]] = Folder
  <2>1. t[q] # Absent /\ \A p \in S : q \notin Within[p]
    BY <1>3 DEF RemoveAll
  <2>2. Parent[q] \in Path /\ t[Parent[q]] = Folder
    BY <2>1, ParentAssumption DEF IsTree
  <2>3. \A p \in S : Parent[q] \notin Within[p]
    BY <2>1, ParentAssumption
  <2> QED
    BY <2>2, <2>3 DEF RemoveAll
<1> QED
  BY <1>1, <1>2, <1>3 DEF IsTree

\* Whatever exists below a path makes the path a folder.
LEMMA AboveIsFolder ==
    ASSUME NEW t, IsTree(t), NEW p \in Path, NEW q \in Within[p] \ {p}, t[q] # Absent
    PROVE  t[p] = Folder
<1> DEFINE S == {r \in Path : (r \in Within[p] \ {p} /\ t[r] # Absent) => t[p] = Folder}
<1>1. Root \in S
  BY ParentAssumption
<1>2. ASSUME NEW r \in Path \ {Root}, Parent[r] \in S, r \in Within[p] \ {p}, t[r] # Absent
      PROVE  t[p] = Folder
  <2>1. Parent[r] \in Within[p] /\ t[Parent[r]] = Folder
    BY <1>2, ParentAssumption DEF IsTree
  <2> QED
    BY <1>2, <2>1, NodeAssumption
<1>3. S = Path
  BY <1>1, <1>2, ReachableAssumption
<1> QED
  BY <1>3, ParentAssumption

\* Removing what is no folder in a tree l leaves alone all else that exists in l.
LEMMA RemoveAllKeeps ==
    ASSUME NEW t, NEW l, IsTree(l), NEW S \in SUBSET Path, NEW p \in Path,
           l[p] # Absent, \A q \in S : q # p /\ l[q] # Folder
    PROVE  RemoveAll(t, S)[p] = t[p]
<1>1. \A q \in S : p \notin Within[q]
  BY AboveIsFolder
<1> QED
  BY <1>1 DEF RemoveAll

LEMMA RemoveAllShrinks ==
    ASSUME NEW t, NEW S, NEW p
    PROVE  Entries(RemoveAll(t, S), p) \subseteq Entries(t, p)
BY DEF RemoveAll, Entries

-----------------------------------------------------------------------------
(* The requests.                                                           *)

\* The result of a request on the tree t: still a tree, one of the answers, and a
\* tree that is not changed unless the answer is OK.
Sound(t, result) ==
    /\ IsTree(result.tree)
    /\ result.status \in Status
    /\ result.digest \in Node
    /\ result.status # "ok" => result.tree = t

LEMMA UnchangedSound ==
    ASSUME NEW t, IsTree(t), NEW status \in Status
    PROVE  Sound(t, Done(t, status))
BY DEF Sound, Done, Node

LEMMA SaveFileSound ==
    ASSUME NEW t, IsTree(t), NEW p \in Path, NEW content \in Content
    PROVE  Sound(t, SaveFile(t, p, content))
<1>1. CASE HasPlace(t, p) /\ t[p] # Folder
  <2>1. IsTree([t EXCEPT ![p] = content])
    BY <1>1, PutTree DEF Node
  <2> QED
    BY <1>1, <2>1 DEF SaveFile, Sound, Done, Node, Status
<1>2. CASE ~(HasPlace(t, p) /\ t[p] # Folder)
  BY <1>2, UnchangedSound DEF SaveFile, Status
<1> QED
  BY <1>1, <1>2

LEMMA NewDirectorySound ==
    ASSUME NEW t, IsTree(t), NEW p \in Path
    PROVE  Sound(t, NewDirectory(t, p))
<1>1. CASE t[p] = Absent /\ HasPlace(t, p)
  <2>1. t[p] # Folder
    BY <1>1, NodeAssumption
  <2>2. IsTree([t EXCEPT ![p] = Folder])
    BY <1>1, <2>1, PutTree DEF Node
  <2> QED
    BY <1>1, <2>1, <2>2 DEF NewDirectory, Sound, Done, Node, Status
<1>2. CASE ~(t[p] = Absent /\ HasPlace(t, p))
  <2>1. PICK status \in Status : NewDirectory(t, p) = Done(t, status)
    BY <1>2 DEF NewDirectory, Status
  <2> QED
    BY <2>1, UnchangedSound
<1> QED
  BY <1>1, <1>2

LEMMA ProbeDirectorySound ==
    ASSUME NEW t, IsTree(t), NEW p \in Path, NEW children
    PROVE  Sound(t, ProbeDirectory(t, p, children))
<1>1. CASE t[p] # Folder
  BY <1>1, UnchangedSound DEF ProbeDirectory, Status
<1>2. CASE t[p] = Folder
  <2>1. IsTree(RemoveAll(t, Entries(t, p) \ children))
    BY RemoveAllTree DEF Entries
  <2> QED
    BY <1>2, <2>1 DEF ProbeDirectory, Sound, Done, Node, Status
<1> QED
  BY <1>1, <1>2

LEMMA GetFileDigestSound ==
    ASSUME NEW t, IsTree(t), NEW p \in Path
    PROVE  Sound(t, GetFileDigest(t, p))
BY UnchangedSound DEF GetFileDigest, Sound, IsTree, Status

LEMMA BackupDeleteSound ==
    ASSUME NEW t, IsTree(t), NEW p \in Path
    PROVE  Sound(t, BackupDelete(t, p))
<1>1. CASE p = Root \/ t[p] = Absent
  <2>1. PICK status \in Status : BackupDelete(t, p) = Done(t, status)
    BY <1>1 DEF BackupDelete, Status
  <2> QED
    BY <2>1, UnchangedSound
<1>2. CASE p # Root /\ t[p] # Absent
  <2>1. IsTree(RemoveAll(t, {p}))
    BY <1>2, RemoveAllTree
  <2> QED
    BY <1>2, <2>1 DEF BackupDelete, Sound, Done, Node, Status
<1> QED
  BY <1>1, <1>2

\* Every request leaves a tree, and one that is not answered with OK leaves the
\* tree it has found.
THEOREM RequestsAreSound ==
    ASSUME NEW t, IsTree(t), NEW req \in Request
    PROVE  Sound(t, HandleRequest(t, req))
<1>1. req.path \in Path /\ req.op \in {"save", "mkdir", "probefolder", "probefile", "delete"}
  BY DEF Request
<1>2. req.op = "save" => req.content \in Content
  BY DEF Request
<1> QED
  BY <1>1, <1>2, SaveFileSound, NewDirectorySound, ProbeDirectorySound, GetFileDigestSound,
     BackupDeleteSound DEF HandleRequest

\* What a request makes of the tree t: nothing, one content, one folder, or less.
Effect(t, u, req) ==
    \/ u = t
    \/ req.op = "save" /\ u = [t EXCEPT ![req.path] = req.content]
    \/ req.op = "mkdir" /\ t[req.path] = Absent /\ u = [t EXCEPT ![req.path] = Folder]
    \/ u \in [Path -> Node] /\ \A p \in Path : u[p] \in {t[p], Absent}

LEMMA RequestEffect ==
    ASSUME NEW t, IsTree(t), NEW req \in Request
    PROVE  Effect(t, HandleRequest(t, req).tree, req)
<1> DEFINE result == HandleRequest(t, req)
<1>1. req.path \in Path
  BY DEF Request
<1>2. ASSUME NEW S, result.tree = RemoveAll(t, S) PROVE Effect(t, result.tree, req)
  BY <1>2 DEF RemoveAll, IsTree, Node, Effect
<1>3. CASE req.op = "save"
  BY <1>3 DEF HandleRequest, SaveFile, Done, Effect
<1>4. CASE req.op = "mkdir"
  <2>1. result = NewDirectory(t, req.path)
    BY <1>4 DEF HandleRequest
  <2>2. CASE t[req.path] = Absent /\ HasPlace(t, req.path)
    <3>1. NewDirectory(t, req.path) = Done([t EXCEPT ![req.path] = Folder], "ok")
      BY <2>2, NodeAssumption DEF NewDirectory
    <3> QED
      BY <1>4, <2>1, <2>2, <3>1 DEF Done, Effect
  <2>3. CASE ~(t[req.path] = Absent /\ HasPlace(t, req.path))
    BY <2>1, <2>3 DEF NewDirectory, Done, Effect
  <2> QED
    BY <2>2, <2>3
<1>5. CASE req.op = "probefolder"
  <2>1. result = ProbeDirectory(t, req.path, req.children)
    BY <1>5 DEF HandleRequest
  <2>2. CASE t[req.path] # Folder
    BY <2>1, <2>2 DEF ProbeDirectory, Done, Effect
  <2>3. CASE t[req.path] = Folder
    <3>1. result.tree = RemoveAll(t, Entries(t, req.path) \ req.children)
      BY <2>1, <2>3 DEF ProbeDirectory, Done
    <3> QED
      BY <1>2, <3>1
  <2> QED
    BY <2>2, <2>3
<1>6. CASE req.op = "probefile"
  BY <1>6 DEF HandleRequest, GetFileDigest, Done, Effect
<1>7. CASE req.op = "delete"
  <2>1. result = BackupDelete(t, req.path)
    BY <1>7 DEF HandleRequest
  <2>2. CASE req.path = Root \/ t[req.path] = Absent
    BY <2>1, <2>2 DEF BackupDelete, Done, Effect
  <2>3. CASE req.path # Root /\ t[req.path] # Absent
    <3>1. result.tree = RemoveAll(t, {req.path})
      BY <2>1, <2>3 DEF BackupDelete, Done
    <3> QED
      BY <1>2, <3>1
  <2> QED
    BY <2>2, <2>3
<1> QED
  BY <1>3, <1>4, <1>5, <1>6, <1>7 DEF Request

=============================================================================
