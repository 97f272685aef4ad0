---------------------- MODULE ConcurrentStorageProofs ----------------------
(***************************************************************************)
(* Proofs about ConcurrentStorage, for every set of paths, every tree, any *)
(* number of handlers and any requests.                                    *)
(***************************************************************************)
EXTENDS ConcurrentStorage, StorageProofs

\* A tree in which some files have been opened and not written yet.
NodeTree(t) ==
    /\ t \in [Path -> Node \cup {Partial}]
    /\ t[Root] = Folder
    /\ \A p \in Path \ {Root} : t[p] # Absent => t[Parent[p]] = Folder

\* Where remove_all and the loop of probe_directory are: at the bottom of the
\* stack the folder of the request, above each folder one that is in it.
Chain(S, req) ==
    /\ req.op \in {"delete", "probefolder"}
    /\ req.op = "delete" => req.path # Root
    /\ S # <<>>
    /\ S[Len(S)].folder = req.path
    /\ \A i \in 1 .. Len(S) : \A q \in S[i].unread : q # Root /\ Parent[q] = S[i].folder
    /\ \A i \in 1 .. Len(S) - 1 : S[i].folder # Root /\ Parent[S[i].folder] = S[i + 1].folder

Descending(h) == Chain(stack[h], request[h])

(***************************************************************************)
(* What a handler has at each place: a request until it is answered, an    *)
(* open file only while it writes, and that is a file, with content or     *)
(* not; folders on its stack only while it removes.                        *)
(***************************************************************************)
Handling(h) ==
    /\ pc[h] = "idle" <=> request[h] = Nothing
    /\ pc[h] = "answer" <=> answer[h] # Nothing
    /\ pc[h] = "write" => request[h].op = "save"
    /\ pc[h] = "read" => request[h].op = "probefile"
    /\ pc[h] = "empty" => Descending(h)
    /\ fd[h] => pc[h] = "write" /\ node[request[h].path] \notin {Absent, Folder}
    /\ pc[h] # "empty" =>
         stack[h] = <<>> \/ (answer[h] # Nothing /\ answer[h].status = "terminated")

StorageTyped ==
    /\ NodeTree(node)
    /\ request \in [Handler -> Request \cup {Nothing}]
    /\ answer \in [Handler -> [status : Status, digest : Node \cup {Partial}] \cup {Nothing}]
    /\ pc \in [Handler -> {"idle", "begin", "write", "read", "empty", "answer"}]
    /\ fd \in [Handler -> BOOLEAN] /\ removed \in [Handler -> BOOLEAN]
    /\ stack \in [Handler -> Seq(Frame)]
    /\ \A h \in Handler : Handling(h)

LEMMA StorageTypedIsTypeOK == StorageTyped => TypeOK
<1> SUFFICES ASSUME StorageTyped PROVE TypeOK
  OBVIOUS
<1>1. IsTree([p \in Path |-> IF node[p] = Partial THEN Absent ELSE node[p]])
  BY ParentAssumption, PartialAssumption, NodeAssumption
  DEF StorageTyped, NodeTree, IsTree, Node
<1>2. \A p \in Path : node[p] = Partial => HasPlace(node, p)
  BY PartialAssumption DEF StorageTyped, NodeTree, HasPlace, Node
<1>3. \A h \in Handler : \A i \in 1 .. Len(stack[h]) : stack[h][i] \in Frame
  BY DEF StorageTyped
<1> QED
  BY <1>1, <1>2, <1>3 DEF StorageTyped, TypeOK

-----------------------------------------------------------------------------
(* What the steps do to the folder and to a stack.                         *)

\* Something that is no folder appears or is written where there is a place and
\* no folder; or a folder appears.
LEMMA PutNode ==
    ASSUME NodeTree(node), NEW p \in Path, HasPlace(node, p), node[p] # Folder,
           NEW new \in Node \cup {Partial}, node' = [node EXCEPT ![p] = new]
    PROVE  NodeTree(node)'
<1>1. \A q \in Path : node'[q] = IF q = p THEN new ELSE node[q]
  BY DEF NodeTree
<1> QED
  BY <1>1, ParentAssumption, NodeAssumption DEF NodeTree, HasPlace

LEMMA UnlinkNode ==
    ASSUME NodeTree(node), NEW p \in Path \ {Root}, Entries(node, p) = {}, Unlink(p)
    PROVE  NodeTree(node)'
<1>1. \A q \in Path : node'[q] = IF q = p THEN Absent ELSE node[q]
  BY DEF NodeTree, Unlink
<1>2. \A q \in Path \ {Root} : Parent[q] = p => node[q] = Absent
  BY DEF Entries
<1> QED
  BY <1>1, <1>2, ParentAssumption DEF NodeTree, Unlink, Node

LEMMA NoEntries ==
    ASSUME NodeTree(node), NEW p \in Path, node[p] # Folder
    PROVE  Entries(node, p) = {}
BY DEF NodeTree, Entries

LEMMA AdvanceFrames ==
    ASSUME NEW S \in Seq(Frame), S # <<>>, NEW f \in Frame
    PROVE  LET T == [S EXCEPT ![1] = f]
           IN /\ T \in Seq(Frame) /\ T # <<>> /\ Len(T) = Len(S)
              /\ T[1] = f
              /\ \A i \in 1 .. Len(S) : i # 1 => T[i] = S[i]
<1>1. 1 \in 1 .. Len(S)
  OBVIOUS
<1> QED
  BY <1>1

LEMMA DescendFrames ==
    ASSUME NEW S \in Seq(Frame), S # <<>>, NEW f \in Frame, NEW g \in Frame
    PROVE  LET T == <<f, g>> \o Tail(S)
           IN /\ T \in Seq(Frame) /\ T # <<>> /\ Len(T) = Len(S) + 1
              /\ T[1] = f /\ T[2] = g
              /\ \A i \in 3 .. Len(T) : i - 1 \in 2 .. Len(S) /\ T[i] = S[i - 1]
OBVIOUS

LEMMA EntriesTyped == ASSUME NEW t, NEW p \in Path
    PROVE  /\ [folder |-> p, unread |-> Entries(t, p)] \in Frame
           /\ \A q \in Entries(t, p) : q # Root /\ Parent[q] = p
BY DEF Frame, Entries

-----------------------------------------------------------------------------
(* Types.                                                                  *)

LEMMA InitTyped == Init => StorageTyped
<1> SUFFICES ASSUME Init PROVE StorageTyped
  OBVIOUS
<1>1. NodeTree(node)
  BY DEF Init, NodeTree, IsTree
<1>2. \A h \in Handler : Handling(h)
  BY DEF Init, Handling
<1>3. stack \in [Handler -> Seq(Frame)]
  BY DEF Init
<1> QED
  BY <1>1, <1>2, <1>3 DEF Init, StorageTyped

\* A step of h leaves the others where they are, with their open files.
LEMMA OthersHandle ==
    ASSUME StorageTyped, NEW h \in Handler, NEW g \in Handler \ {h},
           request'[g] = request[g], answer'[g] = answer[g], pc'[g] = pc[g], stack'[g] = stack[g],
           fd'[g] => fd[g] /\ node'[request[g].path] \notin {Absent, Folder}
    PROVE  Handling(g)'
BY DEF StorageTyped, Handling, Descending

LEMMA BeginTyped ==
    ASSUME StorageTyped, NEW h \in Handler, NEW req \in Request, Begin(h, req)
    PROVE  StorageTyped'
<1>1. /\ request' = [request EXCEPT ![h] = req] /\ pc' = [pc EXCEPT ![h] = "begin"]
      /\ UNCHANGED <<node, answer, fd, stack, removed>> /\ pc[h] = "idle"
  BY DEF Begin, Goto, localVars
<1>2. Handling(h)'
  BY <1>1, NothingAssumption DEF StorageTyped, Handling
<1>3. \A g \in Handler \ {h} : Handling(g)'
  BY <1>1, OthersHandle DEF StorageTyped, Handling
<1> QED
  BY <1>1, <1>2, <1>3 DEF StorageTyped

LEMMA ReplyTyped ==
    ASSUME StorageTyped, Up, NEW h \in Handler, Reply(h)
    PROVE  StorageTyped'
<1>1. /\ request' = [request EXCEPT ![h] = Nothing] /\ answer' = [answer EXCEPT ![h] = Nothing]
      /\ pc' = [pc EXCEPT ![h] = "idle"]
      /\ UNCHANGED <<node, fd, stack, removed>> /\ pc[h] = "answer"
  BY DEF Reply, Goto, localVars
<1>2. Handling(h)'
  BY <1>1 DEF StorageTyped, Handling, Up
<1>3. \A g \in Handler \ {h} : Handling(g)'
  BY <1>1, OthersHandle DEF StorageTyped, Handling
<1> QED
  BY <1>1, <1>2, <1>3 DEF StorageTyped

\* The other handlers' open files keep their names, and are no folders.
FilesKept(h) ==
    /\ fd' \in [Handler -> BOOLEAN]
    /\ \A g \in Handler \ {h} :
         fd'[g] => fd[g] /\ node'[request[g].path] \notin {Absent, Folder}

LEMMA SameFiles ==
    ASSUME StorageTyped, NEW h \in Handler, UNCHANGED <<node, fd>>
    PROVE  FilesKept(h)
BY DEF StorageTyped, Handling, FilesKept

LEMMA UnlinkedFiles ==
    ASSUME StorageTyped, NEW h \in Handler, NEW p, Unlink(p)
    PROVE  FilesKept(h) /\ (fd'[h] => fd[h])
<1>1. /\ node' = [node EXCEPT ![p] = Absent]
      /\ fd' = [g \in Handler |-> fd[g] /\ request[g].path # p]
  BY DEF Unlink
<1>2. ASSUME NEW g \in Handler, fd[g], request[g].path # p
      PROVE  node'[request[g].path] \notin {Absent, Folder}
  <2>1. request[g].path \in Path /\ node[request[g].path] \notin {Absent, Folder}
    BY <1>2 DEF StorageTyped, Handling, Request
  <2> QED
    BY <1>1, <1>2, <2>1 DEF StorageTyped, NodeTree
<1>3. \A g \in Handler : fd'[g] => fd[g] /\ request[g].path # p
  BY <1>1
<1>4. fd' \in [Handler -> BOOLEAN]
  BY <1>1
<1> QED
  BY <1>2, <1>3, <1>4 DEF FilesKept

\* A step that makes an answer, or an exception.
LEMMA AnswerTyped ==
    ASSUME StorageTyped, NEW h \in Handler, request[h] \in Request,
           NEW status \in Status, NEW digest \in Node \cup {Partial}, Answered(h, status, digest),
           NodeTree(node)', UNCHANGED request, removed' \in [Handler -> BOOLEAN],
           FilesKept(h), ~fd'[h], stack' \in [Handler -> Seq(Frame)],
           \A g \in Handler \ {h} : stack'[g] = stack[g],
           stack'[h] = <<>> \/ status = "terminated"
    PROVE  StorageTyped'
<1>1. /\ answer' = [answer EXCEPT ![h] = [status |-> status, digest |-> digest]]
      /\ pc' = [pc EXCEPT ![h] = "answer"]
  BY DEF Answered, Goto
<1>2. [status |-> status, digest |-> digest] \in [status : Status, digest : Node \cup {Partial}]
  OBVIOUS
<1>3. pc'[h] = "answer" /\ answer'[h] # Nothing /\ answer'[h].status = status
  BY <1>1, <1>2, NothingAssumption DEF StorageTyped
<1>4. Handling(h)'
  BY <1>3, NothingAssumption DEF StorageTyped, Handling
<1>5. \A g \in Handler \ {h} : Handling(g)'
  BY <1>1, OthersHandle DEF StorageTyped, FilesKept
<1> QED
  BY <1>1, <1>2, <1>4, <1>5 DEF StorageTyped, FilesKept

\* A step after which h is still in the function.
LEMMA GoOnTyped ==
    ASSUME StorageTyped, NEW h \in Handler, request[h] \in Request, answer[h] = Nothing,
           NEW at \in {"write", "read", "empty"}, pc' = [pc EXCEPT ![h] = at],
           NodeTree(node)', UNCHANGED <<request, answer>>, removed' \in [Handler -> BOOLEAN],
           FilesKept(h), stack' \in [Handler -> Seq(Frame)],
           \A g \in Handler \ {h} : stack'[g] = stack[g],
           at = "write" => request[h].op = "save",
           at = "read" => request[h].op = "probefile",
           IF at = "empty" THEN Descending(h)' ELSE stack'[h] = <<>>,
           fd'[h] => at = "write" /\ node'[request[h].path] \notin {Absent, Folder}
    PROVE  StorageTyped'
<1>1. pc'[h] = at
  BY DEF StorageTyped
<1>2. Handling(h)'
  BY <1>1, NothingAssumption DEF StorageTyped, Handling
<1>3. \A g \in Handler \ {h} : Handling(g)'
  BY OthersHandle DEF StorageTyped, FilesKept
<1> QED
  BY <1>2, <1>3 DEF StorageTyped, FilesKept

LEMMA OpenForWritingTyped ==
    ASSUME StorageTyped, NEW h \in Handler, OpenForWriting(h)
    PROVE  StorageTyped'
<1> DEFINE p == request[h].path
<1>1. /\ request[h] \in Request /\ request[h].op = "save" /\ p \in Path
      /\ pc[h] = "begin" /\ stack[h] = <<>> /\ answer[h] = Nothing /\ ~fd[h]
      /\ UNCHANGED <<request, stack, removed>>
  BY DEF OpenForWriting, At, StorageTyped, Handling, Request
<1>2. CASE HasPlace(node, p) /\ node[p] # Folder
  <2>1. /\ node' = [node EXCEPT ![p] = Partial] /\ fd' = [fd EXCEPT ![h] = TRUE]
        /\ pc' = [pc EXCEPT ![h] = "write"] /\ UNCHANGED answer
    BY <1>2 DEF OpenForWriting, Goto
  <2>2. NodeTree(node)'
    BY <1>1, <1>2, <2>1, PutNode DEF StorageTyped
  <2>3. \A q \in Path : node'[q] = IF q = p THEN Partial ELSE node[q]
    BY <2>1 DEF StorageTyped, NodeTree
  <2>4. FilesKept(h) /\ node'[p] \notin {Absent, Folder}
    BY <1>1, <2>1, <2>3, PartialAssumption
    DEF StorageTyped, Handling, FilesKept, Request, Node
  <2> QED
    BY <1>1, <2>1, <2>2, <2>4, GoOnTyped DEF StorageTyped
<1>3. CASE ~(HasPlace(node, p) /\ node[p] # Folder)
  <2>1. Answered(h, "server_error", Absent) /\ UNCHANGED <<node, fd>>
    BY <1>3 DEF OpenForWriting, Finish
  <2> QED
    BY <1>1, <2>1, SameFiles, AnswerTyped DEF StorageTyped, Status, Node
<1> QED
  BY <1>2, <1>3

LEMMA WriteAndCloseTyped ==
    ASSUME StorageTyped, NEW h \in Handler, WriteAndClose(h)
    PROVE  StorageTyped'
<1> DEFINE p == request[h].path
<1>1. /\ request[h] \in Request /\ p \in Path /\ request[h].content \in Content
      /\ pc[h] = "write" /\ stack[h] = <<>>
      /\ fd' = [fd EXCEPT ![h] = FALSE] /\ Answered(h, "ok", Absent)
      /\ UNCHANGED <<request, stack, removed>>
  BY DEF WriteAndClose, At, Finish, StorageTyped, Handling, Request
<1>2. node' = node \/ (fd[h] /\ node' = [node EXCEPT ![p] = request[h].content])
  BY DEF WriteAndClose
<1>3. fd[h] => HasPlace(node, p) /\ node[p] # Folder
  BY <1>1 DEF StorageTyped, Handling, NodeTree, HasPlace
<1>4. NodeTree(node)'
  BY <1>1, <1>2, <1>3, PutNode DEF StorageTyped, NodeTree, Node
<1>5. FilesKept(h) /\ ~fd'[h]
  <2>1. \A q \in Path : node'[q] = node[q] \/ node'[q] \in Content
    BY <1>1, <1>2 DEF StorageTyped, NodeTree
  <2>2. ~fd'[h] /\ fd' \in [Handler -> BOOLEAN] /\ \A g \in Handler \ {h} : fd'[g] = fd[g]
    BY <1>1 DEF StorageTyped
  <2>3. ASSUME NEW g \in Handler, fd[g] PROVE node'[request[g].path] \notin {Absent, Folder}
    <3>1. request[g].path \in Path /\ node[request[g].path] \notin {Absent, Folder}
      BY <2>3 DEF StorageTyped, Handling, Request
    <3> QED
      BY <2>1, <3>1, NodeAssumption
  <2> QED
    BY <2>2, <2>3 DEF FilesKept
<1> QED
  BY <1>1, <1>4, <1>5, AnswerTyped DEF StorageTyped, Status, Node

LEMMA CreateDirectoryTyped ==
    ASSUME StorageTyped, NEW h \in Handler, CreateDirectory(h)
    PROVE  StorageTyped'
<1> DEFINE p == request[h].path
<1>1. /\ request[h] \in Request /\ p \in Path
      /\ pc[h] = "begin" /\ stack[h] = <<>> /\ ~fd[h]
      /\ UNCHANGED <<request, fd, stack, removed>>
  BY DEF CreateDirectory, At, StorageTyped, Handling, Request, localVars
<1>2. PICK status \in Status : Answered(h, status, Absent)
  BY DEF CreateDirectory, Finish, Status
<1>3. \/ node' = node
      \/ node[p] = Absent /\ HasPlace(node, p) /\ node' = [node EXCEPT ![p] = Folder]
  BY NodeAssumption DEF CreateDirectory
<1>4. NodeTree(node)'
  BY <1>1, <1>3, PutNode, NodeAssumption DEF StorageTyped, NodeTree, Node
<1>5. FilesKept(h)
  <2>1. \A q \in Path : node'[q] = node[q] \/ node[q] = Absent
    BY <1>1, <1>3 DEF StorageTyped, NodeTree
  <2> QED
    BY <1>1, <2>1 DEF StorageTyped, Handling, FilesKept, Request
<1> QED
  BY <1>1, <1>2, <1>4, <1>5, AnswerTyped DEF StorageTyped, Node

LEMMA CheckFileTyped ==
    ASSUME StorageTyped, NEW h \in Handler, CheckFile(h)
    PROVE  StorageTyped'
<1>1. /\ request[h] \in Request /\ request[h].op = "probefile"
      /\ pc[h] = "begin" /\ stack[h] = <<>> /\ ~fd[h] /\ answer[h] = Nothing
      /\ UNCHANGED <<node, request, fd, stack, removed>>
  BY DEF CheckFile, At, StorageTyped, Handling, Request, localVars
<1>2. \/ pc' = [pc EXCEPT ![h] = "read"] /\ UNCHANGED answer
      \/ Answered(h, "not_found", Absent)
  BY DEF CheckFile, Finish, Goto
<1> QED
  BY <1>1, <1>2, SameFiles, AnswerTyped, GoOnTyped DEF StorageTyped, Status, Node

LEMMA ReadFileTyped ==
    ASSUME StorageTyped, NEW h \in Handler, ReadFile(h)
    PROVE  StorageTyped'
<1>1. /\ request[h] \in Request /\ request[h].path \in Path
      /\ pc[h] = "read" /\ stack[h] = <<>> /\ ~fd[h]
      /\ UNCHANGED <<node, request, fd, stack, removed>>
  BY DEF ReadFile, At, StorageTyped, Handling, Request, localVars
<1>2. \E status \in Status, digest \in Node \cup {Partial} : Answered(h, status, digest)
  BY <1>1 DEF ReadFile, Finish, StorageTyped, NodeTree, Status, Node
<1> QED
  BY <1>1, <1>2, SameFiles, AnswerTyped DEF StorageTyped

\* The first folder is put on the stack.
LEMMA PushTyped ==
    ASSUME StorageTyped, NEW h \in Handler, request[h] \in Request, stack[h] = <<>>,
           request[h].op \in {"delete", "probefolder"},
           request[h].op = "delete" => request[h].path # Root,
           Push(h, request[h].path), UNCHANGED request
    PROVE  /\ stack' \in [Handler -> Seq(Frame)]
           /\ \A g \in Handler \ {h} : stack'[g] = stack[g]
           /\ stack'[h] = <<[folder |-> request[h].path,
                             unread |-> Entries(node, request[h].path)]>>
           /\ Descending(h)'
<1> DEFINE f == [folder |-> request[h].path, unread |-> Entries(node, request[h].path)]
<1>1. stack' = [stack EXCEPT ![h] = <<f>> \o <<>>]
  BY DEF Push
<1>2. f \in Frame /\ \A q \in f.unread : q # Root /\ Parent[q] = f.folder
  BY EntriesTyped DEF Request
<1> HIDE DEF f
<1>3. <<f>> \o <<>> = <<f>> /\ <<f>> \in Seq(Frame) /\ Len(<<f>>) = 1 /\ <<f>>[1] = f
  BY <1>2
<1>4. /\ stack' \in [Handler -> Seq(Frame)] /\ stack'[h] = <<f>>
      /\ \A g \in Handler \ {h} : stack'[g] = stack[g]
  BY <1>1, <1>3 DEF StorageTyped
<1>5. f.folder = request[h].path
  BY DEF f
<1>6. Descending(h)'
  <2>1. \A i \in 1 .. Len(<<f>>) : <<f>>[i] = f
    BY <1>3
  <2>2. \A i \in 1 .. Len(<<f>>) - 1 : FALSE
    BY <1>3
  <2> QED
    BY <1>2, <1>3, <1>4, <1>5, <2>1, <2>2 DEF Descending, Chain
<1> QED
  BY <1>4, <1>6 DEF f

LEMMA OpenProbedTyped ==
    ASSUME StorageTyped, NEW h \in Handler, OpenProbed(h)
    PROVE  StorageTyped'
<1>1. /\ request[h] \in Request /\ request[h].op = "probefolder"
      /\ pc[h] = "begin" /\ stack[h] = <<>> /\ ~fd[h] /\ answer[h] = Nothing
      /\ UNCHANGED <<node, request, fd, removed>>
  BY DEF OpenProbed, At, StorageTyped, Handling
<1>2. \/ Push(h, request[h].path) /\ pc' = [pc EXCEPT ![h] = "empty"] /\ UNCHANGED answer
      \/ Answered(h, "not_found", Absent) /\ UNCHANGED stack
  BY DEF OpenProbed, Finish, Goto
<1> QED
  BY <1>1, <1>2, SameFiles, PushTyped, AnswerTyped, GoOnTyped DEF StorageTyped, Status, Node

LEMMA OpenDeletedTyped ==
    ASSUME StorageTyped, NEW h \in Handler, OpenDeleted(h)
    PROVE  StorageTyped'
<1> DEFINE p == request[h].path
<1>1. /\ request[h] \in Request /\ request[h].op = "delete" /\ p \in Path
      /\ pc[h] = "begin" /\ stack[h] = <<>> /\ ~fd[h] /\ answer[h] = Nothing
      /\ UNCHANGED request /\ removed' \in [Handler -> BOOLEAN]
  BY DEF OpenDeleted, At, StorageTyped, Handling, Request
<1>2. CASE UNCHANGED <<node, fd, stack>>
            /\ \E status \in {"bad_request", "not_found"} : Finish(h, status)
  <2>1. PICK status \in Status : Answered(h, status, Absent)
    BY <1>2 DEF Finish, Status
  <2> QED
    BY <1>1, <1>2, <2>1, SameFiles, AnswerTyped DEF StorageTyped, Node
<1>3. CASE IsRegularFile(p) /\ Finish(h, "ok") /\ Unlink(p) /\ UNCHANGED stack
  <2>1. p # Root /\ node[p] # Folder
    BY <1>3, NodeAssumption, PartialAssumption
    DEF StorageTyped, NodeTree, IsRegularFile, Node
  <2>2. NodeTree(node)'
    BY <1>1, <1>3, <2>1, NoEntries, UnlinkNode DEF StorageTyped
  <2> QED
    BY <1>1, <1>3, <2>2, UnlinkedFiles, AnswerTyped DEF StorageTyped, Finish, Status, Node
<1>4. CASE /\ p # Root /\ Push(h, p) /\ Goto(h, "empty")
           /\ UNCHANGED <<node, fd, answer>>
  BY <1>1, <1>4, SameFiles, PushTyped, GoOnTyped DEF StorageTyped, Goto
<1> QED
  BY <1>2, <1>3, <1>4 DEF OpenDeleted

\* The iterator of the innermost folder has returned q.
LEMMA AdvanceTyped ==
    ASSUME StorageTyped, NEW h \in Handler, request[h] \in Request, Descending(h),
           NEW q, Advance(h, q), UNCHANGED request
    PROVE  /\ stack' \in [Handler -> Seq(Frame)]
           /\ \A g \in Handler \ {h} : stack'[g] = stack[g]
           /\ Len(stack'[h]) = Len(stack[h])
           /\ stack'[h][1] = [folder |-> Top(h).folder, unread |-> Top(h).unread \ {q}]
           /\ \A i \in 1 .. Len(stack[h]) : i # 1 => stack'[h][i] = stack[h][i]
           /\ Descending(h)'
<1> DEFINE S == stack[h]
           f == [folder |-> Top(h).folder, unread |-> Top(h).unread \ {q}]
           T == [S EXCEPT ![1] = f]
<1>1. S \in Seq(Frame) /\ S # <<>> /\ Chain(S, request[h]) /\ Top(h) = S[1]
  BY DEF StorageTyped, Descending, Chain, Top
<1>2. 1 \in 1 .. Len(S) /\ Len(S) \in 1 .. Len(S) /\ S[1] \in Frame
  BY <1>1
<1>3. [S[1] EXCEPT !.unread = @ \ {q}] = f
  <2>1. ASSUME NEW d \in Frame, NEW u PROVE [d EXCEPT !.unread = u] = [folder |-> d.folder, unread |-> u]
    BY DEF Frame
  <2> QED
    BY <1>1, <1>2, <2>1
<1>4. stack' = [stack EXCEPT ![h] = T]
  BY <1>3 DEF Advance
<1>5. f \in Frame /\ f.folder = S[1].folder /\ f.unread \subseteq S[1].unread
  BY <1>1, <1>2 DEF Frame
<1> HIDE DEF f
<1>6. /\ T \in Seq(Frame) /\ T # <<>> /\ Len(T) = Len(S) /\ T[1] = f
      /\ \A i \in 1 .. Len(S) : i # 1 => T[i] = S[i]
  BY <1>1, <1>5, AdvanceFrames
<1> HIDE DEF T
<1>7. /\ stack' \in [Handler -> Seq(Frame)] /\ stack'[h] = T
      /\ \A g \in Handler \ {h} : stack'[g] = stack[g]
  BY <1>4, <1>6 DEF StorageTyped
<1>8. \A i \in 1 .. Len(S) : T[i].folder = S[i].folder /\ T[i].unread \subseteq S[i].unread
  BY <1>5, <1>6
<1>9. Chain(T, request[h])
  <2>1. T[Len(T)].folder = S[Len(S)].folder
    BY <1>2, <1>6, <1>8
  <2>2. ASSUME NEW i \in 1 .. Len(T), NEW r \in T[i].unread PROVE r # Root /\ Parent[r] = T[i].folder
    BY <1>1, <1>6, <1>8, <2>2 DEF Chain
  <2>3. ASSUME NEW i \in 1 .. Len(T) - 1
        PROVE  T[i].folder # Root /\ Parent[T[i].folder] = T[i + 1].folder
    <3>1. i \in 1 .. Len(S) - 1 /\ i \in 1 .. Len(S) /\ i + 1 \in 1 .. Len(S)
      BY <1>1, <1>6
    <3>2. T[i].folder = S[i].folder /\ T[i + 1].folder = S[i + 1].folder
      BY <1>8, <3>1
    <3> QED
      BY <1>1, <3>1, <3>2 DEF Chain
  <2> QED
    BY <1>1, <1>6, <2>1, <2>2, <2>3 DEF Chain
<1> QED
  BY <1>6, <1>7, <1>9 DEF f, Descending

\* A step that leaves h where it is, in its loop.
LEMMA LoopTyped ==
    ASSUME StorageTyped, NEW h \in Handler, pc[h] = "empty",
           NodeTree(node)', UNCHANGED <<request, answer, pc>>, removed' \in [Handler -> BOOLEAN],
           FilesKept(h), ~fd'[h], stack' \in [Handler -> Seq(Frame)],
           \A g \in Handler \ {h} : stack'[g] = stack[g], Descending(h)'
    PROVE  StorageTyped'
<1>1. pc' = [pc EXCEPT ![h] = "empty"] /\ request[h] \in Request /\ answer[h] = Nothing
  BY DEF StorageTyped, Handling
<1> QED
  BY <1>1, GoOnTyped

LEMMA KeepTyped ==
    ASSUME StorageTyped, NEW h \in Handler, Keep(h)
    PROVE  StorageTyped'
<1>1. /\ pc[h] = "empty" /\ request[h] \in Request /\ Descending(h) /\ ~fd[h]
      /\ UNCHANGED <<node, request, answer, pc, fd, removed>>
      /\ \E q \in Top(h).unread : Advance(h, q)
  BY DEF Keep, StorageTyped, Handling
<1> QED
  BY <1>1, SameFiles, AdvanceTyped, LoopTyped DEF StorageTyped

\* What the iterators return is in the folders they are in, and never the root.
LEMMA DoomedTyped ==
    ASSUME StorageTyped, NEW h \in Handler, pc[h] = "empty", NEW q \in Doomed(h)
    PROVE  /\ q \in Path \ {Root} /\ q \in Top(h).unread /\ Parent[q] = Top(h).folder
           /\ Top(h) \in Frame
<1>1. stack[h] \in Seq(Frame) /\ stack[h] # <<>> /\ Chain(stack[h], request[h])
  BY DEF StorageTyped, Handling, Descending, Chain
<1>2. 1 \in 1 .. Len(stack[h]) /\ Top(h) = stack[h][1] /\ Top(h) \in Frame
  BY <1>1 DEF Top
<1>3. q \in Top(h).unread
  BY DEF Doomed
<1> QED
  BY <1>1, <1>2, <1>3 DEF Chain, Frame

LEMMA DescendTyped ==
    ASSUME StorageTyped, NEW h \in Handler, pc[h] = "empty", NEW q \in Doomed(h), UNCHANGED request,
           stack' = [stack EXCEPT ![h] = <<[folder |-> q, unread |-> Entries(node, q)],
                                           [Top(h) EXCEPT !.unread = @ \ {q}]>> \o Tail(@)]
    PROVE  /\ stack' \in [Handler -> Seq(Frame)]
           /\ \A g \in Handler \ {h} : stack'[g] = stack[g]
           /\ Len(stack'[h]) = Len(stack[h]) + 1
           /\ stack'[h][1] = [folder |-> q, unread |-> Entries(node, q)]
           /\ stack'[h][2] = [folder |-> Top(h).folder, unread |-> Top(h).unread \ {q}]
           /\ \A i \in 3 .. Len(stack'[h]) :
                i - 1 \in 2 .. Len(stack[h]) /\ stack'[h][i] = stack[h][i - 1]
           /\ Descending(h)'
<1> DEFINE S == stack[h]
           f == [folder |-> q, unread |-> Entries(node, q)]
           g == [folder |-> Top(h).folder, unread |-> Top(h).unread \ {q}]
           T == <<f, g>> \o Tail(S)
<1>1. S \in Seq(Frame) /\ S # <<>> /\ Chain(S, request[h]) /\ Top(h) = S[1]
  BY DEF StorageTyped, Handling, Descending, Chain, Top
<1>2. /\ q \in Path \ {Root} /\ Parent[q] = S[1].folder /\ Top(h) \in Frame
  BY <1>1, DoomedTyped
<1>3. f \in Frame /\ g \in Frame /\ \A r \in f.unread : r # Root /\ Parent[r] = q
  BY <1>2, EntriesTyped DEF Frame
<1>4. [Top(h) EXCEPT !.unread = @ \ {q}] = g
  <2>1. ASSUME NEW d \in Frame, NEW u PROVE [d EXCEPT !.unread = u] = [folder |-> d.folder, unread |-> u]
    BY DEF Frame
  <2> QED
    BY <1>2, <2>1
<1>5. f.folder = q /\ g.folder = S[1].folder /\ g.unread \subseteq S[1].unread
  BY <1>1
<1>6. stack' = [stack EXCEPT ![h] = T]
  BY <1>4
<1> HIDE DEF f, g
<1>7. /\ T \in Seq(Frame) /\ T # <<>> /\ Len(T) = Len(S) + 1
      /\ T[1] = f /\ T[2] = g
      /\ \A i \in 3 .. Len(T) : i - 1 \in 2 .. Len(S) /\ T[i] = S[i - 1]
  BY <1>1, <1>3, DescendFrames
<1> HIDE DEF T
<1>8. /\ stack' \in [Handler -> Seq(Frame)] /\ stack'[h] = T
      /\ \A k \in Handler \ {h} : stack'[k] = stack[k]
  BY <1>6, <1>7 DEF StorageTyped
<1>9. \A i \in 2 .. Len(T) : /\ i - 1 \in 1 .. Len(S) /\ T[i].folder = S[i - 1].folder
                             /\ T[i].unread \subseteq S[i - 1].unread
  BY <1>1, <1>5, <1>7
<1>10. Chain(T, request[h])
  <2>1. T[Len(T)].folder = S[Len(S)].folder
    BY <1>1, <1>7, <1>9
  <2>2. ASSUME NEW i \in 1 .. Len(T), NEW r \in T[i].unread PROVE r # Root /\ Parent[r] = T[i].folder
    <3>1. CASE i = 1
      BY <1>3, <1>5, <1>7, <3>1, <2>2
    <3>2. CASE i # 1
      <4>1. i \in 2 .. Len(T)
        BY <1>7, <3>2
      <4>2. i - 1 \in 1 .. Len(S) /\ r \in S[i - 1].unread
        BY <1>9, <2>2, <4>1
      <4>3. r # Root /\ Parent[r] = S[i - 1].folder
        BY <1>1, <4>2 DEF Chain
      <4> QED
        BY <1>9, <4>1, <4>3
    <3> QED
      BY <3>1, <3>2
  <2>3. ASSUME NEW i \in 1 .. Len(T) - 1
        PROVE  T[i].folder # Root /\ Parent[T[i].folder] = T[i + 1].folder
    <3>1. CASE i = 1
      BY <1>2, <1>5, <1>7, <3>1
    <3>2. CASE i # 1
      <4>1. i \in 2 .. Len(T) /\ i + 1 \in 2 .. Len(T) /\ i - 1 \in 1 .. Len(S) - 1 /\ (i + 1) - 1 = (i - 1) + 1
        BY <1>1, <1>7, <3>2
      <4>2. T[i].folder = S[i - 1].folder /\ T[i + 1].folder = S[(i - 1) + 1].folder
        BY <1>9, <4>1
      <4> QED
        BY <1>1, <4>1, <4>2 DEF Chain
    <3> QED
      BY <3>1, <3>2
  <2> QED
    BY <1>1, <1>7, <2>1, <2>2, <2>3 DEF Chain
<1> QED
  BY <1>7, <1>8, <1>10 DEF f, g, Descending

LEMMA RemoveEntryTyped ==
    ASSUME StorageTyped, NEW h \in Handler, RemoveEntry(h)
    PROVE  StorageTyped'
<1>1. /\ pc[h] = "empty" /\ request[h] \in Request /\ Descending(h) /\ ~fd[h]
      /\ UNCHANGED <<request, answer, pc>>
  BY DEF RemoveEntry, StorageTyped, Handling
<1>2. PICK q \in Doomed(h) :
        IF node[q] = Folder
        THEN /\ stack' = [stack EXCEPT ![h] =
                    <<[folder |-> q, unread |-> Entries(node, q)],
                      [Top(h) EXCEPT !.unread = @ \ {q}]>> \o Tail(@)]
             /\ UNCHANGED <<node, fd, removed>>
        ELSE /\ Advance(h, q)
             /\ Unlink(q)
             /\ removed' = [removed EXCEPT ![h] = @ \/ node[q] # Absent]
  BY DEF RemoveEntry
<1>3. CASE node[q] = Folder
  <2>1. /\ stack' = [stack EXCEPT ![h] = <<[folder |-> q, unread |-> Entries(node, q)],
                                           [Top(h) EXCEPT !.unread = @ \ {q}]>> \o Tail(@)]
        /\ UNCHANGED <<node, fd, removed>>
    BY <1>2, <1>3
  <2>2. /\ stack' \in [Handler -> Seq(Frame)]
        /\ \A g \in Handler \ {h} : stack'[g] = stack[g]
        /\ Descending(h)'
    BY <1>1, <2>1, DescendTyped
  <2> QED
    BY <1>1, <2>1, <2>2, SameFiles, LoopTyped DEF StorageTyped
<1>4. CASE node[q] # Folder
  <2>1. q \in Path \ {Root} /\ Advance(h, q) /\ Unlink(q)
    BY <1>1, <1>2, <1>4, DoomedTyped
  <2>2. NodeTree(node)'
    BY <1>4, <2>1, NoEntries, UnlinkNode DEF StorageTyped
  <2>3. removed' \in [Handler -> BOOLEAN]
    BY <1>2, <1>4 DEF StorageTyped
  <2> QED
    BY <1>1, <2>1, <2>2, <2>3, UnlinkedFiles, AdvanceTyped, LoopTyped
<1> QED
  BY <1>3, <1>4

LEMMA TailFrames ==
    ASSUME NEW S \in Seq(Frame), S # <<>>
    PROVE  LET T == Tail(S)
           IN /\ T \in Seq(Frame) /\ Len(T) = Len(S) - 1
              /\ \A i \in 1 .. Len(T) : i + 1 \in 1 .. Len(S) /\ T[i] = S[i + 1]
OBVIOUS

\* remove(folder): out of the innermost folder, which is empty now.
LEMMA RemoveFolderTyped ==
    ASSUME StorageTyped, NEW h \in Handler, RemoveFolder(h)
    PROVE  StorageTyped'
<1> DEFINE S == stack[h]
           p == Top(h).folder
           T == Tail(S)
<1>1. /\ pc[h] = "empty" /\ request[h] \in Request /\ ~fd[h]
      /\ UNCHANGED request /\ ~Probing(h)
  BY DEF RemoveFolder, StorageTyped, Handling
<1>2. S \in Seq(Frame) /\ S # <<>> /\ Chain(S, request[h]) /\ Top(h) = S[1]
  BY <1>1 DEF StorageTyped, Handling, Descending, Chain, Top
<1>3. 1 \in 1 .. Len(S) /\ S[1] \in Frame /\ Len(S) \in Nat \ {0}
  BY <1>2
<1>4. p \in Path \ {Root}
  <2>1. p \in Path
    BY <1>2, <1>3 DEF Frame
  <2>2. CASE Len(S) = 1
    BY <1>1, <1>2, <2>1, <2>2 DEF Chain, Probing
  <2>3. CASE Len(S) # 1
    <3>1. 1 \in 1 .. Len(S) - 1
      <4>1. \A n \in Nat : n # 0 /\ n # 1 => 1 \in 1 .. n - 1
        OBVIOUS
      <4> QED
        BY <1>3, <2>3, <4>1
    <3> QED
      BY <1>2, <2>1, <3>1 DEF Chain
  <2> QED
    BY <2>2, <2>3
<1>5. CASE Entries(node, p) # {}
  <2>1. Answered(h, "terminated", Absent) /\ UNCHANGED <<node, fd, stack, removed>>
    BY <1>5 DEF RemoveFolder, Finish
  <2> QED
    BY <1>1, <2>1, SameFiles, AnswerTyped DEF StorageTyped, Status, Node
<1>6. CASE Entries(node, p) = {}
  <2>1. /\ Unlink(p) /\ stack' = [stack EXCEPT ![h] = T]
        /\ removed' = [removed EXCEPT ![h] = removed[h] \/ node[p] # Absent]
    BY <1>6 DEF RemoveFolder
  <2>2. NodeTree(node)' /\ FilesKept(h) /\ ~fd'[h] /\ removed' \in [Handler -> BOOLEAN]
    BY <1>1, <1>4, <1>6, <2>1, UnlinkNode, UnlinkedFiles DEF StorageTyped
  <2>3. /\ T \in Seq(Frame) /\ Len(T) = Len(S) - 1
        /\ \A i \in 1 .. Len(T) : i + 1 \in 1 .. Len(S) /\ T[i] = S[i + 1]
    BY <1>2, TailFrames
  <2> HIDE DEF T, S
  <2>4. /\ stack' \in [Handler -> Seq(Frame)] /\ stack'[h] = T
        /\ \A g \in Handler \ {h} : stack'[g] = stack[g]
    BY <2>1, <2>3 DEF StorageTyped
  <2>5. CASE Len(S) = 1
    <3>1. Answered(h, "ok", Absent) \/ Answered(h, "not_found", Absent)
      BY <1>6, <2>5 DEF RemoveFolder, Finish, S
    <3>2. T = <<>>
      BY <2>3, <2>5
    <3> QED
      BY <1>1, <2>2, <2>4, <3>1, <3>2, AnswerTyped DEF Status, Node
  <2>6. CASE Len(S) # 1
    <3>1. UNCHANGED <<pc, answer>>
      BY <1>6, <2>6 DEF RemoveFolder, S
    <3>2. T # <<>> /\ Len(T) \in 1 .. Len(T) /\ Len(T) + 1 = Len(S)
      BY <1>2, <2>3, <2>6
    <3>3. T[Len(T)].folder = S[Len(S)].folder
      BY <2>3, <3>2
    <3>4. ASSUME NEW i \in 1 .. Len(T), NEW r \in T[i].unread PROVE r # Root /\ Parent[r] = T[i].folder
      BY <1>2, <2>3, <3>4, SMTT(30) DEF Chain
    <3>5. ASSUME NEW i \in 1 .. Len(T) - 1
          PROVE  T[i].folder # Root /\ Parent[T[i].folder] = T[i + 1].folder
      <4>1. i \in 1 .. Len(T) /\ i + 1 \in 1 .. Len(T) /\ i + 1 \in 1 .. Len(S) - 1
        BY <1>2, <2>3
      <4>2. T[i].folder = S[i + 1].folder /\ T[i + 1].folder = S[(i + 1) + 1].folder
        BY <2>3, <4>1
      <4> QED
        BY <1>2, <4>1, <4>2 DEF Chain
    <3>6. Chain(T, request[h])
      BY <1>2, <3>2, <3>3, <3>4, <3>5 DEF Chain
    <3> QED
      BY <1>1, <2>2, <2>4, <3>1, <3>6, LoopTyped DEF Descending
  <2> QED
    BY <2>5, <2>6
<1> QED
  BY <1>5, <1>6

LEMMA EndProbeTyped ==
    ASSUME StorageTyped, NEW h \in Handler, EndProbe(h)
    PROVE  StorageTyped'
<1>1. /\ request[h] \in Request /\ ~fd[h] /\ UNCHANGED <<node, request, fd, removed>>
      /\ Answered(h, "ok", Absent) /\ stack' = [stack EXCEPT ![h] = <<>>]
  BY DEF EndProbe, Finish, StorageTyped, Handling
<1>2. /\ stack' \in [Handler -> Seq(Frame)] /\ stack'[h] = <<>>
      /\ \A g \in Handler \ {h} : stack'[g] = stack[g]
  BY <1>1 DEF StorageTyped
<1> QED
  BY <1>1, <1>2, SameFiles, AnswerTyped DEF StorageTyped, Status, Node

LEMMA NextTyped == StorageTyped /\ [Next]_vars => StorageTyped'
<1> SUFFICES ASSUME StorageTyped, [Next]_vars PROVE StorageTyped'
  OBVIOUS
<1>1. CASE UNCHANGED vars
  BY <1>1 DEF vars, StorageTyped, NodeTree, Handling, Descending
<1>2. ASSUME Up, NEW h \in Handler, Step(h) PROVE StorageTyped'
  BY <1>2, ReplyTyped, OpenForWritingTyped, WriteAndCloseTyped, CreateDirectoryTyped,
     CheckFileTyped, ReadFileTyped, OpenProbedTyped, OpenDeletedTyped, KeepTyped,
     RemoveEntryTyped, RemoveFolderTyped, EndProbeTyped
  DEF Step
<1>3. ASSUME NEW h \in Handler, NEW req \in Sensible, Begin(h, req) PROVE StorageTyped'
  BY <1>3, BeginTyped DEF Sensible
<1> QED
  BY <1>1, <1>2, <1>3 DEF Next, Terminated

\* Between any two calls of the file system, whatever the threads are doing,
\* everything that exists is in a folder that exists, and an opened file that
\* is not written yet too; every handler has a request and an answer of the API.
THEOREM TypeCorrect == Spec => []TypeOK
<1>1. Init => StorageTyped
  BY InitTyped
<1>2. StorageTyped /\ [Next]_vars => StorageTyped'
  BY NextTyped
<1>3. StorageTyped => TypeOK
  BY StorageTypedIsTypeOK
<1> QED
  BY <1>1, <1>2, <1>3, PTL DEF Spec

-----------------------------------------------------------------------------
(***************************************************************************)
(* Requests under way are apart, if only such requests may be, and writes  *)
(* succeed.  Then nobody changes what another one has found, and the       *)
(* invariant says what each handler knows of the folder: the file it has   *)
(* open is still there, and not written; what it is about to read is a     *)
(* file; the folders on its stack are its own to remove, and what is in    *)
(* them it knows.                                                          *)
(***************************************************************************)
OnlyApart ==
    /\ \A a, b \in Request : Together(a, b) => Apart(a, b)
    /\ DiskFull = FALSE

AllApart ==
    \A g, h \in Handler :
        (g # h /\ request[g] # Nothing /\ request[h] # Nothing) => Apart(request[g], request[h])

\* Whatever is not written yet is going to be.
AllWritten == \A p \in Path : node[p] = Partial => \E h \in Handler : fd[h] /\ request[h].path = p

\* The folders remove_all is in are among those that the request removes.
Owned(S, req) ==
    \A i \in 1 .. Len(S) : (i # Len(S) \/ req.op = "delete") => S[i].folder \in Changes(req)

\* What is in a folder on the stack has not been returned yet, or is being
\* removed, or is kept.
Covered(S, req, n) ==
    \A i \in 1 .. Len(S) : \A q \in Entries(n, S[i].folder) :
        \/ q \in S[i].unread
        \/ i # 1 /\ q = S[i - 1].folder
        \/ i = Len(S) /\ req.op = "probefolder" /\ q \in req.children

Sure(h) ==
    /\ fd[h] => node[request[h].path] = Partial
    /\ pc[h] = "read" => node[request[h].path] \in Content
    /\ pc[h] = "empty" =>
         /\ Owned(stack[h], request[h]) /\ Covered(stack[h], request[h], node)
         /\ request[h].op = "delete" => node[request[h].path] # Absent

AtomicInv == StorageTyped /\ AllApart /\ AllWritten /\ \A h \in Handler : Sure(h)

-----------------------------------------------------------------------------
(* What is below a path, and what a request changes.                       *)

LEMMA WithinTrans ==
    ASSUME NEW p \in Path, NEW q \in Within[p], NEW r \in Within[q]
    PROVE  r \in Within[p]
<1> DEFINE S == {s \in Path : s \in Within[q] => s \in Within[p]}
<1>1. q \in Path /\ r \in Path
  BY ParentAssumption
<1>2. Root \in S
  BY <1>1, ParentAssumption
<1>3. ASSUME NEW s \in Path \ {Root}, Parent[s] \in S, s \in Within[q]
      PROVE  s \in Within[p]
  BY <1>1, <1>3, ParentAssumption
<1>4. S = Path
  BY <1>2, <1>3, ReachableAssumption
<1> QED
  BY <1>1, <1>4

\* Below what is absent there is nothing.
LEMMA BelowIsAbsent ==
    ASSUME NEW t, NodeTree(t), NEW p \in Path, t[p] = Absent, NEW q \in Within[p]
    PROVE  q \in Path /\ t[q] = Absent
<1> DEFINE S == {s \in Path : s \in Within[p] => t[s] = Absent}
<1>1. q \in Path
  BY ParentAssumption
<1>2. Root \in S
  BY ParentAssumption
<1>3. ASSUME NEW s \in Path \ {Root}, Parent[s] \in S, s \in Within[p]
      PROVE  t[s] = Absent
  BY <1>3, ParentAssumption, NodeAssumption DEF NodeTree
<1>4. S = Path
  BY <1>2, <1>3, ReachableAssumption
<1> QED
  BY <1>1, <1>4

LEMMA ChangesInPath ==
    ASSUME NEW req \in Request
    PROVE  /\ req.path \in Path /\ req.path \in Needs(req)
           /\ req.path # Root => Parent[req.path] \in Needs(req)
           /\ Needs(req) \subseteq Path
           /\ Changes(req) \subseteq Path
           /\ req.op \in {"save", "mkdir"} => Changes(req) = {req.path}
           /\ req.op = "delete" => Changes(req) = Within[req.path]
           /\ req.op = "probefolder" => Changes(req) = UNION {Within[q] : q \in Unlisted(req)}
<1>1. req.path \in Path /\ req.op \in {"save", "mkdir", "probefolder", "probefile", "delete"}
  BY DEF Request
<1>2. /\ req.path \in Needs(req) /\ (req.path # Root => Parent[req.path] \in Needs(req))
      /\ Needs(req) \subseteq Path
  BY <1>1, ParentAssumption DEF Needs
<1>3. /\ req.op \in {"save", "mkdir"} => Changes(req) = {req.path}
      /\ req.op = "delete" => Changes(req) = Within[req.path]
      /\ req.op = "probefolder" => Changes(req) = UNION {Within[q] : q \in Unlisted(req)}
      /\ req.op = "probefile" => Changes(req) = {}
  BY DEF Changes
<1>4. Changes(req) \subseteq Path
  <2>1. CASE req.op = "probefolder"
    BY <1>3, <2>1, ParentAssumption DEF Unlisted
  <2>2. CASE req.op # "probefolder"
    BY <1>1, <1>3, <2>2, ParentAssumption
  <2> QED
    BY <2>1, <2>2
<1> QED
  BY <1>1, <1>2, <1>3, <1>4

\* A request that removes something removes all below it.
LEMMA ChangesBelow ==
    ASSUME NEW req \in Request, req.op \in {"delete", "probefolder"},
           NEW p \in Changes(req), NEW q \in Within[p]
    PROVE  q \in Changes(req)
<1>1. CASE req.op = "delete"
  BY <1>1, ChangesInPath, WithinTrans
<1>2. CASE req.op = "probefolder"
  <2>1. PICK r \in Unlisted(req) : p \in Within[r]
    BY <1>2, ChangesInPath
  <2>2. r \in Path /\ q \in Within[r]
    BY <2>1, WithinTrans DEF Unlisted
  <2> QED
    BY <1>2, <2>1, <2>2, ChangesInPath
<1> QED
  BY <1>1, <1>2

LEMMA ChangesEntries ==
    ASSUME NEW req \in Request, req.op \in {"delete", "probefolder"},
           NEW q \in Path \ {Root}, Parent[q] \in Changes(req)
    PROVE  q \in Changes(req)
BY ChangesInPath, ChangesBelow, ParentAssumption

\* What is in the folder of a probe and not listed is what it removes.
LEMMA UnlistedChanges ==
    ASSUME NEW req \in Request, req.op = "probefolder",
           NEW q \in Path \ {Root}, Parent[q] = req.path, q \notin req.children
    PROVE  q \in Changes(req) /\ Within[q] \subseteq Changes(req)
BY ChangesInPath, ParentAssumption DEF Unlisted

\* What is removed later counts as removed.
Gone(S, req) ==
    LET doomed == IF req.op = "delete" THEN {req.path}
                  ELSE (S[Len(S)].unread \ req.children)
                         \cup {S[i].folder : i \in 1 .. Len(S) - 1}
    IN UNION {Within[q] : q \in doomed}

LEMMA GoingIsGone ==
    ASSUME NEW h PROVE Going(h) = IF pc[h] # "empty" THEN {} ELSE Gone(stack[h], request[h])
BY DEF Going, Gone

LEMMA GoneChanges ==
    ASSUME NEW req \in Request, NEW S \in Seq(Frame), Chain(S, req), Owned(S, req)
    PROVE  Gone(S, req) \subseteq Changes(req)
<1>1. CASE req.op = "delete"
  BY <1>1, ChangesInPath DEF Gone
<1>2. CASE req.op # "delete"
  <2>1. req.op = "probefolder" /\ Len(S) \in 1 .. Len(S) /\ S[Len(S)].folder = req.path
    BY <1>2 DEF Chain
  <2>2. ASSUME NEW q \in S[Len(S)].unread \ req.children PROVE Within[q] \subseteq Changes(req)
    <3>1. S[Len(S)] \in Frame /\ q \in S[Len(S)].unread
      BY <2>1
    <3>2. q \in Path
      BY <3>1 DEF Frame
    <3>3. q # Root /\ Parent[q] = req.path
      BY <2>1, <3>1 DEF Chain
    <3> QED
      BY <2>1, <3>2, <3>3, UnlistedChanges
  <2>3. ASSUME NEW i \in 1 .. Len(S) - 1 PROVE Within[S[i].folder] \subseteq Changes(req)
    <3>1. i \in 1 .. Len(S) /\ i # Len(S)
      BY <2>1
    <3> QED
      BY <2>1, <3>1, ChangesBelow DEF Owned
  <2> QED
    BY <1>2, <2>2, <2>3 DEF Gone
<1> QED
  BY <1>1, <1>2

-----------------------------------------------------------------------------
(* What the others cannot touch.                                           *)

Active(h) == request[h] # Nothing

LEMMA ActiveRequest ==
    ASSUME StorageTyped, NEW h \in Handler
    PROVE  /\ pc[h] # "idle" => Active(h)
           /\ Active(h) => request[h] \in Request
           /\ fd[h] => pc[h] = "write" /\ request[h].op = "save"
           /\ fd[h] => request[h].path \in Changes(request[h])
<1>1. /\ pc[h] # "idle" => Active(h)
      /\ Active(h) => request[h] \in Request
      /\ fd[h] => pc[h] = "write" /\ request[h].op = "save"
  BY DEF StorageTyped, Handling, Active
<1> QED
  BY <1>1, ChangesInPath

LEMMA GoingChanges ==
    ASSUME AtomicInv, NEW h \in Handler
    PROVE  Going(h) # {} => Active(h) /\ Going(h) \subseteq Changes(request[h])
<1>1. CASE pc[h] # "empty"
  BY <1>1, GoingIsGone
<1>2. CASE pc[h] = "empty"
  <2>1. Active(h) /\ request[h] \in Request /\ stack[h] \in Seq(Frame)
    BY <1>2, ActiveRequest DEF AtomicInv, StorageTyped
  <2>2. Chain(stack[h], request[h]) /\ Owned(stack[h], request[h])
    BY <1>2 DEF AtomicInv, StorageTyped, Handling, Descending, Sure
  <2> QED
    BY <1>2, <2>1, <2>2, GoneChanges, GoingIsGone
<1> QED
  BY <1>1, <1>2

\* What a request changes or needs, no other one changes, removes or has open.
LEMMA NotOthers ==
    ASSUME AtomicInv, NEW h \in Handler, Active(h), NEW g \in Handler \ {h},
           NEW p \in Changes(request[h]) \cup Needs(request[h])
    PROVE  /\ Active(g) => p \notin Changes(request[g])
           /\ p \notin Going(g)
           /\ ~(fd[g] /\ request[g].path = p)
<1>1. Active(g) => Apart(request[h], request[g])
  BY DEF AtomicInv, AllApart, Active
<1>2. Active(g) => p \notin Changes(request[g])
  BY <1>1 DEF Apart
<1>3. p \notin Going(g)
  BY <1>2, GoingChanges
<1>4. fd[g] => Active(g) /\ request[g].path \in Changes(request[g])
  BY ActiveRequest DEF AtomicInv
<1> QED
  BY <1>2, <1>3, <1>4

\* Where the others change, a request changes and needs nothing.
LEMMA OthersPlace ==
    ASSUME AtomicInv, NEW h \in Handler, Active(h), NEW g \in Handler \ {h}, Active(g),
           NEW p \in Changes(request[g]) \cup Needs(request[g])
    PROVE  p \notin Changes(request[h])
BY NotOthers

OneWriter ==
    \A g, h \in Handler : (fd[g] /\ fd[h] /\ request[g].path = request[h].path) => g = h

LEMMA WritersDiffer == AtomicInv => OneWriter
<1> SUFFICES ASSUME AtomicInv, NEW g \in Handler, NEW h \in Handler, g # h, fd[g], fd[h],
                    request[g].path = request[h].path
             PROVE  FALSE
  BY DEF OneWriter
<1>1. Active(h) /\ request[h].path \in Changes(request[h])
  BY ActiveRequest DEF AtomicInv
<1> QED
  BY <1>1, NotOthers

-----------------------------------------------------------------------------
(* What is seen.                                                           *)

Removed(p) == \E h \in Handler : p \in Going(h)

SeenAsSaid ==
    /\ DOMAIN Seen = Path /\ Seen = [p \in Path |-> Seen[p]]
    /\ \A p \in Path :
         /\ Removed(p) => Seen[p] = Absent
         /\ ~Removed(p) /\ node[p] # Partial => Seen[p] = node[p]
         /\ \A h \in Handler :
              ~Removed(p) /\ node[p] = Partial /\ fd[h] /\ request[h].path = p
                => Seen[p] = request[h].content

LEMMA SeenIs == OneWriter => SeenAsSaid
<1> SUFFICES ASSUME OneWriter PROVE SeenAsSaid
  OBVIOUS
<1>1. DOMAIN Seen = Path /\ Seen = [p \in Path |-> Seen[p]]
  BY DEF Seen
<1>2. ASSUME NEW p \in Path
      PROVE  Seen[p] =
        IF \E h \in Handler : p \in Going(h) THEN Absent
        ELSE IF node[p] = Partial
        THEN request[CHOOSE h \in Handler : fd[h] /\ request[h].path = p].content
        ELSE node[p]
  BY DEF Seen
<1>3. ASSUME NEW p \in Path, NEW h \in Handler, fd[h], request[h].path = p
      PROVE  (CHOOSE k \in Handler : fd[k] /\ request[k].path = p) = h
  <2>1. \A k \in Handler : (fd[k] /\ request[k].path = p) => k = h
    BY <1>3 DEF OneWriter
  <2> QED
    BY <1>3, <2>1
<1> QED
  BY <1>1, <1>2, <1>3 DEF SeenAsSaid, Removed

LEMMA SeenIsNext == OneWriter' => SeenAsSaid'
BY SeenIs, PTL

\* Whatever a handler has found in its place is what is seen there.
LEMMA SeenNeeds ==
    ASSUME AtomicInv, NEW h \in Handler, pc[h] \in {"begin", "read"},
           NEW p \in Changes(request[h]) \cup Needs(request[h])
    PROVE  p \in Path /\ Seen[p] = node[p] /\ node[p] # Partial /\ ~Removed(p)
<1>1. Active(h) /\ request[h] \in Request /\ ~fd[h] /\ p \in Path
  BY ActiveRequest, ChangesInPath DEF AtomicInv
<1>2. ~Removed(p)
  BY <1>1, NotOthers, GoingIsGone DEF Removed
<1>3. node[p] # Partial
  BY <1>1, NotOthers DEF AtomicInv, AllWritten
<1> QED
  BY <1>1, <1>2, <1>3, WritersDiffer, SeenIs DEF SeenAsSaid

\* Nothing is seen to happen where nobody writes or removes.
LEMMA SeenStays ==
    ASSUME AtomicInv, OneWriter', NEW p \in Path, node'[p] = node[p],
           Removed(p)' <=> Removed(p),
           \A h \in Handler : fd[h] /\ request[h].path = p =>
                fd'[h] /\ request'[h] = request[h]
    PROVE  Seen'[p] = Seen[p]
<1>1. SeenAsSaid /\ SeenAsSaid'
  BY WritersDiffer, SeenIs, SeenIsNext
<1>2. CASE node[p] = Partial
  <2>1. PICK h \in Handler : fd[h] /\ request[h].path = p
    BY <1>2 DEF AtomicInv, AllWritten
  <2> QED
    BY <1>1, <1>2, <2>1 DEF SeenAsSaid
<1>3. CASE node[p] # Partial
  BY <1>1, <1>3 DEF SeenAsSaid
<1> QED
  BY <1>2, <1>3

LEMMA SeenEqual ==
    ASSUME SeenAsSaid, SeenAsSaid', \A p \in Path : Seen'[p] = Seen[p]
    PROVE  Seen' = Seen
BY DEF SeenAsSaid

-----------------------------------------------------------------------------
(* The invariant.                                                          *)

\* What a handler knows stays true while another one, h, does a step.
LEMMA OthersSure ==
    ASSUME AtomicInv, NEW h \in Handler, Active(h),
           \A p \in Path \ Changes(request[h]) : node'[p] = node[p],
           NEW g \in Handler \ {h}, request'[g] = request[g], pc'[g] = pc[g], stack'[g] = stack[g],
           fd'[g] => fd[g]
    PROVE  Sure(g)'
<1> DEFINE req == request[g]
           S == stack[g]
<1>1. CASE ~Active(g)
  <2>1. pc'[g] = "idle" /\ ~fd'[g]
    BY <1>1, ActiveRequest DEF AtomicInv
  <2> QED
    BY <2>1 DEF Sure
<1>2. CASE Active(g)
  <2>1. req \in Request /\ req.path \in Path /\ Sure(g)
    BY <1>2, ActiveRequest, ChangesInPath DEF AtomicInv
  <2>2. \A p \in Changes(req) \cup Needs(req) : p \in Path /\ node'[p] = node[p]
    BY <1>2, <2>1, ChangesInPath, OthersPlace
  <2>3. node'[req.path] = node[req.path]
    BY <2>1, <2>2, ChangesInPath
  <2>4. ASSUME pc[g] = "empty", NEW i \in 1 .. Len(S), NEW q \in Entries(node', S[i].folder)
        PROVE  \/ q \in S[i].unread
               \/ i # 1 /\ q = S[i - 1].folder
               \/ i = Len(S) /\ req.op = "probefolder" /\ q \in req.children
    <3>1. Chain(S, req) /\ Owned(S, req) /\ Covered(S, req, node)
      BY <2>1, <2>4 DEF AtomicInv, StorageTyped, Handling, Descending, Sure
    <3>2. q \in Path \ {Root} /\ Parent[q] = S[i].folder /\ node'[q] # Absent
      BY DEF Entries
    <3>3. CASE i # Len(S) \/ req.op = "delete"
      <4>1. Parent[q] \in Changes(req)
        BY <3>1, <3>2, <3>3 DEF Owned
      <4>2. q \in Changes(req)
        BY <2>1, <3>1, <3>2, <4>1, ChangesEntries DEF Chain
      <4>3. q \in Entries(node, S[i].folder)
        BY <2>2, <3>2, <4>2 DEF Entries
      <4> QED
        BY <3>1, <4>3 DEF Covered
    <3>4. CASE i = Len(S) /\ req.op # "delete"
      <4>1. req.op = "probefolder" /\ Parent[q] = req.path
        BY <3>1, <3>2, <3>4 DEF Chain
      <4>2. CASE q \in req.children
        BY <3>4, <4>1, <4>2
      <4>3. CASE q \notin req.children
        <5>1. q \in Changes(req)
          BY <2>1, <3>2, <4>1, <4>3, UnlistedChanges
        <5>2. q \in Entries(node, S[i].folder)
          BY <2>2, <3>2, <5>1 DEF Entries
        <5> QED
          BY <3>1, <5>2 DEF Covered
      <4> QED
        BY <4>2, <4>3
    <3> QED
      BY <3>3, <3>4
  <2>5. pc[g] = "empty" => Covered(S, req, node')
    BY <2>4 DEF Covered
  <2> QED
    BY <2>1, <2>3, <2>5 DEF Sure
<1> QED
  BY <1>1, <1>2

\* A step inside a request keeps the invariant if it changes what the request may
\* change, and h still knows what it has to know.
LEMMA StepKeeps ==
    ASSUME AtomicInv, StorageTyped', NEW h \in Handler, Active(h), UNCHANGED request,
           \A p \in Path \ Changes(request[h]) : node'[p] = node[p],
           \A g \in Handler \ {h} : pc'[g] = pc[g] /\ stack'[g] = stack[g] /\ (fd'[g] => fd[g]),
           AllWritten', Sure(h)'
    PROVE  AtomicInv'
<1>1. \A g \in Handler \ {h} : Sure(g)'
  BY OthersSure
<1>2. AllApart'
  BY DEF AtomicInv, AllApart
<1> QED
  BY <1>1, <1>2 DEF AtomicInv

\* What is removed changes with the step of h only.
LEMMA RemovedByOthers ==
    ASSUME NEW h \in Handler, UNCHANGED request,
           \A g \in Handler \ {h} : pc'[g] = pc[g] /\ stack'[g] = stack[g],
           NEW p, (p \in Going(h))' <=> p \in Going(h)
    PROVE  Removed(p)' <=> Removed(p)
BY DEF Removed, Going

\* Files that are opened by the others stay the files that are not written yet.
LEMMA SameWritten ==
    ASSUME AtomicInv, UNCHANGED <<node, fd, request>>
    PROVE  AllWritten'
BY DEF AtomicInv, AllWritten

\* A step that only moves h on, and removes nothing more or less.
LEMMA SilentStep ==
    ASSUME AtomicInv, AtomicInv', NEW h \in Handler, UNCHANGED <<node, fd, request>>,
           \A g \in Handler \ {h} : pc'[g] = pc[g] /\ stack'[g] = stack[g],
           \A p \in Path : (p \in Going(h))' <=> p \in Going(h)
    PROVE  Seen' = Seen
<1>1. OneWriter /\ OneWriter'
  <2>1. AtomicInv' => OneWriter'
    BY WritersDiffer, PTL
  <2> QED
    BY <2>1, WritersDiffer
<1>2. \A p \in Path : Seen'[p] = Seen[p]
  BY <1>1, RemovedByOthers, SeenStays
<1> QED
  BY <1>1, <1>2, SeenIs, SeenIsNext, SeenEqual

\* Removing q from its folder: the files that are not written yet are still going
\* to be.
LEMMA UnlinkWritten ==
    ASSUME AtomicInv, NEW q \in Path, Unlink(q), UNCHANGED request
    PROVE  /\ AllWritten'
           /\ \A p \in Path : node'[p] = IF p = q THEN Absent ELSE node[p]
           /\ \A h \in Handler : fd'[h] <=> fd[h] /\ request[h].path # q
<1>1. /\ node' = [node EXCEPT ![q] = Absent]
      /\ fd' = [h \in Handler |-> fd[h] /\ request[h].path # q]
  BY DEF Unlink
<1>2. \A p \in Path : node'[p] = IF p = q THEN Absent ELSE node[p]
  BY <1>1 DEF AtomicInv, StorageTyped, NodeTree
<1>3. \A h \in Handler : fd'[h] <=> fd[h] /\ request[h].path # q
  BY <1>1
<1>4. Partial # Absent
  BY PartialAssumption DEF Node
<1>5. AllWritten'
  BY <1>2, <1>3, <1>4 DEF AtomicInv, AllWritten
<1> QED
  BY <1>2, <1>3, <1>5

LEMMA InvSees == AtomicInv => OneWriter /\ SeenAsSaid
BY WritersDiffer, SeenIs

LEMMA InvSeesNext == AtomicInv' => OneWriter' /\ SeenAsSaid'
BY InvSees, PTL

LEMMA GoingBelow ==
    ASSUME StorageTyped, NEW h \in Handler, NEW q \in Going(h)
    PROVE  q \in Path /\ \A r \in Within[q] : r \in Path /\ r \in Going(h)
<1> DEFINE S == stack[h]
           req == request[h]
           doomed == IF req.op = "delete" THEN {req.path}
                     ELSE (S[Len(S)].unread \ req.children)
                            \cup {S[i].folder : i \in 1 .. Len(S) - 1}
<1>1. pc[h] = "empty" /\ Going(h) = UNION {Within[p] : p \in doomed}
  BY GoingIsGone DEF Gone
<1>2. /\ S \in Seq(Frame) /\ S # <<>> /\ req \in Request
  BY <1>1, ActiveRequest DEF StorageTyped, Handling, Descending, Chain, Active
<1>3. doomed \subseteq Path
  <2>1. \A i \in 1 .. Len(S) : S[i] \in Frame
    BY <1>2
  <2>2. \A i \in 1 .. Len(S) : S[i].folder \in Path /\ S[i].unread \subseteq Path
    BY <2>1 DEF Frame
  <2>3. Len(S) \in 1 .. Len(S) /\ \A i \in 1 .. Len(S) - 1 : i \in 1 .. Len(S)
    BY <1>2
  <2> HIDE DEF S
  <2> QED
    BY <1>2, <2>2, <2>3, ChangesInPath
<1> HIDE DEF doomed
<1>4. PICK p \in doomed : q \in Within[p]
  BY <1>1
<1>5. q \in Path /\ \A r \in Within[q] : r \in Path /\ r \in Within[p]
  BY <1>3, <1>4, WithinTrans, ParentAssumption
<1> QED
  BY <1>1, <1>4, <1>5

\* Whatever h removes has been counted as removed.
LEMMA UnlinkSeen ==
    ASSUME AtomicInv, AtomicInv', NEW h \in Handler, UNCHANGED request,
           \A g \in Handler \ {h} : pc'[g] = pc[g] /\ stack'[g] = stack[g],
           NEW q \in Going(h), Unlink(q),
           \A p \in Path : (p \in Going(h))' => p \in Going(h),
           \A p \in Path : p \in Going(h) => (p \in Going(h))' \/ p \in Within[q]
    PROVE  Seen' = Seen
<1>1. /\ q \in Path /\ q \in Within[q]
      /\ \A p \in Within[q] : p \in Path /\ p \in Going(h)
  BY GoingBelow, ParentAssumption DEF AtomicInv
<1>2. /\ \A p \in Path : node'[p] = IF p = q THEN Absent ELSE node[p]
      /\ \A k \in Handler : fd'[k] <=> fd[k] /\ request[k].path # q
  BY <1>1, UnlinkWritten
<1>3. SeenAsSaid /\ SeenAsSaid' /\ OneWriter'
  BY InvSees, InvSeesNext
<1>4. ASSUME NEW p \in Within[q] PROVE p \in Path /\ Seen[p] = Absent /\ Seen'[p] = Absent
  <2>1. p \in Path /\ Seen[p] = Absent
    BY <1>1, <1>3 DEF SeenAsSaid, Removed
  <2>2. NodeTree(node') /\ node'[q] = Absent
    BY <1>1, <1>2 DEF AtomicInv, StorageTyped
  <2>3. node'[p] = Absent /\ Absent # Partial
    BY <1>1, <2>2, BelowIsAbsent, PartialAssumption DEF Node
  <2> QED
    BY <1>3, <2>1, <2>3 DEF SeenAsSaid
<1>5. ASSUME NEW p \in Path \ Within[q] PROVE Seen'[p] = Seen[p]
  <2>1. node'[p] = node[p] /\ p # q
    BY <1>1, <1>2
  <2>2. Removed(p)' <=> Removed(p)
    BY RemovedByOthers
  <2> QED
    BY <1>2, <1>3, <2>1, <2>2, SeenStays
<1> QED
  BY <1>3, <1>4, <1>5, SeenEqual

\* Below the paths in D everything is gone from now on, and nothing else.
LEMMA RemovesSeen ==
    ASSUME AtomicInv, AtomicInv', NEW h \in Handler, UNCHANGED request, Going(h) = {},
           \A g \in Handler \ {h} : pc'[g] = pc[g] /\ stack'[g] = stack[g],
           NEW D \in SUBSET Path,
           \A q \in D : \A p \in Within[q] : (p \in Going(h))' \/ node'[p] = Absent,
           \A p \in Path : (\A q \in D : p \notin Within[q]) =>
                /\ ~(p \in Going(h))'
                /\ node'[p] = node[p]
                /\ \A k \in Handler : fd[k] /\ request[k].path = p => fd'[k]
    PROVE  Seen' = RemoveAll(Seen, D)
<1>1. SeenAsSaid /\ SeenAsSaid' /\ OneWriter'
  BY InvSees, InvSeesNext
<1>2. ASSUME NEW p \in Path, NEW q \in D, p \in Within[q] PROVE Seen'[p] = Absent
  <2>1. Removed(p)' \/ node'[p] = Absent
    BY <1>2 DEF Removed
  <2>2. Absent # Partial
    BY PartialAssumption DEF Node
  <2> QED
    BY <1>1, <2>1, <2>2 DEF SeenAsSaid
<1>3. ASSUME NEW p \in Path, \A q \in D : p \notin Within[q] PROVE Seen'[p] = Seen[p]
  <2>1. Removed(p)' <=> Removed(p)
    BY <1>3, RemovedByOthers
  <2> QED
    BY <1>1, <1>3, <2>1, SeenStays
<1>4. Seen' = [p \in Path |-> Seen'[p]]
  BY <1>1 DEF SeenAsSaid
<1>5. \A p \in Path : Seen'[p] = IF \E q \in D : p \in Within[q] THEN Absent ELSE Seen[p]
  BY <1>2, <1>3
<1> QED
  BY <1>4, <1>5 DEF RemoveAll

-----------------------------------------------------------------------------
(* The steps of AtomicStorage.                                             *)

LEMMA SameOperations ==
    \A t, req : Atomic!HandleRequest(t, req) = HandleRequest(t, req)
BY DEF Atomic!HandleRequest, HandleRequest, Atomic!SaveFile, SaveFile, Atomic!NewDirectory,
       NewDirectory, Atomic!ProbeDirectory, ProbeDirectory, Atomic!GetFileDigest, GetFileDigest,
       Atomic!BackupDelete, BackupDelete, Atomic!Done, Done, Atomic!HasPlace, HasPlace,
       Atomic!RemoveAll, RemoveAll, Atomic!Entries, Entries, Atomic!IsFile, IsFile

LEMMA Dispatch ==
    ASSUME NEW t, NEW req \in Request
    PROVE  /\ req.op = "save" => HandleRequest(t, req) = SaveFile(t, req.path, req.content)
           /\ req.op = "mkdir" => HandleRequest(t, req) = NewDirectory(t, req.path)
           /\ req.op = "probefolder"
                => HandleRequest(t, req) = ProbeDirectory(t, req.path, req.children)
           /\ req.op = "probefile" => HandleRequest(t, req) = GetFileDigest(t, req.path)
           /\ req.op = "delete" => HandleRequest(t, req) = BackupDelete(t, req.path)
BY DEF HandleRequest

\* The step at which a request counts as done.
LEMMA Executes ==
    ASSUME AtomicInv, NEW h \in Handler, pc[h] \in {"begin", "read"}, UNCHANGED request,
           NEW status, NEW digest,
           HandleRequest(Seen, request[h])
             = [tree |-> Seen', status |-> status, digest |-> digest],
           \/ Answered(h, status, digest)
           \/ /\ status = "ok" /\ digest = Absent /\ UNCHANGED answer
              /\ \E at \in {"write", "empty"} : Goto(h, at)
    PROVE  Atomic!Execute(h)
<1> DEFINE done == [status |-> status, digest |-> digest]
<1>1. request[h] # Nothing /\ answer[h] = Nothing
  BY DEF AtomicInv, StorageTyped, Handling
<1>2. SeenAnswer[h] = Nothing
  BY <1>1 DEF SeenAnswer
<1>3. /\ \A g \in Handler \ {h} : pc'[g] = pc[g] /\ answer'[g] = answer[g]
      /\ (IF pc'[h] \in {"write", "empty"} THEN [status |-> "ok", digest |-> Absent]
          ELSE answer'[h]) = done
  BY DEF Answered, Goto, AtomicInv, StorageTyped
<1>4. SeenAnswer' = [SeenAnswer EXCEPT ![h] = done]
  BY <1>3 DEF SeenAnswer
<1>5. /\ Seen' = HandleRequest(Seen, request[h]).tree
      /\ HandleRequest(Seen, request[h]).status = status
      /\ HandleRequest(Seen, request[h]).digest = digest
  OBVIOUS
<1> QED
  BY <1>1, <1>2, <1>4, <1>5, SameOperations DEF Atomic!Execute

\* A step of h between the moment its request is done and its answer, or before it.
LEMMA Silent ==
    ASSUME AtomicInv, NEW h \in Handler, UNCHANGED request, Seen' = Seen,
           \/ pc[h] = "begin" /\ Goto(h, "read") /\ UNCHANGED answer
           \/ pc[h] = "empty" /\ UNCHANGED <<pc, answer>>
           \/ pc[h] \in {"write", "empty"} /\ Answered(h, "ok", Absent)
    PROVE  UNCHANGED <<Seen, request, SeenAnswer>>
<1>1. /\ \A g \in Handler \ {h} : pc'[g] = pc[g] /\ answer'[g] = answer[g]
      /\ (IF pc'[h] \in {"write", "empty"} THEN [status |-> "ok", digest |-> Absent]
          ELSE answer'[h])
         = (IF pc[h] \in {"write", "empty"} THEN [status |-> "ok", digest |-> Absent]
            ELSE answer[h])
  BY DEF Answered, Goto, AtomicInv, StorageTyped
<1>2. SeenAnswer' = SeenAnswer
  BY <1>1 DEF SeenAnswer
<1> QED
  BY <1>2

Simulates(h) == Atomic!Execute(h) \/ UNCHANGED <<Seen, request, SeenAnswer>>

LEMMA BeginFacts ==
    ASSUME AtomicInv, NEW h \in Handler, pc[h] \in {"begin", "read"}
    PROVE  /\ Active(h) /\ request[h] \in Request /\ request[h].path \in Path
           /\ ~fd[h] /\ stack[h] = <<>> /\ answer[h] = Nothing /\ Going(h) = {}
           /\ Seen[request[h].path] = node[request[h].path]
           /\ node[request[h].path] # Partial
           /\ HasPlace(Seen, request[h].path) <=> HasPlace(node, request[h].path)
<1>1. /\ Active(h) /\ request[h] \in Request /\ request[h].path \in Path
      /\ ~fd[h] /\ Going(h) = {}
  BY ActiveRequest, ChangesInPath, GoingIsGone DEF AtomicInv
<1>2. stack[h] = <<>> /\ answer[h] = Nothing
  BY DEF AtomicInv, StorageTyped, Handling
<1>3. \A p \in Needs(request[h]) : Seen[p] = node[p] /\ node[p] # Partial
  BY SeenNeeds
<1>4. /\ request[h].path \in Needs(request[h])
      /\ request[h].path # Root => Parent[request[h].path] \in Needs(request[h])
  BY <1>1, ChangesInPath
<1> QED
  BY <1>1, <1>2, <1>3, <1>4 DEF HasPlace

\* An answer that leaves the folder as it is.
LEMMA RefusedAtomic ==
    ASSUME AtomicInv, StorageTyped', NEW h \in Handler, pc[h] \in {"begin", "read"},
           UNCHANGED <<node, fd, request, stack>>,
           NEW status, NEW digest, Answered(h, status, digest),
           HandleRequest(Seen, request[h]) = [tree |-> Seen, status |-> status, digest |-> digest]
    PROVE  AtomicInv' /\ Simulates(h)
<1>1. pc' = [pc EXCEPT ![h] = "answer"]
  BY DEF Answered, Goto
<1>2. pc'[h] = "answer" /\ \A g \in Handler \ {h} : pc'[g] = pc[g]
  BY <1>1 DEF AtomicInv, StorageTyped
<1>3. Sure(h)'
  BY <1>2, BeginFacts DEF Sure
<1>4. AtomicInv'
  BY <1>2, <1>3, BeginFacts, SameWritten, StepKeeps
<1>5. Going(h) = {} /\ (Going(h) = {})'
  BY <1>2, BeginFacts DEF Going
<1>6. Seen' = Seen
  BY <1>2, <1>4, <1>5, SilentStep
<1> QED
  BY <1>4, <1>6, Executes DEF Simulates

LEMMA OpenForWritingAtomic ==
    ASSUME AtomicInv, NEW h \in Handler, OpenForWriting(h)
    PROVE  AtomicInv' /\ Simulates(h)
<1> DEFINE p == request[h].path
           content == request[h].content
<1>1. /\ pc[h] = "begin" /\ request[h].op = "save" /\ UNCHANGED <<request, stack>>
      /\ StorageTyped'
  BY OpenForWritingTyped DEF OpenForWriting, At, AtomicInv
<1>2. /\ Active(h) /\ request[h] \in Request /\ p \in Path /\ ~fd[h] /\ Going(h) = {}
      /\ Seen[p] = node[p] /\ (HasPlace(Seen, p) <=> HasPlace(node, p))
      /\ Changes(request[h]) = {p} /\ content \in Content
      /\ HandleRequest(Seen, request[h]) = SaveFile(Seen, p, content)
  BY <1>1, BeginFacts, ChangesInPath, Dispatch DEF Request
<1>3. CASE HasPlace(node, p) /\ node[p] # Folder
  <2>1. /\ node' = [node EXCEPT ![p] = Partial] /\ fd' = [fd EXCEPT ![h] = TRUE]
        /\ Goto(h, "write") /\ UNCHANGED answer
    BY <1>3 DEF OpenForWriting
  <2>2. /\ \A q \in Path : node'[q] = IF q = p THEN Partial ELSE node[q]
        /\ fd'[h] /\ \A g \in Handler \ {h} : fd'[g] = fd[g]
        /\ pc'[h] = "write" /\ \A g \in Handler \ {h} : pc'[g] = pc[g]
    BY <2>1 DEF Goto, AtomicInv, StorageTyped, NodeTree
  <2>3. AllWritten'
    BY <1>1, <1>2, <2>2 DEF AtomicInv, AllWritten
  <2>4. Sure(h)'
    BY <1>1, <1>2, <2>2 DEF Sure
  <2>5. AtomicInv'
    BY <1>1, <1>2, <2>2, <2>3, <2>4, StepKeeps
  <2>6. SeenAsSaid /\ SeenAsSaid' /\ OneWriter'
    BY <2>5, InvSees, InvSeesNext
  <2>7. \A q \in Path : Removed(q)' <=> Removed(q)
    <3>1. (Going(h) = {})'
      BY <2>2 DEF Going
    <3> QED
      BY <1>1, <1>2, <2>2, <3>1, RemovedByOthers
  <2>8. Seen'[p] = content
    <3>1. ~Removed(p)'
      BY <1>1, <2>7, SeenNeeds, ChangesInPath, <1>2
    <3> QED
      BY <1>1, <1>2, <2>2, <2>6, <3>1 DEF SeenAsSaid
  <2>9. ASSUME NEW q \in Path \ {p} PROVE Seen'[q] = Seen[q]
    BY <1>1, <1>2, <2>2, <2>6, <2>7, SeenStays
  <2>10. Seen' = [Seen EXCEPT ![p] = content]
    BY <2>6, <2>8, <2>9 DEF SeenAsSaid
  <2>11. HandleRequest(Seen, request[h]) = Done(Seen', "ok")
    BY <1>2, <1>3, <2>10 DEF SaveFile
  <2> QED
    BY <1>1, <2>1, <2>5, <2>11, Executes DEF Done, Simulates
<1>4. CASE ~(HasPlace(node, p) /\ node[p] # Folder)
  <2>1. Answered(h, "server_error", Absent) /\ UNCHANGED <<node, fd>>
    BY <1>4 DEF OpenForWriting, Finish
  <2>2. HandleRequest(Seen, request[h]) = Done(Seen, "server_error")
    BY <1>2, <1>4 DEF SaveFile
  <2> QED
    BY <1>1, <2>1, <2>2, RefusedAtomic DEF Done
<1> QED
  BY <1>3, <1>4

LEMMA WriteAndCloseAtomic ==
    ASSUME AtomicInv, OnlyApart, NEW h \in Handler, WriteAndClose(h)
    PROVE  AtomicInv' /\ Simulates(h)
<1> DEFINE p == request[h].path
           content == request[h].content
<1>1. /\ pc[h] = "write" /\ request[h].op = "save" /\ UNCHANGED <<request, stack>>
      /\ fd' = [fd EXCEPT ![h] = FALSE] /\ Answered(h, "ok", Absent)
      /\ StorageTyped'
  BY WriteAndCloseTyped DEF WriteAndClose, At, Finish, AtomicInv
<1>2. /\ Active(h) /\ request[h] \in Request /\ p \in Path /\ content \in Content
      /\ Changes(request[h]) = {p}
  BY <1>1, ActiveRequest, ChangesInPath DEF AtomicInv, Request
<1>3. node' = IF fd[h] THEN [node EXCEPT ![p] = content] ELSE node
  BY DEF WriteAndClose, OnlyApart
<1>4. \A q \in Path : node'[q] = IF fd[h] /\ q = p THEN content ELSE node[q]
  BY <1>3 DEF AtomicInv, StorageTyped, NodeTree
<1>5. /\ ~fd'[h] /\ \A g \in Handler \ {h} : fd'[g] = fd[g]
      /\ pc'[h] = "answer" /\ \A g \in Handler \ {h} : pc'[g] = pc[g]
  BY <1>1 DEF Answered, Goto, AtomicInv, StorageTyped
<1>6. content # Partial
  BY <1>2, PartialAssumption DEF Node
<1>7. AllWritten'
  BY <1>1, <1>4, <1>5, <1>6 DEF AtomicInv, AllWritten
<1>8. Sure(h)'
  BY <1>5 DEF Sure
<1>9. AtomicInv'
  BY <1>1, <1>2, <1>4, <1>5, <1>7, <1>8, StepKeeps
<1>10. SeenAsSaid /\ SeenAsSaid' /\ OneWriter'
  BY <1>9, InvSees, InvSeesNext
<1>11. \A q \in Path : Removed(q)' <=> Removed(q)
  <2>1. Going(h) = {} /\ (Going(h) = {})'
    BY <1>1, <1>5 DEF Going
  <2> QED
    BY <1>1, <1>5, <2>1, RemovedByOthers
<1>12. CASE fd[h]
  <2>1. node[p] = Partial /\ ~Removed(p)
    <3>1. p \in Changes(request[h]) /\ Going(h) = {}
      BY <1>1, <1>2, GoingIsGone
    <3>2. ~Removed(p)
      BY <1>2, <3>1, NotOthers DEF Removed
    <3> QED
      BY <1>12, <3>2 DEF AtomicInv, Sure
  <2>2. Seen[p] = content /\ Seen'[p] = content
    BY <1>2, <1>4, <1>6, <1>10, <1>11, <1>12, <2>1 DEF SeenAsSaid
  <2>3. ASSUME NEW q \in Path \ {p} PROVE Seen'[q] = Seen[q]
    BY <1>1, <1>4, <1>5, <1>10, <1>11, SeenStays
  <2> QED
    BY <1>1, <1>9, <1>10, <2>2, <2>3, SeenEqual, Silent DEF Simulates
<1>13. CASE ~fd[h]
  <2>1. ASSUME NEW q \in Path PROVE Seen'[q] = Seen[q]
    BY <1>1, <1>4, <1>5, <1>10, <1>11, <1>13, SeenStays
  <2> QED
    BY <1>1, <1>9, <1>10, <2>1, SeenEqual, Silent DEF Simulates
<1> QED
  BY <1>12, <1>13

LEMMA CreateDirectoryAtomic ==
    ASSUME AtomicInv, NEW h \in Handler, CreateDirectory(h)
    PROVE  AtomicInv' /\ Simulates(h)
<1> DEFINE p == request[h].path
<1>1. /\ pc[h] = "begin" /\ request[h].op = "mkdir" /\ UNCHANGED <<request, fd, stack>>
      /\ StorageTyped'
  BY CreateDirectoryTyped DEF CreateDirectory, At, AtomicInv, localVars
<1>2. /\ Active(h) /\ request[h] \in Request /\ p \in Path /\ ~fd[h] /\ Going(h) = {}
      /\ Seen[p] = node[p] /\ (HasPlace(Seen, p) <=> HasPlace(node, p))
      /\ Changes(request[h]) = {p}
      /\ HandleRequest(Seen, request[h]) = NewDirectory(Seen, p)
  BY <1>1, BeginFacts, ChangesInPath, Dispatch
<1>3. CASE node[p] = Absent /\ HasPlace(node, p)
  <2>0. Folder # Partial /\ Folder # Absent
    BY PartialAssumption, NodeAssumption DEF Node
  <2>1. node' = [node EXCEPT ![p] = Folder] /\ Answered(h, "ok", Absent)
    BY <1>3, <2>0 DEF CreateDirectory, Finish
  <2>2. /\ \A q \in Path : node'[q] = IF q = p THEN Folder ELSE node[q]
        /\ pc'[h] = "answer" /\ \A g \in Handler \ {h} : pc'[g] = pc[g]
    BY <2>1 DEF Answered, Goto, AtomicInv, StorageTyped, NodeTree
  <2>3. AllWritten'
    BY <1>1, <2>0, <2>2 DEF AtomicInv, AllWritten
  <2>4. Sure(h)'
    BY <1>1, <1>2, <2>2 DEF Sure
  <2>5. AtomicInv'
    BY <1>1, <1>2, <2>2, <2>3, <2>4, StepKeeps
  <2>6. SeenAsSaid /\ SeenAsSaid' /\ OneWriter'
    BY <2>5, InvSees, InvSeesNext
  <2>7. \A q \in Path : Removed(q)' <=> Removed(q)
    <3>1. (Going(h) = {})'
      BY <2>2 DEF Going
    <3> QED
      BY <1>1, <1>2, <2>2, <3>1, RemovedByOthers
  <2>8. Seen'[p] = Folder
    <3>1. ~Removed(p)'
      BY <1>1, <1>2, <2>7, SeenNeeds
    <3> QED
      BY <1>1, <1>2, <2>0, <2>2, <2>6, <3>1 DEF SeenAsSaid
  <2>9. ASSUME NEW q \in Path \ {p} PROVE Seen'[q] = Seen[q]
    BY <1>1, <1>2, <2>2, <2>6, <2>7, SeenStays
  <2>10. Seen' = [Seen EXCEPT ![p] = Folder]
    BY <2>6, <2>8, <2>9 DEF SeenAsSaid
  <2>11. HandleRequest(Seen, request[h]) = Done(Seen', "ok")
    BY <1>2, <1>3, <2>0, <2>10 DEF NewDirectory
  <2> QED
    BY <1>1, <2>1, <2>5, <2>11, Executes DEF Done, Simulates
<1>4. CASE ~(node[p] = Absent /\ HasPlace(node, p))
  <2>1. PICK status \in {"server_error", "terminated"} :
          /\ Answered(h, status, Absent) /\ UNCHANGED node
          /\ status = "server_error" <=> node[p] = Folder
    BY <1>4 DEF CreateDirectory, Finish
  <2>2. HandleRequest(Seen, request[h]) = Done(Seen, status)
    BY <1>2, <1>4, <2>1 DEF NewDirectory
  <2> QED
    BY <1>1, <2>1, <2>2, RefusedAtomic DEF Done
<1> QED
  BY <1>3, <1>4

LEMMA CheckFileAtomic ==
    ASSUME AtomicInv, NEW h \in Handler, CheckFile(h)
    PROVE  AtomicInv' /\ Simulates(h)
<1> DEFINE p == request[h].path
<1>1. /\ pc[h] = "begin" /\ request[h].op = "probefile" /\ UNCHANGED <<node, request, fd, stack>>
      /\ StorageTyped'
  BY CheckFileTyped DEF CheckFile, At, AtomicInv, localVars
<1>2. /\ Active(h) /\ request[h] \in Request /\ p \in Path /\ ~fd[h] /\ Going(h) = {}
      /\ Seen[p] = node[p] /\ node[p] # Partial
      /\ HandleRequest(Seen, request[h]) = GetFileDigest(Seen, p)
  BY <1>1, BeginFacts, Dispatch
<1>3. CASE node[p] \in Content
  <2>1. Goto(h, "read") /\ UNCHANGED answer
    BY <1>3 DEF CheckFile, IsRegularFile
  <2>2. pc'[h] = "read" /\ \A g \in Handler \ {h} : pc'[g] = pc[g]
    BY <2>1 DEF Goto, AtomicInv, StorageTyped
  <2>3. Sure(h)'
    BY <1>1, <1>2, <1>3, <2>2 DEF Sure
  <2>4. AtomicInv'
    BY <1>1, <1>2, <2>2, <2>3, SameWritten, StepKeeps
  <2>5. (Going(h) = {})'
    BY <2>2 DEF Going
  <2>6. Seen' = Seen
    BY <1>1, <1>2, <2>2, <2>4, <2>5, SilentStep
  <2> QED
    BY <1>1, <2>1, <2>4, <2>6, Silent DEF Simulates
<1>4. CASE node[p] \notin Content
  <2>1. Answered(h, "not_found", Absent)
    BY <1>2, <1>4 DEF CheckFile, IsRegularFile, Finish
  <2>2. HandleRequest(Seen, request[h]) = Done(Seen, "not_found")
    BY <1>2, <1>4 DEF GetFileDigest, IsFile
  <2> QED
    BY <1>1, <2>1, <2>2, RefusedAtomic DEF Done
<1> QED
  BY <1>3, <1>4

LEMMA ReadFileAtomic ==
    ASSUME AtomicInv, NEW h \in Handler, ReadFile(h)
    PROVE  AtomicInv' /\ Simulates(h)
<1> DEFINE p == request[h].path
<1>1. /\ pc[h] = "read" /\ request[h].op = "probefile" /\ UNCHANGED <<node, request, fd, stack>>
      /\ StorageTyped'
  BY ReadFileTyped DEF ReadFile, At, AtomicInv, localVars
<1>2. /\ request[h] \in Request /\ Seen[p] = node[p] /\ node[p] \in Content
      /\ HandleRequest(Seen, request[h]) = GetFileDigest(Seen, p)
  BY <1>1, BeginFacts, Dispatch DEF AtomicInv, Sure
<1>3. Answered(h, "ok", node[p])
  BY <1>2, NodeAssumption DEF ReadFile
<1>4. HandleRequest(Seen, request[h]) = [tree |-> Seen, status |-> "ok", digest |-> node[p]]
  BY <1>2 DEF GetFileDigest, IsFile
<1> QED
  BY <1>1, <1>3, <1>4, RefusedAtomic

-----------------------------------------------------------------------------
(* Reading the first folder.                                               *)

\* The stack with the folder of the request and nothing else.
LEMMA FirstFolder ==
    ASSUME NEW req \in Request, req.op \in {"delete", "probefolder"}, NEW t,
           NEW S, S = <<[folder |-> req.path, unread |-> Entries(t, req.path)]>>
    PROVE  /\ Owned(S, req) /\ Covered(S, req, t)
           /\ req.op = "delete" => Gone(S, req) = Within[req.path]
           /\ req.op = "probefolder" =>
                Gone(S, req) = UNION {Within[q] : q \in Entries(t, req.path) \ req.children}
<1> DEFINE f == [folder |-> req.path, unread |-> Entries(t, req.path)]
<1>1. f.folder = req.path /\ f.unread = Entries(t, req.path)
  OBVIOUS
<1>2. S = <<f>>
  OBVIOUS
<1> HIDE DEF f
<1>3. Len(S) = 1 /\ S[1] = f /\ \A i \in 1 .. Len(S) : i = 1 /\ S[i] = f
  BY <1>2
<1>4. req.path \in Within[req.path]
  BY ChangesInPath, ParentAssumption
<1>5. Owned(S, req)
  BY <1>1, <1>3, <1>4, ChangesInPath DEF Owned
<1>6. Covered(S, req, t)
  BY <1>1, <1>3 DEF Covered
<1>7. req.op = "delete" => Gone(S, req) = Within[req.path]
  BY DEF Gone
<1>8. ASSUME req.op = "probefolder"
      PROVE  Gone(S, req) = UNION {Within[q] : q \in Entries(t, req.path) \ req.children}
  <2>1. {S[i].folder : i \in 1 .. Len(S) - 1} = {}
    BY <1>3
  <2>2. S[Len(S)].unread = Entries(t, req.path)
    BY <1>1, <1>3
  <2> QED
    BY <1>8, <2>1, <2>2 DEF Gone
<1> QED
  BY <1>5, <1>6, <1>7, <1>8

\* The invariant after the folder has been read.
LEMMA PushKeeps ==
    ASSUME AtomicInv, StorageTyped', NEW h \in Handler, pc[h] = "begin",
           request[h].op \in {"delete", "probefolder"}, request[h].op = "delete" => request[h].path # Root,
           Push(h, request[h].path), Goto(h, "empty"), UNCHANGED <<node, request, fd>>,
           node[request[h].path] = Folder
    PROVE  /\ AtomicInv'
           /\ \A g \in Handler \ {h} : pc'[g] = pc[g] /\ stack'[g] = stack[g]
           /\ request[h].op = "delete" => Going(h)' = Within[request[h].path]
           /\ request[h].op = "probefolder" =>
                Going(h)' = UNION {Within[q] : q \in Entries(node, request[h].path) \ request[h].children}
<1>1. pc'[h] = "empty" /\ \A g \in Handler \ {h} : pc'[g] = pc[g]
  BY DEF Goto, AtomicInv, StorageTyped
<1>2. Active(h) /\ request[h] \in Request /\ ~fd[h] /\ stack[h] = <<>>
  BY BeginFacts
<1>3. /\ \A g \in Handler \ {h} : stack'[g] = stack[g]
      /\ stack'[h] = <<[folder |-> request[h].path, unread |-> Entries(node, request[h].path)]>>
  BY <1>2, PushTyped DEF AtomicInv
<1>4. /\ Owned(stack'[h], request[h]) /\ Covered(stack'[h], request[h], node)
      /\ request[h].op = "delete" => Gone(stack'[h], request[h]) = Within[request[h].path]
      /\ request[h].op = "probefolder" =>
           Gone(stack'[h], request[h])
             = UNION {Within[q] : q \in Entries(node, request[h].path) \ request[h].children}
  BY <1>2, <1>3, FirstFolder
<1>5. Sure(h)'
  BY <1>1, <1>2, <1>4, NodeAssumption DEF Sure
<1>6. AtomicInv'
  BY <1>1, <1>2, <1>3, <1>5, SameWritten, StepKeeps
<1>7. Going(h)' = Gone(stack'[h], request'[h])
  BY <1>1 DEF Going, Gone
<1> QED
  BY <1>1, <1>3, <1>4, <1>6, <1>7

LEMMA OpenProbedAtomic ==
    ASSUME AtomicInv, NEW h \in Handler, OpenProbed(h)
    PROVE  AtomicInv' /\ Simulates(h)
<1> DEFINE p == request[h].path
           D == Entries(node, p) \ request[h].children
<1>1. /\ pc[h] = "begin" /\ request[h].op = "probefolder" /\ UNCHANGED <<node, request, fd>>
      /\ StorageTyped'
  BY OpenProbedTyped DEF OpenProbed, At, AtomicInv
<1>2. /\ request[h] \in Request /\ Going(h) = {} /\ Seen[p] = node[p]
      /\ HandleRequest(Seen, request[h]) = ProbeDirectory(Seen, p, request[h].children)
  BY <1>1, BeginFacts, Dispatch
<1>3. CASE node[p] = Folder
  <2>1. Push(h, p) /\ Goto(h, "empty") /\ UNCHANGED answer
    BY <1>3 DEF OpenProbed
  <2>2. /\ AtomicInv'
        /\ \A g \in Handler \ {h} : pc'[g] = pc[g] /\ stack'[g] = stack[g]
        /\ Going(h)' = UNION {Within[q] : q \in D}
    BY <1>1, <1>3, <2>1, PushKeeps
  <2>3. D \in SUBSET Path
    BY DEF Entries
  <2> HIDE DEF D
  <2>4. Seen' = RemoveAll(Seen, D)
    BY <1>1, <1>2, <2>2, <2>3, RemovesSeen
  <2>5. Entries(Seen, p) \ request[h].children = D
    <3>1. ASSUME NEW q \in Path \ {Root}, Parent[q] = p, q \notin request[h].children
          PROVE  Seen[q] = node[q]
      BY <1>1, <1>2, <3>1, UnlistedChanges, SeenNeeds
    <3> QED
      BY <3>1 DEF D, Entries
  <2>6. HandleRequest(Seen, request[h]) = Done(Seen', "ok")
    BY <1>2, <1>3, <2>4, <2>5 DEF ProbeDirectory
  <2> QED
    BY <1>1, <2>1, <2>2, <2>6, Executes DEF Done, Simulates
<1>4. CASE node[p] # Folder
  <2>1. Answered(h, "not_found", Absent) /\ UNCHANGED stack
    BY <1>4 DEF OpenProbed, Finish
  <2>2. HandleRequest(Seen, request[h]) = Done(Seen, "not_found")
    BY <1>2, <1>4 DEF ProbeDirectory
  <2> QED
    BY <1>1, <2>1, <2>2, RefusedAtomic DEF Done
<1> QED
  BY <1>3, <1>4

LEMMA OpenDeletedAtomic ==
    ASSUME AtomicInv, NEW h \in Handler, OpenDeleted(h)
    PROVE  AtomicInv' /\ Simulates(h)
<1> DEFINE p == request[h].path
<1>1. /\ pc[h] = "begin" /\ request[h].op = "delete" /\ UNCHANGED request
      /\ StorageTyped'
  BY OpenDeletedTyped DEF OpenDeleted, At, AtomicInv
<1>2. /\ Active(h) /\ request[h] \in Request /\ p \in Path /\ ~fd[h] /\ stack[h] = <<>>
      /\ Going(h) = {} /\ Seen[p] = node[p] /\ node[p] # Partial
      /\ Changes(request[h]) = Within[p] /\ p \in Within[p]
      /\ HandleRequest(Seen, request[h]) = BackupDelete(Seen, p)
  BY <1>1, BeginFacts, Dispatch, ChangesInPath, ParentAssumption
<1>3. CASE p = Root /\ Finish(h, "bad_request") /\ UNCHANGED <<node, fd, stack>>
  <2>1. HandleRequest(Seen, request[h]) = Done(Seen, "bad_request")
    BY <1>2, <1>3 DEF BackupDelete
  <2> QED
    BY <1>1, <1>3, <2>1, RefusedAtomic DEF Done, Finish
<1>4. CASE node[p] = Absent /\ Finish(h, "not_found") /\ UNCHANGED <<node, fd, stack>>
  <2>1. p # Root
    BY <1>4, NodeAssumption DEF AtomicInv, StorageTyped, NodeTree
  <2>2. HandleRequest(Seen, request[h]) = Done(Seen, "not_found")
    BY <1>2, <1>4, <2>1 DEF BackupDelete
  <2> QED
    BY <1>1, <1>4, <2>2, RefusedAtomic DEF Done, Finish
<1>5. ASSUME p # Root, node[p] # Absent, Seen' = RemoveAll(Seen, {p})
      PROVE  HandleRequest(Seen, request[h]) = Done(Seen', "ok")
  BY <1>2, <1>5 DEF BackupDelete
<1>6. CASE IsRegularFile(p) /\ Finish(h, "ok") /\ Unlink(p) /\ UNCHANGED stack
  <2>1. p # Root /\ node[p] # Absent
    BY <1>6, NodeAssumption, PartialAssumption
    DEF AtomicInv, StorageTyped, NodeTree, IsRegularFile, Node
  <2>2. /\ AllWritten'
        /\ \A q \in Path : node'[q] = IF q = p THEN Absent ELSE node[q]
        /\ \A g \in Handler : fd'[g] <=> fd[g] /\ request[g].path # p
    BY <1>1, <1>2, <1>6, UnlinkWritten
  <2>3. pc'[h] = "answer" /\ \A g \in Handler \ {h} : pc'[g] = pc[g]
    BY <1>6 DEF Finish, Answered, Goto, AtomicInv, StorageTyped
  <2>4. Sure(h)'
    BY <1>2, <2>2, <2>3 DEF Sure
  <2>5. AtomicInv'
    BY <1>1, <1>2, <1>6, <2>2, <2>3, <2>4, StepKeeps
  <2>6. NodeTree(node') /\ node'[p] = Absent
    BY <1>1, <1>2, <2>2 DEF StorageTyped
  <2>7. \A q \in Within[p] : node'[q] = Absent
    BY <1>2, <2>6, BelowIsAbsent
  <2>8. (Going(h) = {})'
    BY <2>3 DEF Going
  <2>9. Seen' = RemoveAll(Seen, {p})
    <3>1. ASSUME NEW q \in Path, q \notin Within[p]
          PROVE  /\ ~(q \in Going(h))' /\ node'[q] = node[q]
                 /\ \A k \in Handler : fd[k] /\ request[k].path = q => fd'[k]
      BY <1>2, <2>2, <2>8, <3>1
    <3> QED
      BY <1>1, <1>2, <1>6, <2>3, <2>5, <2>7, <3>1, RemovesSeen
  <2> QED
    BY <1>1, <1>5, <1>6, <2>1, <2>5, <2>9, Executes DEF Done, Finish, Simulates
<1>7. CASE /\ p # Root /\ node[p] = Folder
           /\ Push(h, p) /\ Goto(h, "empty")
           /\ UNCHANGED <<node, fd, answer>>
  <2>1. /\ AtomicInv'
        /\ \A g \in Handler \ {h} : pc'[g] = pc[g] /\ stack'[g] = stack[g]
        /\ Going(h)' = Within[p]
    BY <1>1, <1>7, PushKeeps
  <2>2. Seen' = RemoveAll(Seen, {p})
    BY <1>1, <1>2, <1>7, <2>1, RemovesSeen
  <2>3. node[p] # Absent
    BY <1>7, NodeAssumption
  <2> QED
    BY <1>1, <1>5, <1>7, <2>1, <2>2, <2>3, Executes DEF Done, Simulates
<1> QED
  BY <1>3, <1>4, <1>6, <1>7 DEF OpenDeleted

-----------------------------------------------------------------------------
(* Removing what is in the folders.                                        *)

LEMMA FrameFacts ==
    ASSUME NEW S \in Seq(Frame), S # <<>>
    PROVE  /\ Len(S) \in Nat /\ Len(S) # 0 /\ 1 \in 1 .. Len(S) /\ Len(S) \in 1 .. Len(S)
           /\ \A i \in 1 .. Len(S) : S[i].folder \in Path /\ S[i].unread \subseteq Path
           /\ Len(S) = 1 \/ 1 \in 1 .. Len(S) - 1
<1>1. Len(S) \in Nat /\ Len(S) # 0 /\ \A i \in 1 .. Len(S) : S[i] \in Frame
  OBVIOUS
<1>2. \A n \in Nat : n # 0 => 1 \in 1 .. n /\ n \in 1 .. n /\ (n = 1 \/ 1 \in 1 .. n - 1)
  OBVIOUS
<1> QED
  BY <1>1, <1>2 DEF Frame

\* What the innermost iterator returns and is not kept is below what is removed.
LEMMA DoomedGone ==
    ASSUME NEW req \in Request, NEW S \in Seq(Frame), Chain(S, req), Owned(S, req),
           NEW q \in S[1].unread, ~(req.op = "probefolder" /\ Len(S) = 1 /\ q \in req.children)
    PROVE  /\ q \in Path \ {Root} /\ Parent[q] = S[1].folder
           /\ q \in Gone(S, req) /\ q \in Changes(req)
           /\ req.op = "delete" => q # req.path
<1>1. /\ S # <<>> /\ 1 \in 1 .. Len(S) /\ q \in Path /\ S[1].folder \in Path
      /\ Len(S) = 1 \/ 1 \in 1 .. Len(S) - 1
  BY FrameFacts DEF Chain
<1>2. q # Root /\ Parent[q] = S[1].folder /\ q \in Within[q]
  BY <1>1, ParentAssumption DEF Chain
<1>3. CASE req.op = "delete"
  <2>1. S[1].folder \in Within[req.path]
    BY <1>1, <1>3, ChangesInPath DEF Owned
  <2>2. q \in Within[req.path]
    BY <1>1, <1>2, <2>1, ChangesInPath, ParentAssumption
  <2>3. q # req.path
    BY <1>2, <2>1, ChangesInPath, ParentAssumption
  <2> QED
    BY <1>1, <1>2, <1>3, <2>2, <2>3, ChangesInPath DEF Gone
<1>4. CASE req.op = "probefolder" /\ Len(S) = 1
  <2>1. q \in S[Len(S)].unread \ req.children
    BY <1>4
  <2>2. q \in Gone(S, req)
    BY <1>2, <1>4, <2>1 DEF Gone
  <2> QED
    BY <1>1, <1>2, <1>4, <2>2, GoneChanges
<1>5. CASE req.op = "probefolder" /\ Len(S) # 1
  <2>1. S[1].folder \in {S[i].folder : i \in 1 .. Len(S) - 1}
    BY <1>1, <1>5
  <2>2. q \in Within[S[1].folder]
    BY <1>1, <1>2, ParentAssumption
  <2>3. q \in Gone(S, req)
    BY <1>5, <2>1, <2>2 DEF Gone
  <2> QED
    BY <1>1, <1>2, <1>5, <2>3, GoneChanges
<1> QED
  BY <1>3, <1>4, <1>5 DEF Chain

Advanced(S, q, T) ==
    /\ Len(T) = Len(S)
    /\ T[1] = [folder |-> S[1].folder, unread |-> S[1].unread \ {q}]
    /\ \A i \in 1 .. Len(S) : i # 1 => T[i] = S[i]

NothingNew(n, m) == \A p \in Path : m[p] # Absent => n[p] # Absent

\* The innermost iterator has returned q, which is kept or gone now.
LEMMA AdvanceKnows ==
    ASSUME NEW req \in Request, NEW S \in Seq(Frame), Chain(S, req), Owned(S, req),
           NEW n, Covered(S, req, n), NEW q, NEW T, Advanced(S, q, T),
           NEW m, NothingNew(n, m),
           m[q] = Absent \/ (req.op = "probefolder" /\ Len(S) = 1 /\ q \in req.children)
    PROVE  /\ Owned(T, req) /\ Covered(T, req, m)
           /\ Gone(T, req) \subseteq Gone(S, req)
           /\ Gone(S, req) \subseteq Gone(T, req) \cup Within[q]
           /\ req.op = "probefolder" /\ Len(S) = 1 /\ q \in req.children
                => Gone(T, req) = Gone(S, req)
<1>1. /\ S # <<>> /\ Len(S) \in Nat /\ 1 \in 1 .. Len(S) /\ Len(S) \in 1 .. Len(S)
      /\ Len(S) = 1 \/ 1 \in 1 .. Len(S) - 1
  BY FrameFacts DEF Chain
<1>2. \A i \in 1 .. Len(S) : /\ T[i].folder = S[i].folder
                             /\ T[i].unread = IF i = 1 THEN S[1].unread \ {q} ELSE S[i].unread
  <2>1. T[1].folder = S[1].folder /\ T[1].unread = S[1].unread \ {q}
    BY DEF Advanced
  <2>2. ASSUME NEW i \in 1 .. Len(S), i # 1 PROVE T[i] = S[i]
    BY <2>2 DEF Advanced
  <2> QED
    BY <2>1, <2>2
<1>3. Owned(T, req)
  BY <1>2 DEF Owned, Advanced
<1>4. ASSUME NEW i \in 1 .. Len(S), NEW r \in Entries(m, T[i].folder)
      PROVE  \/ r \in T[i].unread
             \/ i # 1 /\ r = T[i - 1].folder
             \/ i = Len(T) /\ req.op = "probefolder" /\ r \in req.children
  <2>1. r \in Entries(n, S[i].folder) /\ m[r] # Absent
    BY <1>2 DEF Entries, NothingNew
  <2>2. \/ r \in S[i].unread
        \/ i # 1 /\ r = S[i - 1].folder
        \/ i = Len(S) /\ req.op = "probefolder" /\ r \in req.children
    BY <2>1 DEF Covered
  <2>3. i # 1 => i - 1 \in 1 .. Len(S)
    BY <1>1
  <2>4. CASE r = q /\ i = 1
    <3>1. req.op = "probefolder" /\ Len(S) = 1 /\ q \in req.children
      BY <2>1, <2>4
    <3> QED
      BY <2>4, <3>1 DEF Advanced
  <2>5. CASE ~(r = q /\ i = 1)
    BY <1>2, <2>2, <2>3, <2>5 DEF Advanced
  <2> QED
    BY <2>4, <2>5
<1>5. Covered(T, req, m)
  BY <1>4 DEF Covered, Advanced
<1>6. {T[i].folder : i \in 1 .. Len(T) - 1} = {S[i].folder : i \in 1 .. Len(S) - 1}
  <2>1. \A i \in 1 .. Len(S) - 1 : i \in 1 .. Len(S)
    BY <1>1
  <2> QED
    BY <1>2, <2>1 DEF Advanced
<1>7. /\ T[Len(T)].unread \subseteq S[Len(S)].unread
      /\ S[Len(S)].unread \subseteq T[Len(T)].unread \cup {q}
  BY <1>1, <1>2 DEF Advanced
<1> QED
  BY <1>3, <1>5, <1>6, <1>7, ZenonT(40) DEF Gone

\* What a handler in its loop knows.
LEMMA LoopFacts ==
    ASSUME AtomicInv, NEW h \in Handler, pc[h] = "empty"
    PROVE  /\ Active(h) /\ request[h] \in Request /\ ~fd[h]
           /\ stack[h] \in Seq(Frame) /\ stack[h] # <<>> /\ Descending(h)
           /\ Chain(stack[h], request[h]) /\ Owned(stack[h], request[h])
           /\ Covered(stack[h], request[h], node)
           /\ request[h].op = "delete" => node[request[h].path] # Absent
           /\ Going(h) = Gone(stack[h], request[h])
<1>1. Active(h) /\ request[h] \in Request /\ ~fd[h] /\ Going(h) = Gone(stack[h], request[h])
  BY ActiveRequest, GoingIsGone DEF AtomicInv
<1>2. /\ stack[h] \in Seq(Frame) /\ Descending(h)
      /\ Chain(stack[h], request[h])
  BY DEF AtomicInv, StorageTyped, Handling, Descending
<1>3. stack[h] # <<>>
  BY <1>2 DEF Chain
<1> QED
  BY <1>1, <1>2, <1>3 DEF AtomicInv, Sure

\* The invariant after a step of the loop that leaves h in it.
LEMMA LoopKeeps ==
    ASSUME AtomicInv, StorageTyped', NEW h \in Handler, pc[h] = "empty", UNCHANGED <<request, pc>>,
           \A p \in Path \ Changes(request[h]) : node'[p] = node[p],
           \A g \in Handler \ {h} : stack'[g] = stack[g],
           \A g \in Handler : fd'[g] => fd[g],
           AllWritten', Owned(stack'[h], request[h]), Covered(stack'[h], request[h], node'),
           request[h].op = "delete" => node'[request[h].path] # Absent
    PROVE  AtomicInv' /\ Going(h)' = Gone(stack'[h], request[h])
<1>1. pc'[h] = "empty" /\ ~fd'[h] /\ Active(h)
  BY LoopFacts
<1>2. Sure(h)'
  BY <1>1 DEF Sure
<1>3. AtomicInv'
  BY <1>1, <1>2, StepKeeps
<1>4. Going(h)' = Gone(stack'[h], request'[h])
  BY <1>1 DEF Going, Gone
<1> QED
  BY <1>3, <1>4

LEMMA KeepAtomic ==
    ASSUME AtomicInv, NEW h \in Handler, Keep(h)
    PROVE  AtomicInv' /\ Simulates(h)
<1>1. /\ pc[h] = "empty" /\ request[h].op = "probefolder" /\ Len(stack[h]) = 1
      /\ UNCHANGED <<node, request, answer, pc, fd, removed>> /\ StorageTyped'
  BY KeepTyped DEF Keep, Probing, AtomicInv
<1>2. PICK q \in Top(h).unread \cap request[h].children : Advance(h, q)
  BY DEF Keep
<1>3. /\ \A g \in Handler \ {h} : stack'[g] = stack[g]
      /\ Len(stack'[h]) = Len(stack[h])
      /\ stack'[h][1] = [folder |-> Top(h).folder, unread |-> Top(h).unread \ {q}]
      /\ \A i \in 1 .. Len(stack[h]) : i # 1 => stack'[h][i] = stack[h][i]
  BY <1>1, <1>2, LoopFacts, AdvanceTyped DEF AtomicInv
<1>4. /\ Owned(stack'[h], request[h]) /\ Covered(stack'[h], request[h], node)
      /\ Gone(stack'[h], request[h]) = Gone(stack[h], request[h])
  <2> DEFINE S == stack[h]
             T == stack'[h]
             req == request[h]
  <2>1. /\ req \in Request /\ S \in Seq(Frame) /\ Chain(S, req) /\ Owned(S, req)
        /\ Covered(S, req, node)
    BY <1>1, LoopFacts
  <2>2. Advanced(S, q, T) /\ NothingNew(node, node)
    BY <1>3 DEF Top, Advanced, NothingNew
  <2>3. req.op = "probefolder" /\ Len(S) = 1 /\ q \in req.children
    BY <1>1
  <2> HIDE DEF S, T, req
  <2>4. Owned(T, req) /\ Covered(T, req, node) /\ Gone(T, req) = Gone(S, req)
    BY <2>1, <2>2, <2>3, AdvanceKnows
  <2> QED
    BY <2>4 DEF S, T, req
<1>5. AtomicInv' /\ Going(h)' = Gone(stack'[h], request[h])
  BY <1>1, <1>3, <1>4, SameWritten, LoopKeeps
<1>6. Going(h)' = Going(h)
  BY <1>1, <1>4, <1>5, LoopFacts
<1>7. Seen' = Seen
  BY <1>1, <1>3, <1>5, <1>6, SilentStep
<1> QED
  BY <1>1, <1>5, <1>7, Silent DEF Simulates

\* The iterator of a folder that has just been opened is put on the stack.
LEMMA DescendKnows ==
    ASSUME NEW req \in Request, NEW S \in Seq(Frame), Chain(S, req), Owned(S, req),
           NEW n, Covered(S, req, n),
           NEW q \in S[1].unread, ~(req.op = "probefolder" /\ Len(S) = 1 /\ q \in req.children),
           NEW T, Len(T) = Len(S) + 1,
           T[1] = [folder |-> q, unread |-> Entries(n, q)],
           T[2] = [folder |-> S[1].folder, unread |-> S[1].unread \ {q}],
           \A i \in 3 .. Len(T) : i - 1 \in 2 .. Len(S) /\ T[i] = S[i - 1]
    PROVE  /\ Owned(T, req) /\ Covered(T, req, n)
           /\ Gone(T, req) = Gone(S, req)
<1>1. /\ S # <<>> /\ Len(S) \in Nat /\ Len(S) # 0 /\ 1 \in 1 .. Len(S) /\ Len(S) \in 1 .. Len(S)
      /\ Len(S) = 1 \/ 1 \in 1 .. Len(S) - 1
  BY FrameFacts DEF Chain
<1>2. /\ q \in Path \ {Root} /\ Parent[q] = S[1].folder
      /\ q \in Gone(S, req) /\ q \in Changes(req)
  BY DoomedGone
<1>3. /\ T[1].folder = q /\ T[1].unread = Entries(n, q)
      /\ T[2].folder = S[1].folder /\ T[2].unread = S[1].unread \ {q}
  OBVIOUS
<1>4. \A i \in 2 .. Len(T) :
        /\ i - 1 \in 1 .. Len(S) /\ (i = Len(T) <=> i - 1 = Len(S))
        /\ T[i].folder = S[i - 1].folder
        /\ T[i].unread = IF i = 2 THEN S[1].unread \ {q} ELSE S[i - 1].unread
  <2>1. ASSUME NEW i \in 2 .. Len(T) PROVE i - 1 \in 1 .. Len(S) /\ (i = Len(T) <=> i - 1 = Len(S))
    BY <1>1
  <2>2. ASSUME NEW i \in 2 .. Len(T), i # 2 PROVE T[i] = S[i - 1]
    <3>1. i \in 3 .. Len(T)
      BY <1>1, <2>2
    <3> QED
      BY <3>1
  <2>3. ASSUME NEW i \in 2 .. Len(T)
        PROVE  /\ T[i].folder = S[i - 1].folder
               /\ T[i].unread = IF i = 2 THEN S[1].unread \ {q} ELSE S[i - 1].unread
    <3>1. CASE i = 2
      <4>1. i - 1 = 1
        BY <3>1
      <4> QED
        BY <1>3, <3>1, <4>1
    <3>2. CASE i # 2
      BY <2>2, <3>2
    <3> QED
      BY <3>1, <3>2
  <2> QED
    BY <2>1, <2>3
<1>5. \A i \in 1 .. Len(T) : i = 1 \/ i \in 2 .. Len(T)
  BY <1>1
<1>6. 1 # Len(T) /\ Len(T) \in 2 .. Len(T) /\ Len(T) - 1 = Len(S)
  BY <1>1
<1>7. Owned(T, req)
  <2>1. ASSUME NEW i \in 2 .. Len(T), i # Len(T) \/ req.op = "delete"
        PROVE  T[i].folder \in Changes(req)
    BY <1>4, <2>1 DEF Owned
  <2> QED
    BY <1>2, <1>3, <1>5, <2>1 DEF Owned
<1>8. Covered(T, req, n)
  <2>1. ASSUME NEW i \in 2 .. Len(T), NEW r \in Entries(n, T[i].folder)
        PROVE  \/ r \in T[i].unread
               \/ i # 1 /\ r = T[i - 1].folder
               \/ i = Len(T) /\ req.op = "probefolder" /\ r \in req.children
    <3>1. \/ r \in S[i - 1].unread
          \/ i - 1 # 1 /\ r = S[(i - 1) - 1].folder
          \/ i - 1 = Len(S) /\ req.op = "probefolder" /\ r \in req.children
      BY <1>4, <2>1 DEF Covered
    <3>2. i # 1 /\ (i = 2 => i - 1 = 1)
      BY <1>1
    <3>3. CASE i = 2
      BY <1>1, <1>3, <1>4, <3>1, <3>2, <3>3
    <3>4. CASE i # 2
      <4>1. i - 1 \in 2 .. Len(T)
        BY <1>1, <3>4
      <4> QED
        BY <1>4, <3>1, <3>2, <3>4, <4>1
    <3> QED
      BY <3>3, <3>4
  <2> QED
    BY <1>3, <1>5, <2>1, ZenonT(40) DEF Covered
<1>9. Gone(T, req) = Gone(S, req)
  <2>1. CASE req.op = "delete"
    BY <2>1 DEF Gone
  <2>2. CASE req.op # "delete" /\ Len(S) = 1
    <3>1. Len(T) = 2 /\ req.op = "probefolder" /\ q \notin req.children
      BY <1>1, <2>2 DEF Chain
    <3>2. {T[i].folder : i \in 1 .. Len(T) - 1} = {q}
      <4>0. \A k : k = 2 => k - 1 = 1
        OBVIOUS
      <4>1. Len(T) - 1 = 1
        BY <3>1, <4>0
      <4>2. 1 \in 1 .. 1 /\ \A i \in 1 .. 1 : i = 1
        OBVIOUS
      <4> QED
        BY <1>3, <4>1, <4>2
    <3>3. {S[i].folder : i \in 1 .. Len(S) - 1} = {}
      BY <2>2
    <3>4. (T[Len(T)].unread \ req.children) \cup {q} = S[Len(S)].unread \ req.children
      BY <1>3, <2>2, <3>1
    <3> QED
      BY <2>2, <3>2, <3>3, <3>4 DEF Gone
  <2>3. CASE req.op # "delete" /\ Len(S) # 1
    <3>1. T[Len(T)].unread = S[Len(S)].unread
      <4>1. Len(T) # 2
        BY <1>1, <2>3
      <4> QED
        BY <1>4, <1>6, <4>1
    <3> DEFINE A == {T[i].folder : i \in 1 .. Len(T) - 1}
               B == {S[i].folder : i \in 1 .. Len(S) - 1}
               W == S[Len(S)].unread \ req.children
    <3>2. A = {q} \cup B
      <4>1. ASSUME NEW i \in 1 .. Len(T) - 1 PROVE T[i].folder \in {q} \cup B
        <5>1. i = 1 \/ (i \in 2 .. Len(T) /\ i - 1 \in 1 .. Len(S) - 1)
          BY <1>1
        <5> QED
          BY <1>3, <1>4, <5>1
      <4>2. ASSUME NEW k \in 1 .. Len(S) - 1 PROVE S[k].folder \in A
        <5>1. k + 1 \in 2 .. Len(T) /\ k + 1 \in 1 .. Len(T) - 1 /\ (k + 1) - 1 = k
          BY <1>1
        <5> QED
          BY <1>4, <5>1
      <4>3. q \in A
        <5>1. 1 \in 1 .. Len(T) - 1
          BY <1>1
        <5> QED
          BY <1>3, <5>1
      <4>4. A \subseteq {q} \cup B
        BY <4>1
      <4>5. B \subseteq A
        BY <4>2
      <4> HIDE DEF A, B
      <4> QED
        BY <4>3, <4>4, <4>5
    <3>3. S[1].folder \in B
      BY <1>1, <2>3
    <3>4. Within[q] \subseteq Within[S[1].folder]
      <4>1. S[1].folder \in Path /\ q \in Within[S[1].folder]
        BY <1>2, ParentAssumption
      <4> QED
        BY <4>1, WithinTrans
    <3>5. /\ Gone(T, req) = UNION {Within[p] : p \in W \cup A}
          /\ Gone(S, req) = UNION {Within[p] : p \in W \cup B}
      BY <2>3, <3>1 DEF Gone
    <3> HIDE DEF A, B, W
    <3> QED
      BY <3>2, <3>3, <3>4, <3>5
  <2> QED
    BY <2>1, <2>2, <2>3
<1> QED
  BY <1>7, <1>8, <1>9

LEMMA RemoveEntryAtomic ==
    ASSUME AtomicInv, NEW h \in Handler, RemoveEntry(h)
    PROVE  AtomicInv' /\ Simulates(h)
<1> DEFINE S == stack[h]
           T == stack'[h]
           req == request[h]
<1>1. /\ pc[h] = "empty" /\ UNCHANGED <<request, answer, pc>> /\ StorageTyped'
  BY RemoveEntryTyped DEF RemoveEntry, AtomicInv
<1>2. /\ req \in Request /\ S \in Seq(Frame) /\ Chain(S, req) /\ Owned(S, req)
      /\ Covered(S, req, node) /\ Descending(h) /\ Going(h) = Gone(S, req)
      /\ req.op = "delete" => node[req.path] # Absent
  BY <1>1, LoopFacts
<1>3. PICK q \in Doomed(h) :
        IF node[q] = Folder
        THEN /\ stack' = [stack EXCEPT ![h] =
                    <<[folder |-> q, unread |-> Entries(node, q)],
                      [Top(h) EXCEPT !.unread = @ \ {q}]>> \o Tail(@)]
             /\ UNCHANGED <<node, fd, removed>>
        ELSE /\ Advance(h, q)
             /\ Unlink(q)
             /\ removed' = [removed EXCEPT ![h] = @ \/ node[q] # Absent]
  BY DEF RemoveEntry
<1>4. q \in S[1].unread /\ ~(req.op = "probefolder" /\ Len(S) = 1 /\ q \in req.children)
  BY DEF Doomed, Probing, Top
<1>5. /\ q \in Path /\ q \in Gone(S, req) /\ q \in Changes(req)
      /\ req.op = "delete" => q # req.path
  BY <1>2, <1>4, DoomedGone
<1>6. CASE node[q] = Folder
  <2>1. /\ stack' = [stack EXCEPT ![h] = <<[folder |-> q, unread |-> Entries(node, q)],
                                           [Top(h) EXCEPT !.unread = @ \ {q}]>> \o Tail(@)]
        /\ UNCHANGED <<node, fd>>
    BY <1>3, <1>6
  <2>2. /\ \A g \in Handler \ {h} : stack'[g] = stack[g]
        /\ Len(T) = Len(S) + 1
        /\ T[1] = [folder |-> q, unread |-> Entries(node, q)]
        /\ T[2] = [folder |-> S[1].folder, unread |-> S[1].unread \ {q}]
        /\ \A i \in 3 .. Len(T) : i - 1 \in 2 .. Len(S) /\ T[i] = S[i - 1]
    BY <1>1, <2>1, DescendTyped DEF AtomicInv, Top
  <2>3. Owned(T, req) /\ Covered(T, req, node) /\ Gone(T, req) = Gone(S, req)
    <3> HIDE DEF S, T, req
    <3> QED
      BY <1>2, <1>4, <2>2, DescendKnows
  <2>4. AtomicInv' /\ Going(h)' = Gone(T, req)
    BY <1>1, <1>2, <2>1, <2>2, <2>3, SameWritten, LoopKeeps
  <2>5. Going(h)' = Going(h)
    BY <1>2, <2>3, <2>4
  <2>6. Seen' = Seen
    BY <1>1, <2>1, <2>2, <2>4, <2>5, SilentStep
  <2> QED
    BY <1>1, <2>4, <2>6, Silent DEF Simulates
<1>7. CASE node[q] # Folder
  <2>1. Advance(h, q) /\ Unlink(q)
    BY <1>3, <1>7
  <2>2. /\ \A g \in Handler \ {h} : stack'[g] = stack[g]
        /\ Len(T) = Len(S)
        /\ T[1] = [folder |-> S[1].folder, unread |-> S[1].unread \ {q}]
        /\ \A i \in 1 .. Len(S) : i # 1 => T[i] = S[i]
    BY <1>1, <1>2, <2>1, AdvanceTyped DEF AtomicInv, Top
  <2>3. /\ AllWritten'
        /\ \A p \in Path : node'[p] = IF p = q THEN Absent ELSE node[p]
        /\ \A k \in Handler : fd'[k] <=> fd[k] /\ request[k].path # q
    BY <1>1, <1>5, <2>1, UnlinkWritten
  <2>4. Advanced(S, q, T) /\ NothingNew(node, node') /\ node'[q] = Absent
    BY <1>5, <2>2, <2>3 DEF Advanced, NothingNew
  <2>5. /\ Owned(T, req) /\ Covered(T, req, node')
        /\ Gone(T, req) \subseteq Gone(S, req)
        /\ Gone(S, req) \subseteq Gone(T, req) \cup Within[q]
    <3> DEFINE m == node'
    <3>1. NothingNew(node, m) /\ m[q] = Absent
      BY <2>4
    <3> HIDE DEF S, T, req, m
    <3>2. /\ Owned(T, req) /\ Covered(T, req, m)
          /\ Gone(T, req) \subseteq Gone(S, req)
          /\ Gone(S, req) \subseteq Gone(T, req) \cup Within[q]
      BY <1>2, <2>4, <3>1, AdvanceKnows
    <3> QED
      BY <3>2 DEF m
  <2>6. /\ \A p \in Path \ Changes(req) : node'[p] = node[p]
        /\ req.op = "delete" => node'[req.path] # Absent
    BY <1>2, <1>5, <2>3, ChangesInPath
  <2>7. AtomicInv' /\ Going(h)' = Gone(T, req)
    BY <1>1, <2>2, <2>3, <2>5, <2>6, LoopKeeps
  <2>8. /\ \A p \in Path : (p \in Going(h))' => p \in Going(h)
        /\ \A p \in Path : p \in Going(h) => (p \in Going(h))' \/ p \in Within[q]
    BY <1>2, <2>5, <2>7
  <2>9. Seen' = Seen
    BY <1>1, <1>2, <1>5, <2>1, <2>2, <2>7, <2>8, UnlinkSeen
  <2> QED
    BY <1>1, <2>7, <2>9, Silent DEF Simulates
<1> QED
  BY <1>6, <1>7

\* The innermost folder is gone, and the iterator of the one around it goes on.
LEMMA TailKnows ==
    ASSUME NEW req \in Request, NEW S \in Seq(Frame), Chain(S, req), Owned(S, req), Len(S) # 1,
           NEW n, Covered(S, req, n), NEW m, NothingNew(n, m), m[S[1].folder] = Absent,
           NEW T, Len(T) = Len(S) - 1,
           \A i \in 1 .. Len(T) : i + 1 \in 1 .. Len(S) /\ T[i] = S[i + 1]
    PROVE  /\ S[1].folder \in Gone(S, req) /\ S[1].folder \in Changes(req)
           /\ req.op = "delete" => S[1].folder # req.path
           /\ Owned(T, req) /\ Covered(T, req, m)
           /\ Gone(T, req) \subseteq Gone(S, req)
           /\ Gone(S, req) \subseteq Gone(T, req) \cup Within[S[1].folder]
<1> DEFINE p == S[1].folder
<1>1. /\ S # <<>> /\ Len(S) \in Nat /\ Len(S) # 0 /\ 1 \in 1 .. Len(S) /\ 1 \in 1 .. Len(S) - 1
      /\ p \in Path /\ Len(T) \in 1 .. Len(T) /\ Len(T) + 1 = Len(S) /\ 2 \in 1 .. Len(S)
  <2>1. /\ S # <<>> /\ Len(S) \in Nat /\ Len(S) # 0 /\ 1 \in 1 .. Len(S) /\ p \in Path
        /\ 1 \in 1 .. Len(S) - 1
    BY FrameFacts DEF Chain
  <2>2. \A k \in Nat : k # 0 /\ k # 1 => k - 1 \in 1 .. k - 1 /\ (k - 1) + 1 = k /\ 2 \in 1 .. k
    OBVIOUS
  <2> QED
    BY <2>1, <2>2
<1>2. p \in Within[p] /\ p # Root /\ Parent[p] = S[2].folder
  BY <1>1, ParentAssumption DEF Chain
<1>3. p \in Changes(req)
  BY <1>1 DEF Owned
<1>4. req.op = "delete" => p # req.path
  <2>1. ASSUME req.op = "delete" PROVE S[2].folder \in Within[req.path]
    BY <1>1, <2>1, ChangesInPath DEF Owned
  <2> QED
    BY <1>2, <2>1, ChangesInPath, ParentAssumption
<1>5. p \in Gone(S, req)
  <2>1. CASE req.op = "delete"
    BY <1>3, <2>1, ChangesInPath DEF Gone
  <2>2. CASE req.op # "delete"
    <3>1. p \in {S[i].folder : i \in 1 .. Len(S) - 1}
      BY <1>1
    <3> QED
      BY <1>2, <2>2, <3>1 DEF Gone
  <2> QED
    BY <2>1, <2>2
<1>6. Owned(T, req)
  <2>1. ASSUME NEW i \in 1 .. Len(T), i # Len(T) \/ req.op = "delete"
        PROVE  T[i].folder \in Changes(req)
    <3>1. i + 1 \in 1 .. Len(S) /\ T[i] = S[i + 1] /\ (i # Len(T) => i + 1 # Len(S))
      BY <1>1
    <3> QED
      BY <2>1, <3>1 DEF Owned
  <2> QED
    BY <2>1 DEF Owned
<1>7. Covered(T, req, m)
  <2>1. ASSUME NEW i \in 1 .. Len(T), NEW r \in Entries(m, T[i].folder)
        PROVE  \/ r \in T[i].unread
               \/ i # 1 /\ r = T[i - 1].folder
               \/ i = Len(T) /\ req.op = "probefolder" /\ r \in req.children
    <3>1. /\ i + 1 \in 1 .. Len(S) /\ T[i] = S[i + 1] /\ (i = Len(T) <=> i + 1 = Len(S))
          /\ i + 1 # 1 /\ (i + 1) - 1 = i
      BY <1>1
    <3>2. r \in Entries(n, S[i + 1].folder) /\ m[r] # Absent
      BY <3>1 DEF Entries, NothingNew
    <3>3. \/ r \in S[i + 1].unread
          \/ r = S[i].folder
          \/ i + 1 = Len(S) /\ req.op = "probefolder" /\ r \in req.children
      BY <3>1, <3>2 DEF Covered
    <3>4. CASE i = 1
      BY <3>1, <3>2, <3>3, <3>4
    <3>5. CASE i # 1
      <4>1. i - 1 \in 1 .. Len(T) /\ (i - 1) + 1 = i
        BY <3>5
      <4>2. T[i - 1] = S[i]
        BY <4>1
      <4> QED
        BY <3>1, <3>3, <3>5, <4>2
    <3> QED
      BY <3>4, <3>5
  <2> QED
    BY <2>1 DEF Covered
<1>8. /\ Gone(T, req) \subseteq Gone(S, req)
      /\ Gone(S, req) \subseteq Gone(T, req) \cup Within[p]
  <2>1. CASE req.op = "delete"
    BY <2>1 DEF Gone
  <2>2. CASE req.op # "delete"
    <3> DEFINE A == {T[i].folder : i \in 1 .. Len(T) - 1}
               B == {S[i].folder : i \in 1 .. Len(S) - 1}
               W == S[Len(S)].unread \ req.children
    <3>1. T[Len(T)] = S[Len(S)]
      BY <1>1
    <3>2. A \subseteq B
      <4>1. ASSUME NEW i \in 1 .. Len(T) - 1 PROVE T[i].folder \in B
        <5>1. i \in 1 .. Len(T) /\ i + 1 \in 1 .. Len(S) - 1
          BY <1>1
        <5> QED
          BY <5>1
      <4> QED
        BY <4>1
    <3>3. B \subseteq A \cup {p}
      <4>1. ASSUME NEW k \in 1 .. Len(S) - 1, k # 1 PROVE S[k].folder \in A
        <5>1. k - 1 \in 1 .. Len(T) /\ k - 1 \in 1 .. Len(T) - 1 /\ (k - 1) + 1 = k
          BY <1>1, <4>1
        <5> QED
          BY <5>1
      <4> QED
        BY <4>1
    <3>4. /\ Gone(T, req) = UNION {Within[x] : x \in W \cup A}
          /\ Gone(S, req) = UNION {Within[x] : x \in W \cup B}
      BY <2>2, <3>1 DEF Gone
    <3> HIDE DEF A, B, W, p
    <3> QED
      BY <3>2, <3>3, <3>4
  <2> QED
    BY <2>1, <2>2
<1> QED
  BY <1>3, <1>4, <1>5, <1>6, <1>7, <1>8

LEMMA RemoveFolderAtomic ==
    ASSUME AtomicInv, NEW h \in Handler, RemoveFolder(h)
    PROVE  AtomicInv' /\ Simulates(h)
<1> DEFINE S == stack[h]
           T == stack'[h]
           req == request[h]
           p == S[1].folder
<1>1. /\ pc[h] = "empty" /\ UNCHANGED request /\ StorageTyped'
      /\ ~Probing(h) /\ S[1].unread = {}
  BY RemoveFolderTyped DEF RemoveFolder, AtomicInv, Top
<1>2. /\ req \in Request /\ S \in Seq(Frame) /\ S # <<>> /\ Chain(S, req) /\ Owned(S, req)
      /\ Covered(S, req, node) /\ Going(h) = Gone(S, req)
      /\ req.op = "delete" => node[req.path] # Absent
      /\ ~fd[h] /\ Active(h)
  BY <1>1, LoopFacts
<1>3. 1 \in 1 .. Len(S) /\ p \in Path /\ Len(S) \in Nat
  BY <1>2, FrameFacts
<1>4. Len(S) = 1 => req.op = "delete" /\ p = req.path
  BY <1>1, <1>2 DEF Probing, Chain
<1>5. Entries(node, p) = {}
  <2>1. ASSUME NEW q \in Entries(node, p) PROVE FALSE
    <3>1. 1 = Len(S) /\ req.op = "probefolder"
      BY <1>1, <1>2, <1>3 DEF Covered
    <3> QED
      BY <1>4, <3>1
  <2> QED
    BY <2>1
<1>6. /\ Unlink(p) /\ stack' = [stack EXCEPT ![h] = Tail(S)]
      /\ IF Len(S) = 1 THEN Finish(h, IF removed[h] \/ node[p] # Absent THEN "ok" ELSE "not_found")
         ELSE UNCHANGED <<pc, answer>>
  BY <1>5 DEF RemoveFolder, Top
<1>7. /\ AllWritten'
      /\ \A q \in Path : node'[q] = IF q = p THEN Absent ELSE node[q]
      /\ \A k \in Handler : fd'[k] <=> fd[k] /\ request[k].path # p
  BY <1>1, <1>3, <1>6, UnlinkWritten
<1>8. T = Tail(S) /\ \A g \in Handler \ {h} : stack'[g] = stack[g]
  BY <1>6 DEF AtomicInv, StorageTyped
<1>9. CASE Len(S) = 1
  <2>1. Answered(h, "ok", Absent)
    BY <1>2, <1>4, <1>6, <1>9 DEF Finish
  <2>2. pc'[h] = "answer" /\ \A g \in Handler \ {h} : pc'[g] = pc[g]
    BY <2>1 DEF Answered, Goto, AtomicInv, StorageTyped
  <2>3. /\ p \in Changes(req) /\ p \in Within[p] /\ Going(h) = Within[p]
    <3>1. p \in Within[p] /\ Changes(req) = Within[p]
      BY <1>2, <1>3, <1>4, <1>9, ParentAssumption, ChangesInPath
    <3>2. Gone(S, req) = Within[p]
      BY <1>4, <1>9 DEF Gone
    <3> QED
      BY <1>2, <3>1, <3>2
  <2>4. Sure(h)'
    BY <1>2, <1>7, <2>2 DEF Sure
  <2>5. AtomicInv'
    BY <1>1, <1>2, <1>7, <1>8, <2>2, <2>3, <2>4, StepKeeps
  <2>6. (Going(h) = {})'
    BY <2>2 DEF Going
  <2>7. Seen' = Seen
    BY <1>1, <1>6, <1>8, <2>2, <2>3, <2>5, <2>6, UnlinkSeen
  <2> QED
    BY <1>1, <2>1, <2>5, <2>7, Silent DEF Simulates
<1>10. CASE Len(S) # 1
  <2>1. UNCHANGED <<pc, answer>>
    BY <1>6, <1>10
  <2>2. Len(T) = Len(S) - 1 /\ \A i \in 1 .. Len(T) : i + 1 \in 1 .. Len(S) /\ T[i] = S[i + 1]
    <3> HIDE DEF S, T
    <3> QED
      BY <1>2, <1>8, TailFrames
  <2>3. NothingNew(node, node') /\ node'[p] = Absent
    BY <1>3, <1>7 DEF NothingNew
  <2>4. /\ p \in Gone(S, req) /\ p \in Changes(req)
        /\ req.op = "delete" => p # req.path
        /\ Owned(T, req) /\ Covered(T, req, node')
        /\ Gone(T, req) \subseteq Gone(S, req)
        /\ Gone(S, req) \subseteq Gone(T, req) \cup Within[p]
    <3> DEFINE m == node'
    <3>1. NothingNew(node, m) /\ m[S[1].folder] = Absent
      BY <2>3
    <3> HIDE DEF S, T, req, m
    <3>2. /\ S[1].folder \in Gone(S, req) /\ S[1].folder \in Changes(req)
          /\ req.op = "delete" => S[1].folder # req.path
          /\ Owned(T, req) /\ Covered(T, req, m)
          /\ Gone(T, req) \subseteq Gone(S, req)
          /\ Gone(S, req) \subseteq Gone(T, req) \cup Within[S[1].folder]
      BY <1>2, <1>10, <2>2, <3>1, TailKnows
    <3> QED
      BY <3>2 DEF m
  <2>5. /\ \A q \in Path \ Changes(req) : node'[q] = node[q]
        /\ req.op = "delete" => node'[req.path] # Absent
    BY <1>2, <1>7, <2>4, ChangesInPath
  <2>6. AtomicInv' /\ Going(h)' = Gone(T, req)
    BY <1>1, <1>7, <1>8, <2>1, <2>4, <2>5, LoopKeeps
  <2>7. /\ \A q \in Path : (q \in Going(h))' => q \in Going(h)
        /\ \A q \in Path : q \in Going(h) => (q \in Going(h))' \/ q \in Within[p]
    BY <1>2, <2>4, <2>6
  <2>8. Seen' = Seen
    BY <1>1, <1>2, <1>6, <1>8, <2>1, <2>4, <2>6, <2>7, UnlinkSeen
  <2> QED
    BY <1>1, <2>1, <2>6, <2>8, Silent DEF Simulates
<1> QED
  BY <1>9, <1>10

LEMMA EndProbeAtomic ==
    ASSUME AtomicInv, NEW h \in Handler, EndProbe(h)
    PROVE  AtomicInv' /\ Simulates(h)
<1> DEFINE S == stack[h]
           req == request[h]
<1>1. /\ pc[h] = "empty" /\ req.op = "probefolder" /\ Len(S) = 1 /\ S[1].unread = {}
      /\ stack' = [stack EXCEPT ![h] = <<>>] /\ Answered(h, "ok", Absent)
      /\ UNCHANGED <<node, request, fd>> /\ StorageTyped'
  BY EndProbeTyped DEF EndProbe, Probing, Finish, AtomicInv, Top
<1>2. Active(h) /\ ~fd[h] /\ Going(h) = Gone(S, req)
  BY <1>1, LoopFacts
<1>3. /\ pc'[h] = "answer"
      /\ \A g \in Handler \ {h} : pc'[g] = pc[g] /\ stack'[g] = stack[g]
  BY <1>1 DEF Answered, Goto, AtomicInv, StorageTyped
<1>4. Sure(h)'
  BY <1>1, <1>2, <1>3 DEF Sure
<1>5. AtomicInv'
  BY <1>1, <1>2, <1>3, <1>4, SameWritten, StepKeeps
<1>6. Going(h) = {} /\ (Going(h) = {})'
  <2>1. Gone(S, req) = {}
    <3>1. {S[i].folder : i \in 1 .. Len(S) - 1} = {}
      BY <1>1
    <3> QED
      BY <1>1, <3>1 DEF Gone
  <2> QED
    BY <1>2, <1>3, <2>1 DEF Going
<1>7. Seen' = Seen
  BY <1>1, <1>3, <1>5, <1>6, SilentStep
<1> QED
  BY <1>1, <1>5, <1>7, Silent DEF Simulates

\* A request comes, or its answer goes.
LEMMA OutsideStep ==
    ASSUME AtomicInv, StorageTyped', NEW h \in Handler, ~fd[h], pc[h] # "empty",
           UNCHANGED <<node, fd, stack>>, pc'[h] \in {"idle", "begin"},
           \A g \in Handler \ {h} : pc'[g] = pc[g] /\ request'[g] = request[g],
           AllApart'
    PROVE  AtomicInv' /\ Seen' = Seen
<1>1. \A g \in Handler : Sure(g)'
  <2>1. Sure(h)'
    BY DEF Sure
  <2>2. ASSUME NEW g \in Handler \ {h} PROVE Sure(g)'
    BY DEF AtomicInv, Sure
  <2> QED
    BY <2>1, <2>2
<1>2. AllWritten'
  BY DEF AtomicInv, AllWritten
<1>3. AtomicInv'
  BY <1>1, <1>2 DEF AtomicInv
<1>4. SeenAsSaid /\ SeenAsSaid' /\ OneWriter'
  BY <1>3, InvSees, InvSeesNext
<1>5. ASSUME NEW p \in Path PROVE Removed(p)' <=> Removed(p)
  <2>1. Going(h) = {} /\ (Going(h) = {})'
    BY DEF Going
  <2>2. ASSUME NEW g \in Handler \ {h} PROVE (p \in Going(g))' <=> p \in Going(g)
    BY DEF Going
  <2> QED
    BY <2>1, <2>2 DEF Removed
<1>6. ASSUME NEW p \in Path PROVE Seen'[p] = Seen[p]
  BY <1>4, <1>5, SeenStays
<1> QED
  BY <1>3, <1>4, <1>6, SeenEqual

LEMMA BeginAtomic ==
    ASSUME AtomicInv, OnlyApart, NEW h \in Handler, NEW req \in Request, Begin(h, req)
    PROVE  AtomicInv' /\ Atomic!Begin(h, req)
<1>1. /\ pc[h] = "idle" /\ request' = [request EXCEPT ![h] = req] /\ pc' = [pc EXCEPT ![h] = "begin"]
      /\ UNCHANGED <<node, answer, fd, stack, removed>>
      /\ StorageTyped'
  BY BeginTyped DEF Begin, Goto, localVars, AtomicInv
<1>2. ~fd[h] /\ request[h] = Nothing
  BY <1>1 DEF AtomicInv, StorageTyped, Handling
<1>3. /\ pc'[h] = "begin" /\ request'[h] = req
      /\ \A g \in Handler \ {h} : pc'[g] = pc[g] /\ request'[g] = request[g]
  BY <1>1 DEF AtomicInv, StorageTyped
<1>4. AllApart'
  <2>1. ASSUME NEW g \in Handler \ {h}, request[g] # Nothing
        PROVE  Apart(req, request[g]) /\ Apart(request[g], req)
    <3>1. Together(req, request[g]) /\ request[g] \in Request
      BY <2>1 DEF Begin, AtomicInv, StorageTyped
    <3>2. Apart(req, request[g])
      BY <3>1 DEF OnlyApart
    <3> QED
      BY <3>2 DEF Apart
  <2> QED
    BY <1>3, <2>1 DEF AllApart, AtomicInv
<1>5. AtomicInv' /\ Seen' = Seen
  BY <1>1, <1>2, <1>3, <1>4, OutsideStep
<1>6. SeenAnswer' = SeenAnswer
  BY <1>1, <1>3 DEF SeenAnswer
<1> QED
  BY <1>1, <1>2, <1>5, <1>6 DEF Atomic!Begin

LEMMA ReplyAtomic ==
    ASSUME AtomicInv, Up, NEW h \in Handler, Reply(h)
    PROVE  AtomicInv' /\ Atomic!Reply(h)
<1>1. /\ pc[h] = "answer" /\ request' = [request EXCEPT ![h] = Nothing]
      /\ answer' = [answer EXCEPT ![h] = Nothing] /\ pc' = [pc EXCEPT ![h] = "idle"]
      /\ UNCHANGED <<node, fd, stack, removed>>
      /\ StorageTyped'
  BY ReplyTyped DEF Reply, Goto, localVars, AtomicInv
<1>2. ~fd[h] /\ answer[h] # Nothing
  BY <1>1 DEF AtomicInv, StorageTyped, Handling
<1>3. /\ pc'[h] = "idle" /\ request'[h] = Nothing /\ answer'[h] = Nothing
      /\ \A g \in Handler \ {h} :
            pc'[g] = pc[g] /\ request'[g] = request[g] /\ answer'[g] = answer[g]
  BY <1>1 DEF AtomicInv, StorageTyped
<1>4. AllApart'
  BY <1>3 DEF AllApart, AtomicInv
<1>5. AtomicInv' /\ Seen' = Seen
  BY <1>1, <1>2, <1>3, <1>4, OutsideStep
<1>6. SeenAnswer[h] # Nothing /\ SeenAnswer' = [SeenAnswer EXCEPT ![h] = Nothing]
  BY <1>1, <1>2, <1>3 DEF SeenAnswer
<1> QED
  BY <1>1, <1>5, <1>6 DEF Atomic!Reply

LEMMA InitAtomic == Init => AtomicInv /\ Atomic!Init
<1> SUFFICES ASSUME Init PROVE AtomicInv /\ Atomic!Init
  OBVIOUS
<1>1. /\ node \in [Path -> Node] /\ IsTree(node)
      /\ request = [h \in Handler |-> Nothing] /\ answer = [h \in Handler |-> Nothing]
      /\ pc = [h \in Handler |-> "idle"] /\ fd = [h \in Handler |-> FALSE]
  BY DEF Init
<1>2. \A p \in Path : node[p] # Partial
  BY <1>1, PartialAssumption
<1>3. AtomicInv
  <2>1. AllApart /\ AllWritten /\ \A h \in Handler : Sure(h)
    BY <1>1, <1>2 DEF AllApart, AllWritten, Sure
  <2> QED
    BY <2>1, InitTyped DEF AtomicInv
<1>4. Seen = node
  <2>1. SeenAsSaid
    BY <1>3, InvSees
  <2>2. \A p \in Path : ~Removed(p)
    BY <1>1 DEF Removed, Going
  <2>3. \A p \in Path : Seen[p] = node[p]
    BY <1>2, <2>1, <2>2 DEF SeenAsSaid
  <2> QED
    BY <1>1, <2>1, <2>3 DEF SeenAsSaid
<1>5. SeenAnswer = [h \in Handler |-> Nothing]
  BY <1>1 DEF SeenAnswer
<1> QED
  BY <1>1, <1>3, <1>4, <1>5 DEF Atomic!Init, Atomic!IsTree, IsTree, Atomic!Node, Node

LEMMA NextAtomic ==
    ASSUME OnlyApart, AtomicInv, [Next]_vars
    PROVE  AtomicInv' /\ [Atomic!Next]_<<Seen, request, SeenAnswer>>
<1>1. CASE UNCHANGED vars
  <2>1. AtomicInv'
    <3>1. StorageTyped'
      BY <1>1, NextTyped DEF AtomicInv
    <3>2. (AllApart /\ AllWritten /\ \A h \in Handler : Sure(h))'
      BY <1>1 DEF vars, AtomicInv, AllApart, AllWritten, Sure
    <3> QED
      BY <3>1, <3>2 DEF AtomicInv
  <2>2. Seen' = Seen /\ SeenAnswer' = SeenAnswer
    BY <1>1 DEF vars, Seen, SeenAnswer, Going
  <2> QED
    BY <1>1, <2>1, <2>2 DEF vars
<1>2. Up => Atomic!Up
  <2>1. ASSUME Up, NEW h \in Handler, SeenAnswer[h] # Nothing
        PROVE  SeenAnswer[h].status # "terminated"
    BY <2>1 DEF Up, SeenAnswer
  <2> QED
    BY <2>1 DEF Atomic!Up
<1>3. ASSUME Up, NEW h \in Handler, Step(h)
      PROVE  AtomicInv' /\ [Atomic!Next]_<<Seen, request, SeenAnswer>>
  <2>1. CASE Reply(h)
    BY <1>2, <1>3, <2>1, ReplyAtomic DEF Atomic!Next
  <2>2. CASE ~Reply(h)
    <3>1. AtomicInv' /\ Simulates(h)
      BY <1>3, <2>2, OpenForWritingAtomic, WriteAndCloseAtomic, CreateDirectoryAtomic,
         CheckFileAtomic, ReadFileAtomic, OpenProbedAtomic, OpenDeletedAtomic, KeepAtomic,
         RemoveEntryAtomic, RemoveFolderAtomic, EndProbeAtomic
      DEF Step
    <3> QED
      BY <1>2, <1>3, <3>1 DEF Simulates, Atomic!Next
  <2> QED
    BY <2>1, <2>2
<1>4. ASSUME Up, NEW h \in Handler, NEW req \in Sensible, Begin(h, req)
      PROVE  AtomicInv' /\ [Atomic!Next]_<<Seen, request, SeenAnswer>>
  <2>1. req \in Request /\ req \in Atomic!Request
    BY DEF Sensible, Request, Atomic!Request
  <2> QED
    BY <1>2, <1>4, <2>1, BeginAtomic DEF Atomic!Next
<1> QED
  BY <1>1, <1>3, <1>4 DEF Next, Terminated

\* Requests that run at the same time on the folder of one user, call by call,
\* have each the effect and the answer of server/backup.cpp alone, at one moment
\* between their begin and their answer - if no two that may be under way
\* together are such that one changes what the other needs, and no write fails.
THEOREM RequestsAreAtomic ==
    ASSUME OnlyApart
    PROVE  Spec => IsAtomic
<1>1. Init => AtomicInv /\ Atomic!Init
  BY InitAtomic
<1>2. AtomicInv /\ [Next]_vars => AtomicInv' /\ [Atomic!Next]_<<Seen, request, SeenAnswer>>
  BY NextAtomic
<1> QED
  BY <1>1, <1>2, PTL DEF Spec, IsAtomic, Atomic!Spec, Atomic!vars

=============================================================================
