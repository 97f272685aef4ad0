------------------------- MODULE ConcurrentStorage -------------------------
(***************************************************************************)
(* The functions of server/backup.cpp as the calls of the file system they *)
(* make, run by several threads on the folder of one user: the workers of  *)
(* the client's walk, two clients of the user, or a request the client has *)
(* given up beside a later one.  A step is one call that opens, writes,    *)
(* reads, creates or removes, with the checks right before it.  libstdc++  *)
(* gives what the std::filesystem calls do: remove_all reads a folder,     *)
(* removes what it has read, and throws when the folder is not empty then. *)
(***************************************************************************)
EXTENDS Storage, Sequences

CONSTANTS
    Handler,    \* the threads of the server
    Nothing,    \* no request, or no answer yet
    Partial,    \* a file that is open for writing and not written yet
    Together(_, _), \* the requests that may be under way at the same time
    DiskFull    \* a write may fail

ASSUME PartialAssumption == Partial \notin Node /\ DiskFull \in BOOLEAN

ASSUME NothingAssumption ==
    /\ Nothing \notin Request
    /\ Nothing \notin [status : Status, digest : Node \cup {Partial}]

VARIABLES
    node,       \* what is at each path of the user's folder
    request,    \* what each handler is working on
    answer,     \* its status and digest, once made
    pc,         \* where in the function it is
    fd,         \* its open file still has a name in the folder
    stack,      \* the folders remove_all or probe_directory is in, innermost first
    removed     \* the count of remove_all is not 0

vars == <<node, request, answer, pc, fd, stack, removed>>

localVars == <<fd, stack, removed>>

\* A folder, and what its directory_iterator has still to return.
Frame == [folder : Path, unread : SUBSET Path]

Init ==
    /\ node \in {t \in [Path -> Node] : IsTree(t)}
    /\ request = [h \in Handler |-> Nothing]
    /\ answer = [h \in Handler |-> Nothing]
    /\ pc = [h \in Handler |-> "idle"]
    /\ fd = [h \in Handler |-> FALSE]
    /\ stack = [h \in Handler |-> <<>>]
    /\ removed = [h \in Handler |-> FALSE]

-----------------------------------------------------------------------------
(* Requests that have nothing to do with each other.                       *)

Unlisted(req) == {q \in Path \ {Root} : Parent[q] = req.path /\ q \notin req.children}

Changes(req) ==
    CASE req.op \in {"save", "mkdir"}   -> {req.path}
      [] req.op = "delete"              -> Within[req.path]
      [] req.op = "probefolder"         -> UNION {Within[q] : q \in Unlisted(req)}
      [] req.op = "probefile"           -> {}

Needs(req) == {req.path} \cup (IF req.path = Root THEN {} ELSE {Parent[req.path]})

Apart(a, b) ==
    /\ Changes(a) \cap (Changes(b) \cup Needs(b)) = {}
    /\ Changes(b) \cap (Changes(a) \cup Needs(a)) = {}

-----------------------------------------------------------------------------

Goto(h, at) == pc' = [pc EXCEPT ![h] = at]

Answered(h, status, digest) ==
    /\ answer' = [answer EXCEPT ![h] = [status |-> status, digest |-> digest]]
    /\ Goto(h, "answer")

Finish(h, status) == Answered(h, status, Absent)

At(h, op, place) == request[h] # Nothing /\ request[h].op = op /\ pc[h] = place

\* p goes out of its folder: who has it open keeps a file without a name.
Unlink(p) ==
    /\ node' = [node EXCEPT ![p] = Absent]
    /\ fd' = [h \in Handler |-> fd[h] /\ request[h].path # p]

Begin(h, req) ==
    /\ pc[h] = "idle"
    /\ \A other \in Handler : request[other] # Nothing => Together(req, request[other])
    /\ request' = [request EXCEPT ![h] = req]
    /\ Goto(h, "begin")
    /\ UNCHANGED <<node, answer, localVars>>

Reply(h) ==
    /\ pc[h] = "answer"
    /\ request' = [request EXCEPT ![h] = Nothing]
    /\ answer' = [answer EXCEPT ![h] = Nothing]
    /\ Goto(h, "idle")
    /\ UNCHANGED <<node, localVars>>

-----------------------------------------------------------------------------
(* save_file                                                               *)

\* The constructor of the ofstream, with trunc.
OpenForWriting(h) ==
    /\ At(h, "save", "begin")
    /\ LET p == request[h].path
       IN IF HasPlace(node, p) /\ node[p] # Folder
          THEN /\ node' = [node EXCEPT ![p] = Partial]
               /\ fd' = [fd EXCEPT ![h] = TRUE]
               /\ Goto(h, "write")
               /\ UNCHANGED answer
          ELSE Finish(h, "server_error") /\ UNCHANGED <<node, fd>>
    /\ UNCHANGED <<request, stack, removed>>

\* write and close; whether they succeed is not looked at.
WriteAndClose(h) ==
    /\ At(h, "save", "write")
    /\ \E written \in {TRUE, ~DiskFull} :
        node' = IF fd[h] /\ written
                THEN [node EXCEPT ![request[h].path] = request[h].content] ELSE node
    /\ fd' = [fd EXCEPT ![h] = FALSE]
    /\ Finish(h, "ok")
    /\ UNCHANGED <<request, stack, removed>>

(* new_directory                                                           *)
CreateDirectory(h) ==
    /\ At(h, "mkdir", "begin")
    /\ LET p == request[h].path
       IN CASE node[p] = Folder -> Finish(h, "server_error") /\ UNCHANGED node
            [] node[p] = Absent /\ HasPlace(node, p)
                                -> Finish(h, "ok") /\ node' = [node EXCEPT ![p] = Folder]
            [] OTHER            -> Finish(h, "terminated") /\ UNCHANGED node
    /\ UNCHANGED <<request, localVars>>

(* get_file_digest                                                         *)
IsRegularFile(p) == node[p] \in Content \cup {Partial}

CheckFile(h) ==
    /\ At(h, "probefile", "begin")
    /\ IF IsRegularFile(request[h].path)
       THEN Goto(h, "read") /\ UNCHANGED answer
       ELSE Finish(h, "not_found")
    /\ UNCHANGED <<node, request, localVars>>

\* fopen, fread until there is no more: a folder opens, too, and reads as empty.
ReadFile(h) ==
    /\ At(h, "probefile", "read")
    /\ LET found == node[request[h].path]
       IN IF found = Absent THEN Finish(h, "not_found")
          ELSE Answered(h, "ok", IF found = Folder THEN Partial ELSE found)
    /\ UNCHANGED <<node, request, localVars>>

-----------------------------------------------------------------------------
(* probe_directory and backup_delete                                       *)

Push(h, p) == stack' = [stack EXCEPT ![h] = <<[folder |-> p, unread |-> Entries(node, p)]>> \o @]

Top(h) == stack[h][1]

\* is_directory(abs_path), and the directory_iterator of probe_directory.
OpenProbed(h) ==
    /\ At(h, "probefolder", "begin")
    /\ IF node[request[h].path] = Folder
       THEN Push(h, request[h].path) /\ Goto(h, "empty") /\ UNCHANGED answer
       ELSE Finish(h, "not_found") /\ UNCHANGED stack
    /\ UNCHANGED <<node, request, fd, removed>>

\* DELETE: nothing for the empty path; a file goes at once, a folder is read.
OpenDeleted(h) ==
    /\ At(h, "delete", "begin")
    /\ LET p == request[h].path
       IN \/ p = Root /\ Finish(h, "bad_request") /\ UNCHANGED <<node, fd, stack>>
          \/ node[p] = Absent /\ Finish(h, "not_found") /\ UNCHANGED <<node, fd, stack>>
          \/ IsRegularFile(p) /\ Finish(h, "ok") /\ Unlink(p) /\ UNCHANGED stack
          \/ /\ p # Root /\ node[p] = Folder
             /\ Push(h, p) /\ Goto(h, "empty")
             /\ UNCHANGED <<node, fd, answer>>
    /\ removed' = [removed EXCEPT ![h] = FALSE]
    /\ UNCHANGED request

\* The loop of probe_directory is at the bottom of the stack; all above it, and
\* all of a delete, is remove_all.
Probing(h) == request[h].op = "probefolder" /\ Len(stack[h]) = 1

Advance(h, q) == stack' = [stack EXCEPT ![h][1].unread = @ \ {q}]

\* The iterator returns q: kept when the client has it.
Keep(h) ==
    /\ pc[h] = "empty" /\ Probing(h)
    /\ \E q \in Top(h).unread \cap request[h].children : Advance(h, q)
    /\ UNCHANGED <<node, request, answer, pc, fd, removed>>

\* Mutant: children is not looked at.
DoomedAll(h) == Top(h).unread

Doomed(h) == Top(h).unread \ (IF Probing(h) THEN request[h].children ELSE {})

\* Mutant: a folder goes like a file, and leaves what is in it behind.
RemoveEntryOnly(h) ==
    /\ pc[h] = "empty"
    /\ \E q \in Doomed(h) :
        /\ Advance(h, q)
        /\ Unlink(q)
        /\ removed' = [removed EXCEPT ![h] = @ \/ node[q] # Absent]
    /\ UNCHANGED <<request, answer, pc>>

\* The iterator returns q: a folder is read in its turn, anything else goes.
RemoveEntry(h) ==
    /\ pc[h] = "empty"
    /\ \E q \in Doomed(h) :
        IF node[q] = Folder
        THEN /\ stack' = [stack EXCEPT ![h] =
                    <<[folder |-> q, unread |-> Entries(node, q)],
                      [Top(h) EXCEPT !.unread = @ \ {q}]>> \o Tail(@)]
             /\ UNCHANGED <<node, fd, removed>>
        ELSE /\ Advance(h, q)
             /\ Unlink(q)
             /\ removed' = [removed EXCEPT ![h] = @ \/ node[q] # Absent]
    /\ UNCHANGED <<request, answer, pc>>

\* The iterator of remove_all is at its end: remove(folder), which throws when
\* something has been put into it since.
RemoveFolder(h) ==
    /\ pc[h] = "empty" /\ ~Probing(h)
    /\ Top(h).unread = {}
    /\ LET p == Top(h).folder
           last == Len(stack[h]) = 1
           some == removed[h] \/ node[p] # Absent
       IN IF Entries(node, p) # {}
          THEN Finish(h, "terminated") /\ UNCHANGED <<node, fd, stack, removed>>
          ELSE /\ Unlink(p)
               /\ stack' = [stack EXCEPT ![h] = Tail(@)]
               /\ removed' = [removed EXCEPT ![h] = some]
               /\ IF last THEN Finish(h, IF some THEN "ok" ELSE "not_found")
                  ELSE UNCHANGED <<pc, answer>>
    /\ UNCHANGED request

\* The iterator of probe_directory is at its end.
EndProbe(h) ==
    /\ pc[h] = "empty" /\ Probing(h)
    /\ Top(h).unread = {}
    /\ stack' = [stack EXCEPT ![h] = <<>>]
    /\ Finish(h, "ok")
    /\ UNCHANGED <<node, request, fd, removed>>

-----------------------------------------------------------------------------

Step(h) ==
    \/ Reply(h) \/ OpenForWriting(h) \/ WriteAndClose(h) \/ CreateDirectory(h)
    \/ CheckFile(h) \/ ReadFile(h) \/ OpenProbed(h) \/ OpenDeleted(h)
    \/ Keep(h) \/ RemoveEntry(h) \/ RemoveFolder(h) \/ EndProbe(h)

\* An exception on one thread ends them all.
Up == \A h \in Handler : answer[h] # Nothing => answer[h].status # "terminated"

\* The client lists children of the folder it probes, and no other paths.
Sensible == {req \in Request : req.op = "probefolder" =>
                 \A q \in req.children : q # Root /\ Parent[q] = req.path}

Terminated == ~Up /\ UNCHANGED vars

Next ==
    \/ Up /\ \E h \in Handler : Step(h) \/ \E req \in Sensible : Begin(h, req)
    \/ Terminated

Spec == Init /\ [][Next]_vars

-----------------------------------------------------------------------------
(* Properties.                                                             *)

\* Types; whatever exists is in a folder that exists, between any two calls.
TypeOK ==
    /\ IsTree([p \in Path |-> IF node[p] = Partial THEN Absent ELSE node[p]])
    /\ \A p \in Path : node[p] = Partial => HasPlace(node, p)
    /\ request \in [Handler -> Request \cup {Nothing}]
    /\ answer \in [Handler -> [status : Status, digest : Node \cup {Partial}] \cup {Nothing}]
    /\ pc \in [Handler -> {"idle", "begin", "write", "read", "empty", "answer"}]
    /\ fd \in [Handler -> BOOLEAN] /\ removed \in [Handler -> BOOLEAN]
    /\ \A h \in Handler : \A i \in 1 .. Len(stack[h]) : stack[h][i] \in Frame

\* A request is done when its file is opened, or its folder read: what is then
\* removed or written later counts as removed or written.
Going(h) ==
    IF pc[h] # "empty" THEN {}
    ELSE LET frames == stack[h]
             doomed == IF request[h].op = "delete" THEN {request[h].path}
                       ELSE (frames[Len(frames)].unread \ request[h].children)
                              \cup {frames[i].folder : i \in 1 .. Len(frames) - 1}
         IN UNION {Within[q] : q \in doomed}

Seen ==
    [p \in Path |->
        IF \E h \in Handler : p \in Going(h) THEN Absent
        ELSE IF node[p] = Partial
        THEN request[CHOOSE h \in Handler : fd[h] /\ request[h].path = p].content
        ELSE node[p]]

SeenAnswer ==
    [h \in Handler |->
        IF pc[h] \in {"write", "empty"} THEN [status |-> "ok", digest |-> Absent] ELSE answer[h]]

Atomic == INSTANCE AtomicStorage WITH tree <- Seen, answer <- SeenAnswer

\* As long as no request changes what another one needs, each has the effect
\* and the answer it would have alone, at one moment: the threads of the server
\* need no lock for them.
IsAtomic == Atomic!Spec

\* "true if correctly deleted, false otherwise" (backup.cpp:142): a delete is
\* answered, whoever else works in the folder.
DeleteAnswers ==
    \A h \in Handler :
        (answer[h] # Nothing /\ request[h].op = "delete") => answer[h].status # "terminated"

\* "true if file was saved, false otherwise" (backup.cpp:29): what is answered
\* with OK is on the disk.
SavedWhenTrue ==
    \A h \in Handler :
        (answer[h] # Nothing /\ request[h].op = "save" /\ answer[h].status = "ok")
            => node[request[h].path] = request[h].content

=============================================================================
