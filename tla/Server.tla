------------------------------- MODULE Server -------------------------------
(***************************************************************************)
(* The server from its start to its end, and started again: ServerStart.tla*)
(* brings it up, Api.tla answers one message after the other, and what     *)
(* handle_request throws ends the process.  The folder of the user is the  *)
(* one that ServerStart makes and Storage.tla works in, until a request or  *)
(* somebody else removes it.                                               *)
(***************************************************************************)
EXTENDS Api

VARIABLES users, folders, todo, lost, process     \* of ServerStart.tla

startVars == <<users, folders, todo, lost, process>>

Start == INSTANCE ServerStart WITH User <- AnyName

allVars == <<vars, startVars>>

EmptyFolder == [p \in Path |-> IF p = Root THEN Folder ELSE Absent]

Init ==
    /\ Start!Init
    /\ tree \in IF User \in folders THEN {t \in [Path -> Node] : IsStored(t)} ELSE {NoFolder}
    /\ token \in IF User \in users THEN Token ELSE {NoToken}
    /\ message = NoMessage
    /\ status = "none"

\* What a request does to the user's folder as a whole.
FolderAfter ==
    /\ folders' = IF tree'[Root] = Folder THEN folders \cup {User} ELSE folders \ {User}
    /\ UNCHANGED <<users, todo, process>>
    /\ Start!Lose(folders \ folders')

\* io_context::run() on one thread, until an exception leaves it.
Requests ==
    /\ process = "serving"
    /\ \/ Receive /\ UNCHANGED startVars
       \/ /\ Handle(User \in users)
          /\ IF status' = "terminated" THEN Start!End ELSE FolderAfter

\* Start and end, and what somebody does to table and folders.  A folder that is
\* made is empty, a row that is added has no token; a clean shutdown deletes the
\* tokens.  A message that is lost at the end might as well not have come.
StartOrEnd ==
    /\ message = NoMessage
    /\ Start!Next
    /\ tree' = CASE User \in folders' \ folders -> EmptyFolder
                 [] User \in folders \ folders' -> NoFolder
                 [] OTHER                       -> tree
    /\ token' \in IF User \notin users' THEN {NoToken}
                  ELSE IF process = "serving" THEN {token, NoToken}
                  ELSE {token}
    /\ UNCHANGED <<message, status>>

Next == Requests \/ StartOrEnd

Spec == Init /\ [][Next]_allVars

-----------------------------------------------------------------------------
(* Properties.                                                             *)

\* The backup stays a tree, or is gone, whatever messages come; every message has
\* one of the answers of server.h:50-91, or none because the process has ended.
TypeOK ==
    /\ tree = NoFolder \/ IsTree(tree)
    /\ token \in Token
    /\ message \in Message \cup {NoMessage}
    /\ status \in Status \cup {"none", "unauthorized"}
    /\ users \subseteq AnyName /\ folders \subseteq AnyName
    /\ todo \subseteq AnyName /\ lost \subseteq AnyName
    /\ process \in {"off", "config", "users", "folders", "serving"}

\* "create a folder for each user on the server" (main.cpp:14): whoever can log in
\* has a folder, with a tree in it, when requests come: also after a start that
\* was cut short between two folders, and after a folder was lost.  Only who has
\* been added, or has lost the folder, since the server has read the table may be
\* without.  Storage and BackupSystem rely on it.
ServedHaveFolder ==
    process = "serving" =>
        /\ users \subseteq folders \cup lost
        /\ User \in folders => IsTree(tree)

\* "avoid root cancellation" (server.h:278): no message removes the folder of the
\* user.  The code looks only for the empty path.
RootStays ==
    [][(message # NoMessage /\ User \in folders) => User \in folders']_allVars

=============================================================================
