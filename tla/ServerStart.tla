---------------------------- MODULE ServerStart ----------------------------
(***************************************************************************)
(* How the server comes up (server/main.cpp, server/configuration.cpp, the *)
(* constructor of Dao and getAllUsers in server/dao.cpp): configuration,   *)
(* table of users, a folder for each of them, then requests.  It may end   *)
(* at any point of this, and is started again (Server.tla).  The table and *)
(* the folders may be edited meanwhile: nothing locks them.                *)
(***************************************************************************)
EXTENDS Naturals

CONSTANT User       \* the users there may ever be

VARIABLES
    users,      \* the rows of the table
    folders,    \* the users who have a folder in backuppath
    todo,       \* the rows prepare_environment has read and not come to yet
    lost,       \* history: the rows without a folder that were added, or lost it, since then
    process     \* "off", "config", "users", "folders" or "serving"

vars == <<users, folders, todo, lost, process>>

Init ==
    /\ users \in SUBSET User
    /\ folders \in SUBSET User
    /\ todo = {}
    /\ lost = {}
    /\ process = "off"

Goto(at) == process' = at

\* EXIT_FAILURE, an exception that main() does not catch, a signal, or a kill.
End ==
    /\ process # "off"
    /\ Goto("off")
    /\ todo' = {} /\ lost' = {}
    /\ UNCHANGED <<users, folders>>

Start ==
    /\ process = "off"
    /\ Goto("config")
    /\ UNCHANGED <<users, folders, todo, lost>>

\* A file that has all options; with any other one the process ends.
LoadConfigFile ==
    /\ process = "config"
    /\ Goto("users")
    /\ UNCHANGED <<users, folders, todo, lost>>

\* The database is opened and read; nothing comes of an error or an empty table.
GetAllUsers ==
    /\ process = "users"
    /\ users # {}
    /\ todo' = users
    /\ Goto("folders")
    /\ UNCHANGED <<users, folders, lost>>

\* Users S are added or lose their folder.  Before the table is read nothing counts.
Lose(S) ==
    lost' = IF process \in {"folders", "serving"} THEN (lost \cup S) \cap (users' \ folders')
            ELSE {}

\* Mutant: create_directory with an error_code, which is not looked at.
TryUserFolder ==
    /\ process = "folders"
    /\ \E u \in todo :
        /\ folders' \in {folders, folders \cup {u}}
        /\ todo' = todo \ {u}
    /\ UNCHANGED <<users, process>>
    /\ Lose({})

\* if (!fs::is_directory(path)) fs::create_directory(path); which may throw: End.
UserFolder ==
    /\ process = "folders"
    /\ \E u \in todo :
        /\ folders' = folders \cup {u}
        /\ todo' = todo \ {u}
    /\ UNCHANGED <<users, process>>
    /\ Lose({})

\* The listener and the threads.
Serve ==
    /\ process = "folders"
    /\ todo = {}
    /\ Goto("serving")
    /\ UNCHANGED <<users, folders, todo, lost>>

\* Somebody edits the table, or removes folders, at any time.
Administer ==
    /\ \/ users' \in SUBSET User /\ UNCHANGED folders /\ Lose(users' \ users)
       \/ folders' \in SUBSET folders /\ UNCHANGED users /\ Lose(folders \ folders')
    /\ UNCHANGED <<todo, process>>

Next ==
    \/ Start \/ LoadConfigFile \/ GetAllUsers \/ UserFolder \/ Serve
    \/ End \/ Administer

Spec == Init /\ [][Next]_vars

=============================================================================
