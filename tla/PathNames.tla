----------------------------- MODULE PathNames -----------------------------
(***************************************************************************)
(* How a relative path travels in the target of a request.  The client     *)
(* replaces spaces by %20 (replaceSpaces of client/client.cpp); the server *)
(* refuses a target with ".." (server/server.h), replaces %20 by spaces    *)
(* (replaceSpaces of server/server.cpp) and hands the rest to the file     *)
(* system.  A name is a sequence of characters.  A step is one turn of a   *)
(* loop, or one check.                                                     *)
(***************************************************************************)
EXTENDS Naturals, SequencesExt

CONSTANT MaxLength      \* of the names that are tried

ASSUME LengthAssumption == MaxLength \in Nat

\* "2" stands for any character that means nothing to either program.
Char == {" ", "%", "2", "0", ".", "/"}

Space == <<" ">>
Percent20 == <<"%", "2", "0">>
Dots == <<".", ".">>
Slash == <<"/">>

VARIABLES
    name,       \* the relative path the sender means
    text,       \* what has become of it
    at          \* the code that has it next

nameVars == <<name, text, at>>

Places(part, s) ==
    {i \in 1 .. Len(s) + 1 - Len(part) : SubSeq(s, i, i + Len(part) - 1) = part}

Occurs(part, s) == Places(part, s) # {}

\* str.find(part): the first place, if there is one.
Find(part, s) == {i \in Places(part, s) : \A j \in Places(part, s) : i <= j}

\* A path as a row of components, each between two slashes.
Padded(s) == Slash \o s \o Slash

\* The paths below the watched folder, from directory_iterators, and its own.
IsLocal(s) ==
    s = <<>> \/ \A part \in {<<>>, <<".">>, Dots} : ~Occurs(Slash \o part \o Slash, Padded(s))

Names == BoundedSeq(Char, MaxLength)

-----------------------------------------------------------------------------

\* The sender is the client with a path below its backup_path, or a program of
\* somebody else that uses the API, which may also send what the client does not:
\* any other path, but for spaces, where a target ends.
NameInit ==
    /\ name \in Names
    /\ text = name
    /\ \/ at = "client" /\ IsLocal(name)
       \/ at = "request" /\ ~IsLocal(name) /\ ~Occurs(Space, name)

\* Mutant: if, not while.
ReplaceFirstSpace ==
    /\ at = "client"
    /\ \/ \E i \in Find(Space, text) : text' = ReplaceSubSeqAt(i, Percent20, Space, text)
       \/ ~Occurs(Space, text) /\ text' = text
    /\ at' = "request"
    /\ UNCHANGED name

\* while (str.find(" ") != npos) str.replace(pos, 1, "%20")
ReplaceSpaces ==
    /\ at = "client"
    /\ \/ /\ \E i \in Find(Space, text) : text' = ReplaceSubSeqAt(i, Percent20, Space, text)
          /\ at' = at
       \/ ~Occurs(Space, text) /\ text' = text /\ at' = "request"
    /\ UNCHANGED name

\* Mutant: the dots must be in front of a slash.
AvoidDotsSlash ==
    /\ at = "request"
    /\ at' = IF Occurs(Dots \o Slash, text) THEN "refused" ELSE "server"
    /\ UNCHANGED <<name, text>>

\* if (req_path.find("..") != npos) return send(bad_request("Bad path"))
AvoidTraversal ==
    /\ at = "request"
    /\ at' = IF Occurs(Dots, text) THEN "refused" ELSE "server"
    /\ UNCHANGED <<name, text>>

\* Mutant: str.replace(pos, 3, "") only removes.
RemovePercent20 ==
    /\ at = "server"
    /\ \/ /\ \E i \in Find(Percent20, text) : text' = ReplaceSubSeqAt(i, <<>>, Percent20, text)
          /\ at' = at
       \/ ~Occurs(Percent20, text) /\ text' = text /\ at' = "stored"
    /\ UNCHANGED name

\* while (str.find("%20") != npos) str.replace(pos, 3, " ")
ReplacePercent20 ==
    /\ at = "server"
    /\ \/ /\ \E i \in Find(Percent20, text) : text' = ReplaceSubSeqAt(i, Space, Percent20, text)
          /\ at' = at
       \/ ~Occurs(Percent20, text) /\ text' = text /\ at' = "stored"
    /\ UNCHANGED name

\* The name is used, or refused.
Over == at \in {"stored", "refused"} /\ UNCHANGED nameVars

NameNext == ReplaceSpaces \/ AvoidTraversal \/ ReplacePercent20 \/ Over

NameSpec == NameInit /\ [][NameNext]_nameVars

-----------------------------------------------------------------------------
(* Properties.                                                             *)

\* Types; the target of a request has no space, where HTTP would end it, and no
\* name grows beyond three characters for one.
NameTypeOK ==
    /\ name \in Seq(Char) /\ Len(name) <= MaxLength
    /\ text \in Seq(Char) /\ Len(text) <= 3 * Len(name)
    /\ at \in {"client", "request", "server", "stored", "refused"}
    /\ at = "request" => ~Occurs(Space, text)

\* No name, escaped in whatever way, climbs out of the folder of the user: the
\* check is made before %20 is replaced, and nothing the replacement makes is a
\* "..".
NoTraversal == at = "stored" => ~Occurs(Slash \o Dots \o Slash, Padded(text))

\* The server uses the name the client means, if that has no %20 in it; the
\* replacement of one space never hides or makes up another one.
NameArrives ==
    (at = "stored" /\ IsLocal(name) /\ ~Occurs(Percent20, name)) => text = name

\* "substitute spaces with %20" (client.cpp:54) and "substitute %20 with spaces"
\* (server.h:105) undo each other.
EveryNameArrives == (at = "stored" /\ IsLocal(name)) => text = name

\* "avoid path traversal" (server.h:102) refuses names that climb, and no entry
\* of the client's folder does.
OnlyTraversalRefused == at = "refused" => ~IsLocal(name)

=============================================================================
