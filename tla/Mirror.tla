------------------------------- MODULE Mirror -------------------------------
(***************************************************************************)
(* What the client promises to the user who edits the watched folder, with *)
(* no walk, no poll, no request and no fault: a copy that is brought up to *)
(* date one path at a time.  A path counts as sent when the client will    *)
(* not look at it again before the user does; what counts as sent is not   *)
(* touched, a content is never replaced by an older one, and only what is  *)
(* copied comes to count.  This is promised while nothing but the client   *)
(* changes the copy, and again from when the client starts anew.           *)
(***************************************************************************)
EXTENDS Integers

CONSTANTS
    Path,
    Content,    \* what a file can hold, numbered in the order of the edits
    Absent,
    Folder

VARIABLES
    folder,     \* the watched folder
    copy,       \* the copy of it
    sent,       \* the paths that count as sent
    alone       \* only the client has changed the copy since it started anew

vars == <<folder, copy, sent, alone>>

Node == Content \cup {Absent, Folder}

Init ==
    /\ folder \in [Path -> Node]
    /\ copy \in [Path -> Node]
    /\ sent = {}
    /\ alone = TRUE

\* c is not older than what t has at p.
NotOlder(t, p, c) == t[p] \in Content => t[p] <= c

\* The user edits, at any time; what is edited no longer counts as sent.
Edit ==
    /\ folder' \in [Path -> Node]
    /\ sent' = {p \in sent : folder'[p] = folder[p]}
    /\ UNCHANGED <<copy, alone>>

\* The copy gets a content, which the user may have replaced by now.
Put(p) ==
    /\ \E c \in Content :
        /\ NotOlder(copy, p, c)
        /\ folder[p] \in Content => c <= folder[p]
        /\ copy' = [copy EXCEPT ![p] = c]
    /\ UNCHANGED <<folder, sent, alone>>

Make(p) ==
    /\ copy[p] = Absent
    /\ copy' = [copy EXCEPT ![p] = Folder]
    /\ UNCHANGED <<folder, sent, alone>>

\* What is outdated is removed.
Drop(S) ==
    /\ copy' = [p \in Path |-> IF p \in S THEN Absent ELSE copy[p]]
    /\ UNCHANGED <<folder, sent, alone>>

Count(p) ==
    /\ copy[p] = folder[p]
    /\ sent' = sent \cup {p}
    /\ UNCHANGED <<folder, copy, alone>>

\* The client gives up, or starts anew.
Forget == sent' = {} /\ alone' \in {alone, TRUE} /\ UNCHANGED <<folder, copy>>

\* Something else has changed the copy: nothing counts as sent any more.
Interfere ==
    /\ copy' \in [Path -> Node]
    /\ sent' = {}
    /\ alone' = FALSE
    /\ UNCHANGED folder

Next ==
    \/ Edit \/ Forget \/ Interfere
    \/ \E p \in Path \ sent : Put(p) \/ Make(p) \/ Count(p)
    \/ \E S \in SUBSET (Path \ sent) : Drop(S)

Spec == Init /\ [][Next]_vars

=============================================================================
