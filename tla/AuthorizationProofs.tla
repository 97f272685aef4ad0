------------------------ MODULE AuthorizationProofs ------------------------
(***************************************************************************)
(* Proofs about Authorization, for every number of users, clients,         *)
(* connections and threads, with or without errors of the database.        *)
(***************************************************************************)
EXTENDS Authorization, TLAPS

\* At first nothing is on any connection.
LEMMA InitTyped == Init => TypeOK
<1> SUFFICES ASSUME Init PROVE TypeOK
  OBVIOUS
<1>1. NoToken \in Token /\ 0 \in Token
  BY BoundAssumption DEF Token, NoToken
<1>2. \A c \in Connection : ~At(c, "act") /\ ~At(c, "clear")
  BY DEF Init, At
<1> QED
  BY <1>1, <1>2 DEF Init, TypeOK, Free

\* The fields of what is on an open connection.
LEMMA OpenFields ==
    ASSUME TypeOK, NEW c \in Connection, conn[c] # Free
    PROVE  conn[c] \in Open
BY DEF TypeOK

\* A step of the handler on connection c replaces what is there by another
\* well-formed request; if the handler will act, it has a user.
LEMMA HandlerTyped ==
    ASSUME TypeOK, NEW c \in Connection, NEW r \in Open,
           conn' = [conn EXCEPT ![c] = r],
           r.stage \in {"act", "clear"} => r.user \in User,
           tokens' \in [User -> Token], created' \in Token,
           UNCHANGED <<token, server>>
    PROVE  TypeOK'
<1>1. conn' \in [Connection -> Open \cup {Free}]
  BY DEF TypeOK
<1>2. ASSUME NEW d \in Connection, (At(d, "act") \/ At(d, "clear"))'
      PROVE conn'[d].user \in User
  <2>1. CASE d = c
    <3>1. conn'[d] = r
      BY <2>1 DEF TypeOK
    <3> QED
      BY <1>2, <3>1 DEF At
  <2>2. CASE d # c
    <3>1. conn'[d] = conn[d]
      BY <2>2 DEF TypeOK
    <3> QED
      BY <1>2, <3>1 DEF At, TypeOK
  <2> QED
    BY <2>1, <2>2
<1> QED
  BY <1>1, <1>2 DEF TypeOK

\* Answer(c, status) leaves a well-formed request, with nothing to act on.
LEMMA AnswerTyped ==
    ASSUME TypeOK, NEW c \in Connection, conn[c] # Free,
           NEW status \in {"none", "ok", "unauthorized", "server_error"},
           Answer(c, status),
           tokens' \in [User -> Token], created' \in Token,
           UNCHANGED <<token, server>>
    PROVE  TypeOK'
<1> DEFINE r == [conn[c] EXCEPT !.stage = "answered", !.status = status]
<1>1. conn[c] \in Open
  BY OpenFields
<1>2. r \in Open /\ r.stage = "answered"
  BY <1>1 DEF Open
<1>3. conn' = [conn EXCEPT ![c] = r]
  BY DEF Answer, TypeOK
<1> HIDE DEF r
<1> QED
  BY <1>2, <1>3, HandlerTyped

LEMMA NextTyped == TypeOK /\ [Next]_vars => TypeOK'
<1> SUFFICES ASSUME TypeOK, [Next]_vars PROVE TypeOK'
  OBVIOUS
<1>0. /\ NoToken \in Token /\ created \in Nat
      /\ \A c \in Connection : conn[c] \in Open \cup {Free}
  BY BoundAssumption DEF TypeOK, Token, NoToken
<1>1. CASE UNCHANGED vars
  BY <1>1 DEF vars, TypeOK, At
<1>2. ASSUME NEW c \in Connection, NEW k \in Client, Login(c, k) \/ Backup(c, k) \/ Logout(c, k)
      PROVE TypeOK'
  <2>1. PICK kind \in {"login", "guess", "backup", "logout"} : Request(c, k, kind)
    BY <1>2 DEF Login, Backup, Logout
  <2>2. [stage |-> "sent", client |-> k, kind |-> kind, token |-> token[k],
         user |-> NoUser, status |-> "none"] \in Open
    BY DEF TypeOK, Open
  <2> QED
    BY <2>1, <2>2 DEF Request, TypeOK, At
<1>3. ASSUME NEW k \in Client, ClientExit(k) PROVE TypeOK'
  BY <1>0, <1>3 DEF ClientExit, TypeOK, At
<1>4. ASSUME NEW c \in Connection,
             \/ Read(c) \/ Take(c) \/ VerifyPassword(c) \/ SaveToken(c)
             \/ VerifyToken(c) \/ Act(c) \/ LogoutUser(c)
      PROVE TypeOK'
  <2>0. conn[c] # Free /\ conn[c] \in Open
    BY <1>4, OpenFields DEF Read, Take, TakeWith, VerifyPassword, SaveToken, VerifyToken, Act,
       LogoutUser, At
  <2>1. CASE Read(c)
    BY <1>0, <2>0, <2>1 DEF Read, TypeOK, At, Open
  <2>2. CASE Take(c)
    <3>1. CASE Answer(c, "unauthorized") /\ UNCHANGED <<tokens, token, created, server>>
      BY <2>0, <3>1, AnswerTyped DEF TypeOK
    <3>2. ASSUME NEW s \in {"check", "auth"}, conn' = [conn EXCEPT ![c].stage = s],
                 UNCHANGED <<tokens, token, created, server>>
          PROVE TypeOK'
      <4> DEFINE r == [conn[c] EXCEPT !.stage = s]
      <4>1. r \in Open /\ r.stage = s
        BY <2>0 DEF Open
      <4>2. conn' = [conn EXCEPT ![c] = r]
        BY <3>2
      <4> HIDE DEF r
      <4> QED
        BY <3>2, <4>1, <4>2, HandlerTyped DEF TypeOK
    <3> QED
      BY <2>2, <3>1, <3>2 DEF Take, TakeWith
  <2>3. CASE VerifyPassword(c)
    <3>1. CASE Answer(c, "unauthorized") /\ UNCHANGED <<tokens, token, created, server>>
      BY <2>0, <3>1, AnswerTyped DEF TypeOK
    <3>2. CASE /\ created < MaxToken
               /\ created' = created + 1
               /\ conn' = [conn EXCEPT ![c].stage = "save", ![c].token = created + 1]
               /\ UNCHANGED <<tokens, token, server>>
      <4> DEFINE r == [conn[c] EXCEPT !.stage = "save", !.token = created + 1]
      <4>1. created + 1 \in Token
        BY <3>2, BoundAssumption DEF TypeOK, Token
      <4>2. r \in Open /\ r.stage = "save"
        BY <2>0, <4>1 DEF Open
      <4>3. conn' = [conn EXCEPT ![c] = r]
        BY <3>2 DEF TypeOK
      <4> HIDE DEF r
      <4> QED
        BY <3>2, <4>1, <4>2, <4>3, HandlerTyped DEF TypeOK
    <3> QED
      BY <2>3, <3>1, <3>2 DEF VerifyPassword
  <2>4. CASE SaveToken(c)
    <3>1. tokens' \in [User -> Token]
      BY <2>0, <2>4 DEF SaveToken, TypeOK, Open
    <3> QED
      BY <2>0, <2>4, <3>1, AnswerTyped DEF SaveToken, TypeOK
  <2>5. CASE VerifyToken(c)
    <3>1. CASE Answer(c, "unauthorized") /\ UNCHANGED <<tokens, token, created, server>>
      BY <2>0, <3>1, AnswerTyped DEF TypeOK
    <3>2. ASSUME NEW s \in {"act", "clear"}, NEW u \in User,
                 conn' = [conn EXCEPT ![c].stage = s, ![c].user = u],
                 UNCHANGED <<tokens, token, created, server>>
          PROVE TypeOK'
      <4> DEFINE r == [conn[c] EXCEPT !.stage = s, !.user = u]
      <4>1. r \in Open /\ r.user = u
        BY <2>0 DEF Open
      <4>2. conn' = [conn EXCEPT ![c] = r]
        BY <3>2 DEF TypeOK
      <4> HIDE DEF r
      <4> QED
        BY <3>2, <4>1, <4>2, HandlerTyped DEF TypeOK
    <3> QED
      BY <2>5, <3>1, <3>2 DEF VerifyToken
  <2>6. CASE Act(c)
    BY <2>0, <2>6, AnswerTyped DEF Act, TypeOK
  <2>7. CASE LogoutUser(c)
    <3>1. tokens' \in [User -> Token]
      BY <1>0, <2>7 DEF LogoutUser, TypeOK
    <3> QED
      BY <2>0, <2>7, <3>1, AnswerTyped DEF LogoutUser, TypeOK
  <2> QED
    BY <1>4, <2>1, <2>2, <2>3, <2>4, <2>5, <2>6, <2>7
<1>5. CASE Stop \/ DeleteAllTokens \/ Exit \/ Kill \/ Start
  BY <1>0, <1>5 DEF Stop, DeleteAllTokens, Exit, Kill, Start, TypeOK, At
<1> QED
  BY <1>1, <1>2, <1>3, <1>4, <1>5 DEF Next

\* The variables keep their types, and a handler that acts has a user.
THEOREM TypeCorrect == Spec => []TypeOK
BY InitTyped, NextTyped, PTL DEF Spec

-----------------------------------------------------------------------------

(***************************************************************************)
(* The inductive invariant for the ownership of tokens.  That a token is   *)
(* with one user is not inductive alone: a new token must be with nobody,  *)
(* so those that are with somebody are counted in "created"; and no        *)
(* handler may look up the empty string, which is in many rows.            *)
(***************************************************************************)
OwnerInv ==
    /\ TokenOfOneUser
    /\ \A t \in Token \ {NoToken}, u \in User : HolderOf(t, u) => t <= created
    /\ \A c \in Connection : At(c, "auth") => conn[c].token # NoToken
    /\ ActsAsOwner

\* A step that brings no token to a user who had not got it keeps the part of
\* the invariant that is about tokens.
LEMMA NoNewHolder ==
    ASSUME OwnerInv, UNCHANGED created,
           \A t \in Token \ {NoToken}, u \in User : HolderOf(t, u)' => HolderOf(t, u)
    PROVE  /\ TokenOfOneUser'
           /\ \A t \in Token \ {NoToken}, u \in User : HolderOf(t, u)' => t <= created'
BY DEF OwnerInv, TokenOfOneUser, Token, NoToken

\* A handler's step keeps OwnerInv if it brings no token to a new user, and
\* leaves on its connection nothing that breaks the rest.
LEMMA HandlerKeepsOwner ==
    ASSUME TypeOK, OwnerInv, NEW c \in Connection, conn[c] # Free, NEW r,
           conn' = [conn EXCEPT ![c] = r], UNCHANGED created,
           r.stage = "auth" => r.token # NoToken,
           r.stage \in {"act", "clear"} => r.user = UserOf[r.client],
           \A t \in Token \ {NoToken}, u \in User : HolderOf(t, u)' => HolderOf(t, u)
    PROVE  OwnerInv'
<1>1. \A d \in Connection : conn'[d] = IF d = c THEN r ELSE conn[d]
  BY DEF TypeOK
<1>2. \A d \in Connection : At(d, "auth")' => conn'[d].token # NoToken
  BY <1>1 DEF OwnerInv, At
<1>3. ActsAsOwner'
  BY <1>1 DEF OwnerInv, ActsAsOwner, At
<1> QED
  BY <1>2, <1>3, NoNewHolder DEF OwnerInv

LEMMA InitOwner == Init => OwnerInv
<1> SUFFICES ASSUME Init PROVE OwnerInv
  OBVIOUS
<1>1. \A t \in Token \ {NoToken}, u \in User : ~HolderOf(t, u)
  BY UserAssumption DEF Init, HolderOf
<1>2. \A c \in Connection, stage \in {"auth", "act", "clear"} : ~At(c, stage)
  BY DEF Init, At
<1> QED
  BY <1>1, <1>2 DEF OwnerInv, TokenOfOneUser, ActsAsOwner

\* The token of a request stays with its client while a handler works on it.
LEMMA SameToken ==
    ASSUME TypeOK, NEW c \in Connection, conn[c] # Free, NEW r,
           conn' = [conn EXCEPT ![c] = r],
           r.token = conn[c].token, r.client = conn[c].client,
           UNCHANGED token,
           \A t \in Token \ {NoToken}, u \in User : tokens'[u] = t => HolderOf(t, u)
    PROVE  \A t \in Token \ {NoToken}, u \in User : HolderOf(t, u)' => HolderOf(t, u)
<1>1. \A d \in Connection : conn'[d] = IF d = c THEN r ELSE conn[d]
  BY DEF TypeOK
<1> QED
  BY <1>1 DEF HolderOf

\* Answer(c, status) keeps OwnerInv if what it does to the table does.
LEMMA AnswerKeepsOwner ==
    ASSUME TypeOK, OwnerInv, NEW c \in Connection, conn[c] # Free, NEW status,
           Answer(c, status), UNCHANGED <<token, created>>,
           \A t \in Token \ {NoToken}, u \in User : tokens'[u] = t => HolderOf(t, u)
    PROVE  OwnerInv'
<1> DEFINE r == [conn[c] EXCEPT !.stage = "answered", !.status = status]
<1>1. conn[c] \in Open
  BY OpenFields
<1>2. /\ r.stage = "answered"
      /\ r.token = conn[c].token
      /\ r.client = conn[c].client
  BY <1>1 DEF Open
<1>3. conn' = [conn EXCEPT ![c] = r]
  BY DEF Answer, TypeOK
<1> HIDE DEF r
<1>4. \A t \in Token \ {NoToken}, u \in User : HolderOf(t, u)' => HolderOf(t, u)
  BY <1>2, <1>3, SameToken
<1> QED
  BY <1>2, <1>3, <1>4, HandlerKeepsOwner

\* The handler that sends back a new token: nobody had it.
LEMMA NewTokenKeepsOwner ==
    ASSUME TypeOK, OwnerInv, NEW c \in Connection, At(c, "check"),
           created' = created + 1,
           conn' = [conn EXCEPT ![c].stage = "save", ![c].token = created + 1],
           UNCHANGED <<tokens, token>>
    PROVE  OwnerInv'
<1> DEFINE r == [conn[c] EXCEPT !.stage = "save", !.token = created + 1]
<1>1. conn[c] \in Open /\ conn[c] # Free
  BY OpenFields DEF At
<1>2. r.stage = "save" /\ r.token = created + 1 /\ r.client = conn[c].client
  BY <1>1 DEF Open
<1>3. conn' = [conn EXCEPT ![c] = r]
  BY DEF TypeOK
<1> HIDE DEF r
<1>4. \A d \in Connection : conn'[d] = IF d = c THEN r ELSE conn[d]
  BY <1>3 DEF TypeOK
<1>5. \A t \in Token \ {NoToken}, u \in User :
        HolderOf(t, u)' => HolderOf(t, u) \/ (t = created + 1 /\ u = UserOf[conn[c].client])
  <2> SUFFICES ASSUME NEW t \in Token \ {NoToken}, NEW u \in User, HolderOf(t, u)',
                      ~HolderOf(t, u)
               PROVE  t = created + 1 /\ u = UserOf[conn[c].client]
    OBVIOUS
  <2>1. \A d \in Connection : conn'[d] = conn[d] => ~(/\ conn'[d] # Free
                                                     /\ conn'[d].token = t
                                                     /\ UserOf[conn'[d].client] = u)
    BY DEF HolderOf
  <2>2. PICK d \in Connection : conn'[d].token = t /\ UserOf[conn'[d].client] = u
                               /\ conn'[d] # Free
    BY DEF HolderOf
  <2>3. d = c
    BY <1>4, <2>1, <2>2
  <2> QED
    BY <1>2, <1>4, <2>2, <2>3
<1>6. created \in Nat /\ Token \subseteq Nat
  BY DEF TypeOK, Token
<1>7. \A u \in User : created + 1 \in Token \ {NoToken} => ~HolderOf(created + 1, u)
  BY <1>6 DEF OwnerInv
<1>8. TokenOfOneUser'
  BY <1>5, <1>7 DEF OwnerInv, TokenOfOneUser, Token, NoToken
<1>9. \A t \in Token \ {NoToken}, u \in User : HolderOf(t, u)' => t <= created'
  <2> TAKE t \in Token \ {NoToken}, u \in User
  <2>1. HolderOf(t, u)' => t <= created \/ t = created + 1
    BY <1>5 DEF OwnerInv
  <2> QED
    BY <1>6, <2>1
<1>10. \A d \in Connection : At(d, "auth")' => conn'[d].token # NoToken
  BY <1>2, <1>4 DEF OwnerInv, At
<1>11. ActsAsOwner'
  BY <1>2, <1>4, ZenonT(40) DEF OwnerInv, ActsAsOwner, At
<1> QED
  BY <1>8, <1>9, <1>10, <1>11 DEF OwnerInv, Token, NoToken

LEMMA NextOwner == TypeOK /\ OwnerInv /\ [Next]_vars => OwnerInv'
<1> SUFFICES ASSUME TypeOK, OwnerInv, [Next]_vars PROVE OwnerInv'
  OBVIOUS
<1>1. CASE UNCHANGED vars
  <2>1. \A t \in Token \ {NoToken}, u \in User : HolderOf(t, u)' => HolderOf(t, u)
    BY <1>1 DEF vars, HolderOf
  <2> QED
    BY <1>1, <2>1, NoNewHolder DEF vars, OwnerInv, ActsAsOwner, At
<1>2. ASSUME NEW c \in Connection, NEW k \in Client, Login(c, k) \/ Backup(c, k) \/ Logout(c, k)
      PROVE OwnerInv'
  <2>1. PICK kind \in {"login", "guess", "backup", "logout"} : Request(c, k, kind)
    BY <1>2 DEF Login, Backup, Logout
  <2>2. \A d \in Connection :
          conn'[d] = IF d = c THEN [stage |-> "sent", client |-> k, kind |-> kind,
                                    token |-> token[k], user |-> NoUser, status |-> "none"]
                              ELSE conn[d]
    BY <2>1 DEF Request, TypeOK
  <2>3. \A t \in Token \ {NoToken}, u \in User : HolderOf(t, u)' => HolderOf(t, u)
    BY <2>1, <2>2 DEF Request, HolderOf
  <2>4. \A d \in Connection : At(d, "auth")' => conn'[d].token # NoToken
    BY <2>2 DEF OwnerInv, At
  <2>5. ActsAsOwner'
    BY <2>2 DEF OwnerInv, ActsAsOwner, At
  <2> QED
    BY <2>1, <2>3, <2>4, <2>5, NoNewHolder DEF Request, OwnerInv
<1>3. ASSUME NEW k \in Client, ClientExit(k) PROVE OwnerInv'
  <2>1. \A t \in Token \ {NoToken}, u \in User : HolderOf(t, u)' => HolderOf(t, u)
    BY <1>3 DEF ClientExit, HolderOf, TypeOK
  <2> QED
    BY <1>3, <2>1, NoNewHolder DEF ClientExit, OwnerInv, ActsAsOwner, At
<1>4. ASSUME NEW c \in Connection, Read(c) PROVE OwnerInv'
  <2>1. \A d \in Connection : conn'[d] = IF d = c THEN Free ELSE conn[d]
    BY <1>4 DEF Read, TypeOK
  <2>2. \A k \in Client : \/ token'[k] = token[k]
                          \/ token'[k] = NoToken
                          \/ token'[k] = conn[c].token /\ k = conn[c].client
    BY <1>4, OpenFields DEF Read, TypeOK
  <2>3. conn[c] # Free
    BY <1>4 DEF Read
  <2>4. \A t \in Token \ {NoToken}, u \in User : HolderOf(t, u)' => HolderOf(t, u)
    BY <1>4, <2>1, <2>2, <2>3 DEF Read, HolderOf
  <2>5. \A d \in Connection, stage \in {"auth", "act", "clear"} :
          At(d, stage)' => At(d, stage) /\ conn'[d] = conn[d]
    BY <2>1 DEF At
  <2> QED
    BY <1>4, <2>4, <2>5, NoNewHolder DEF Read, OwnerInv, ActsAsOwner
<1>5. ASSUME NEW c \in Connection, Take(c) PROVE OwnerInv'
  <2>0. conn[c] # Free /\ conn[c] \in Open
    BY <1>5, OpenFields DEF Take, TakeWith, At
  <2>1. CASE Answer(c, "unauthorized") /\ UNCHANGED <<tokens, token, created, server>>
    BY <2>0, <2>1, AnswerKeepsOwner DEF HolderOf
  <2>2. ASSUME NEW s \in {"check", "auth"}, s = "auth" => conn[c].token # NoToken,
               conn' = [conn EXCEPT ![c].stage = s],
               UNCHANGED <<tokens, token, created, server>>
        PROVE OwnerInv'
    <3> DEFINE r == [conn[c] EXCEPT !.stage = s]
    <3>1. r.stage = s /\ r.token = conn[c].token /\ r.client = conn[c].client
      BY <2>0 DEF Open
    <3>2. conn' = [conn EXCEPT ![c] = r]
      BY <2>2
    <3> HIDE DEF r
    <3>3. \A t \in Token \ {NoToken}, u \in User : HolderOf(t, u)' => HolderOf(t, u)
      BY <2>0, <2>2, <3>1, <3>2, SameToken DEF HolderOf
    <3> QED
      BY <2>0, <2>2, <3>1, <3>2, <3>3, HandlerKeepsOwner
  <2> QED
    BY <1>5, <2>1, <2>2 DEF Take, TakeWith
<1>6. ASSUME NEW c \in Connection, VerifyPassword(c) PROVE OwnerInv'
  <2>1. CASE Answer(c, "unauthorized") /\ UNCHANGED <<tokens, token, created, server>>
    BY <1>6, <2>1, AnswerKeepsOwner DEF VerifyPassword, At, HolderOf
  <2> QED
    BY <1>6, <2>1, NewTokenKeepsOwner DEF VerifyPassword
<1>7. ASSUME NEW c \in Connection, SaveToken(c) PROVE OwnerInv'
  <2>1. conn[c] # Free /\ conn[c] \in Open
    BY <1>7, OpenFields DEF SaveToken, At
  <2>2. \A t \in Token \ {NoToken}, u \in User : tokens'[u] = t => HolderOf(t, u)
    BY <1>7, <2>1 DEF SaveToken, HolderOf, TypeOK, Open
  <2> QED
    BY <1>7, <2>1, <2>2, AnswerKeepsOwner DEF SaveToken
<1>8. ASSUME NEW c \in Connection, VerifyToken(c) PROVE OwnerInv'
  <2>0. conn[c] # Free /\ conn[c] \in Open /\ conn[c].token # NoToken
    BY <1>8, OpenFields DEF VerifyToken, At, OwnerInv
  <2>1. CASE Answer(c, "unauthorized") /\ UNCHANGED <<tokens, token, created, server>>
    BY <2>0, <2>1, AnswerKeepsOwner DEF HolderOf
  <2>2. ASSUME NEW s \in {"act", "clear"}, NEW u \in User, tokens[u] = conn[c].token,
               conn' = [conn EXCEPT ![c].stage = s, ![c].user = u],
               UNCHANGED <<tokens, token, created, server>>
        PROVE OwnerInv'
    <3> DEFINE r == [conn[c] EXCEPT !.stage = s, !.user = u]
    <3>1. /\ r.stage = s /\ r.user = u
          /\ r.token = conn[c].token /\ r.client = conn[c].client
      BY <2>0 DEF Open
    <3>2. conn' = [conn EXCEPT ![c] = r]
      BY <2>2 DEF TypeOK
    <3> HIDE DEF r
    <3>3. \A t \in Token \ {NoToken}, v \in User : HolderOf(t, v)' => HolderOf(t, v)
      BY <2>0, <2>2, <3>1, <3>2, SameToken DEF HolderOf
    <3>4. u = UserOf[conn[c].client]
      <4>1. HolderOf(conn[c].token, u) /\ HolderOf(conn[c].token, UserOf[conn[c].client])
        BY <2>0, <2>2 DEF HolderOf
      <4> QED
        BY <2>0, <4>1, UserAssumption DEF OwnerInv, TokenOfOneUser, Open
    <3> QED
      BY <2>0, <2>2, <3>1, <3>2, <3>3, <3>4, HandlerKeepsOwner, ZenonT(40)
  <2> QED
    BY <1>8, <2>1, <2>2 DEF VerifyToken
<1>9. ASSUME NEW c \in Connection, Act(c) \/ LogoutUser(c) PROVE OwnerInv'
  <2>1. conn[c] # Free
    BY <1>9 DEF Act, LogoutUser, At
  <2>2. \A t \in Token \ {NoToken}, u \in User : tokens'[u] = t => HolderOf(t, u)
    BY <1>9 DEF Act, LogoutUser, HolderOf, TypeOK
  <2> QED
    BY <1>9, <2>1, <2>2, AnswerKeepsOwner DEF Act, LogoutUser
<1>10. CASE Stop \/ DeleteAllTokens \/ Exit \/ Kill \/ Start
  <2>1. \A t \in Token \ {NoToken}, u \in User : HolderOf(t, u)' => HolderOf(t, u)
    BY <1>10 DEF Stop, DeleteAllTokens, Exit, Kill, Start, HolderOf, TypeOK
  <2>2. \A d \in Connection, stage \in {"auth", "act", "clear"} :
          At(d, stage)' => At(d, stage) /\ conn'[d] = conn[d]
    BY <1>10 DEF Stop, DeleteAllTokens, Exit, Kill, Start, At
  <2>3. UNCHANGED created
    BY <1>10 DEF Stop, DeleteAllTokens, Exit, Kill, Start
  <2> QED
    BY <2>1, <2>2, <2>3, NoNewHolder DEF OwnerInv, ActsAsOwner
<1> QED
  BY <1>1, <1>2, <1>3, <1>4, <1>5, <1>6, <1>7, <1>8, <1>9, <1>10 DEF Next

\* The invariant from which the two results follow.
THEOREM OwnerInvariant == Spec => []OwnerInv
BY InitTyped, NextTyped, InitOwner, NextOwner, PTL DEF Spec

\* No token gets from one user to another.
THEOREM TokensStayApart == Spec => []TokenOfOneUser
BY OwnerInvariant, PTL DEF OwnerInv

\* Every request is executed for the user who sent it.
THEOREM ActsAsTheOwner == Spec => []ActsAsOwner
BY OwnerInvariant, PTL DEF OwnerInv

-----------------------------------------------------------------------------

(***************************************************************************)
(* The inductive invariant for logouts.  A token that is not in the table  *)
(* yet must be with nobody but the handler that will save it: then what a  *)
(* logout has removed cannot come back.  The other conjuncts say what kind *)
(* of request each step of a handler belongs to.                           *)
(***************************************************************************)
SavedByOneHandler(c) ==
    /\ conn[c].token # NoToken
    /\ \A u \in User : tokens[u] # conn[c].token
    /\ \A k \in Client : token[k] # conn[c].token
    /\ \A d \in Connection \ {c} : conn[d] # Free => conn[d].token # conn[c].token

LoggedOut(c) == At(c, "answered") /\ conn[c].kind = "logout" /\ conn[c].status = "ok"

LogoutInv ==
    /\ LogoutFinal
    /\ \A c \in Connection :
        /\ At(c, "save") => SavedByOneHandler(c)
        /\ At(c, "check") \/ At(c, "save") => conn[c].kind \in {"login", "guess"}
        /\ At(c, "act") => conn[c].kind # "logout"
        /\ At(c, "clear") \/ LoggedOut(c) => conn[c].token # NoToken

LEMMA InitLogout == Init => LogoutInv
BY DEF Init, LogoutInv, LogoutFinal, LoggedOut, At

\* What Answer(c, status) leaves on the connections.
LEMMA AnswerResult ==
    ASSUME TypeOK, NEW c \in Connection, conn[c] # Free, NEW status, Answer(c, status)
    PROVE  /\ \A d \in Connection \ {c} : conn'[d] = conn[d]
           /\ conn'[c] # Free
           /\ conn'[c].stage = "answered" /\ conn'[c].status = status
           /\ conn'[c].kind = conn[c].kind /\ conn'[c].token = conn[c].token
<1>1. conn[c] \in Open
  BY OpenFields
<1>2. conn'[c] = [conn[c] EXCEPT !.stage = "answered", !.status = status]
  BY DEF Answer, TypeOK
<1>3. conn'[c].stage = "answered" /\ conn'[c].status = status
  BY <1>1, <1>2 DEF Open
<1>4. conn'[c].kind = conn[c].kind /\ conn'[c].token = conn[c].token
  BY <1>1, <1>2 DEF Open
<1>5. conn'[c] # Free
  BY <1>3 DEF Free
<1>6. \A d \in Connection \ {c} : conn'[d] = conn[d]
  BY DEF Answer, TypeOK
<1> QED
  BY <1>3, <1>4, <1>5, <1>6

\* A handler's step keeps LogoutInv if it goes to a place for its kind of request
\* and writes into the table nothing but the empty string or its own new token.
LEMMA HandlerKeepsLogout ==
    ASSUME LogoutInv, NEW c \in Connection, conn[c] # Free,
           \A d \in Connection \ {c} : conn'[d] = conn[d],
           conn'[c] # Free, conn'[c].kind = conn[c].kind, conn'[c].token = conn[c].token,
           conn'[c].stage # "save",
           conn'[c].stage = "check" => conn[c].kind \in {"login", "guess"},
           conn'[c].stage = "act" => conn[c].kind # "logout",
           conn'[c].stage = "clear" => conn[c].token # NoToken,
           LoggedOut(c)' => /\ conn[c].token # NoToken
                            /\ \A u \in User : tokens'[u] # conn[c].token,
           \A u \in User : \/ tokens'[u] = tokens[u]
                           \/ tokens'[u] = NoToken
                           \/ tokens'[u] = conn[c].token /\ At(c, "save"),
           UNCHANGED token
    PROVE  LogoutInv'
<1>1. ASSUME NEW d \in Connection, LoggedOut(d)'
      PROVE  conn'[d].token # NoToken /\ \A u \in User : tokens'[u] # conn'[d].token
  <2>1. CASE d = c
    BY <1>1, <2>1
  <2>2. CASE d # c
    <3>1. conn'[d] = conn[d] /\ LoggedOut(d) /\ conn[d] # Free
      BY <1>1, <2>2 DEF LoggedOut, At
    <3>2. conn[d].token # NoToken /\ \A u \in User : tokens[u] # conn[d].token
      BY <3>1 DEF LogoutInv, LogoutFinal, LoggedOut
    <3>3. At(c, "save") => conn[d].token # conn[c].token
      BY <2>2, <3>1 DEF LogoutInv, SavedByOneHandler
    <3> QED
      BY <3>1, <3>2, <3>3
  <2> QED
    BY <2>1, <2>2
<1>2. ASSUME NEW d \in Connection, At(d, "save")' PROVE SavedByOneHandler(d)'
  <2>1. d # c
    BY <1>2 DEF At
  <2>2. conn'[d] = conn[d] /\ At(d, "save") /\ conn[d] # Free
    BY <1>2, <2>1 DEF At
  <2>3. SavedByOneHandler(d)
    BY <2>2 DEF LogoutInv
  <2>4. \A e \in Connection \ {d} : conn'[e] # Free => conn'[e].token # conn[d].token
    BY <2>1, <2>3 DEF SavedByOneHandler
  <2>5. \A u \in User : tokens'[u] # conn[d].token
    BY <2>1, <2>3 DEF SavedByOneHandler
  <2> QED
    BY <2>2, <2>3, <2>4, <2>5 DEF SavedByOneHandler
<1>3. ASSUME NEW d \in Connection
      PROVE  /\ (At(d, "check") \/ At(d, "save"))' => conn'[d].kind \in {"login", "guess"}
             /\ At(d, "act")' => conn'[d].kind # "logout"
             /\ At(d, "clear")' => conn'[d].token # NoToken
  BY DEF LogoutInv, At
<1>4. LogoutFinal'
  BY <1>1 DEF LogoutFinal, LoggedOut
<1> QED
  BY <1>1, <1>2, <1>3, <1>4 DEF LogoutInv

\* So it is when the handler answers anything else than OK to a logout.
LEMMA AnswerKeepsLogout ==
    ASSUME TypeOK, LogoutInv, NEW c \in Connection, conn[c] # Free, NEW status,
           Answer(c, status), status = "ok" => conn[c].kind # "logout",
           \A u \in User : \/ tokens'[u] = tokens[u]
                           \/ tokens'[u] = NoToken
                           \/ tokens'[u] = conn[c].token /\ At(c, "save"),
           UNCHANGED token
    PROVE  LogoutInv'
<1>1. ~LoggedOut(c)'
  BY AnswerResult DEF LoggedOut
<1> QED
  BY <1>1, AnswerResult, HandlerKeepsLogout

\* The handler of a login that creates a token: it is the only one to have it.
LEMMA NewTokenKeepsLogout ==
    ASSUME TypeOK, OwnerInv, LogoutInv, NEW c \in Connection, At(c, "check"),
           conn[c].kind = "login", created < MaxToken, created' = created + 1,
           conn' = [conn EXCEPT ![c].stage = "save", ![c].token = created + 1],
           UNCHANGED <<tokens, token>>
    PROVE  LogoutInv'
<1> DEFINE r == [conn[c] EXCEPT !.stage = "save", !.token = created + 1]
<1>1. conn[c] \in Open /\ conn[c] # Free
  BY OpenFields DEF At
<1>2. conn'[c] = r /\ \A d \in Connection \ {c} : conn'[d] = conn[d]
  BY DEF TypeOK
<1>3. conn'[c].stage = "save" /\ conn'[c].token = created + 1 /\ conn'[c].kind = "login"
  <2>1. r.stage = "save" /\ r.token = created + 1 /\ r.kind = "login"
    BY <1>1 DEF Open
  <2> HIDE DEF r
  <2> QED
    BY <1>2, <2>1
<1> HIDE DEF r
<1>4. created \in Nat /\ created + 1 \in Token \ {NoToken} /\ ~(created + 1 <= created)
  BY BoundAssumption DEF TypeOK, Token, NoToken
<1>5. \A u \in User : ~HolderOf(created + 1, u)
  BY <1>4 DEF OwnerInv
<1>6. /\ \A u \in User : tokens[u] # created + 1
      /\ \A k \in Client : token[k] # created + 1
      /\ \A d \in Connection : conn[d] # Free => conn[d].token # created + 1
  BY <1>5, UserAssumption, OpenFields DEF HolderOf, Open
<1>7. SavedByOneHandler(c)'
  BY <1>2, <1>3, <1>4, <1>6 DEF SavedByOneHandler
<1>8. ASSUME NEW d \in Connection \ {c}, At(d, "save")' PROVE SavedByOneHandler(d)'
  <2>1. conn'[d] = conn[d] /\ At(d, "save") /\ conn[d] # Free
    BY <1>2, <1>8 DEF At
  <2>2. SavedByOneHandler(d) /\ conn[d].token # created + 1
    BY <1>6, <2>1 DEF LogoutInv
  <2> QED
    BY <1>2, <1>3, <2>1, <2>2 DEF SavedByOneHandler
<1>9. ASSUME NEW d \in Connection
      PROVE  /\ (At(d, "check") \/ At(d, "save"))' => conn'[d].kind \in {"login", "guess"}
             /\ At(d, "act")' => conn'[d].kind # "logout"
             /\ (At(d, "clear") \/ LoggedOut(d))' => conn'[d].token # NoToken
  <2>1. CASE d = c
    BY <1>3, <2>1 DEF At, LoggedOut
  <2>2. CASE d # c
    BY <1>2, <2>2 DEF LogoutInv, At, LoggedOut
  <2> QED
    BY <2>1, <2>2
<1>10. LogoutFinal'
  <2>1. ASSUME NEW d \in Connection, LoggedOut(d)'
        PROVE  \A u \in User : tokens'[u] # conn'[d].token
    <3>1. d # c
      BY <1>3, <2>1 DEF LoggedOut, At
    <3> QED
      BY <1>2, <2>1, <3>1 DEF LoggedOut, At, LogoutInv, LogoutFinal
  <2> QED
    BY <2>1 DEF LogoutFinal, LoggedOut
<1> QED
  BY <1>7, <1>8, <1>9, <1>10 DEF LogoutInv

LEMMA NextLogout == TypeOK /\ OwnerInv /\ LogoutInv /\ [Next]_vars => LogoutInv'
<1> SUFFICES ASSUME TypeOK, OwnerInv, LogoutInv, [Next]_vars PROVE LogoutInv'
  OBVIOUS
<1>1. CASE UNCHANGED vars
  BY <1>1 DEF vars, LogoutInv, LogoutFinal, LoggedOut, SavedByOneHandler, At
<1>2. ASSUME NEW c \in Connection, NEW k \in Client, Login(c, k) \/ Backup(c, k) \/ Logout(c, k)
      PROVE LogoutInv'
  <2>1. PICK kind \in {"login", "guess", "backup", "logout"} : Request(c, k, kind)
    BY <1>2 DEF Login, Backup, Logout
  <2>2. /\ \A d \in Connection \ {c} : conn'[d] = conn[d]
        /\ conn'[c].stage = "sent" /\ conn'[c].token = token[k]
    BY <2>1 DEF Request, TypeOK
  <2>3. \A d \in Connection, stage \in {"check", "save", "act", "clear", "answered"} :
          At(d, stage)' => d # c /\ At(d, stage) /\ conn'[d] = conn[d] /\ conn[d] # Free
    BY <2>2 DEF At
  <2>4. ASSUME NEW d \in Connection, At(d, "save")' PROVE SavedByOneHandler(d)'
    <3>1. d # c /\ conn'[d] = conn[d] /\ SavedByOneHandler(d)
      BY <2>3, <2>4 DEF LogoutInv
    <3>2. \A e \in Connection \ {d} : conn'[e] # Free => conn'[e].token # conn[d].token
      BY <2>2, <3>1 DEF SavedByOneHandler
    <3> QED
      BY <2>1, <3>1, <3>2 DEF Request, SavedByOneHandler
  <2>5. LogoutFinal'
    BY <2>1, <2>3 DEF Request, LogoutInv, LogoutFinal
  <2> QED
    BY <2>3, <2>4, <2>5 DEF LogoutInv, LoggedOut
<1>3. ASSUME NEW k \in Client, ClientExit(k) PROVE LogoutInv'
  <2>1. \A j \in Client : token'[j] = token[j] \/ token'[j] = NoToken
    BY <1>3 DEF ClientExit, TypeOK
  <2> QED
    BY <1>3, <2>1 DEF ClientExit, LogoutInv, LogoutFinal, LoggedOut, SavedByOneHandler, At
<1>4. ASSUME NEW c \in Connection, Read(c) PROVE LogoutInv'
  <2>1. conn'[c] = Free /\ \A d \in Connection \ {c} : conn'[d] = conn[d]
    BY <1>4 DEF Read, TypeOK
  <2>2. \A k \in Client : \/ token'[k] = token[k]
                          \/ token'[k] = NoToken
                          \/ token'[k] = conn[c].token
    BY <1>4, OpenFields DEF Read, TypeOK
  <2>3. conn[c] # Free
    BY <1>4 DEF Read
  <2>4. \A d \in Connection, stage \in {"check", "save", "act", "clear", "answered"} :
          At(d, stage)' => d # c /\ At(d, stage) /\ conn'[d] = conn[d] /\ conn[d] # Free
    BY <2>1 DEF At
  <2>5. ASSUME NEW d \in Connection, At(d, "save")' PROVE SavedByOneHandler(d)'
    <3>1. d # c /\ conn'[d] = conn[d] /\ SavedByOneHandler(d)
      BY <2>4, <2>5 DEF LogoutInv
    <3>2. \A e \in Connection \ {d} : conn'[e] # Free => conn'[e].token # conn[d].token
      BY <2>1, <3>1 DEF SavedByOneHandler
    <3>3. \A k \in Client : token'[k] # conn[d].token
      BY <2>2, <2>3, <3>1 DEF SavedByOneHandler
    <3> QED
      BY <1>4, <3>1, <3>2, <3>3 DEF Read, SavedByOneHandler
  <2>6. LogoutFinal'
    BY <1>4, <2>4 DEF Read, LogoutInv, LogoutFinal
  <2> QED
    BY <2>4, <2>5, <2>6 DEF LogoutInv, LoggedOut
<1>5. ASSUME NEW c \in Connection, Take(c) PROVE LogoutInv'
  <2>0. conn[c] # Free /\ conn[c] \in Open
    BY <1>5, OpenFields DEF Take, TakeWith, At
  <2>1. CASE Answer(c, "unauthorized") /\ UNCHANGED <<tokens, token, created, server>>
    BY <2>0, <2>1, AnswerKeepsLogout
  <2>2. ASSUME NEW s \in {"check", "auth"}, s = "check" => conn[c].kind \in {"login", "guess"},
               conn' = [conn EXCEPT ![c].stage = s],
               UNCHANGED <<tokens, token, created, server>>
        PROVE LogoutInv'
    <3> DEFINE r == [conn[c] EXCEPT !.stage = s]
    <3>1. r.stage = s /\ r.kind = conn[c].kind /\ r.token = conn[c].token
      BY <2>0 DEF Open
    <3>2. conn'[c] = r /\ \A d \in Connection \ {c} : conn'[d] = conn[d]
      BY <2>2 DEF TypeOK
    <3> HIDE DEF r
    <3>3. conn'[c] # Free /\ ~LoggedOut(c)'
      BY <3>1, <3>2 DEF Free, LoggedOut, At
    <3> QED
      BY <2>0, <2>2, <3>1, <3>2, <3>3, HandlerKeepsLogout
  <2> QED
    BY <1>5, <2>1, <2>2 DEF Take, TakeWith
<1>6. ASSUME NEW c \in Connection, VerifyPassword(c) PROVE LogoutInv'
  <2>1. CASE Answer(c, "unauthorized") /\ UNCHANGED <<tokens, token, created, server>>
    BY <1>6, <2>1, AnswerKeepsLogout DEF VerifyPassword, At
  <2> QED
    BY <1>6, <2>1, NewTokenKeepsLogout DEF VerifyPassword
<1>7. ASSUME NEW c \in Connection, SaveToken(c) PROVE LogoutInv'
  <2>1. conn[c] # Free /\ conn[c].kind # "logout"
    BY <1>7 DEF SaveToken, At, LogoutInv
  <2>2. \A u \in User : tokens'[u] = tokens[u] \/ tokens'[u] = conn[c].token
    BY <1>7 DEF SaveToken, TypeOK
  <2> QED
    BY <1>7, <2>1, <2>2, AnswerKeepsLogout DEF SaveToken
<1>8. ASSUME NEW c \in Connection, VerifyToken(c) PROVE LogoutInv'
  <2>0. conn[c] # Free /\ conn[c] \in Open /\ conn[c].token # NoToken
    BY <1>8, OpenFields DEF VerifyToken, At, OwnerInv
  <2>1. CASE Answer(c, "unauthorized") /\ UNCHANGED <<tokens, token, created, server>>
    BY <2>0, <2>1, AnswerKeepsLogout
  <2>2. ASSUME NEW s \in {"act", "clear"}, NEW u \in User,
               s = "act" => conn[c].kind # "logout",
               conn' = [conn EXCEPT ![c].stage = s, ![c].user = u],
               UNCHANGED <<tokens, token, created, server>>
        PROVE LogoutInv'
    <3> DEFINE r == [conn[c] EXCEPT !.stage = s, !.user = u]
    <3>1. r.stage = s /\ r.kind = conn[c].kind /\ r.token = conn[c].token
      BY <2>0 DEF Open
    <3>2. conn'[c] = r /\ \A d \in Connection \ {c} : conn'[d] = conn[d]
      BY <2>2 DEF TypeOK
    <3> HIDE DEF r
    <3>3. conn'[c] # Free /\ ~LoggedOut(c)'
      BY <3>1, <3>2 DEF Free, LoggedOut, At
    <3> QED
      BY <2>0, <2>2, <3>1, <3>2, <3>3, HandlerKeepsLogout
  <2> QED
    BY <1>8, <2>1, <2>2 DEF VerifyToken
<1>9. ASSUME NEW c \in Connection, Act(c) PROVE LogoutInv'
  <2>1. conn[c] # Free /\ conn[c].kind # "logout"
    BY <1>9 DEF Act, At, LogoutInv
  <2> QED
    BY <1>9, <2>1, AnswerKeepsLogout DEF Act
<1>10. ASSUME NEW c \in Connection, LogoutUser(c) PROVE LogoutInv'
  <2>0. conn[c] # Free /\ conn[c] \in Open /\ conn[c].token # NoToken
    BY <1>10, OpenFields DEF LogoutUser, At, LogoutInv
  <2>1. CASE Answer(c, "server_error") /\ UNCHANGED <<tokens, token>>
    BY <2>0, <2>1, AnswerKeepsLogout
  <2>2. CASE /\ tokens' = [tokens EXCEPT ![conn[c].user] = NoToken]
             /\ Answer(c, "ok")
             /\ UNCHANGED token
    <3>1. conn[c].user = UserOf[conn[c].client] /\ conn[c].user \in User
      BY <1>10 DEF LogoutUser, OwnerInv, ActsAsOwner, TypeOK
    <3>2. \A u \in User : tokens[u] = conn[c].token => u = conn[c].user
      <4>1. HolderOf(conn[c].token, conn[c].user)
        BY <2>0, <3>1 DEF HolderOf
      <4>2. \A u \in User : tokens[u] = conn[c].token => HolderOf(conn[c].token, u)
        BY DEF HolderOf
      <4> QED
        BY <2>0, <3>1, <4>1, <4>2 DEF OwnerInv, TokenOfOneUser, Open
    <3>3. \A u \in User : tokens'[u] = IF u = conn[c].user THEN NoToken ELSE tokens[u]
      BY <2>2 DEF TypeOK
    <3>4. \A u \in User : tokens'[u] # conn[c].token
      BY <2>0, <3>2, <3>3
    <3> QED
      BY <2>0, <2>2, <3>3, <3>4, AnswerResult, HandlerKeepsLogout
  <2> QED
    BY <1>10, <2>1, <2>2 DEF LogoutUser
<1>11. CASE Stop \/ DeleteAllTokens \/ Exit \/ Kill \/ Start
  <2>1. \A u \in User : tokens'[u] = tokens[u] \/ tokens'[u] = NoToken
    BY <1>11 DEF Stop, DeleteAllTokens, Exit, Kill, Start
  <2>2. \A c \in Connection : conn'[c] = conn[c] \/ conn'[c] = Free
    BY <1>11 DEF Stop, DeleteAllTokens, Exit, Kill, Start
  <2>3. UNCHANGED token
    BY <1>11 DEF Stop, DeleteAllTokens, Exit, Kill, Start
  <2>4. \A c \in Connection, stage \in {"check", "save", "act", "clear", "answered"} :
          At(c, stage)' => At(c, stage) /\ conn'[c] = conn[c]
    BY <2>2 DEF At
  <2>5. ASSUME NEW c \in Connection, At(c, "save")' PROVE SavedByOneHandler(c)'
    <3>1. conn'[c] = conn[c] /\ SavedByOneHandler(c)
      BY <2>4, <2>5 DEF LogoutInv
    <3> QED
      BY <2>1, <2>2, <2>3, <3>1 DEF SavedByOneHandler
  <2>6. \A c \in Connection : LoggedOut(c)' => LoggedOut(c) /\ conn'[c] = conn[c]
    BY <2>4 DEF LoggedOut
  <2>7. LogoutFinal'
    <3>1. ASSUME NEW c \in Connection, LoggedOut(c)'
          PROVE  \A u \in User : tokens'[u] # conn'[c].token
      BY <2>1, <2>6, <3>1 DEF LogoutInv, LogoutFinal, LoggedOut
    <3> QED
      BY <3>1 DEF LogoutFinal, LoggedOut
  <2> QED
    BY <2>4, <2>5, <2>6, <2>7 DEF LogoutInv
<1> QED
  BY <1>1, <1>2, <1>3, <1>4, <1>5, <1>6, <1>7, <1>8, <1>9, <1>10, <1>11 DEF Next

\* What a logout that was answered with OK has removed never comes back.
THEOREM LogoutIsFinal == Spec => []LogoutFinal
<1>1. Spec => []LogoutInv
  BY InitTyped, NextTyped, InitOwner, NextOwner, InitLogout, NextLogout, PTL DEF Spec
<1> QED
  BY <1>1, PTL DEF LogoutInv

(* What has been revoked.                                                  *)

\* Only a handler that saves the token of a login puts one into the table.
LEMMA OnlyLoginsSave ==
    ASSUME TypeOK, [Next]_vars, NEW u \in User, tokens'[u] # NoToken, tokens'[u] # tokens[u]
    PROVE  \E c \in Connection : At(c, "save") /\ tokens'[u] = conn[c].token
<1>1. PICK c \in Connection : SaveToken(c) \/ LogoutUser(c) \/ DeleteAllTokens
  BY DEF Next, vars, Login, Backup, Logout, Request, ClientExit, Read, Take, TakeWith,
     VerifyPassword, VerifyToken, Act, Stop, DeleteAllTokens, Exit, Kill, Start
<1>2. SaveToken(c)
  BY <1>1 DEF LogoutUser, DeleteAllTokens, TypeOK
<1> QED
  BY <1>2 DEF SaveToken, TypeOK

\* A token that a client has been given, and that is no longer in the database, is
\* never in it again, with any number of threads, and whether or not the calls to
\* the database fail.
THEOREM RevokedTokensStayRevoked == Spec => RevokedForGood
<1> DEFINE Step == \A t \in Given \ {NoToken} :
                      (\A u \in User : tokens[u] # t) => (\A u \in User : tokens'[u] # t)
<1>1. TypeOK /\ LogoutInv /\ [Next]_vars => Step
  <2> SUFFICES ASSUME TypeOK, LogoutInv, [Next]_vars,
                      NEW t \in Given \ {NoToken}, \A u \in User : tokens[u] # t,
                      NEW u \in User, tokens'[u] = t
               PROVE  FALSE
    OBVIOUS
  <2>1. PICK c \in Connection : At(c, "save") /\ conn[c].token = t
    BY OnlyLoginsSave
  <2>2. SavedByOneHandler(c) /\ conn[c].kind \in {"login", "guess"}
    BY <2>1 DEF LogoutInv
  <2>3. CASE \E k \in Client : token[k] = t
    BY <2>1, <2>2, <2>3 DEF SavedByOneHandler
  <2>4. CASE \E d \in Connection : /\ conn[d] # Free /\ conn[d].token = t
                                   /\ conn[d].kind \in {"backup", "logout"}
    BY <2>1, <2>2, <2>4 DEF SavedByOneHandler
  <2> QED
    BY <2>3, <2>4 DEF Given
<1>2. Spec => []LogoutInv
  BY InitTyped, NextTyped, InitOwner, NextOwner, InitLogout, NextLogout, PTL DEF Spec
<1> QED
  BY <1>1, <1>2, TypeCorrect, PTL DEF Spec, RevokedForGood

=============================================================================
