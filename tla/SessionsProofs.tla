--------------------------- MODULE SessionsProofs ---------------------------
(***************************************************************************)
(* Proofs about Sessions, for any number of requests, threads and sockets. *)
(***************************************************************************)
EXTENDS Sessions, FiniteSetTheorems, TLAPS

(***************************************************************************)
(* Bounds.  Only two steps can add to the requests being handled and to    *)
(* the open sockets, and each looks at the bound first.                    *)
(***************************************************************************)
LEMMA Sizes ==
    /\ IsFiniteSet(Running) /\ Cardinality(Running) \in Nat
    /\ IsFiniteSet(Open) /\ Cardinality(Open) \in Nat
<1>1. Running \in SUBSET Request /\ Open \in SUBSET Request
  BY DEF Running, Open
<1>2. IsFiniteSet(Running) /\ IsFiniteSet(Open)
  BY <1>1, SessionsAssumption, FS_Subset
<1> QED
  BY <1>2, FS_CardinalityType

\* Fewer sessions run and fewer sockets are open after the step.
Shrinks == Running' \subseteq Running /\ Open' \subseteq Open

LEMMA ShrinkBounds ==
    ASSUME TypeOK, Shrinks
    PROVE  Cardinality(Running') <= nthreads /\ Cardinality(Open') <= MaxOpen
<1>1. Cardinality(Running') <= Cardinality(Running) /\ Cardinality(Running') \in Nat
  BY Sizes, FS_Subset, FS_CardinalityType DEF Shrinks
<1>2. Cardinality(Open') <= Cardinality(Open) /\ Cardinality(Open') \in Nat
  BY Sizes, FS_Subset, FS_CardinalityType DEF Shrinks
<1> QED
  BY <1>1, <1>2, Sizes, SessionsAssumption DEF TypeOK

LEMMA InitTyped == Init => TypeOK
<1> SUFFICES ASSUME Init PROVE TypeOK
  OBVIOUS
<1>1. Running = {} /\ Open = {}
  BY DEF Init, Running, Open, OpenSession
<1>2. Cardinality(Running) = 0 /\ Cardinality(Open) = 0
  BY <1>1, FS_EmptySet
<1>3. Cardinality(Running) <= nthreads /\ Cardinality(Open) <= MaxOpen
  BY <1>2, SessionsAssumption
<1>4. listening \in BOOLEAN
  BY SessionsAssumption DEF Init
<1> QED
  BY <1>3, <1>4 DEF Init, TypeOK, ClientPC, ErrorType, OpenSession

LEMMA NextTyped == TypeOK /\ [Next]_vars => TypeOK'
<1> SUFFICES ASSUME TypeOK, [Next]_vars PROVE TypeOK'
  OBVIOUS
<1> USE DEF ClientPC, ErrorType, OpenSession, serverVars, connVars, Goto, Meet
<1>1. CASE UNCHANGED vars \/ Idle
  BY <1>1 DEF vars, Idle, TypeOK, Running, Open
<1>2. ASSUME NEW r \in Request, ClientStep(r) PROVE TypeOK'
  <2>1. Shrinks
    BY <1>2 DEF ClientStep, OnResolve, OnConnect, ConnectFails, OnWritten, WriteFails, OnResponse,
                ReadFails, TypeOK, Shrinks, Running, Open
  <2>2. Cardinality(Running') <= nthreads /\ Cardinality(Open') <= MaxOpen
    BY <2>1, ShrinkBounds
  <2> QED
    BY <1>2, <2>2 DEF ClientStep, OnResolve, OnConnect, ConnectFails, OnWritten, WriteFails,
                      OnResponse, ReadFails, TypeOK
<1>3. ASSUME NEW r \in Request, OnRead(r) PROVE TypeOK'
  <2>1. /\ session[r] = "read" /\ session' = [session EXCEPT ![r] = "handle"]
        /\ Cardinality(Running) < nthreads
    BY <1>3 DEF OnRead, ThreadFree
  <2>2. Running' = Running \cup {r} /\ r \notin Running /\ Open' = Open
    BY <2>1 DEF TypeOK, Running, Open
  <2>3. Cardinality(Running') = Cardinality(Running) + 1
    BY <2>2, Sizes, FS_AddElement
  <2>4. Cardinality(Running') <= nthreads /\ Cardinality(Open') <= MaxOpen
    BY <2>1, <2>2, <2>3, Sizes, SessionsAssumption DEF TypeOK
  <2> QED
    BY <1>3, <2>4 DEF OnRead, TypeOK
<1>4. ASSUME NEW r \in Request,
             Handle(r) \/ OnWrite(r) \/ OnReadClosed(r) \/ SessionExpires(r)
      PROVE  TypeOK'
  <2>1. Shrinks
    BY <1>4 DEF Handle, OnWrite, OnReadClosed, SessionExpires, TypeOK, Shrinks, Running, Open
  <2>2. Cardinality(Running') <= nthreads /\ Cardinality(Open') <= MaxOpen
    BY <2>1, ShrinkBounds
  <2> QED
    BY <1>4, <2>2 DEF Handle, OnWrite, OnReadClosed, SessionExpires, TypeOK
<1>5. ASSUME NEW r \in Request, HandleThrows(r) PROVE TypeOK'
  <2>1. Shrinks
    BY <1>5 DEF HandleThrows, AllClosed, TypeOK, Shrinks, Running, Open
  <2>2. Cardinality(Running') <= nthreads /\ Cardinality(Open') <= MaxOpen
    BY <2>1, ShrinkBounds
  <2> QED
    BY <1>5, <2>2 DEF HandleThrows, AllClosed, TypeOK
<1>6. CASE AcceptCompletes
  <2>1. CASE session' = session
    <3>1. Shrinks
      BY <2>1 DEF Shrinks, Running, Open
    <3> QED
      BY <1>6, <2>1, <3>1, ShrinkBounds DEF AcceptCompletes, TypeOK
  <2>2. CASE /\ Cardinality(Open) < MaxOpen
             /\ \E r \in Request : session[r] = "backlog" /\ Meet(r, "accepted")
             /\ accept' = "socket"
    <3>1. PICK r \in Request :
             session[r] = "backlog" /\ session' = [session EXCEPT ![r] = "accepted"]
      BY <2>2
    <3>2. Open' = Open \cup {r} /\ r \notin Open /\ Running' = Running
      BY <3>1 DEF TypeOK, Running, Open
    <3>3. Cardinality(Open') = Cardinality(Open) + 1
      BY <3>2, Sizes, FS_AddElement
    <3>4. Cardinality(Running') <= nthreads /\ Cardinality(Open') <= MaxOpen
      BY <2>2, <3>2, <3>3, Sizes, SessionsAssumption DEF TypeOK
    <3> QED
      BY <1>6, <2>2, <3>1, <3>4 DEF AcceptCompletes, TypeOK
  <2> QED
    BY <1>6, <2>1, <2>2 DEF AcceptCompletes
<1>7. CASE OnAccept
  <2>1. Shrinks
    BY <1>7 DEF OnAccept, TypeOK, Shrinks, Running, Open
  <2>2. Cardinality(Running') <= nthreads /\ Cardinality(Open') <= MaxOpen
    BY <2>1, ShrinkBounds
  <2> QED
    BY <1>7, <2>2 DEF OnAccept, TypeOK
<1>8. CASE Kill
  <2>1. Shrinks
    BY <1>8 DEF Kill, AllClosed, TypeOK, Shrinks, Running, Open
  <2>2. Cardinality(Running') <= nthreads /\ Cardinality(Open') <= MaxOpen
    BY <2>1, ShrinkBounds
  <2> QED
    BY <1>8, <2>2 DEF Kill, AllClosed, TypeOK
<1>9. CASE Start
  <2>1. Shrinks
    BY <1>9 DEF Start, Shrinks, Running, Open
  <2> QED
    BY <1>9, <2>1, ShrinkBounds, SessionsAssumption DEF Start, TypeOK
<1> QED
  BY <1>1, <1>2, <1>3, <1>4, <1>5, <1>6, <1>7, <1>8, <1>9 DEF Next, SessionStep

\* At most nthreads requests are handled at a time, and the server process never
\* has more sockets than it may have, however clients connect, fail and expire.
THEOREM TypeCorrect == Spec => []TypeOK
BY InitTyped, NextTyped, PTL DEF Spec

-----------------------------------------------------------------------------
(***************************************************************************)
(* Exchanges.  Nothing is executed before the request has been written,    *)
(* and nothing is written without a connection; a session that answers has *)
(* executed, and one that has not handled its request yet has not.         *)
(***************************************************************************)
NotWritten == {"resolve", "connect", "write", "async_resolver_error", "async_connection_error"}

ExchangeInv ==
    \A r \in Request :
        /\ client[r] \in NotWritten => wire[r] = "nothing"
        /\ session[r] \in {"handle", "write", "answered"} => wire[r] = "whole"
        /\ session[r] \in {"write", "answered"} => executed[r]
        /\ executed[r] => wire[r] = "whole" /\ session[r] \in {"write", "answered", "closed"}

LEMMA InitExchange == Init => ExchangeInv
BY DEF Init, ExchangeInv, NotWritten

LEMMA NextExchange == TypeOK /\ ExchangeInv /\ [Next]_vars => ExchangeInv'
<1> SUFFICES ASSUME TypeOK, ExchangeInv, [Next]_vars PROVE ExchangeInv'
  OBVIOUS
<1> USE DEF ExchangeInv, NotWritten, TypeOK, ClientPC, ErrorType, OpenSession, serverVars, connVars,
            Goto, Meet
<1>1. CASE UNCHANGED vars \/ Idle
  BY <1>1 DEF vars, Idle
<1>2. ASSUME NEW r \in Request, ClientStep(r) PROVE ExchangeInv'
  BY <1>2 DEF ClientStep, OnResolve, OnConnect, ConnectFails, OnWritten, WriteFails, OnResponse,
              ReadFails
<1>3. ASSUME NEW r \in Request, SessionStep(r) PROVE ExchangeInv'
  BY <1>3 DEF SessionStep, OnRead, Handle, HandleThrows, OnWrite, AllClosed
<1>4. ASSUME NEW r \in Request, OnReadClosed(r) \/ SessionExpires(r) PROVE ExchangeInv'
  BY <1>4 DEF OnReadClosed, SessionExpires
<1>5. CASE AcceptCompletes \/ OnAccept
  BY <1>5 DEF AcceptCompletes, OnAccept
<1>6. CASE Kill \/ Start
  BY <1>6 DEF Kill, Start, AllClosed
<1> QED
  BY <1>1, <1>2, <1>3, <1>4, <1>5, <1>6 DEF Next

\* A step that moves one client changes the outcome of its request only.
LEMMA OutcomeOf ==
    ASSUME TypeOK, NEW r \in Request, NEW at, client' = [client EXCEPT ![r] = at],
           NEW how, Outcome(r)' = how
    PROVE  [s \in Request |-> Outcome(s)]' = [[s \in Request |-> Outcome(s)] EXCEPT ![r] = how]
<1>1. \A s \in Request \ {r} : Outcome(s)' = Outcome(s)
  BY DEF Outcome, TypeOK
<1> QED
  BY <1>1

outcomes == [s \in Request |-> Outcome(s)]

\* The client's step is the end of an exchange, or is not seen from outside.
LEMMA ClientStepExchange ==
    ASSUME TypeOK, ExchangeInv, NEW r \in Request, ClientStep(r)
    PROVE  [Exchanges!Next]_<<executed, outcomes>>
<1> USE DEF TypeOK, ClientPC, ErrorType, serverVars, Goto, Meet
<1>1. executed' = executed /\ Outcome(r) = "pending"
  BY DEF ClientStep, OnResolve, OnConnect, ConnectFails, OnWritten, WriteFails, OnResponse,
         ReadFails, Outcome
<1>2. PICK at : client' = [client EXCEPT ![r] = at]
  BY DEF ClientStep, OnResolve, OnConnect, ConnectFails, OnWritten, WriteFails, OnResponse, ReadFails
<1>3. \A how : Outcome(r)' = how => outcomes' = [outcomes EXCEPT ![r] = how]
  BY <1>2, OutcomeOf DEF outcomes
<1>4. ASSUME NEW how \in {"answer", "unsent", "uncertain"}, Outcome(r)' = how,
             how = "answer" => executed[r], how = "unsent" => ~executed[r]
      PROVE  Exchanges!Next
  <2>1. Exchanges!Ends(r, how)
    BY <1>1, <1>3, <1>4 DEF Exchanges!Ends, outcomes
  <2> QED
    BY <2>1 DEF Exchanges!Next
<1>5. CASE Outcome(r)' = "pending"
  <2>1. outcomes' = outcomes
    BY <1>1, <1>3, <1>5 DEF outcomes
  <2> QED
    BY <1>1, <2>1
<1>6. CASE OnResolve(r) \/ ConnectFails(r)
  <2>1. Outcome(r)' \in {"pending", "unsent"} /\ ~executed[r]
    BY <1>6 DEF OnResolve, ConnectFails, Outcome, ExchangeInv, NotWritten
  <2> QED
    BY <1>4, <1>5, <2>1
<1>7. CASE OnConnect(r) \/ OnWritten(r)
  <2>1. Outcome(r)' = "pending"
    BY <1>7 DEF OnConnect, OnWritten, Outcome
  <2> QED
    BY <1>5, <2>1
<1>8. CASE WriteFails(r) \/ ReadFails(r)
  <2>1. Outcome(r)' = "uncertain"
    BY <1>8 DEF WriteFails, ReadFails, Outcome
  <2> QED
    BY <1>4, <2>1
<1>9. CASE OnResponse(r)
  <2>1. Outcome(r)' \in {"answer", "uncertain"} /\ executed[r]
    BY <1>9 DEF OnResponse, Outcome, ExchangeInv
  <2> QED
    BY <1>4, <2>1
<1> QED
  BY <1>6, <1>7, <1>8, <1>9 DEF ClientStep

LEMMA HandleExchange ==
    ASSUME TypeOK, ExchangeInv, NEW r \in Request, Handle(r)
    PROVE  Exchanges!Next
<1>1. outcomes' = outcomes
  BY DEF Handle, connVars, outcomes, Outcome
<1>2. ~executed[r] /\ Outcome(r) # "unsent"
  BY DEF Handle, ExchangeInv, NotWritten, Outcome, ClientPC
<1>3. Exchanges!Execute(r)
  BY <1>1, <1>2 DEF Handle, Exchanges!Execute, outcomes
<1> QED
  BY <1>3 DEF Exchanges!Next

\* The callbacks of both ends amount to exchanges: at most one execution, no
\* answer without it, none after the client has been told there was no connection.
THEOREM SessionsExchange == Spec => IsExchange
<1>1. Init => Exchanges!Init
  BY DEF Init, Exchanges!Init, Outcome, ClientPC
<1>2. TypeOK /\ ExchangeInv /\ [Next]_vars => [Exchanges!Next]_Exchanges!vars
  <2> SUFFICES ASSUME TypeOK, ExchangeInv, [Next]_vars
               PROVE  [Exchanges!Next]_<<executed, outcomes>>
    BY DEF Exchanges!vars, outcomes
  <2>1. ASSUME NEW r \in Request, ClientStep(r) PROVE [Exchanges!Next]_<<executed, outcomes>>
    BY <2>1, ClientStepExchange
  <2>2. ASSUME NEW r \in Request, Handle(r) PROVE [Exchanges!Next]_<<executed, outcomes>>
    BY <2>2, HandleExchange
  <2>3. CASE client' = client /\ executed' = executed
    BY <2>3 DEF outcomes, Outcome
  <2>4. CASE \/ UNCHANGED vars \/ Idle \/ AcceptCompletes \/ OnAccept \/ Kill \/ Start
             \/ \E r \in Request : \/ OnRead(r) \/ HandleThrows(r) \/ OnWrite(r)
                                   \/ OnReadClosed(r) \/ SessionExpires(r)
    BY <2>3, <2>4 DEF vars, Idle, AcceptCompletes, OnAccept, Kill, Start, OnRead, HandleThrows,
                      OnWrite, OnReadClosed, SessionExpires, connVars
  <2> QED
    BY <2>1, <2>2, <2>4 DEF Next, SessionStep
<1> QED
  BY <1>1, <1>2, InitTyped, NextTyped, InitExchange, NextExchange, PTL
     DEF Spec, IsExchange, Exchanges!Spec
=============================================================================
