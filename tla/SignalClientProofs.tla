------------------------- MODULE SignalClientProofs -------------------------
(***************************************************************************)
(* Proofs about SignalClient, for every number of servers and starts, with *)
(* and without failover: a client that has joined works, and goes by an id *)
(* of the server it talks to, whatever the threads of its earlier starts   *)
(* are still doing and whenever stop() is called.                          *)
(***************************************************************************)
EXTENDS SignalClient, TLAPS

Underway == {"try", "wait", "sync", "hole", "hello", "loops"}
Alive == {"check", "reading"}
Mapping == {"trying", "connecting"}

\* A call that is under way runs the client, unless a stop() came, in a start of its
\* own; while a stop() is under way the client does not run.
CallRuns == /\ call \in Underway => starts # 0 /\ (running \/ cut)
            /\ call = "restart" => ~running /\ ~stopping /\ starts < MaxStarts
            /\ running => starts # 0 /\ ~stopping
            /\ result # "none" => call = "idle"

\* What arrives while a start waits comes from the candidate it asked; from then on
\* the id is that server's.
OwnServer == running => /\ call = "wait" => /\ sock
                                            /\ asked \subseteq {srv}
                                            /\ \A m \in inbox : m.from = srv
                        /\ call \in {"sync", "hole", "hello", "loops"} \/ Joined
                             => sock /\ me = srv

\* The threads of the present start, which those of earlier starts do not replace.
OwnThreads == running => /\ call \in {"hole", "hello", "loops"} \/ Joined
                              => mapSock \/ mapper[starts] \in Mapping
                         /\ Joined => recv[starts] \in Alive /\ hb[starts] = "live"

\* Unless a stop() has cut a start, the flag and the socket of the loop of the hole
\* socket are those of the present start, which has such a loop.
OwnHole == ~cut => /\ holeFlag => running /\ (call = "loops" \/ Joined)
                   /\ holeSock /\ ~stopping
                        => call = "hello" \/ (holeFlag /\ hole[starts] \in Alive)

\* The inductive invariant.
CInv == TypeOK /\ CallRuns /\ OwnServer /\ OwnThreads /\ OwnHole

-----------------------------------------------------------------------------
(* At the start.                                                           *)

LEMMA ClientInit == Init => CInv
<1> SUFFICES ASSUME Init PROVE CInv
  OBVIOUS
<1>1. TypeOK
  <2> USE DEF Init
  <2>1. srv \in Servers /\ me \in 0 .. NServers /\ starts \in 0 .. MaxStarts
    BY ClientAssumption DEF Servers
  <2>2. /\ recv \in [Starts -> {"none", "check", "reading", "stranded", "done"}]
        /\ hole \in [Starts -> {"none", "check", "reading", "stranded", "done"}]
        /\ hb \in [Starts -> {"none", "live", "done"}]
        /\ mapper \in [Starts -> {"none", "trying", "connecting", "done"}]
    OBVIOUS
  <2> QED BY <2>1, <2>2 DEF TypeOK
<1>2. CallRuns /\ OwnServer /\ OwnThreads /\ OwnHole
  BY DEF Init, CallRuns, OwnServer, OwnThreads, OwnHole, Underway
<1> QED BY <1>1, <1>2 DEF CInv

-----------------------------------------------------------------------------
(* Types.                                                                  *)

LoopPlaces == {"none", "check", "reading", "stranded", "done"}

LEMMA StrandedType ==
  ASSUME NEW loop \in [Starts -> LoopPlaces]
  PROVE  Stranded(loop) \in [Starts -> LoopPlaces]
BY DEF Stranded, LoopPlaces

LEMMA SomeServer == 1 \in Servers /\ Servers \subseteq 0 .. NServers
BY ClientAssumption DEF Servers

LEMMA ClientTypes ==
  ASSUME CInv, [Next]_vars
  PROVE  TypeOK'
<1> USE DEF CInv, TypeOK, LoopPlaces, wire, holes, loops, control, callVars
<1>1. CASE UNCHANGED vars
  BY <1>1 DEF vars
<1>2. CASE Start
  BY <1>2, SomeServer, ClientAssumption DEF Start, Begin
<1>3. CASE Stop
  BY <1>3 DEF Stop, ClearFlags
<1>4. CASE Rebind
  <2>1. me' \in 0 .. NServers
    BY <1>4, ClientAssumption DEF Rebind
  <2>2. /\ recv' = Stranded(recv) /\ hole' = Stranded(hole)
        /\ sock' = FALSE /\ holeSock' = FALSE /\ holeFlag' = FALSE /\ mapSock' = FALSE
        /\ running' = FALSE /\ call' = "restart" /\ result' = "none" /\ cut' = FALSE
        /\ UNCHANGED <<starts, stopping, srv, asked, inbox, hb, mapper>>
    BY <1>4 DEF Rebind, ClearFlags, CloseSockets, CloseSock
  <2> QED BY <2>1, <2>2, StrandedType
<1>5. CASE Restart
  <2>1. starts < MaxStarts
    BY <1>5 DEF Restart, CallRuns
  <2> QED BY <1>5, <2>1, SomeServer, ClientAssumption DEF Restart, Begin
<1>6. CASE TryConnectOne
  BY <1>6, StrandedType DEF TryConnectOne, OpenSock, Raised
<1>7. CASE Resend \/ WaitRaises
  BY <1>7 DEF Resend, WaitRaises, Raised
<1>8. CASE WaitJoined
  <2>1. PICK m \in inbox : me' = m.from /\ inbox' = inbox \ {m}
    BY <1>8 DEF WaitJoined
  <2>2. m.from \in Servers
    BY DEF Answers
  <2> QED BY <1>8, <2>1, <2>2, SomeServer DEF WaitJoined
<1>9. CASE Rejected
  BY <1>9, StrandedType DEF Rejected, CloseSock, GiveUp
<1>9a. ASSUME Failover
       PROVE  /\ srv' \in Servers
              /\ running' \in BOOLEAN /\ call' \in {"try", "idle"}
              /\ result' = result \/ result' = "unreachable"
  <2>1. srv' \in Servers
    BY <1>9a, ClientAssumption DEF Failover, GiveUp, Servers
  <2> QED BY <1>9a, <2>1 DEF Failover, GiveUp
<1>10. CASE Deadline
  <2>1. sock' = FALSE /\ recv' = Stranded(recv) /\ UNCHANGED <<asked, inbox>>
    BY <1>10 DEF Deadline, CloseSock
  <2>2. Failover /\ UNCHANGED <<starts, stopping, cut, me, hb, mapper, mapSock, holeSock, holeFlag, hole>>
    BY <1>10 DEF Deadline
  <2> QED BY <2>1, <2>2, <1>9a, StrandedType
<1>10a. CASE NoSocket
  <2>1. Failover /\ UNCHANGED <<starts, stopping, cut, me, sock, asked, inbox, recv, hb, mapper,
                                mapSock, holeSock, holeFlag, hole>>
    BY <1>10a DEF NoSocket
  <2> QED BY <2>1, <1>9a
<1>10b. CASE StopCloses
  BY <1>10b, StrandedType DEF StopCloses, CloseSockets, CloseSock
<1>11. CASE Forget
  BY <1>11 DEF Forget
<1>12. CASE SyncTime
  BY <1>12 DEF SyncTime
<1>13. CASE OpenUdpHoleSocket \/ StartHoleLoop
  <2>1. CASE OpenUdpHoleSocket
    BY <2>1 DEF OpenUdpHoleSocket
  <2>2. CASE StartHoleLoop
    BY <2>2 DEF StartHoleLoop
  <2> QED BY <1>13, <2>1, <2>2
<1>14. CASE StartLoops
  BY <1>14 DEF StartLoops
<1>15. ASSUME NEW v \in Servers, Answer(v) PROVE TypeOK'
  <2>1. /\ asked' = asked \ {v}
        /\ inbox' \in {inbox} \cup {inbox \cup {[from |-> v, type |-> t]} : t \in {"joined", "error"}}
        /\ UNCHANGED <<callVars, sock, loops, mapSock, holes>>
    BY <1>15 DEF Answer
  <2>2. \A t \in {"joined", "error"} : [from |-> v, type |-> t] \in Answers
    BY DEF Answers
  <2>3. inbox' \subseteq Answers
    BY <2>1, <2>2
  <2> QED BY <2>1, <2>3
<1>16. ASSUME NEW k \in Starts, NEW loop \in [Starts -> LoopPlaces], NEW loop1,
              loop1 = Looks(loop, k, running, sock) \/ loop1 = Looks(loop, k, holeFlag, holeSock)
                \/ loop1 = [loop EXCEPT ![k] = "check"] \/ loop1 = [loop EXCEPT ![k] = "done"]
       PROVE  loop1 \in [Starts -> LoopPlaces]
  BY <1>16 DEF Looks
<1>17. ASSUME NEW k \in Starts, RecvLoop(k) PROVE TypeOK'
  BY <1>16, <1>17 DEF RecvLoop, Back
<1>18. ASSUME NEW k \in Starts, RecvMessage(k) PROVE TypeOK'
  BY <1>18 DEF RecvMessage
<1>19. ASSUME NEW k \in Starts, HbLoop(k) PROVE TypeOK'
  BY <1>19 DEF HbLoop
<1>20. ASSUME NEW k \in Starts, OpenMapping(k) PROVE TypeOK'
  <2>1. mapper' \in [Starts -> {"none", "trying", "connecting", "done"}]
    BY <1>20 DEF OpenMapping
  <2>2. mapSock' \in BOOLEAN
    BY <1>20 DEF OpenMapping
  <2>3. UNCHANGED <<callVars, sock, asked, inbox, recv, hb,
                    holeSock, holeFlag, hole>>
    BY <1>20 DEF OpenMapping
  <2> QED BY <2>1, <2>2, <2>3
<1>21. ASSUME NEW k \in Starts, HoleLoop(k) PROVE TypeOK'
  BY <1>16, <1>21 DEF HoleLoop, Back
<1> QED
  BY <1>1, <1>2, <1>3, <1>4, <1>5, <1>6, <1>7, <1>8, <1>9, <1>10, <1>10a, <1>10b, <1>11, <1>12,
     <1>13, <1>14, <1>15, <1>17, <1>18, <1>19, <1>20, <1>21 DEF Next

-----------------------------------------------------------------------------
(* The rest.                                                               *)

\* The threads touch neither the call nor the sockets of the join.
ThreadStep == \E k \in Starts : RecvLoop(k) \/ RecvMessage(k) \/ HbLoop(k)
                                \/ OpenMapping(k) \/ HoleLoop(k)

LEMMA CallSteps ==
  ASSUME CInv, [Next]_vars
  PROVE  CallRuns'
<1> USE DEF CInv, CallRuns, Underway, control, callVars
<1>1. starts \in Nat
  BY ClientAssumption DEF TypeOK
<1>2. CASE UNCHANGED vars
  BY <1>2 DEF vars
<1>3. CASE Start \/ Restart
  BY <1>1, <1>3 DEF Start, Restart, Begin
<1>4. CASE Stop \/ StopCloses \/ Rebind
  <2>1. CASE Stop
    BY <2>1 DEF Stop, ClearFlags
  <2>2. CASE StopCloses
    BY <2>2 DEF StopCloses
  <2>3. CASE Rebind
    BY <2>3 DEF Rebind, ClearFlags
  <2> QED BY <1>4, <2>1, <2>2, <2>3
<1>5. CASE TryConnectOne \/ Resend \/ WaitRaises \/ WaitJoined
  BY <1>5 DEF TryConnectOne, Raised, Resend, WaitRaises, WaitJoined
<1>6. CASE Rejected
  BY <1>6 DEF Rejected, GiveUp
<1>7. CASE Deadline \/ NoSocket
  BY <1>7 DEF Deadline, NoSocket, Failover, GiveUp
<1>8. CASE Forget \/ SyncTime \/ OpenUdpHoleSocket \/ StartHoleLoop \/ StartLoops
  BY <1>8 DEF Forget, SyncTime, OpenUdpHoleSocket, StartHoleLoop, StartLoops
<1>9. CASE \E v \in Servers : Answer(v)
  BY <1>9 DEF Answer
<1>10. CASE ThreadStep
  BY <1>10 DEF ThreadStep, RecvLoop, RecvMessage, HbLoop, OpenMapping, HoleLoop
<1> QED BY <1>2, <1>3, <1>4, <1>5, <1>6, <1>7, <1>8, <1>9, <1>10 DEF Next, ThreadStep

LEMMA ServerSteps ==
  ASSUME CInv, [Next]_vars
  PROVE  OwnServer'
<1> USE DEF CInv, OwnServer, CallRuns, Joined, control, callVars, wire
<1>1. CASE UNCHANGED vars
  BY <1>1 DEF vars
<1>2. CASE Start \/ Restart
  BY <1>2 DEF Start, Restart, Begin
<1>3. CASE Stop \/ StopCloses \/ Rebind
  BY <1>3 DEF Stop, StopCloses, Rebind, ClearFlags
<1>4. CASE TryConnectOne
  BY <1>4 DEF TryConnectOne, Raised, OpenSock
<1>5. CASE Resend \/ WaitRaises
  BY <1>5 DEF Resend, WaitRaises, Raised
<1>6. CASE WaitJoined
  BY <1>6 DEF WaitJoined
<1>7. CASE Rejected
  BY <1>7 DEF Rejected, GiveUp
<1>8. CASE Deadline \/ NoSocket
  BY <1>8 DEF Deadline, NoSocket, Failover, GiveUp
<1>9. CASE Forget \/ SyncTime \/ OpenUdpHoleSocket \/ StartHoleLoop \/ StartLoops
  BY <1>9 DEF Forget, SyncTime, OpenUdpHoleSocket, StartHoleLoop, StartLoops
<1>10. ASSUME NEW v \in Servers, Answer(v) PROVE OwnServer'
  <2>1. /\ v \in asked /\ asked' \subseteq asked
        /\ \A m \in inbox' : m \in inbox \/ m.from = v
        /\ UNCHANGED <<running, call, result, srv, me, sock>>
    BY <1>10 DEF Answer
  <2> QED BY <2>1
<1>11. CASE ThreadStep
  <2>1. inbox' \subseteq inbox /\ UNCHANGED <<running, call, result, srv, me, sock, asked>>
    BY <1>11 DEF ThreadStep, RecvLoop, RecvMessage, HbLoop, OpenMapping, HoleLoop
  <2> QED BY <2>1
<1> QED BY <1>1, <1>2, <1>3, <1>4, <1>5, <1>6, <1>7, <1>8, <1>9, <1>10, <1>11
        DEF Next, ThreadStep

\* The threads a start has, by number.
LEMMA ThreadNumbers ==
  ASSUME CInv
  PROVE  /\ recv \in [Starts -> LoopPlaces] /\ hole \in [Starts -> LoopPlaces]
         /\ hb \in [Starts -> {"none", "live", "done"}]
         /\ mapper \in [Starts -> {"none", "trying", "connecting", "done"}]
         /\ running \/ call \in Underway => starts \in Starts
BY ClientAssumption DEF CInv, TypeOK, CallRuns, LoopPlaces, Starts

LEMMA ThreadSteps ==
  ASSUME CInv, [Next]_vars
  PROVE  OwnThreads'
<1> USE ThreadNumbers
    DEF CInv, OwnThreads, CallRuns, Joined, Underway, Alive, Mapping, control, callVars, wire,
        holes, loops
<1>1. CASE UNCHANGED vars
  BY <1>1 DEF vars
<1>2. CASE Start \/ Restart
  BY <1>2 DEF Start, Restart, Begin
<1>3. CASE Stop \/ StopCloses \/ Rebind
  BY <1>3 DEF Stop, StopCloses, Rebind, ClearFlags
<1>4. CASE TryConnectOne \/ Resend \/ WaitRaises \/ WaitJoined \/ Forget
  BY <1>4 DEF TryConnectOne, Raised, Resend, WaitRaises, WaitJoined, Forget
<1>5. CASE Rejected
  BY <1>5 DEF Rejected, GiveUp
<1>6. CASE Deadline \/ NoSocket
  BY <1>6 DEF Deadline, NoSocket, Failover, GiveUp
<1>7. CASE SyncTime
  BY <1>7 DEF SyncTime
<1>8. CASE OpenUdpHoleSocket \/ StartHoleLoop
  BY <1>8 DEF OpenUdpHoleSocket, StartHoleLoop
<1>9. CASE StartLoops
  BY <1>9 DEF StartLoops
<1>10. CASE \E v \in Servers : Answer(v)
  BY <1>10 DEF Answer
<1>11. ASSUME NEW k \in Starts, RecvLoop(k) PROVE OwnThreads'
  <2>1. running /\ Joined => recv'[starts] \in Alive
    BY <1>11 DEF RecvLoop, Looks, Back, OwnServer
  <2> QED BY <1>11, <2>1 DEF RecvLoop
<1>12. ASSUME NEW k \in Starts, RecvMessage(k) PROVE OwnThreads'
  BY <1>12 DEF RecvMessage
<1>13. ASSUME NEW k \in Starts, HbLoop(k) PROVE OwnThreads'
  BY <1>13 DEF HbLoop
<1>14. ASSUME NEW k \in Starts, OpenMapping(k) PROVE OwnThreads'
  <2>1. /\ mapSock => mapSock'
        /\ running /\ mapper[starts] \in Mapping => mapSock' \/ mapper'[starts] \in Mapping
    BY <1>14 DEF OpenMapping
  <2> QED BY <1>14, <2>1 DEF OpenMapping
<1>15. ASSUME NEW k \in Starts, HoleLoop(k) PROVE OwnThreads'
  BY <1>15 DEF HoleLoop
<1> QED BY <1>1, <1>2, <1>3, <1>4, <1>5, <1>6, <1>7, <1>8, <1>9, <1>10, <1>11, <1>12, <1>13,
           <1>14, <1>15 DEF Next

LEMMA HoleSteps ==
  ASSUME CInv, [Next]_vars
  PROVE  OwnHole'
<1> USE ThreadNumbers
    DEF CInv, OwnHole, CallRuns, Joined, Underway, Alive, control, callVars, holes
<1>1. CASE UNCHANGED vars
  BY <1>1 DEF vars
<1>2. CASE Start \/ Restart
  BY <1>2 DEF Start, Restart, Begin
<1>3. CASE Stop \/ StopCloses \/ Rebind
  BY <1>3 DEF Stop, StopCloses, Rebind, ClearFlags, CloseSockets
<1>4. CASE TryConnectOne \/ Resend \/ WaitRaises \/ WaitJoined \/ Forget \/ SyncTime
  BY <1>4 DEF TryConnectOne, Raised, Resend, WaitRaises, WaitJoined, Forget, SyncTime
<1>5. CASE Rejected
  BY <1>5 DEF Rejected, GiveUp
<1>6. CASE Deadline \/ NoSocket
  BY <1>6 DEF Deadline, NoSocket, Failover, GiveUp
<1>7. CASE OpenUdpHoleSocket
  BY <1>7 DEF OpenUdpHoleSocket
<1>8. CASE StartHoleLoop
  BY <1>8 DEF StartHoleLoop
<1>9. CASE StartLoops
  BY <1>9 DEF StartLoops
<1>10. CASE \E v \in Servers : Answer(v)
  BY <1>10 DEF Answer
<1>11. ASSUME NEW k \in Starts, RecvLoop(k) \/ RecvMessage(k) \/ HbLoop(k) \/ OpenMapping(k)
       PROVE  OwnHole'
  <2>1. CASE RecvLoop(k)
    BY <2>1 DEF RecvLoop
  <2>2. CASE RecvMessage(k)
    BY <2>2 DEF RecvMessage
  <2>3. CASE HbLoop(k)
    BY <2>3 DEF HbLoop
  <2>4. CASE OpenMapping(k)
    BY <2>4 DEF OpenMapping
  <2> QED BY <1>11, <2>1, <2>2, <2>3, <2>4
<1>12. ASSUME NEW k \in Starts, HoleLoop(k) PROVE OwnHole'
  <2>1. running /\ holeSock /\ holeFlag /\ hole[starts] \in Alive => hole'[starts] \in Alive
    BY <1>12 DEF HoleLoop, Looks, Back
  <2> QED BY <1>12, <2>1 DEF HoleLoop
<1> QED BY <1>1, <1>2, <1>3, <1>4, <1>5, <1>6, <1>7, <1>8, <1>9, <1>10, <1>11, <1>12 DEF Next

-----------------------------------------------------------------------------
(* The theorems.                                                           *)

\* The invariant holds in every reachable state of the client.
THEOREM ClientInvariance == Spec => []CInv
<1>1. CInv /\ [Next]_vars => CInv'
  BY ClientTypes, CallSteps, ServerSteps, ThreadSteps, HoleSteps DEF CInv
<1> QED BY <1>1, ClientInit, PTL DEF Spec

\* Type correctness.
THEOREM ClientTypesHold == Spec => []TypeOK
<1>1. CInv => TypeOK
  BY DEF CInv
<1> QED BY <1>1, ClientInvariance, PTL

\* A client that has joined works: the threads of its present start are alive, and
\* the flags and sockets of earlier ones neither end them nor keep them from being
\* started, but for the loop of the hole socket after a stop() that cut a start()
\* (signaling.py:277-285, 329-340, 378-382).
THEOREM ClientWorks == Spec => []Works
<1>1. CInv => Works
  <2> SUFFICES ASSUME CInv, Joined
               PROVE  /\ Serves(recv)
                      /\ \E k \in Starts : hb[k] = "live"
                      /\ holeSock => Serves(hole) \/ cut
                      /\ mapSock \/ \E k \in Starts : mapper[k] \in {"trying", "connecting"}
    BY DEF Works
  <2>1. starts \in Starts /\ ~stopping /\ call = "idle" /\ running
    BY ThreadNumbers DEF CInv, CallRuns, Joined
  <2>2. holeSock => Serves(hole) \/ cut
    BY <2>1 DEF CInv, OwnHole, Serves, Alive
  <2> QED BY <2>1, <2>2 DEF CInv, OwnThreads, Serves, Alive, Mapping
<1> QED BY <1>1, ClientInvariance, PTL

\* The id it goes by was given to it by the server it talks to: a server that was
\* tried before cannot answer at the socket of the next (signaling.py:206-218, 248, 264).
THEOREM ClientJoinedHere == Spec => []JoinedHere
<1>1. CInv => JoinedHere
  BY DEF CInv, OwnServer, JoinedHere, Joined
<1> QED BY <1>1, ClientInvariance, PTL
=============================================================================
