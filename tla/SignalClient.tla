---------------------------- MODULE SignalClient ----------------------------
(***************************************************************************)
(* The life of a SignalingClient, dpmp/link/signaling.py: start() with its *)
(* candidates and retries, stop(), rebind(), and the threads each start()  *)
(* leaves behind - the receive loop, the heartbeat, the loop of the UDP    *)
(* hole socket and the one that opens the TCP mapping.  A loop looks at    *)
(* _running (the hole socket's at _udp_recv_running) between two blocking  *)
(* calls only, so that a rebind may be over before it looks again: it goes *)
(* on, beside the new one, with whatever self.sock now is.                 *)
(*                                                                         *)
(* start and rebind are called one at a time, after a stop is over; a stop *)
(* comes at any time, also while a start is under way.                     *)
(* What the messages say to the manager is LinkManager's; here a message   *)
(* is an answer to join, or none.                                          *)
(***************************************************************************)
EXTENDS Naturals

CONSTANTS NServers,     \* len(_servers)
          AutoFailover, \* auto_failover
          MaxStarts     \* bound: calls of start(), a rebind's included

ASSUME ClientAssumption == /\ NServers \in Nat \ {0} /\ MaxStarts \in Nat
                           /\ AutoFailover \in BOOLEAN

VARIABLES
  running,  \* _running
  starts,   \* calls of start() so far; each names the threads it starts
  call,     \* where the call under way is, or "idle"
  result,   \* what the last start() came to
  stopping, \* stop() is between the flags and the sockets
  cut,      \* history: the last stop() came while a start() was under way
  srv,      \* server_ip: the candidate's number
  me,       \* my_id, as the server that gave it; 0 is None
  sock,     \* self.sock is open
  asked,    \* the servers a join is on its way to, from the last socket
  inbox,    \* what has arrived at the last socket
  recv,     \* the _recv_loop threads
  hb,       \* the _hb_loop threads
  mapper,   \* the _open_mapping threads
  mapSock,  \* map_sock is open
  holeSock, \* udp_hole_sock is open
  holeFlag, \* _udp_recv_running
  hole      \* the _udp_global_recv_loop threads

vars == <<running, starts, call, result, stopping, cut, srv, me, sock, asked, inbox,
          recv, hb, mapper, mapSock, holeSock, holeFlag, hole>>

Servers == 1 .. NServers
Starts == 1 .. MaxStarts
Answers == [from : Servers, type : {"joined", "error"}]

Init == /\ running = FALSE /\ starts = 0 /\ call = "idle" /\ result = "none"
        /\ stopping = FALSE /\ cut = FALSE /\ srv = 1 /\ me = 0
        /\ sock = FALSE /\ asked = {} /\ inbox = {}
        /\ recv = [k \in Starts |-> "none"] /\ hb = [k \in Starts |-> "none"]
        /\ mapper = [k \in Starts |-> "none"] /\ hole = [k \in Starts |-> "none"]
        /\ mapSock = FALSE /\ holeSock = FALSE /\ holeFlag = FALSE

-----------------------------------------------------------------------------
(* Sockets and the loops that read them.                                   *)

control == <<running, starts, stopping, cut, srv>>
callVars == <<control, call, result, me>>
wire == <<sock, asked, inbox>>
holes == <<holeSock, holeFlag, hole>>
loops == <<recv, hb, mapper>>

\* A loop in recvfrom of a socket that is closed is stranded there.
Stranded(loop) == [k \in Starts |-> IF loop[k] = "reading" THEN "stranded" ELSE loop[k]]

CloseSock == /\ sock' = FALSE /\ recv' = Stranded(recv)
             /\ UNCHANGED <<asked, inbox>>

\* Mutant: the next candidate is asked over the same socket.
SameSock == /\ sock' = TRUE /\ asked' = asked \cup {srv}
            /\ UNCHANGED <<inbox, recv>>

\* A new socket: nothing sent to a former one arrives here.
OpenSock == /\ sock' = TRUE /\ asked' = {srv} /\ inbox' = {}
            /\ recv' = Stranded(recv)

-----------------------------------------------------------------------------
(* start(), stop() and rebind().                                           *)

Begin == /\ running' = TRUE /\ starts' = starts + 1
         /\ call' = "try" /\ result' = "none" /\ srv' = 1
         /\ UNCHANGED <<stopping, cut>>

Start == /\ call = "idle" /\ ~running /\ ~stopping /\ starts < MaxStarts
         /\ Begin
         /\ UNCHANGED <<me, wire, loops, mapSock, holes>>

\* Mutant: _udp_recv_running stays set.
ClearRunning == running' = FALSE /\ mapSock' = FALSE /\ UNCHANGED holeFlag

\* What stop() clears first, with or without a BYE ...
ClearFlags == running' = FALSE /\ mapSock' = FALSE /\ holeFlag' = FALSE

\* ... and closes then.
CloseSockets == holeSock' = FALSE /\ hole' = Stranded(hole) /\ CloseSock

\* A start() under way goes on.
Stop == /\ running
        /\ ClearFlags
        /\ stopping' = TRUE /\ cut' = (call # "idle")
        /\ result' = IF call = "idle" THEN "stopped" ELSE result
        /\ UNCHANGED <<starts, call, srv, me, wire, loops, holeSock, hole>>

StopCloses == /\ stopping /\ stopping' = FALSE
              /\ CloseSockets
              /\ UNCHANGED <<running, starts, call, result, cut, srv, me, hb, mapper,
                              mapSock, holeFlag>>

\* rebind() has stopped the client, quietly, and forgotten its id ...
Rebind == /\ call = "idle" /\ running /\ starts < MaxStarts
          /\ ClearFlags /\ CloseSockets
          /\ me' = 0 /\ call' = "restart" /\ result' = "none" /\ cut' = FALSE
          /\ UNCHANGED <<starts, stopping, srv, hb, mapper>>

\* ... and starts it.
Restart == /\ call = "restart"
           /\ Begin
           /\ UNCHANGED <<me, wire, loops, mapSock, holes>>

\* start() returns False.
GiveUp(why) == running' = FALSE /\ call' = "idle" /\ result' = why /\ UNCHANGED srv

\* Mutant: one candidate too many.
PastLast ==
  IF AutoFailover /\ srv <= NServers
  THEN srv' = srv + 1 /\ call' = "try" /\ UNCHANGED <<running, result>>
  ELSE GiveUp("unreachable")

\* Without an answer: the next candidate, also after a stop(), or the end.
Failover ==
  IF AutoFailover /\ srv < NServers
  THEN srv' = srv + 1 /\ call' = "try" /\ UNCHANGED <<running, result>>
  ELSE GiveUp("unreachable")

\* An exception leaves start(), and _running as it is.
Raised == call' = "idle" /\ result' = "raised"

\* _try_connect_one: a socket, and the first join, which raises without a network.
TryConnectOne ==
  /\ call = "try"
  /\ OpenSock
  /\ \/ call' = "wait" /\ UNCHANGED result
     \/ Raised
  /\ UNCHANGED <<control, me, hb, mapper, mapSock, holes>>

\* There is no socket to be had; self.sock stays what it was.
NoSocket ==
  /\ call = "try"
  /\ Failover
  /\ UNCHANGED <<starts, stopping, cut, me, wire, loops, mapSock, holes>>

\* _wait_joined: no answer within recv_timeout, join again.
Resend ==
  /\ call = "wait" /\ running
  /\ asked' = asked \cup {srv}
  /\ UNCHANGED <<callVars, sock, inbox, loops, mapSock, holes>>

\* To send raises, without a network, or to read, as stop() has closed the socket.
WaitRaises ==
  /\ call = "wait" /\ (running \/ ~sock)
  /\ Raised
  /\ UNCHANGED <<control, me, wire, loops, mapSock, holes>>

\* A server answers a join, or the join is lost.
Answer(v) ==
  /\ v \in asked /\ sock
  /\ asked' = asked \ {v}
  /\ inbox' \in {inbox} \cup {inbox \cup {[from |-> v, type |-> t]} : t \in {"joined", "error"}}
  /\ UNCHANGED <<callVars, sock, loops, mapSock, holes>>

WaitJoined ==
  /\ call = "wait" /\ running
  /\ \E m \in inbox : m.type = "joined" /\ me' = m.from /\ inbox' = inbox \ {m}
  /\ call' = "sync"
  /\ UNCHANGED <<control, result, sock, asked, loops, mapSock, holes>>

\* T_ERROR: last_join_error ends the search.
Rejected ==
  /\ call = "wait" /\ running
  /\ \E m \in inbox : m.type = "error"
  /\ CloseSock
  /\ GiveUp("rejected")
  /\ UNCHANGED <<starts, stopping, cut, me, hb, mapper, mapSock, holes>>

\* connect_timeout is over, or stop() has cleared _running.
Deadline ==
  /\ call = "wait"
  /\ CloseSock
  /\ Failover
  /\ UNCHANGED <<starts, stopping, cut, me, hb, mapper, mapSock, holes>>

\* _sync_time takes everything from the socket and keeps its own replies.
Forget ==
  /\ call = "sync" /\ sock
  /\ \E m \in inbox : inbox' = inbox \ {m}
  /\ UNCHANGED <<callVars, sock, asked, loops, mapSock, holes>>

\* Its errors are swallowed: start() goes on after a stop().
SyncTime ==
  /\ call = "sync"
  /\ mapper' = [mapper EXCEPT ![starts] = "trying"]
  /\ call' = "hole"
  /\ UNCHANGED <<control, result, me, wire, recv, hb, mapSock, holes>>

\* _open_udp_hole_socket: the socket is there, or cannot be had.
OpenUdpHoleSocket ==
  /\ call = "hole"
  /\ holeSock' \in BOOLEAN
  /\ call' = IF holeSock' THEN "hello" ELSE "loops"
  /\ UNCHANGED <<control, result, me, wire, loops, mapSock, holeFlag, hole>>

\* To send the hello fails; or the loop is started unless the flag says there is one.
StartHoleLoop ==
  /\ call = "hello" /\ call' = "loops"
  /\ \/ holeSock' = FALSE /\ UNCHANGED <<holeFlag, hole>>
     \/ /\ holeFlag' = TRUE /\ UNCHANGED holeSock
        /\ hole' = IF holeFlag THEN hole ELSE [hole EXCEPT ![starts] = "check"]
  /\ UNCHANGED <<control, result, me, wire, loops, mapSock>>

\* The receive loop and the heartbeat are started; start() returns True.
StartLoops ==
  /\ call = "loops"
  /\ recv' = [recv EXCEPT ![starts] = "check"] /\ hb' = [hb EXCEPT ![starts] = "live"]
  /\ call' = "idle" /\ result' = "joined"
  /\ UNCHANGED <<control, me, wire, mapper, mapSock, holes>>

-----------------------------------------------------------------------------
(* The threads.                                                            *)

\* What a loop does next, given its flag and its socket: it reads, or ends.
Looks(loop, k, flag, open) ==
  [loop EXCEPT ![k] = IF flag /\ open THEN "reading" ELSE "done"]

\* recvfrom came back without a message: a timeout, or, of a closed socket, the
\* error that ends the loop.
Back(loop, k) == \/ loop[k] \in {"reading", "stranded"} /\ loop' = [loop EXCEPT ![k] = "check"]
                 \/ loop[k] = "stranded" /\ loop' = [loop EXCEPT ![k] = "done"]

RecvLoop(k) ==
  /\ \/ recv[k] = "check" /\ recv' = Looks(recv, k, running, sock)
     \/ Back(recv, k)
  /\ UNCHANGED <<callVars, wire, hb, mapper, mapSock, holes>>

\* A message: for on_error, if it is an error; a joined is not for this loop.
RecvMessage(k) ==
  /\ recv[k] = "reading"
  /\ \E m \in inbox : inbox' = inbox \ {m}
  /\ recv' = [recv EXCEPT ![k] = "check"]
  /\ UNCHANGED <<callVars, sock, asked, hb, mapper, mapSock, holes>>

\* Mutant: the flag is not looked at; the loop goes round.
HbLoopForever(k) == /\ hb[k] = "live" /\ ~running
                    /\ hb' = [hb EXCEPT ![k] = "live"]
                    /\ UNCHANGED <<callVars, wire, recv, mapper, mapSock, holes>>

\* _hb_loop sends while _running, and ends when it finds it cleared.
HbLoop(k) == /\ hb[k] = "live" /\ ~running
             /\ hb' = [hb EXCEPT ![k] = "done"]
             /\ UNCHANGED <<callVars, wire, recv, mapper, mapSock, holes>>

\* _open_mapping: another attempt, if still running; it fails, also for want of
\* an id, or it succeeds.
OpenMapping(k) ==
  /\ \/ /\ mapper[k] = "trying" /\ UNCHANGED mapSock
        /\ mapper' = [mapper EXCEPT ![k] = IF running THEN "connecting" ELSE "done"]
     \/ /\ mapper[k] = "connecting" /\ UNCHANGED mapSock
        /\ mapper' = [mapper EXCEPT ![k] = "trying"]
     \/ /\ mapper[k] = "connecting" /\ me # 0 /\ mapSock' = TRUE
        /\ mapper' = [mapper EXCEPT ![k] = "done"]
  /\ UNCHANGED <<callVars, wire, recv, hb, holes>>

HoleLoop(k) ==
  /\ \/ hole[k] = "check" /\ hole' = Looks(hole, k, holeFlag, holeSock)
     \/ Back(hole, k)
  /\ UNCHANGED <<callVars, wire, loops, mapSock, holeSock, holeFlag>>

Next == \/ Start \/ Stop \/ StopCloses \/ Rebind \/ Restart
        \/ TryConnectOne \/ NoSocket \/ Resend \/ WaitRaises
        \/ WaitJoined \/ Rejected \/ Deadline
        \/ Forget \/ SyncTime \/ OpenUdpHoleSocket \/ StartHoleLoop \/ StartLoops
        \/ \E v \in Servers : Answer(v)
        \/ \E k \in Starts : RecvLoop(k) \/ RecvMessage(k) \/ HbLoop(k)
                             \/ OpenMapping(k) \/ HoleLoop(k)

Spec == Init /\ [][Next]_vars

\* Threads are scheduled, and what they block in has a timeout.
FairSpec == /\ Spec
            /\ \A k \in Starts : /\ WF_vars(RecvLoop(k)) /\ WF_vars(HbLoop(k))
                                 /\ WF_vars(OpenMapping(k)) /\ WF_vars(HoleLoop(k))

-----------------------------------------------------------------------------
\* The type of the state.
TypeOK ==
  /\ running \in BOOLEAN /\ starts \in 0 .. MaxStarts
  /\ call \in {"idle", "restart", "try", "wait", "sync", "hole", "hello", "loops"}
  /\ result \in {"none", "joined", "rejected", "unreachable", "raised", "stopped"}
  /\ stopping \in BOOLEAN /\ cut \in BOOLEAN
  /\ srv \in Servers /\ me \in 0 .. NServers
  /\ sock \in BOOLEAN /\ asked \subseteq Servers /\ inbox \subseteq Answers
  /\ recv \in [Starts -> {"none", "check", "reading", "stranded", "done"}]
  /\ hole \in [Starts -> {"none", "check", "reading", "stranded", "done"}]
  /\ hb \in [Starts -> {"none", "live", "done"}]
  /\ mapper \in [Starts -> {"none", "trying", "connecting", "done"}]
  /\ mapSock \in BOOLEAN /\ holeSock \in BOOLEAN /\ holeFlag \in BOOLEAN

\* start() has returned True, and no stop() has come since it began.
Joined == running /\ result = "joined" /\ call = "idle"

\* A loop that serves the present socket, or is about to.
Serves(loop) == \E k \in Starts : loop[k] \in {"check", "reading"}

\* When start() or rebind() has returned True, and no stop() came, the client works:
\* somebody receives, sends heartbeats and reads the hole socket, and the mapping is
\* open or being opened; no flag a former connection left behind makes a loop end at
\* once or keeps the new one from being started - but that of the hole socket, which
\* a stop() between the lines of a start() leaves set (signaling.py:277-285, 329-340,
\* 378-382).
Works == Joined => /\ Serves(recv)
                   /\ \E k \in Starts : hb[k] = "live"
                   /\ holeSock => Serves(hole) \/ cut
                   /\ mapSock \/ \E k \in Starts : mapper[k] \in {"trying", "connecting"}

\* The id a client goes by was given to it by the server it talks to, however
\* late the servers it tried before answer (signaling.py:206-218, 248, 264).
JoinedHere == Joined => sock /\ me = srv

Ended(loop) == \A k \in Starts : loop[k] \in {"none", "done"}

\* stop() ends every thread, those of earlier starts and of a start() under way
\* included - but the loop of the hole socket, which a start() that is under way at
\* the stop() opens and starts after it (signaling.py:315-340, 378-382, 623).
StopsAll ==
  <>[]~running => <>[](/\ Ended(recv) /\ Ended(hb) /\ Ended(mapper)
                       /\ cut \/ Ended(hole))

=============================================================================
