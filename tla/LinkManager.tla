---------------------------- MODULE LinkManager ----------------------------
(***************************************************************************)
(* LinkManager, dpmp/link/manager.py, as seen by one peer: the long TCP    *)
(* connection, the UDP-RTP channel, the paths' roles, and the threads that *)
(* work on them:                                                           *)
(*   - the signalling thread (members, punch_go),                          *)
(*   - the receive loop of the hole socket (hole ready, RTP callbacks),    *)
(*   - the listener (inbound connections),                                 *)
(*   - punch tasks, one thread each, and the SYNC-timed single punches,    *)
(*   - the keepalive thread, RTP's dead-peer callback,                     *)
(*   - the application (stop, network change).                             *)
(* A step is what one thread does between two acquisitions of self.lock;   *)
(* waiting (backoff, round alignment, T_go) is the time between steps.     *)
(***************************************************************************)
EXTENDS PathTable, FiniteSets

CONSTANTS Tasks,      \* the threads that may run punch tasks at a time
          Socks,      \* the TCP connections the instance may see
          NoSock,
          Retry,      \* punch_retry
          MaxActive,  \* the 2 of _punch_task
          MaxEvents   \* bound: what happens from outside, see Event

ASSUME ManagerAssumption == /\ PathIds = {"tcp", "udp"}
                            /\ Rank["tcp"] < Rank["udp"]
                            /\ NoSock \notin Socks
                            /\ IsFiniteSet(Tasks) /\ IsFiniteSet(Socks)
                            /\ Retry \in Nat \ {0}
                            /\ MaxActive \in Nat /\ MaxEvents \in Nat

VARIABLES
  running,   \* _running
  bigger,    \* my_id > peer_id: whose outbound connection is preferred
  member,    \* members[peer]: "none", "blank" (no pub_tcp, no lan) or "target"
  conn,      \* connections[peer], or NoConn
  udp,       \* udp_conns[peer] exists
  handler,   \* SignalingClient._udp_rtp_handlers[peer_key]: "none", "live", "dead"
  paths,     \* _path_schedulers[peer].paths
  active,    \* _punch_active[peer]
  open,      \* the open TCP sockets of this peer
  used,      \* the connections that have come about so far
  task,      \* the punch threads
  hole,      \* the step the hole socket's receive loop is at
  inbound,   \* the socket the listener is handing over, or NoSock
  watch,     \* the keepalive thread: its step and whether it still holds
             \* the Conn that connections[peer] is
  reaper,    \* _handle_udp_peer_dead: "idle" or "pop"
  app,       \* on_network_changed: "idle" or "rebind"
  events

vars == <<running, bigger, member, conn, udp, handler, paths, active, open, used,
          task, hole, inbound, watch, reaper, app, events>>

NewConn == [state |-> "connecting", sock |-> NoSock, preferred |-> TRUE]
NoConn == [state |-> "none", sock |-> NoSock, preferred |-> TRUE]
Connected(s, pref) == [state |-> "connected", sock |-> s, preferred |-> pref]

Idle == [pc |-> "idle", peer |-> "blank", attempt |-> 0, counted |-> FALSE, sock |-> NoSock]

OutboundPreferred == bigger
InboundPreferred == ~bigger

InProgress == conn.state \in {"connecting", "connected"}

Init == /\ running = TRUE
        /\ bigger \in BOOLEAN
        /\ member = "none" /\ conn = NoConn
        /\ udp = FALSE /\ handler = "none"
        /\ paths = NoPaths
        /\ active = 0
        /\ open = {} /\ used = {}
        /\ task = [t \in Tasks |-> Idle]
        /\ hole = "idle" /\ inbound = NoSock
        /\ watch = [pc |-> "idle", holds |-> FALSE]
        /\ reaper = "idle" /\ app = "idle"
        /\ events = 0

-----------------------------------------------------------------------------
(* What several methods share.                                             *)

taskVars == <<active, task>>
udpVars == <<udp, handler>>
threads == <<hole, inbound, reaper, app>>

Event == events < MaxEvents /\ events' = events + 1

\* Another Conn object in connections[peer]: the keepalive thread's is stale.
Replace(c) == conn' = c /\ watch' = [watch EXCEPT !.holds = FALSE]

\* _close_sock(conn) of the Conn that stays, then its new state.
CloseConn == open' = open \ {conn.sock}
Fail == /\ CloseConn
        /\ conn' = [conn EXCEPT !.sock = NoSock, !.state = "failed"]

\* threading.Thread(target=_punch_task or _sync_punch_task).start()
Spawn(pc, peer) == \E t \in Tasks :
  /\ task[t] = Idle
  /\ task' = [task EXCEPT ![t] = [Idle EXCEPT !.pc = pc, !.peer = peer]]

PathFailure == \E table \in Promotions(paths) : paths' = table

\* A connection that has not been there before.
Fresh(s) == s \in Socks \ used /\ used' = used \cup {s}

-----------------------------------------------------------------------------
(* The signalling thread.                                                  *)

\* on_joined, on_member_join: _add_member.
AddMember == /\ Event
             /\ member' \in {"blank", "target"}
             /\ UNCHANGED <<running, bigger, conn, udpVars, paths, taskVars, open, used,
                            threads, watch>>

(* on_member_leave: everything of the peer goes, except the handler its    *)
(* channel registered with the signalling client.                          *)
MemberLeave ==
  /\ Event
  /\ member' = "none"
  /\ CloseConn /\ Replace(NoConn)
  /\ paths' = NoPaths
  /\ udp' = FALSE
  /\ handler' = IF udp /\ handler = "live" THEN "dead" ELSE handler
  /\ UNCHANGED <<running, bigger, taskVars, used, threads>>

\* on_punch_go.
PunchGo ==
  /\ Event
  /\ \E peer \in {"blank", "target"} :
       /\ member' = peer
       /\ IF InProgress THEN UNCHANGED <<conn, watch, task>>
          ELSE Replace(NewConn) /\ Spawn("enter", peer)
  /\ UNCHANGED <<running, bigger, udpVars, paths, active, open, used, threads>>

-----------------------------------------------------------------------------
(* The hole socket's receive loop.                                         *)

(* A probe of the peer arrives: only without a handler does the signalling *)
(* client report the hole, and on_udp_hole_ready goes on only without a    *)
(* channel.  It makes the channel and registers its handler ...            *)
HoleReady ==
  /\ hole = "idle" /\ handler = "none" /\ ~udp
  /\ Event
  /\ handler' = "live" /\ hole' = "insert"
  /\ UNCHANGED <<running, bigger, member, conn, udp, paths, taskVars, open, used,
                 inbound, watch, reaper, app>>

\* ... enters it ...
HoleInsert ==
  /\ hole = "insert"
  /\ udp' = TRUE /\ hole' = "register"
  /\ UNCHANGED <<running, bigger, member, conn, handler, paths, taskVars, open, used,
                 inbound, watch, reaper, app, events>>

\* ... and registers its path.
HoleRegister ==
  /\ hole = "register"
  /\ paths' = Registered(paths, "udp") /\ hole' = "idle"
  /\ UNCHANGED <<running, bigger, member, conn, udpVars, taskVars, open, used,
                 inbound, watch, reaper, app, events>>

RtpPacket == hole = "idle" /\ handler = "live" /\ Event

\* TCP_READY: _on_peer_tcp_ready.
PeerTcpReady ==
  /\ RtpPacket
  /\ ~InProgress /\ member # "none"
  /\ Replace(NewConn) /\ Spawn("enter", member)
  /\ UNCHANGED <<running, bigger, member, udpVars, paths, active, open, used, threads>>

\* SYNC_COMMIT, or the end of our own SYNC: _on_sync_ready.  Without a target
\* _sync_punch_task ends at once.
SyncReady ==
  /\ RtpPacket
  /\ conn.state # "connected" /\ member = "target"
  /\ Spawn("sync", member)
  /\ UNCHANGED <<running, bigger, member, conn, udpVars, paths, active, open, used,
                 threads, watch>>

\* PUNCH_FAIL: _on_peer_punch_fail closes the connection whatever its state ...
PeerPunchFail ==
  /\ RtpPacket
  /\ IF conn = NoConn THEN UNCHANGED <<conn, open>> ELSE Fail
  /\ hole' = "tcpfail"
  /\ UNCHANGED <<running, bigger, member, udpVars, paths, taskVars, used, inbound,
                 watch, reaper, app>>

\* ... and reports the failure of the TCP path.
PunchFailPath ==
  /\ hole = "tcpfail"
  /\ PathFailure /\ hole' = "idle"
  /\ UNCHANGED <<running, bigger, member, conn, udpVars, taskVars, open, used,
                 inbound, watch, reaper, app, events>>

-----------------------------------------------------------------------------
(* on_inbound.                                                             *)

\* The listener accepts a connection from the peer's TCP mapping ...
Inbound ==
  /\ inbound = NoSock /\ member = "target" /\ Event
  /\ \E s \in Socks : Fresh(s) /\ inbound' = s /\ open' = open \cup {s}
  /\ UNCHANGED <<running, bigger, member, conn, udpVars, paths, taskVars, hole, watch,
                 reaper, app>>

\* Mutants: the newest connection always wins; the connection that loses
\* stays open.
AdoptNewest(s, pref) == CloseConn /\ Replace(Connected(s, pref))
AdoptUnclosed(s, pref) ==
  IF conn.state = "connected" /\ conn.sock # NoSock /\ ~(pref /\ ~conn.preferred)
  THEN UNCHANGED <<open, conn, watch>>
  ELSE UNCHANGED open /\ Replace(Connected(s, pref))

\* What on_inbound and _install_socket both do: keep the connection there is,
\* or close it and take the new one.
Adopt(s, pref) ==
  IF conn.state = "connected" /\ conn.sock # NoSock /\ ~(pref /\ ~conn.preferred)
  THEN open' = open \ {s} /\ UNCHANGED <<conn, watch>>
  ELSE CloseConn /\ Replace(Connected(s, pref))

\* ... and on_inbound takes it or closes it.  No path is registered for it.
InboundInstall ==
  /\ inbound # NoSock
  /\ Adopt(inbound, InboundPreferred)
  /\ inbound' = NoSock
  /\ UNCHANGED <<running, bigger, member, udpVars, paths, taskVars, used, hole, reaper,
                 app, events>>

-----------------------------------------------------------------------------
(* Punch tasks.                                                            *)

At(t, pc) == task[t].pc = pc
Goto(t, pc) == task' = [task EXCEPT ![t].pc = pc]
taskFrame == <<running, bigger, member, udpVars, threads, events>>

\* Mutant: the limit is checked but the count is not taken.
EnterUncounted(t) ==
  /\ At(t, "enter")
  /\ IF active >= MaxActive THEN task' = [task EXCEPT ![t] = Idle]
     ELSE task' = [task EXCEPT ![t] = [@ EXCEPT !.pc = "round", !.attempt = 1,
                                                !.counted = TRUE]]
  /\ UNCHANGED <<taskFrame, active, conn, paths, open, used, watch>>

\* _punch_task begins: two tasks of one peer at most.  _punch_sem never makes
\* them wait for each other, punch_concurrency being above two.
Enter(t) ==
  /\ At(t, "enter")
  /\ IF active >= MaxActive
     THEN task' = [task EXCEPT ![t] = Idle] /\ UNCHANGED active
     ELSE /\ active' = active + 1
          /\ task' = [task EXCEPT ![t] = [@ EXCEPT !.pc = "round", !.attempt = 1,
                                                   !.counted = TRUE]]
  /\ UNCHANGED <<taskFrame, conn, paths, open, used, watch>>

\* The latest entry of members, or the peer the task was given.
Latest(t) == IF member = "none" THEN task[t].peer ELSE member

\* An attempt begins, unless the manager stopped or another task connected.
\* Without a target the task asks for one (request_punch).
Round(t) ==
  /\ At(t, "round")
  /\ Goto(t, IF ~running \/ conn.state = "connected" THEN "finish"
             ELSE IF Latest(t) = "target" THEN "punch" ELSE "rewait")
  /\ UNCHANGED <<taskFrame, active, conn, paths, open, used, watch>>

\* Half a second later there is one, or the task gives up.  The connection stays
\* as it is: connecting, which on_punch_go and TCP_READY respect.
Rewait(t) ==
  /\ At(t, "rewait")
  /\ Goto(t, IF member = "target" THEN "punch" ELSE "finish")
  /\ UNCHANGED <<taskFrame, active, conn, paths, open, used, watch>>

\* puncher.punch() returns a connected socket ...
PunchWins(t) ==
  /\ At(t, "punch") \/ At(t, "sync")
  /\ \E s \in Socks :
       /\ Fresh(s) /\ open' = open \cup {s}
       /\ task' = [task EXCEPT ![t].sock = s, ![t].pc = "install"]
  /\ UNCHANGED <<taskFrame, active, conn, paths, watch>>

\* ... or None: the next attempt, the end of the task, or, after the single
\* punch of _sync_punch_task, a whole _punch_task.
PunchLoses(t) ==
  /\ \/ /\ At(t, "punch") /\ task[t].attempt < Retry
        /\ task' = [task EXCEPT ![t].pc = "round", ![t].attempt = @ + 1]
     \/ At(t, "punch") /\ task[t].attempt = Retry /\ Goto(t, "fail")
     \/ At(t, "sync") /\ Goto(t, "enter")
  /\ UNCHANGED <<taskFrame, active, conn, paths, open, used, watch>>

\* After the last attempt: the connection failed, unless another task made it.
MarkFailed(t) ==
  /\ At(t, "fail")
  /\ conn' = [conn EXCEPT !.state = IF @ \in {"none", "connected"} THEN @ ELSE "failed"]
  /\ Goto(t, "finish")
  /\ UNCHANGED <<taskFrame, active, paths, open, used, watch>>

\* _install_socket, the locked part.
Install(t) ==
  /\ At(t, "install")
  /\ Adopt(task[t].sock, OutboundPreferred)
  /\ task' = [task EXCEPT ![t].sock = NoSock,
                          ![t].pc = IF conn' = conn THEN "finish" ELSE "register"]
  /\ UNCHANGED <<taskFrame, active, paths, used>>

\* _install_socket, after the lock is released.
RegisterTcp(t) ==
  /\ At(t, "register")
  /\ paths' = Registered(paths, "tcp")
  /\ Goto(t, "finish")
  /\ UNCHANGED <<taskFrame, active, conn, open, used, watch>>

\* Mutant: a SYNC punch gives back a place it never took.
FinishAlways(t) ==
  /\ At(t, "finish")
  /\ active' = active - 1
  /\ task' = [task EXCEPT ![t] = Idle]
  /\ UNCHANGED <<taskFrame, conn, paths, open, used, watch>>

\* The finally clause.
Finish(t) ==
  /\ At(t, "finish")
  /\ active' = IF task[t].counted THEN active - 1 ELSE active
  /\ task' = [task EXCEPT ![t] = Idle]
  /\ UNCHANGED <<taskFrame, conn, paths, open, used, watch>>

TaskStep(t) == \/ Enter(t) \/ Round(t) \/ Rewait(t) \/ PunchWins(t) \/ PunchLoses(t)
               \/ MarkFailed(t) \/ Install(t) \/ RegisterTcp(t) \/ Finish(t)

-----------------------------------------------------------------------------
(* The keepalive thread and RTP's dead-peer callback.                      *)

watchFrame == <<running, bigger, member, udpVars, taskVars, used, threads>>

\* _keepalive_loop takes the connection under the lock ...
Watch ==
  /\ running /\ watch.pc = "idle" /\ conn.state = "connected"
  /\ watch' = [pc |-> "check", holds |-> TRUE]
  /\ UNCHANGED <<watchFrame, conn, paths, open, events>>

\* ... and finds it alive without the lock ...
WatchAlive ==
  /\ watch.pc = "check" /\ watch.holds /\ conn.sock # NoSock
  /\ watch' = [watch EXCEPT !.pc = "idle"]
  /\ UNCHANGED <<watchFrame, conn, paths, open, events>>

\* ... or not: the peer closed it, or another thread did meanwhile.  Only a
\* connection that is still the current one is failed.
WatchDead ==
  /\ watch.pc = "check"
  /\ IF watch.holds /\ conn.sock # NoSock THEN Event ELSE UNCHANGED events
  /\ IF watch.holds
     THEN Fail /\ watch' = [watch EXCEPT !.pc = "tcpfail"]
     ELSE watch' = [watch EXCEPT !.pc = "idle"] /\ UNCHANGED <<conn, open>>
  /\ UNCHANGED <<watchFrame, paths>>

WatchPathFailure ==
  /\ watch.pc = "tcpfail"
  /\ PathFailure /\ watch' = [watch EXCEPT !.pc = "idle"]
  /\ UNCHANGED <<watchFrame, conn, open, events>>

\* _handle_udp_peer_dead: the path goes first ...
UdpDead ==
  /\ udp /\ reaper = "idle" /\ Event
  /\ paths' = Removed(paths, "udp") /\ reaper' = "pop"
  /\ UNCHANGED <<running, bigger, member, conn, udpVars, taskVars, open, used, hole,
                 inbound, watch, app>>

\* ... then the channel, if it is still there, and its handler.
UdpPop ==
  /\ reaper = "pop"
  /\ udp' = FALSE
  /\ handler' = IF udp THEN "none" ELSE handler
  /\ reaper' = "idle"
  /\ UNCHANGED <<running, bigger, member, conn, paths, taskVars, open, used, hole,
                 inbound, watch, app, events>>

-----------------------------------------------------------------------------
(* The application.                                                        *)

\* stop() and on_network_changed() close and forget every connection; a
\* closed channel's handler stays registered.
CloseAll == /\ CloseConn /\ Replace(NoConn)
            /\ udp' = FALSE
            /\ handler' = IF udp /\ handler = "live" THEN "dead" ELSE handler

Stop ==
  /\ Event
  /\ running' = FALSE
  /\ CloseAll
  /\ UNCHANGED <<bigger, member, paths, taskVars, used, threads>>

NetworkChanged ==
  /\ Event
  /\ running /\ app = "idle"
  /\ CloseAll /\ paths' = NoPaths
  /\ app' = "rebind"
  /\ UNCHANGED <<running, bigger, member, taskVars, used, hole, inbound, reaper>>

\* signaling.rebind() forgets every handler; then a punch is requested.
Rebind ==
  /\ app = "rebind"
  /\ handler' = "none" /\ app' = "idle"
  /\ UNCHANGED <<running, bigger, member, conn, udp, paths, taskVars, open, used, hole,
                 inbound, watch, reaper, events>>

-----------------------------------------------------------------------------
Next == \/ AddMember \/ MemberLeave \/ PunchGo
        \/ HoleReady \/ HoleInsert \/ HoleRegister
        \/ PeerTcpReady \/ SyncReady \/ PeerPunchFail \/ PunchFailPath
        \/ Inbound \/ InboundInstall
        \/ \E t \in Tasks : TaskStep(t)
        \/ Watch \/ WatchAlive \/ WatchDead \/ WatchPathFailure
        \/ UdpDead \/ UdpPop
        \/ Stop \/ NetworkChanged \/ Rebind

Spec == Init /\ [][Next]_vars

-----------------------------------------------------------------------------
\* The type of the state.
TypeOK ==
  /\ running \in BOOLEAN /\ bigger \in BOOLEAN
  /\ member \in {"none", "blank", "target"}
  /\ conn \in [state : {"none", "connecting", "connected", "failed"},
               sock : Socks \cup {NoSock}, preferred : BOOLEAN]
  /\ udp \in BOOLEAN /\ handler \in {"none", "live", "dead"}
  /\ paths \in Tables
  /\ active \in 0 .. Cardinality(Tasks)
  /\ open \subseteq used /\ used \subseteq Socks
  /\ task \in [Tasks -> [pc : {"idle", "enter", "round", "rewait", "punch", "sync", "fail",
                              "install", "register", "finish"},
                        peer : {"blank", "target"}, attempt : 0 .. Retry,
                        counted : BOOLEAN, sock : Socks \cup {NoSock}]]
  /\ hole \in {"idle", "insert", "register", "tcpfail"}
  /\ inbound \in Socks \cup {NoSock}
  /\ watch \in [pc : {"idle", "check", "tcpfail"}, holds : BOOLEAN]
  /\ reaper \in {"idle", "pop"} /\ app \in {"idle", "rebind"}
  /\ events \in 0 .. MaxEvents

\* The sockets some thread or the connection table can still close.
InHands == {inbound} \cup {task[t].sock : t \in Tasks}

\* No socket leaks and none is used after it was closed: whatever tasks, the
\* listener, failures and shutdowns do to each other, the open connections are
\* exactly the one in the table and those a thread is about to install
\* (manager.py:498-518, 807-827), and no connection has two owners.
SocketsOwned ==
  /\ open = ({conn.sock} \cup InHands) \ {NoSock}
  /\ conn.sock # NoSock => conn.sock \notin InHands
  /\ conn.state = "connected" <=> conn.sock # NoSock

\* _punch_active is the number of tasks that took a place and have not given it
\* back, whichever of the ways out of the try block they take: no place is lost
\* with a task that ended, or given back twice, so two always are to be had by
\* tasks to come (manager.py:704-708, 796-803).  Single punches of a SYNC take no
\* place; and a place is not all a task needs to be started, see Rewait.
ActiveIsCounted == /\ active = Cardinality({t \in Tasks : task[t].counted})
                   /\ active <= MaxActive

\* While a path is alive one is hot: removing the UDP path without a regrade, or
\* declaring one dead that is registered again by another thread, never leaves
\* the others without the path that carries the data (manager.py:327-337).
HotExists == Alive(paths) # {} => \E p \in Alive(paths) : paths[p] = Hot

\* The agreed main connection is never given up for another: of two live
\* connections the one kept is decided by the ids, not by the order in which
\* threads install them (manager.py:498-518, 807-827).
PreferredKept ==
  [][conn.state = "connected" /\ conn'.state = "connected" /\ conn'.sock # conn.sock
       => ~conn.preferred /\ conn'.preferred]_vars
=============================================================================
