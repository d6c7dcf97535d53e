------------------------- MODULE LinkManagerProofs -------------------------
(***************************************************************************)
(* Proofs about LinkManager, for every number of tasks, connections,       *)
(* attempts and events.  First the sockets: no connection leaks or has two *)
(* owners, the count of the punch tasks is right, and a preferred          *)
(* connection is kept.  Then the paths and the attempts (Rest, Attempts):  *)
(* the types of the state, and that a path is hot while one is alive.      *)
(***************************************************************************)
EXTENDS LinkManager, FiniteSetTheorems, TLAPS

ConnType == [state : {"none", "connecting", "connected", "failed"},
             sock : Socks \cup {NoSock}, preferred : BOOLEAN]
TaskType == [pc : {"idle", "enter", "round", "rewait", "punch", "sync", "fail",
                   "install", "register", "finish"},
             peer : {"blank", "target"}, attempt : Nat,
             counted : BOOLEAN, sock : Socks \cup {NoSock}]

\* A task has a socket while it is about to install it, and no place before it
\* entered.
Fitting(k) == /\ k.sock # NoSock <=> k.pc = "install"
              /\ k.pc \in {"idle", "enter", "sync"} => ~k.counted

Counted == {t \in Tasks : task[t].counted}

Types == /\ bigger \in BOOLEAN
         /\ member \in {"none", "blank", "target"}
         /\ conn \in ConnType
         /\ inbound \in Socks \cup {NoSock}
         /\ open \subseteq used /\ used \subseteq Socks
         /\ task \in [Tasks -> TaskType]

\* Whoever holds a socket holds it alone.
Apart == /\ \A t, u \in Tasks : t # u /\ task[t].sock = task[u].sock => task[t].sock = NoSock
         /\ \A t \in Tasks : task[t].sock = inbound => inbound = NoSock

\* The inductive invariant.
LInv == /\ Types
        /\ \A t \in Tasks : Fitting(task[t])
        /\ Apart
        /\ SocketsOwned
        /\ ActiveIsCounted

LEMMA CountedFinite == IsFiniteSet(Counted) /\ Cardinality(Counted) \in Nat
<1>1. Counted \subseteq Tasks
  BY DEF Counted
<1> QED BY <1>1, ManagerAssumption, FS_Subset, FS_CardinalityType

\* Initially.
LEMMA InvInit == Init => LInv
<1> SUFFICES ASSUME Init PROVE LInv
  OBVIOUS
<1> USE DEF Init
<1>1. Types
  BY ManagerAssumption DEF Types, Idle, NoConn, ConnType, TaskType
<1>2. \A t \in Tasks : Fitting(task[t])
  BY DEF Idle, Fitting
<1>3. Apart /\ SocketsOwned
  BY DEF Idle, NoConn, Apart, SocketsOwned, InHands
<1>4. ActiveIsCounted
  <2>1. Counted = {}
    BY DEF Counted, Idle
  <2>2. Cardinality(Counted) = 0
    BY <2>1, FS_EmptySet
  <2> QED BY <2>2, ManagerAssumption DEF ActiveIsCounted, Counted
<1> QED BY <1>1, <1>2, <1>3, <1>4 DEF LInv

-----------------------------------------------------------------------------
(* What a step does to the tasks' records, to their count, and to the      *)
(* sockets.                                                                *)

\* The tasks keep what they have in hand, and their places.
TasksKeep == /\ task' \in [Tasks -> TaskType]
             /\ \A t \in Tasks : /\ Fitting(task'[t])
                                 /\ task'[t].sock = task[t].sock
                                 /\ task'[t].counted = task[t].counted

LEMMA HandsKept ==
  ASSUME LInv, TasksKeep, inbound' = inbound
  PROVE  InHands' = InHands /\ Apart'
<1>1. InHands' = InHands
  BY DEF InHands, TasksKeep
<1>2. Apart'
  BY DEF LInv, Apart, TasksKeep
<1> QED BY <1>1, <1>2

LEMMA CountKept ==
  ASSUME LInv, TasksKeep, active' = active
  PROVE  ActiveIsCounted'
<1>1. Counted' = Counted
  BY DEF Counted, TasksKeep
<1> QED BY <1>1 DEF LInv, ActiveIsCounted, Counted

LEMMA CountStays ==
  ASSUME LInv, UNCHANGED <<active, task>>
  PROVE  ActiveIsCounted' /\ \A t \in Tasks : Fitting(task'[t])
BY DEF LInv, ActiveIsCounted

\* The sockets are where they were; the connection may change its state.
LEMMA SocketsStay ==
  ASSUME LInv, InHands' = InHands, UNCHANGED open, conn'.sock = conn.sock,
         conn'.state = "connected" <=> conn.state = "connected"
  PROVE  SocketsOwned'
BY DEF LInv, SocketsOwned

\* The connection is closed.
LEMMA SocketsClosed ==
  ASSUME LInv, InHands' = InHands, CloseConn, conn'.sock = NoSock,
         conn'.state # "connected"
  PROVE  SocketsOwned'
<1>1. conn.sock # NoSock => conn.sock \notin InHands
  BY DEF LInv, SocketsOwned
<1>2. open = ({conn.sock} \cup InHands) \ {NoSock}
  BY DEF LInv, SocketsOwned
<1>3. open' = InHands \ {NoSock}
  BY <1>1, <1>2 DEF CloseConn
<1> QED BY <1>3 DEF SocketsOwned

\* A new connection comes into somebody's hands.
LEMMA SocketsFresh ==
  ASSUME LInv, NEW s, Fresh(s), open' = open \cup {s}, UNCHANGED conn,
         InHands' \ {NoSock} = (InHands \ {NoSock}) \cup {s}
  PROVE  SocketsOwned'
<1>1. s \notin open /\ s # NoSock
  BY ManagerAssumption DEF Fresh, LInv, Types
<1>2. open = ({conn.sock} \cup InHands) \ {NoSock}
  BY DEF LInv, SocketsOwned
<1>3. conn.sock # s
  BY <1>1, <1>2
<1>4. conn.sock # NoSock => conn.sock \notin InHands'
  <2>1. conn.sock # NoSock => conn.sock \notin InHands
    BY DEF LInv, SocketsOwned
  <2> QED BY <1>3, <2>1
<1>5. conn.state = "connected" <=> conn.sock # NoSock
  BY DEF LInv, SocketsOwned
<1>6. open' = ({conn.sock} \cup InHands') \ {NoSock}
  BY <1>1, <1>2
<1> QED BY <1>4, <1>5, <1>6 DEF SocketsOwned

\* Somebody hands a connection over: one of the two is closed.
LEMMA SocketsAdopted ==
  ASSUME LInv, NEW s \in InHands, s # NoSock, NEW pref \in BOOLEAN, Adopt(s, pref),
         InHands' \ {NoSock} = (InHands \ {s}) \ {NoSock}
  PROVE  /\ SocketsOwned'
         /\ conn' \in ConnType
         /\ open' \subseteq open
<1> DEFINE keep == conn.state = "connected" /\ conn.sock # NoSock /\ ~(pref /\ ~conn.preferred)
<1>1. /\ open = ({conn.sock} \cup InHands) \ {NoSock}
      /\ conn.sock # NoSock => conn.sock \notin InHands
      /\ conn.state = "connected" <=> conn.sock # NoSock
  BY DEF LInv, SocketsOwned
<1>2. s \in Socks
  BY <1>1 DEF LInv, Types
<1>3. CASE keep
  <2>1. open' = open \ {s} /\ conn' = conn
    BY <1>3 DEF Adopt
  <2>2. open' = ({conn'.sock} \cup InHands') \ {NoSock}
    BY <1>1, <2>1
  <2>3. conn'.sock # NoSock => conn'.sock \notin InHands'
    BY <1>1, <2>1
  <2> QED BY <1>1, <2>1, <2>2, <2>3 DEF SocketsOwned, LInv, Types
<1>4. CASE ~keep
  <2>1. open' = open \ {conn.sock} /\ conn' = Connected(s, pref)
    BY <1>4 DEF Adopt, Replace, CloseConn
  <2>2. conn'.sock = s /\ conn'.state = "connected" /\ conn' \in ConnType
    BY <1>2, <2>1 DEF Connected, ConnType
  <2>3. open' = ({conn'.sock} \cup InHands') \ {NoSock}
    BY <1>1, <2>1, <2>2
  <2>4. s \notin InHands'
    OBVIOUS
  <2> QED BY <2>1, <2>2, <2>3, <2>4 DEF SocketsOwned
<1> QED BY <1>3, <1>4
-----------------------------------------------------------------------------
(* The steps.                                                              *)

Members == {"none", "blank", "target"}

\* A step that is about something else.
LEMMA Quiet ==
  ASSUME LInv, member' \in Members,
         UNCHANGED <<bigger, conn, active, task, open, used, inbound>>
  PROVE  LInv'
<1>1. Types' /\ Apart'
  BY DEF LInv, Types, Apart, Members
<1>2. SocketsOwned'
  BY SocketsStay DEF InHands
<1>3. ActiveIsCounted' /\ \A t \in Tasks : Fitting(task'[t])
  BY CountStays
<1> QED BY <1>1, <1>2, <1>3 DEF LInv

\* A step that closes the connection.
LEMMA Closing ==
  ASSUME LInv, member' \in Members,
         UNCHANGED <<bigger, active, task, used, inbound>>,
         CloseConn, conn' \in ConnType, conn'.sock = NoSock, conn'.state # "connected"
  PROVE  LInv'
<1>1. Types' /\ Apart'
  BY DEF LInv, Types, Apart, CloseConn, Members
<1>2. SocketsOwned'
  BY SocketsClosed DEF InHands
<1>3. ActiveIsCounted' /\ \A t \in Tasks : Fitting(task'[t])
  BY CountStays
<1> QED BY <1>1, <1>2, <1>3 DEF LInv

\* A step that moves tasks on.
LEMMA Moves ==
  ASSUME LInv, member' \in Members, TasksKeep,
         UNCHANGED <<bigger, open, used, inbound>>,
         conn' \in ConnType, conn'.sock = conn.sock,
         conn'.state = "connected" <=> conn.state = "connected",
         ActiveIsCounted'
  PROVE  LInv'
<1>1. Types'
  BY DEF LInv, Types, TasksKeep, Members
<1>2. \A t \in Tasks : Fitting(task'[t])
  BY DEF TasksKeep
<1>3. Apart' /\ SocketsOwned'
  BY HandsKept, SocketsStay
<1> QED BY <1>1, <1>2, <1>3 DEF LInv

\* A thread is started: its record was that of no task, and it has nothing.
LEMMA Spawned ==
  ASSUME LInv, NEW pc \in {"enter", "sync"}, NEW peer \in {"blank", "target"},
         Spawn(pc, peer)
  PROVE  TasksKeep
<1>1. PICK t \in Tasks : /\ task[t] = Idle
                         /\ task' = [task EXCEPT ![t] = [Idle EXCEPT !.pc = pc, !.peer = peer]]
  BY DEF Spawn
<1> DEFINE new == [Idle EXCEPT !.pc = pc, !.peer = peer]
<1>2. /\ new \in TaskType /\ Fitting(new)
      /\ new.sock = task[t].sock /\ new.counted = task[t].counted
  BY <1>1 DEF Idle, TaskType, Fitting
<1>3. task'[t] = new /\ \A u \in Tasks \ {t} : task'[u] = task[u]
  BY <1>1 DEF LInv, Types
<1>4. task' \in [Tasks -> TaskType]
  BY <1>1, <1>2 DEF LInv, Types
<1>5. \A u \in Tasks : Fitting(task'[u])
  BY <1>2, <1>3 DEF LInv
<1> HIDE DEF new
<1>6. \A u \in Tasks : task'[u].sock = task[u].sock /\ task'[u].counted = task[u].counted
  BY <1>2, <1>3
<1> QED BY <1>4, <1>5, <1>6 DEF TasksKeep

\* A task goes from one place to another.
LEMMA Goes ==
  ASSUME LInv, NEW t \in Tasks,
         NEW pc \in {"round", "rewait", "punch", "fail", "finish"},
         task[t].sock = NoSock, Goto(t, pc)
  PROVE  TasksKeep
<1>1. task' = [task EXCEPT ![t].pc = pc]
  BY DEF Goto
<1>2. task[t] \in TaskType
  BY DEF LInv, Types
<1>3. /\ task'[t].pc = pc
      /\ task'[t].sock = task[t].sock /\ task'[t].counted = task[t].counted
      /\ task'[t] \in TaskType
  BY <1>1, <1>2 DEF LInv, Types, TaskType
<1>4. \A u \in Tasks \ {t} : task'[u] = task[u]
  BY <1>1 DEF LInv, Types
<1>5. task' \in [Tasks -> TaskType]
  BY <1>1, <1>3 DEF LInv, Types
<1>6. \A u \in Tasks : Fitting(task'[u])
  BY <1>3, <1>4 DEF LInv, Fitting
<1>7. \A u \in Tasks : task'[u].sock = task[u].sock /\ task'[u].counted = task[u].counted
  BY <1>3, <1>4
<1> QED BY <1>5, <1>6, <1>7 DEF TasksKeep

\* The signalling thread, the receive loop and the other loops.
LEMMA LoopStep ==
  ASSUME LInv,
         \/ AddMember \/ MemberLeave \/ PunchGo
         \/ HoleReady \/ HoleInsert \/ HoleRegister
         \/ PeerTcpReady \/ SyncReady \/ PeerPunchFail \/ PunchFailPath
  PROVE  LInv'
<1> USE DEF udpVars, taskVars, threads
<1>1. conn \in ConnType /\ member \in Members
  BY DEF LInv, Types, Members
<1>2. NewConn \in ConnType /\ NoConn \in ConnType
  BY DEF NewConn, NoConn, ConnType
<1>3. conn.state # "connected" => conn.sock = NoSock
  BY DEF LInv, SocketsOwned
<1>4. CASE AddMember
  BY <1>4, Quiet DEF AddMember, Members
<1>5. CASE MemberLeave
  <2>1. conn' = NoConn /\ CloseConn /\ member' = "none"
    BY <1>5 DEF MemberLeave, Replace
  <2> QED BY <1>2, <1>5, <2>1, Closing DEF MemberLeave, NoConn, Members
<1>6. CASE PunchGo
  <2>1. PICK peer \in {"blank", "target"} :
          /\ member' = peer
          /\ IF InProgress THEN UNCHANGED <<conn, watch, task>>
             ELSE Replace(NewConn) /\ Spawn("enter", peer)
    BY <1>6 DEF PunchGo
  <2>2. member' \in Members /\ UNCHANGED <<bigger, active, open, used, inbound>>
    BY <1>6, <2>1 DEF PunchGo, Members
  <2>3. CASE InProgress
    BY <2>1, <2>2, <2>3, Quiet
  <2>4. CASE ~InProgress
    <3>1. TasksKeep
      BY <2>1, <2>4, Spawned
    <3>2. conn' = NewConn /\ conn.state # "connected"
      BY <2>1, <2>4 DEF InProgress, Replace
    <3> QED BY <1>2, <1>3, <2>2, <3>1, <3>2, CountKept, Moves DEF NewConn
  <2> QED BY <2>3, <2>4
<1>7. CASE HoleReady \/ HoleInsert \/ HoleRegister
  BY <1>1, <1>7, Quiet DEF HoleReady, HoleInsert, HoleRegister
<1>8. CASE PeerTcpReady
  <2>1. /\ conn' = NewConn /\ conn.state # "connected" /\ Spawn("enter", member)
        /\ member \in {"blank", "target"} /\ member' = member
        /\ UNCHANGED <<bigger, active, open, used, inbound>>
    BY <1>1, <1>8 DEF PeerTcpReady, Replace, InProgress, Members
  <2>2. TasksKeep
    BY <2>1, Spawned
  <2> QED BY <1>1, <1>2, <1>3, <2>1, <2>2, CountKept, Moves DEF NewConn
<1>9. CASE SyncReady
  <2>1. /\ Spawn("sync", member) /\ member = "target"
        /\ UNCHANGED <<bigger, member, conn, active, open, used, inbound>>
    BY <1>9 DEF SyncReady
  <2>2. TasksKeep
    BY <2>1, Spawned
  <2> QED BY <1>1, <2>1, <2>2, CountKept, Moves
<1>10. CASE PeerPunchFail
  <2>1. UNCHANGED <<bigger, member, active, task, used, inbound>>
    BY <1>10 DEF PeerPunchFail
  <2>2. CASE conn = NoConn
    <3>1. UNCHANGED <<conn, open>>
      BY <1>10, <2>2 DEF PeerPunchFail
    <3> QED BY <1>1, <2>1, <3>1, Quiet
  <2>3. CASE conn # NoConn
    <3>1. CloseConn /\ conn' = [conn EXCEPT !.sock = NoSock, !.state = "failed"]
      BY <1>10, <2>3 DEF PeerPunchFail, Fail
    <3>2. conn' \in ConnType /\ conn'.sock = NoSock /\ conn'.state = "failed"
      BY <1>1, <3>1 DEF ConnType
    <3> QED BY <1>1, <2>1, <3>1, <3>2, Closing
  <2> QED BY <2>2, <2>3
<1>11. CASE PunchFailPath
  BY <1>1, <1>11, Quiet DEF PunchFailPath
<1> QED BY <1>4, <1>5, <1>6, <1>7, <1>8, <1>9, <1>10, <1>11

\* A task takes its place, where there is one.
LEMMA EnterStep ==
  ASSUME LInv, NEW t \in Tasks, Enter(t)
  PROVE  LInv'
<1>1. /\ member' = member /\ member \in Members /\ conn \in ConnType
      /\ UNCHANGED <<bigger, conn, open, used, inbound>>
  BY DEF Enter, taskFrame, threads, LInv, Types, Members
<1>2. task[t].pc = "enter" /\ task[t] \in TaskType /\ ~task[t].counted
  BY DEF Enter, At, LInv, Types, Fitting
<1>3. task[t].sock = NoSock
  BY <1>2 DEF LInv, Fitting
<1> DEFINE new == IF active >= MaxActive THEN Idle
                  ELSE [task[t] EXCEPT !.pc = "round", !.attempt = 1, !.counted = TRUE]
<1>4. task' = [task EXCEPT ![t] = new]
  BY DEF Enter
<1>5. new \in TaskType /\ Fitting(new) /\ new.sock = NoSock
  BY <1>2, <1>3 DEF TaskType, Idle, Fitting
<1>6. task'[t] = new /\ \A u \in Tasks \ {t} : task'[u] = task[u]
  BY <1>4 DEF LInv, Types
<1>7. task' \in [Tasks -> TaskType]
  BY <1>4, <1>5 DEF LInv, Types
<1>8. new.counted <=> ~(active >= MaxActive)
  BY <1>2 DEF TaskType, Idle
<1>9. active = Cardinality(Counted) /\ active <= MaxActive
  BY DEF LInv, ActiveIsCounted, Counted
<1> HIDE DEF new
<1>10. ActiveIsCounted'
  <2>1. CASE active >= MaxActive
    <3>1. Counted' = Counted
      BY <1>2, <1>6, <1>8, <2>1 DEF Counted
    <3>2. active' = active
      BY <2>1 DEF Enter
    <3> QED BY <1>9, <3>1, <3>2 DEF ActiveIsCounted, Counted
  <2>2. CASE ~(active >= MaxActive)
    <3>1. Counted' = Counted \cup {t} /\ t \notin Counted
      BY <1>2, <1>6, <1>8, <2>2 DEF Counted
    <3>2. Cardinality(Counted') = Cardinality(Counted) + 1
      BY <3>1, CountedFinite, FS_AddElement
    <3>3. active' = active + 1
      BY <2>2 DEF Enter
    <3>4. active' = Cardinality(Counted')
      BY <1>9, <3>2, <3>3
    <3>5. active' <= MaxActive
      BY <1>9, <2>2, <3>3, CountedFinite, ManagerAssumption
    <3> QED BY <3>4, <3>5 DEF ActiveIsCounted, Counted
  <2> QED BY <2>1, <2>2
<1>11. Types'
  BY <1>1, <1>7 DEF LInv, Types, Members
<1>12. \A u \in Tasks : Fitting(task'[u])
  BY <1>5, <1>6 DEF LInv
<1>13. \A u \in Tasks : task'[u].sock = task[u].sock
  BY <1>3, <1>5, <1>6
<1>14. InHands' = InHands /\ Apart'
  BY <1>1, <1>13 DEF InHands, LInv, Apart
<1>15. SocketsOwned'
  BY <1>1, <1>14, SocketsStay
<1> QED BY <1>10, <1>11, <1>12, <1>14, <1>15 DEF LInv

\* A task ends, and gives back the place it took.
LEMMA FinishStep ==
  ASSUME LInv, NEW t \in Tasks, Finish(t)
  PROVE  LInv'
<1>1. /\ member' = member /\ member \in Members /\ conn \in ConnType
      /\ UNCHANGED <<bigger, conn, open, used, inbound>>
      /\ task' = [task EXCEPT ![t] = Idle]
  BY DEF Finish, taskFrame, threads, LInv, Types, Members
<1>2. task[t].sock = NoSock
  BY DEF Finish, At, LInv, Fitting
<1>3. Idle \in TaskType /\ Fitting(Idle) /\ Idle.sock = NoSock /\ ~Idle.counted
  BY DEF TaskType, Idle, Fitting
<1>4. task'[t] = Idle /\ \A u \in Tasks \ {t} : task'[u] = task[u]
  BY <1>1 DEF LInv, Types
<1>5. task' \in [Tasks -> TaskType]
  BY <1>1, <1>3 DEF LInv, Types
<1>6. active = Cardinality(Counted) /\ active <= MaxActive
  BY DEF LInv, ActiveIsCounted, Counted
<1>7. ActiveIsCounted'
  <2>1. CASE t \in Counted
    <3>1. Counted' = Counted \ {t}
      BY <1>3, <1>4 DEF Counted
    <3>2. Cardinality(Counted') = Cardinality(Counted) - 1
      BY <2>1, <3>1, CountedFinite, FS_RemoveElement
    <3>3. active' = active - 1
      BY <2>1 DEF Finish, Counted
    <3>4. active' = Cardinality(Counted')
      BY <1>6, <3>2, <3>3
    <3>5. active' <= MaxActive
      BY <1>6, <3>3, CountedFinite, ManagerAssumption
    <3> QED BY <3>4, <3>5 DEF ActiveIsCounted, Counted
  <2>2. CASE t \notin Counted
    <3>1. Counted' = Counted
      BY <1>3, <1>4, <2>2 DEF Counted
    <3>2. active' = active
      BY <2>2 DEF Finish, Counted
    <3> QED BY <1>6, <3>1, <3>2 DEF ActiveIsCounted, Counted
  <2> QED BY <2>1, <2>2
<1>8. Types'
  BY <1>1, <1>5 DEF LInv, Types, Members
<1>9. \A u \in Tasks : Fitting(task'[u])
  BY <1>3, <1>4 DEF LInv
<1>10. \A u \in Tasks : task'[u].sock = task[u].sock
  BY <1>2, <1>3, <1>4
<1>11. InHands' = InHands /\ Apart'
  BY <1>1, <1>10 DEF InHands, LInv, Apart
<1>12. SocketsOwned'
  BY <1>1, <1>11, SocketsStay
<1> QED BY <1>7, <1>8, <1>9, <1>11, <1>12 DEF LInv

\* A task hears that its punch went through: it has the new connection.
LEMMA WinStep ==
  ASSUME LInv, NEW t \in Tasks, PunchWins(t)
  PROVE  LInv'
<1>1. PICK s \in Socks :
        /\ Fresh(s) /\ open' = open \cup {s}
        /\ task' = [task EXCEPT ![t].sock = s, ![t].pc = "install"]
  BY DEF PunchWins
<1>2. /\ member' = member /\ member \in Members /\ conn \in ConnType
      /\ UNCHANGED <<bigger, active, conn, inbound>>
  BY DEF PunchWins, taskFrame, threads, LInv, Types, Members
<1>3. task[t] \in TaskType /\ task[t].sock = NoSock
  BY DEF PunchWins, At, LInv, Types, Fitting
<1>4. /\ task'[t].pc = "install" /\ task'[t].sock = s
      /\ task'[t].counted = task[t].counted /\ task'[t] \in TaskType
  BY <1>1, <1>3 DEF LInv, Types, TaskType
<1>5. \A u \in Tasks \ {t} : task'[u] = task[u]
  BY <1>1 DEF LInv, Types
<1>6. task' \in [Tasks -> TaskType]
  BY <1>1, <1>4 DEF LInv, Types
<1>7. s # NoSock /\ s \notin open /\ s \notin used
  BY <1>1, ManagerAssumption DEF Fresh, LInv, Types
<1>8. InHands \ {NoSock} \subseteq open
  BY DEF LInv, SocketsOwned
<1>9. s \notin InHands
  BY <1>7, <1>8
<1>10. ActiveIsCounted'
  <2>1. Counted' = Counted
    BY <1>4, <1>5 DEF Counted
  <2> QED BY <1>2, <2>1 DEF LInv, ActiveIsCounted, Counted
<1>11. Types'
  BY <1>1, <1>2, <1>6 DEF LInv, Types, Fresh, Members
<1>12. \A u \in Tasks : Fitting(task'[u])
  BY <1>4, <1>5, <1>7 DEF LInv, Fitting
<1>13. Apart'
  BY <1>2, <1>4, <1>5, <1>9 DEF LInv, Apart, InHands
<1>14. InHands' \ {NoSock} = (InHands \ {NoSock}) \cup {s}
  BY <1>2, <1>3, <1>4, <1>5, <1>7 DEF InHands
<1>15. SocketsOwned'
  BY <1>1, <1>2, <1>14, SocketsFresh
<1> QED BY <1>10, <1>11, <1>12, <1>13, <1>15 DEF LInv

\* A task installs its connection, or closes it.
LEMMA InstallStep ==
  ASSUME LInv, NEW t \in Tasks, Install(t)
  PROVE  LInv'
<1> DEFINE s == task[t].sock
<1>1. /\ member' = member /\ member \in Members
      /\ UNCHANGED <<bigger, active, used, inbound>>
      /\ Adopt(s, OutboundPreferred)
      /\ task' = [task EXCEPT ![t].sock = NoSock,
                              ![t].pc = IF conn' = conn THEN "finish" ELSE "register"]
  BY DEF Install, taskFrame, threads, LInv, Types, Members
<1>2. task[t] \in TaskType /\ s \in InHands /\ s # NoSock
  BY DEF Install, At, LInv, Types, Fitting, InHands
<1>3. /\ task'[t].pc \in {"finish", "register"} /\ task'[t].sock = NoSock
      /\ task'[t].counted = task[t].counted /\ task'[t] \in TaskType
  BY <1>1, <1>2 DEF LInv, Types, TaskType
<1>4. \A u \in Tasks \ {t} : task'[u] = task[u]
  BY <1>1 DEF LInv, Types
<1>5. task' \in [Tasks -> TaskType]
  BY <1>1, <1>3 DEF LInv, Types
<1>6. \A u \in Tasks \ {t} : task[u].sock # s
  BY <1>2 DEF LInv, Apart
<1>7. inbound # s
  BY <1>2 DEF LInv, Apart
<1>8. InHands' \ {NoSock} = (InHands \ {s}) \ {NoSock}
  <2>1. ASSUME NEW x \in InHands', x # NoSock
        PROVE  x \in InHands \ {s}
    <3>1. CASE x = inbound'
      BY <1>1, <1>7, <3>1 DEF InHands
    <3>2. CASE \E u \in Tasks : x = task'[u].sock
      <4>1. PICK u \in Tasks : x = task'[u].sock
        BY <3>2
      <4>2. u # t /\ x = task[u].sock
        BY <1>3, <1>4, <2>1, <4>1
      <4> QED BY <1>6, <4>2 DEF InHands
    <3> QED BY <2>1, <3>1, <3>2 DEF InHands
  <2>2. ASSUME NEW x \in InHands, x # s
        PROVE  x \in InHands'
    <3>1. CASE x = inbound
      BY <1>1, <3>1 DEF InHands
    <3>2. CASE \E u \in Tasks : x = task[u].sock
      BY <1>4, <2>2, <3>2 DEF InHands
    <3> QED BY <2>2, <3>1, <3>2 DEF InHands
  <2> QED BY <2>1, <2>2
<1>9. OutboundPreferred \in BOOLEAN
  BY DEF LInv, Types, OutboundPreferred
<1> HIDE DEF s
<1>10. SocketsOwned' /\ conn' \in ConnType /\ open' \subseteq open
  BY <1>1, <1>2, <1>8, <1>9, SocketsAdopted
<1>11. ActiveIsCounted'
  <2>1. Counted' = Counted
    BY <1>3, <1>4 DEF Counted
  <2> QED BY <1>1, <2>1 DEF LInv, ActiveIsCounted, Counted
<1>12. Types'
  BY <1>1, <1>5, <1>10 DEF LInv, Types, Members
<1>13. \A u \in Tasks : Fitting(task'[u])
  BY <1>3, <1>4 DEF LInv, Fitting
<1>14. Apart'
  <2>1. ASSUME NEW u \in Tasks, NEW v \in Tasks, u # v, task'[u].sock = task'[v].sock
        PROVE  task'[u].sock = NoSock
    <3>1. CASE u = t \/ v = t
      BY <1>3, <2>1, <3>1
    <3>2. CASE u # t /\ v # t
      BY <1>4, <2>1, <3>2 DEF LInv, Apart
    <3> QED BY <3>1, <3>2
  <2>2. ASSUME NEW u \in Tasks, task'[u].sock = inbound'
        PROVE  inbound' = NoSock
    <3>1. CASE u = t
      BY <1>3, <2>2, <3>1
    <3>2. CASE u # t
      BY <1>1, <1>4, <2>2, <3>2 DEF LInv, Apart
    <3> QED BY <3>1, <3>2
  <2> QED BY <2>1, <2>2 DEF Apart
<1> QED BY <1>10, <1>11, <1>12, <1>13, <1>14 DEF LInv

LEMMA TaskStepKeeps ==
  ASSUME LInv, NEW t \in Tasks, TaskStep(t)
  PROVE  LInv'
<1>1. conn \in ConnType /\ member \in Members /\ task[t] \in TaskType
  BY DEF LInv, Types, Members
<1>2. CASE Round(t) \/ Rewait(t) \/ RegisterTcp(t)
  <2>1. /\ member' = member /\ UNCHANGED <<bigger, active, conn, open, used, inbound>>
        /\ task[t].pc \in {"round", "rewait", "register"}
        /\ \E pc \in {"rewait", "punch", "finish"} : Goto(t, pc)
    BY <1>2 DEF Round, Rewait, RegisterTcp, At, taskFrame, threads
  <2>2. task[t].sock = NoSock
    BY <2>1 DEF LInv, Fitting
  <2>3. TasksKeep
    BY <2>1, <2>2, Goes
  <2> QED BY <1>1, <2>1, <2>3, CountKept, Moves
<1>3. CASE PunchLoses(t)
  <2>1. /\ member' = member /\ UNCHANGED <<bigger, active, conn, open, used, inbound>>
        /\ task[t].pc \in {"punch", "sync"}
    BY <1>3 DEF PunchLoses, At, taskFrame, threads
  <2>2. task[t].sock = NoSock
    BY <2>1 DEF LInv, Fitting
  <2>3. CASE task' = [task EXCEPT ![t].pc = "round", ![t].attempt = @ + 1]
    <3>1. /\ task'[t].pc = "round" /\ task'[t].sock = task[t].sock
          /\ task'[t].counted = task[t].counted /\ task'[t] \in TaskType
      BY <1>1, <2>3 DEF LInv, Types, TaskType
    <3>2. \A u \in Tasks \ {t} : task'[u] = task[u]
      BY <2>3 DEF LInv, Types
    <3>3. task' \in [Tasks -> TaskType]
      BY <2>3, <3>1 DEF LInv, Types
    <3>4. \A u \in Tasks : Fitting(task'[u])
      BY <2>2, <3>1, <3>2 DEF LInv, Fitting
    <3>5. TasksKeep
      BY <3>1, <3>2, <3>3, <3>4 DEF TasksKeep
    <3> QED BY <1>1, <2>1, <3>5, CountKept, Moves
  <2>4. CASE task[t].pc = "punch" /\ Goto(t, "fail")
    <3>1. TasksKeep
      BY <2>2, <2>4, Goes
    <3> QED BY <1>1, <2>1, <3>1, CountKept, Moves
  <2>5. CASE task[t].pc = "sync" /\ Goto(t, "enter")
    <3>1. task' = [task EXCEPT ![t].pc = "enter"] /\ ~task[t].counted
      BY <2>5 DEF Goto, LInv, Fitting
    <3>2. /\ task'[t].pc = "enter" /\ task'[t].sock = task[t].sock
          /\ task'[t].counted = task[t].counted /\ task'[t] \in TaskType
      BY <1>1, <3>1 DEF LInv, Types, TaskType
    <3>3. \A u \in Tasks \ {t} : task'[u] = task[u]
      BY <3>1 DEF LInv, Types
    <3>4. task' \in [Tasks -> TaskType]
      BY <3>1, <3>2 DEF LInv, Types
    <3>5. \A u \in Tasks : Fitting(task'[u])
      BY <2>2, <3>1, <3>2, <3>3 DEF LInv, Fitting
    <3>6. TasksKeep
      BY <3>2, <3>3, <3>4, <3>5 DEF TasksKeep
    <3> QED BY <1>1, <2>1, <3>6, CountKept, Moves
  <2> QED BY <1>3, <2>3, <2>4, <2>5 DEF PunchLoses, At
<1>4. CASE MarkFailed(t)
  <2>1. /\ member' = member /\ UNCHANGED <<bigger, active, open, used, inbound>>
        /\ task[t].pc = "fail" /\ Goto(t, "finish")
        /\ conn' = [conn EXCEPT !.state = IF @ \in {"none", "connected"} THEN @ ELSE "failed"]
    BY <1>4 DEF MarkFailed, At, taskFrame, threads
  <2>2. task[t].sock = NoSock
    BY <2>1 DEF LInv, Fitting
  <2>3. TasksKeep
    BY <2>1, <2>2, Goes
  <2>4. /\ conn' \in ConnType /\ conn'.sock = conn.sock
        /\ conn'.state = "connected" <=> conn.state = "connected"
    BY <1>1, <2>1 DEF ConnType
  <2> QED BY <1>1, <2>1, <2>3, <2>4, CountKept, Moves
<1> QED BY <1>2, <1>3, <1>4, EnterStep, FinishStep, WinStep, InstallStep DEF TaskStep

\* The listener.
LEMMA InboundStep ==
  ASSUME LInv, Inbound \/ InboundInstall
  PROVE  LInv'
<1>1. /\ member' = member /\ member \in Members
      /\ UNCHANGED <<bigger, active, task>>
  BY DEF Inbound, InboundInstall, taskVars, LInv, Types, Members
<1>2. ActiveIsCounted' /\ \A t \in Tasks : Fitting(task'[t])
  BY <1>1, CountStays
<1>3. CASE Inbound
  <2>1. PICK s \in Socks : Fresh(s) /\ inbound' = s /\ open' = open \cup {s}
    BY <1>3 DEF Inbound
  <2>2. inbound = NoSock /\ conn' = conn
    BY <1>3 DEF Inbound
  <2>3. s # NoSock /\ s \notin open
    BY <2>1, ManagerAssumption DEF Fresh, LInv, Types
  <2>4. InHands \ {NoSock} \subseteq open
    BY DEF LInv, SocketsOwned
  <2>5. \A t \in Tasks : task[t].sock # s
    BY <2>3, <2>4 DEF InHands
  <2>6. Types' /\ Apart'
    BY <1>1, <2>1, <2>2, <2>5 DEF LInv, Types, Apart, Fresh, Members
  <2>7. InHands' \ {NoSock} = (InHands \ {NoSock}) \cup {s}
    BY <1>1, <2>1, <2>2, <2>3 DEF InHands
  <2>8. SocketsOwned'
    BY <2>1, <2>2, <2>7, SocketsFresh
  <2> QED BY <1>2, <2>6, <2>8 DEF LInv
<1>4. CASE InboundInstall
  <2>1. /\ inbound # NoSock /\ inbound' = NoSock /\ used' = used
        /\ Adopt(inbound, InboundPreferred)
    BY <1>4 DEF InboundInstall
  <2>2. inbound \in InHands /\ InboundPreferred \in BOOLEAN
    BY DEF InHands, InboundPreferred
  <2>3. \A t \in Tasks : task[t].sock # inbound
    BY <2>1 DEF LInv, Apart
  <2>4. InHands' \ {NoSock} = (InHands \ {inbound}) \ {NoSock}
    BY <1>1, <2>1, <2>3 DEF InHands
  <2>5. SocketsOwned' /\ conn' \in ConnType /\ open' \subseteq open
    BY <2>1, <2>2, <2>4, SocketsAdopted
  <2>6. Types' /\ Apart'
    BY <1>1, <2>1, <2>5 DEF LInv, Types, Apart, Members
  <2> QED BY <1>2, <2>5, <2>6 DEF LInv
<1> QED BY <1>3, <1>4

\* The keepalive thread, the dead-peer callback and the application.
LEMMA OtherStep ==
  ASSUME LInv,
         \/ Watch \/ WatchAlive \/ WatchDead \/ WatchPathFailure
         \/ UdpDead \/ UdpPop \/ Stop \/ NetworkChanged \/ Rebind
  PROVE  LInv'
<1> USE DEF udpVars, taskVars, threads
<1>1. conn \in ConnType /\ member \in Members /\ NoConn \in ConnType
  BY DEF LInv, Types, Members, NoConn, ConnType
<1>2. CASE Watch \/ WatchAlive \/ WatchPathFailure
  BY <1>1, <1>2, Quiet DEF Watch, WatchAlive, WatchPathFailure, watchFrame
<1>3. CASE WatchDead
  <2>1. member' = member /\ UNCHANGED <<bigger, active, task, used, inbound>>
    BY <1>3 DEF WatchDead, watchFrame
  <2>2. CASE watch.holds
    <3>1. CloseConn /\ conn' = [conn EXCEPT !.sock = NoSock, !.state = "failed"]
      BY <1>3, <2>2 DEF WatchDead, Fail
    <3>2. conn' \in ConnType /\ conn'.sock = NoSock /\ conn'.state = "failed"
      BY <1>1, <3>1 DEF ConnType
    <3> QED BY <1>1, <2>1, <3>1, <3>2, Closing
  <2>3. CASE ~watch.holds
    <3>1. UNCHANGED <<conn, open>>
      BY <1>3, <2>3 DEF WatchDead
    <3> QED BY <1>1, <2>1, <3>1, Quiet
  <2> QED BY <2>2, <2>3
<1>4. CASE UdpDead \/ UdpPop \/ Rebind
  BY <1>1, <1>4, Quiet DEF UdpDead, UdpPop, Rebind
<1>5. CASE Stop \/ NetworkChanged
  <2>1. /\ conn' = NoConn /\ CloseConn /\ member' = member
        /\ UNCHANGED <<bigger, active, task, used, inbound>>
    BY <1>5 DEF Stop, NetworkChanged, CloseAll, Replace
  <2> QED BY <1>1, <2>1, Closing DEF NoConn
<1> QED BY <1>2, <1>3, <1>4, <1>5

LEMMA InvNext == LInv /\ [Next]_vars => LInv'
<1> SUFFICES ASSUME LInv, [Next]_vars PROVE LInv'
  OBVIOUS
<1>1. CASE UNCHANGED vars
  <2>1. member \in Members
    BY DEF LInv, Types, Members
  <2> QED BY <1>1, <2>1, Quiet DEF vars
<1>2. CASE Next
  BY <1>2, LoopStep, InboundStep, TaskStepKeeps, OtherStep DEF Next
<1> QED BY <1>1, <1>2

-----------------------------------------------------------------------------
(* The paths' roles, the types of what is left, and the choice of a        *)
(* channel.                                                                *)

LEMMA TableType ==
  ASSUME NEW t
  PROVE  t \in Tables <=> /\ DOMAIN t \subseteq PathIds
                          /\ t \in [DOMAIN t -> PathRoles]
BY DEF Tables

\* The TCP path, while it is alive, is hot; the UDP path is, when it is not.
Graded(t) == /\ t \in Tables
             /\ \A p \in Alive(t) :
                  t[p] = IF p = "tcp" \/ "tcp" \notin Alive(t) THEN Hot ELSE Safe

LEMMA TwoPaths == /\ PathIds = {"tcp", "udp"} /\ NoPath \notin PathIds
                  /\ Rank["tcp"] < Rank["udp"]
                  /\ Rank["tcp"] \in Nat /\ Rank["udp"] \in Nat
BY ManagerAssumption, RankAssumption

\* A regrade puts the paths in order, whatever roles they had.
LEMMA RegradeGrades ==
  ASSUME NEW t \in Tables
  PROVE  Graded(Regraded(t))
<1> DEFINE g == Regraded(t)
<1>1. DOMAIN t \subseteq PathIds /\ \A p \in DOMAIN t : t[p] \in PathRoles
  BY TableType
<1>2. /\ DOMAIN g = DOMAIN t
      /\ \A p \in DOMAIN t : t[p] = Dead => g[p] = Dead
      /\ \A p \in Alive(t) : g[p] = IF Ahead(t, p) = {} THEN Hot
                                    ELSE IF \A q, r \in Ahead(t, p) : q = r THEN Safe
                                    ELSE Loose
  BY DEF Regraded, Alive
<1>3. g = [p \in DOMAIN g |-> g[p]]
  BY DEF Regraded
<1> HIDE DEF g
<1>4. "tcp" \in Alive(t) => Ahead(t, "tcp") = {}
  BY <1>1, TwoPaths DEF Ahead, Alive
<1>5. Ahead(t, "udp") = Alive(t) \cap {"tcp"}
  BY <1>1, TwoPaths DEF Ahead, Alive
<1>6. \A p \in Alive(t) : p \in {"tcp", "udp"}
  BY <1>1, TwoPaths DEF Alive
<1>7. \A p \in Alive(t) :
        g[p] = IF p = "tcp" \/ "tcp" \notin Alive(t) THEN Hot ELSE Safe
  <2> SUFFICES ASSUME NEW p \in Alive(t)
               PROVE  g[p] = IF p = "tcp" \/ "tcp" \notin Alive(t) THEN Hot ELSE Safe
    OBVIOUS
  <2>1. CASE p = "tcp"
    BY <1>2, <1>4, <2>1
  <2>2. CASE p = "udp" /\ "tcp" \notin Alive(t)
    <3>1. Ahead(t, p) = {}
      BY <1>5, <2>2
    <3> QED BY <1>2, <2>2, <3>1
  <2>3. CASE p = "udp" /\ "tcp" \in Alive(t)
    <3>1. Ahead(t, p) = {"tcp"}
      BY <1>5, <2>3
    <3> QED BY <1>2, <2>3, <3>1
  <2> QED BY <1>6, <2>1, <2>2, <2>3
<1>8. Alive(g) = Alive(t)
  BY <1>2, <1>7 DEF Alive, Hot, Safe, Dead
<1>9. \A p \in DOMAIN g : g[p] \in PathRoles
  BY <1>2, <1>7 DEF Alive, PathRoles
<1>10. g \in Tables
  BY <1>1, <1>2, <1>3, <1>9, TableType
<1> QED BY <1>7, <1>8, <1>10 DEF Graded, g

LEMMA RegisterGrades ==
  ASSUME NEW t, Graded(t), NEW p \in PathIds
  PROVE  Graded(Registered(t, p))
<1> DEFINE w == With(t, p, Loose)
<1>1. DOMAIN t \subseteq PathIds /\ \A q \in DOMAIN t : t[q] \in PathRoles
  BY TableType DEF Graded
<1>2. /\ DOMAIN w = DOMAIN t \cup {p} /\ w = [q \in DOMAIN w |-> w[q]]
      /\ \A q \in DOMAIN w : w[q] \in PathRoles
  BY <1>1 DEF With, PathRoles
<1>3. w \in Tables
  BY <1>1, <1>2, TableType
<1>4. Graded(Regraded(w))
  BY <1>3, RegradeGrades
<1> QED BY <1>4 DEF Registered

\* The UDP path may go without a regrade; of the TCP path this would not be true.
LEMMA RemoveGrades ==
  ASSUME NEW t, Graded(t)
  PROVE  Graded(Removed(t, "udp"))
<1> DEFINE r == Removed(t, "udp")
<1>1. DOMAIN t \subseteq PathIds /\ \A q \in DOMAIN t : t[q] \in PathRoles
  BY TableType DEF Graded
<1>2. /\ DOMAIN r = DOMAIN t \ {"udp"} /\ r = [q \in DOMAIN r |-> r[q]]
      /\ \A q \in DOMAIN r : r[q] = t[q]
  BY DEF Removed
<1> HIDE DEF r
<1>3. r \in Tables
  BY <1>1, <1>2, TableType
<1>4. Alive(r) = Alive(t) \ {"udp"}
  BY <1>2 DEF Alive
<1>5. ASSUME NEW q \in Alive(r) PROVE q = "tcp" /\ r[q] = Hot
  <2>1. q \in Alive(t) /\ q # "udp" /\ q \in DOMAIN r /\ q \in DOMAIN t
    BY <1>4 DEF Alive
  <2>2. q = "tcp"
    BY <1>1, <2>1, TwoPaths
  <2> QED BY <1>2, <2>1, <2>2 DEF Graded
<1> QED BY <1>3, <1>5 DEF Graded, r

\* A failure of the hot path leaves the paths in order too.
LEMMA PromoteGrades ==
  ASSUME NEW t, Graded(t), NEW n \in Promotions(t)
  PROVE  Graded(n)
<1>1. DOMAIN t \subseteq PathIds /\ \A q \in DOMAIN t : t[q] \in PathRoles
  BY TableType DEF Graded
<1>2. PICK hot \in OneOf(t, Hot), safe \in OneOf(t, Safe), loose \in OneOf(t, Loose) :
        n = [p \in DOMAIN t |-> IF p = hot THEN Dead
                                ELSE IF p = safe THEN Hot
                                ELSE IF p = loose THEN Safe ELSE t[p]]
  BY DEF Promotions
<1>3. /\ DOMAIN n = DOMAIN t /\ n = [p \in DOMAIN n |-> n[p]]
      /\ \A p \in DOMAIN t : n[p] = IF p = hot THEN Dead
                                    ELSE IF p = safe THEN Hot
                                    ELSE IF p = loose THEN Safe ELSE t[p]
  BY <1>2
<1>4. \A p \in DOMAIN n : n[p] \in PathRoles
  BY <1>1, <1>3 DEF PathRoles
<1>5. n \in Tables
  BY <1>1, <1>3, <1>4, TableType
<1>6. \A p \in DOMAIN t : p \in {"tcp", "udp"} /\ p # NoPath
  BY <1>1, TwoPaths
<1>7. /\ \A p \in DOMAIN t : t[p] # Loose
      /\ \A p, q \in DOMAIN t : t[p] = Hot /\ t[q] = Hot => p = q
      /\ \A p, q \in DOMAIN t : t[p] = Safe /\ t[q] = Safe => p = q
  BY <1>6 DEF Graded, Alive, Hot, Safe, Loose, Dead
<1>8. \A p \in DOMAIN t : p # loose
  BY <1>6, <1>7 DEF OneOf
<1>9. \A p \in DOMAIN t : p = hot <=> t[p] = Hot
  BY <1>2, <1>6, <1>7 DEF OneOf
<1>10. \A p \in DOMAIN t : p = safe <=> t[p] = Safe
  BY <1>2, <1>6, <1>7 DEF OneOf
<1>11. \A p \in DOMAIN t : \/ t[p] = Hot /\ n[p] = Dead
                           \/ t[p] = Safe /\ n[p] = Hot
                           \/ t[p] = Dead /\ n[p] = Dead
  BY <1>1, <1>3, <1>7, <1>8, <1>9, <1>10 DEF PathRoles, Hot, Safe, Loose, Dead
<1>12. \A p \in Alive(n) : p # "tcp" /\ n[p] = Hot
  <2> SUFFICES ASSUME NEW p \in Alive(n) PROVE p # "tcp" /\ n[p] = Hot
    OBVIOUS
  <2>1. p \in DOMAIN t /\ t[p] = Safe /\ n[p] = Hot
    BY <1>3, <1>11 DEF Alive
  <2>2. p \in Alive(t)
    BY <2>1 DEF Alive, Safe, Dead
  <2> QED BY <2>1, <2>2 DEF Graded, Hot, Safe
<1> QED BY <1>5, <1>12 DEF Graded

\* What LInv leaves open.
Rest == /\ running \in BOOLEAN /\ udp \in BOOLEAN
        /\ handler \in {"none", "live", "dead"}
        /\ hole \in {"idle", "insert", "register", "tcpfail"}
        /\ watch \in [pc : {"idle", "check", "tcpfail"}, holds : BOOLEAN]
        /\ reaper \in {"idle", "pop"} /\ app \in {"idle", "rebind"}
        /\ events \in 0 .. MaxEvents
        /\ Graded(paths)

\* No task tries more often than it may.
Attempts == \A t \in Tasks : task[t].attempt \in 0 .. Retry

LEMMA RestInit == Init => Rest /\ Attempts
<1> SUFFICES ASSUME Init PROVE Rest /\ Attempts
  OBVIOUS
<1> USE DEF Init
<1>1. Graded(paths)
  <2>1. paths = NoPaths /\ DOMAIN NoPaths = {} /\ NoPaths \in [{} -> PathRoles]
    BY DEF NoPaths
  <2>2. NoPaths \in Tables
    BY <2>1, TableType
  <2> QED BY <2>1, <2>2 DEF Graded, Alive
<1>2. Attempts
  BY ManagerAssumption DEF Attempts, Idle
<1>3. watch \in [pc : {"idle", "check", "tcpfail"}, holds : BOOLEAN]
  OBVIOUS
<1>4. events \in 0 .. MaxEvents
  BY ManagerAssumption
<1> QED BY <1>1, <1>2, <1>3, <1>4 DEF Rest

LEMMA RestSteps ==
  ASSUME LInv, Rest, [Next]_vars
  PROVE  Rest'
<1> USE DEF udpVars, taskVars, threads, taskFrame, watchFrame, Event, RtpPacket
<1>1. events' = events \/ (events' = events + 1 /\ events < MaxEvents)
      => events' \in 0 .. MaxEvents
  BY ManagerAssumption DEF Rest
<1>2. watch.pc \in {"idle", "check", "tcpfail"} /\ watch.holds \in BOOLEAN
  BY DEF Rest
<1>3. \A w : w = [watch EXCEPT !.holds = FALSE] \/ w = [watch EXCEPT !.pc = "idle"]
               \/ w = [watch EXCEPT !.pc = "tcpfail"]
             => w \in [pc : {"idle", "check", "tcpfail"}, holds : BOOLEAN]
  BY DEF Rest
<1>4. PathFailure => Graded(paths')
  BY PromoteGrades DEF PathFailure, Rest
<1>5. Graded(NoPaths)
  <2>1. DOMAIN NoPaths = {} /\ NoPaths \in [{} -> PathRoles]
    BY DEF NoPaths
  <2>2. NoPaths \in Tables
    BY <2>1, TableType
  <2> QED BY <2>1, <2>2 DEF Graded, Alive
<1>6. CASE UNCHANGED vars
  BY <1>6 DEF vars, Rest
<1>7. CASE AddMember \/ PunchGo \/ PeerTcpReady \/ SyncReady
  BY <1>1, <1>3, <1>7 DEF AddMember, PunchGo, PeerTcpReady, SyncReady, Replace, Rest
<1>8. CASE MemberLeave
  BY <1>1, <1>3, <1>5, <1>8 DEF MemberLeave, Replace, Rest
<1>9. CASE HoleReady \/ HoleInsert
  BY <1>1, <1>9 DEF HoleReady, HoleInsert, Rest
<1>10. CASE HoleRegister
  BY <1>10, RegisterGrades, TwoPaths DEF HoleRegister, Rest
<1>11. CASE PeerPunchFail
  BY <1>1, <1>11 DEF PeerPunchFail, Fail, Rest
<1>12. CASE PunchFailPath
  BY <1>4, <1>12 DEF PunchFailPath, Rest
<1>13. CASE Inbound
  BY <1>1, <1>13 DEF Inbound, Rest
<1>14. CASE InboundInstall
  BY <1>3, <1>14 DEF InboundInstall, Adopt, Replace, Rest
<1>15. ASSUME NEW t \in Tasks, TaskStep(t) PROVE Rest'
  <2>1. CASE \/ Enter(t) \/ Round(t) \/ Rewait(t) \/ PunchWins(t) \/ PunchLoses(t)
             \/ MarkFailed(t) \/ Finish(t)
    BY <2>1 DEF Enter, Round, Rewait, PunchWins, PunchLoses, MarkFailed, Finish, Rest
  <2>2. CASE Install(t)
    BY <1>3, <2>2 DEF Install, Adopt, Replace, Rest
  <2>3. CASE RegisterTcp(t)
    BY <2>3, RegisterGrades, TwoPaths DEF RegisterTcp, Rest
  <2> QED BY <1>15, <2>1, <2>2, <2>3 DEF TaskStep
<1>16. CASE Watch \/ WatchAlive
  <2>1. [pc |-> "check", holds |-> TRUE] \in [pc : {"idle", "check", "tcpfail"}, holds : BOOLEAN]
    OBVIOUS
  <2> QED BY <1>3, <1>16, <2>1 DEF Watch, WatchAlive, Rest
<1>17. CASE WatchDead
  BY <1>1, <1>3, <1>17 DEF WatchDead, Rest
<1>18. CASE WatchPathFailure
  BY <1>3, <1>4, <1>18 DEF WatchPathFailure, Rest
<1>19. CASE UdpDead
  BY <1>1, <1>19, RemoveGrades DEF UdpDead, Rest
<1>20. CASE UdpPop \/ Rebind
  BY <1>20 DEF UdpPop, Rebind, Rest
<1>21. CASE Stop
  BY <1>1, <1>3, <1>21 DEF Stop, CloseAll, Replace, Rest
<1>22. CASE NetworkChanged
  BY <1>1, <1>3, <1>5, <1>22 DEF NetworkChanged, CloseAll, Replace, Rest
<1> QED
  BY <1>6, <1>7, <1>8, <1>9, <1>10, <1>11, <1>12, <1>13, <1>14, <1>15, <1>16, <1>17, <1>18,
     <1>19, <1>20, <1>21, <1>22 DEF Next

LEMMA AttemptSteps ==
  ASSUME LInv, Attempts, [Next]_vars
  PROVE  Attempts'
<1> USE DEF udpVars, taskVars, threads, taskFrame, watchFrame
<1>1. ASSUME NEW t \in Tasks, NEW new, task' = [task EXCEPT ![t] = new],
             new.attempt \in 0 .. Retry
      PROVE  Attempts'
  BY <1>1 DEF Attempts, LInv, Types
<1>2. \A t \in Tasks : /\ task[t] \in TaskType
                       /\ task[t].attempt \in 0 .. Retry
  BY DEF Attempts, LInv, Types
<1>3. Retry \in Nat \ {0}
  BY ManagerAssumption
<1>4. ASSUME NEW t \in Tasks, NEW pc, Goto(t, pc) PROVE Attempts'
  <2> DEFINE new == [task[t] EXCEPT !.pc = pc]
  <2>1. task' = [task EXCEPT ![t] = new]
    BY <1>4 DEF Goto
  <2>2. new.attempt = task[t].attempt
    BY <1>2 DEF TaskType
  <2> HIDE DEF new
  <2> QED BY <1>1, <1>2, <2>1, <2>2
<1>5. ASSUME NEW t \in Tasks, task' = [task EXCEPT ![t] = Idle] PROVE Attempts'
  <2>1. Idle.attempt \in 0 .. Retry
    BY <1>3 DEF Idle
  <2> QED BY <1>1, <1>5, <2>1
<1>6. ASSUME NEW pc, NEW peer, Spawn(pc, peer) PROVE Attempts'
  <2>1. PICK t \in Tasks : task' = [task EXCEPT ![t] = [Idle EXCEPT !.pc = pc, !.peer = peer]]
    BY <1>6 DEF Spawn
  <2> DEFINE new == [Idle EXCEPT !.pc = pc, !.peer = peer]
  <2>2. new.attempt \in 0 .. Retry
    BY <1>3 DEF Idle
  <2> HIDE DEF new
  <2> QED BY <1>1, <2>1, <2>2 DEF new
<1>7. CASE UNCHANGED task
  BY <1>7 DEF Attempts
<1>8. ASSUME NEW t \in Tasks, TaskStep(t) PROVE Attempts'
  <2>1. CASE Enter(t)
    <3>1. CASE active >= MaxActive
      BY <1>5, <2>1, <3>1 DEF Enter
    <3>2. CASE ~(active >= MaxActive)
      <4> DEFINE new == [task[t] EXCEPT !.pc = "round", !.attempt = 1, !.counted = TRUE]
      <4>1. task' = [task EXCEPT ![t] = new]
        BY <2>1, <3>2 DEF Enter
      <4>2. new.attempt \in 0 .. Retry
        BY <1>2, <1>3 DEF TaskType
      <4> HIDE DEF new
      <4> QED BY <1>1, <4>1, <4>2
    <3> QED BY <3>1, <3>2
  <2>2. CASE Round(t) \/ Rewait(t) \/ MarkFailed(t) \/ RegisterTcp(t)
    <3>1. \E pc : Goto(t, pc)
      BY <2>2 DEF Round, Rewait, MarkFailed, RegisterTcp
    <3> QED BY <1>4, <3>1
  <2>3. CASE PunchWins(t)
    <3>1. PICK s : task' = [task EXCEPT ![t].sock = s, ![t].pc = "install"]
      BY <2>3 DEF PunchWins
    <3> DEFINE new == [[task[t] EXCEPT !.sock = s] EXCEPT !.pc = "install"]
    <3>2. task' = [task EXCEPT ![t] = new]
      BY <3>1 DEF LInv, Types
    <3>3. new.attempt = task[t].attempt
      BY <1>2 DEF TaskType
    <3> HIDE DEF new
    <3> QED BY <1>1, <1>2, <3>2, <3>3
  <2>4. CASE PunchLoses(t)
    <3>1. CASE /\ task[t].attempt < Retry
               /\ task' = [task EXCEPT ![t].pc = "round", ![t].attempt = @ + 1]
      <4> DEFINE new == [[task[t] EXCEPT !.pc = "round"] EXCEPT !.attempt = @ + 1]
      <4>1. task' = [task EXCEPT ![t] = new]
        BY <3>1 DEF LInv, Types
      <4>2. new.attempt = task[t].attempt + 1
        BY <1>2 DEF TaskType
      <4>3. new.attempt \in 0 .. Retry
        BY <1>2, <1>3, <3>1, <4>2
      <4> HIDE DEF new
      <4> QED BY <1>1, <4>1, <4>3
    <3>2. CASE \E pc : Goto(t, pc)
      BY <1>4, <3>2
    <3> QED BY <2>4, <3>1, <3>2 DEF PunchLoses
  <2>5. CASE Install(t)
    <3>1. PICK pc : task' = [task EXCEPT ![t].sock = NoSock, ![t].pc = pc]
      BY <2>5 DEF Install
    <3> DEFINE new == [[task[t] EXCEPT !.sock = NoSock] EXCEPT !.pc = pc]
    <3>2. task' = [task EXCEPT ![t] = new]
      BY <3>1 DEF LInv, Types
    <3>3. new.attempt = task[t].attempt
      BY <1>2 DEF TaskType
    <3> HIDE DEF new
    <3> QED BY <1>1, <1>2, <3>2, <3>3
  <2>6. CASE Finish(t)
    BY <1>5, <2>6 DEF Finish
  <2> QED BY <1>8, <2>1, <2>2, <2>3, <2>4, <2>5, <2>6 DEF TaskStep
<1>9. CASE PunchGo \/ PeerTcpReady \/ SyncReady
  BY <1>6, <1>7, <1>9 DEF PunchGo, PeerTcpReady, SyncReady
<1>10. CASE \/ AddMember \/ MemberLeave \/ HoleReady \/ HoleInsert \/ HoleRegister
            \/ PeerPunchFail \/ PunchFailPath \/ Inbound \/ InboundInstall
            \/ Watch \/ WatchAlive \/ WatchDead \/ WatchPathFailure
            \/ UdpDead \/ UdpPop \/ Stop \/ NetworkChanged \/ Rebind
  BY <1>7, <1>10 DEF AddMember, MemberLeave, HoleReady, HoleInsert, HoleRegister,
     PeerPunchFail, PunchFailPath, Inbound, InboundInstall, Watch, WatchAlive, WatchDead,
     WatchPathFailure, UdpDead, UdpPop, Stop, NetworkChanged, Rebind
<1>11. CASE UNCHANGED vars
  BY <1>7, <1>11 DEF vars
<1> QED BY <1>8, <1>9, <1>10, <1>11 DEF Next

-----------------------------------------------------------------------------
(* The theorems.                                                           *)

\* The invariant holds in every reachable state of the manager.
THEOREM ManagerInvariance == Spec => []LInv
BY InvInit, InvNext, PTL DEF Spec

\* No connection of the manager leaks, is closed twice or has two owners, for every
\* number of punch tasks, connections and events (manager.py:498-518, 807-827).
THEOREM ManagerSockets == Spec => []SocketsOwned
<1>1. LInv => SocketsOwned
  BY DEF LInv
<1> QED BY <1>1, ManagerInvariance, PTL

\* _punch_active is the number of tasks that have a place, and never above its limit,
\* for every number of tasks (manager.py:703-717, 796-803).
THEOREM ManagerPlaces == Spec => []ActiveIsCounted
<1>1. LInv => ActiveIsCounted
  BY DEF LInv
<1> QED BY <1>1, ManagerInvariance, PTL

\* Of two live connections the preferred one is kept: only Adopt exchanges them.
LEMMA StepKeepsPreferred ==
  ASSUME LInv, LInv', [Next]_vars,
         conn.state = "connected", conn'.state = "connected", conn'.sock # conn.sock
  PROVE  ~conn.preferred /\ conn'.preferred
<1>1. conn.sock # NoSock /\ conn'.sock # NoSock
  BY DEF LInv, SocketsOwned
<1>2. ASSUME NEW s, NEW pref \in BOOLEAN, Adopt(s, pref)
      PROVE  ~conn.preferred /\ conn'.preferred
  <2>1. ~(conn.state = "connected" /\ conn.sock # NoSock /\ ~(pref /\ ~conn.preferred))
    BY <1>2 DEF Adopt
  <2>2. pref /\ ~conn.preferred
    BY <1>1, <2>1
  <2>3. conn' = Connected(s, pref)
    BY <1>2, <2>1 DEF Adopt, Replace
  <2>4. conn'.preferred = pref
    BY <2>3 DEF Connected
  <2> QED BY <2>2, <2>4
<1>3. CASE InboundInstall
  <2>1. InboundPreferred \in BOOLEAN
    BY DEF InboundPreferred
  <2> QED BY <1>2, <1>3, <2>1 DEF InboundInstall
<1>4. CASE \E t \in Tasks : Install(t)
  <2>1. OutboundPreferred \in BOOLEAN
    BY DEF OutboundPreferred, LInv, Types
  <2> QED BY <1>2, <1>4, <2>1 DEF Install
<1>5. conn \in ConnType
  BY DEF LInv, Types
<1>6. CASE MemberLeave \/ Stop \/ NetworkChanged
  BY <1>6 DEF MemberLeave, Stop, NetworkChanged, CloseAll, Replace, NoConn
<1>7. CASE PunchGo \/ PeerTcpReady
  BY <1>7 DEF PunchGo, PeerTcpReady, Replace, InProgress
<1>8. CASE PeerPunchFail \/ WatchDead
  <2>1. conn' = conn \/ conn' = [conn EXCEPT !.sock = NoSock, !.state = "failed"]
    BY <1>8 DEF PeerPunchFail, WatchDead, Fail
  <2> QED BY <1>1, <1>5, <2>1 DEF ConnType
<1>9. CASE \E t \in Tasks : MarkFailed(t)
  <2>1. conn' = [conn EXCEPT !.state = IF @ \in {"none", "connected"} THEN @ ELSE "failed"]
    BY <1>9 DEF MarkFailed
  <2> QED BY <1>5, <2>1 DEF ConnType
<1>10. CASE UNCHANGED vars
  BY <1>10 DEF vars
<1>11. CASE \E t \in Tasks : \/ Enter(t) \/ Round(t) \/ Rewait(t) \/ PunchWins(t)
                             \/ PunchLoses(t) \/ RegisterTcp(t) \/ Finish(t)
  BY <1>11 DEF Enter, Round, Rewait, PunchWins, PunchLoses, RegisterTcp, Finish
<1>12. CASE \/ AddMember \/ HoleReady \/ HoleInsert \/ HoleRegister \/ SyncReady
            \/ PunchFailPath \/ Inbound \/ Watch \/ WatchAlive \/ WatchPathFailure
            \/ UdpDead \/ UdpPop \/ Rebind
  BY <1>12 DEF AddMember, HoleReady, HoleInsert, HoleRegister, SyncReady, PunchFailPath,
               Inbound, Watch, WatchAlive, WatchPathFailure, UdpDead, UdpPop, Rebind
<1> QED BY <1>3, <1>4, <1>6, <1>7, <1>8, <1>9, <1>10, <1>11, <1>12 DEF Next, TaskStep

\* The agreed main connection is never given up for another, whatever the order in
\* which tasks and the listener install theirs (manager.py:498-518, 687-699, 807-827).
THEOREM ManagerPreferred == Spec => PreferredKept
<1>1. LInv /\ LInv' /\ [Next]_vars =>
        [conn.state = "connected" /\ conn'.state = "connected" /\ conn'.sock # conn.sock
           => ~conn.preferred /\ conn'.preferred]_vars
  BY StepKeepsPreferred
<1> QED BY <1>1, ManagerInvariance, PTL DEF Spec, PreferredKept

\* And what it leaves open.
THEOREM ManagerRest == Spec => [](LInv /\ Rest /\ Attempts)
<1>1. Init => LInv /\ Rest /\ Attempts
  BY InvInit, RestInit
<1>2. LInv /\ Rest /\ Attempts /\ [Next]_vars => (LInv /\ Rest /\ Attempts)'
  BY InvNext, RestSteps, AttemptSteps
<1> QED BY <1>1, <1>2, PTL DEF Spec

\* Type correctness: in particular a task makes at most punch_retry attempts, and
\* there are never more places taken than tasks.
THEOREM ManagerTypes == Spec => []TypeOK
<1>1. LInv /\ Rest /\ Attempts => TypeOK
  <2> SUFFICES ASSUME LInv, Rest, Attempts PROVE TypeOK
    OBVIOUS
  <2>1. active \in 0 .. Cardinality(Tasks)
    <3>1. Counted \subseteq Tasks /\ active = Cardinality(Counted)
      BY DEF Counted, LInv, ActiveIsCounted
    <3>2. /\ Cardinality(Counted) \in Nat /\ Cardinality(Tasks) \in Nat
          /\ Cardinality(Counted) <= Cardinality(Tasks)
      BY <3>1, ManagerAssumption, FS_Subset, FS_CardinalityType
    <3> QED BY <3>1, <3>2
  <2>2. task \in [Tasks -> [pc : {"idle", "enter", "round", "rewait", "punch", "sync", "fail",
                                  "install", "register", "finish"},
                            peer : {"blank", "target"}, attempt : 0 .. Retry,
                            counted : BOOLEAN, sock : Socks \cup {NoSock}]]
    BY DEF LInv, Types, TaskType, Attempts
  <2>3. paths \in Tables
    BY DEF Rest, Graded
  <2> QED BY <2>1, <2>2, <2>3 DEF TypeOK, LInv, Types, ConnType, Rest
<1> QED BY <1>1, ManagerRest, PTL

\* While a path is alive one is hot, however registrations, failures and removals
\* interleave: the TCP path is hot as long as it is alive, and only the UDP path is
\* ever removed without a regrade (manager.py:327-337).
THEOREM ManagerHotExists == Spec => []HotExists
<1>1. Rest => HotExists
  <2> SUFFICES ASSUME Rest, Alive(paths) # {}
               PROVE  \E p \in Alive(paths) : paths[p] = Hot
    BY DEF HotExists
  <2>1. Graded(paths)
    BY DEF Rest
  <2>2. CASE "tcp" \in Alive(paths)
    BY <2>1, <2>2 DEF Graded
  <2>3. CASE "tcp" \notin Alive(paths)
    BY <2>1, <2>3 DEF Graded
  <2> QED BY <2>2, <2>3
<1> QED BY <1>1, ManagerRest, PTL
=============================================================================
