---------------------------- MODULE SignalServer ----------------------------
(***************************************************************************)
(* The registry of the signalling server, server/信令服务器.py: rooms, their *)
(* passwords, the index of ids, the observed NAT mappings, and the state   *)
(* file.  The threads that work on it, under state_lock, are               *)
(*   - the receive loops (one per address family), which run the handlers, *)
(*   - the cleanup thread,                                                 *)
(*   - a thread per TCP mapping connection.                                *)
(* A step is what one thread does while it holds the lock once.  Datagrams *)
(* are sent after it; what their receivers make of them is LinkManager's.  *)
(***************************************************************************)
EXTENDS Naturals, FiniteSets

CONSTANTS Rooms, Ids, NoId,
          Dids, NoDid,   \* devices; a client without a device id is NoDid
          Passwords,     \* what pwd may be, the empty one included
          Threads,       \* the receive loops
          Tables,        \* dict objects
          MaxRoomSize,   \* MAX_ROOM_SIZE
          MaxMessages    \* bound: messages and connections from clients

ASSUME ServerAssumption == /\ NoId \notin Ids /\ NoDid \notin Dids
                           /\ IsFiniteSet(Ids)
                           /\ MaxRoomSize \in Nat \ {0} /\ MaxMessages \in Nat

VARIABLES rooms,    \* rooms and room_pwd: a room's dict object and password
          members,  \* the contents of each dict object
          idIndex,  \* id_index: id -> room
          issued,   \* the ids clients were given so far, in whatever room
          mapped,   \* tcp_mappings
          connected,\* tcp_socks
          timed,    \* tcp_mapping_ts
          udp,      \* udp_mappings
          job,      \* what each receive loop is in the middle of
          stale,    \* what the cleanup thread has found stale and not yet removed
          cleaner,  \* "idle", or "save" after remove_member
          disk,     \* the state file
          restored, \* the rooms that came from it
          messages

vars == <<rooms, members, idIndex, issued, mapped, connected, timed, udp, job, stale,
          cleaner, disk, restored, messages>>

Empty == [x \in {} |-> x]
Put(f, k, v) == [x \in DOMAIN f \cup {k} |-> IF x = k THEN v ELSE f[x]]
Drop(f, S) == [x \in DOMAIN f \ S |-> f[x]]

NoJob == [pc |-> "idle"]

\* rooms[room], the dict of the room's members.
MembersOf(r) == members[rooms[r].table]

\* Dict objects nothing refers to.
Unused == Tables \ ({rooms[r].table : r \in DOMAIN rooms}
                      \cup {job[t].table : t \in {u \in Threads : job[u].pc = "insert"}})

Init == /\ rooms = Empty /\ members = [h \in Tables |-> Empty]
        /\ idIndex = Empty /\ issued = {}
        /\ mapped = {} /\ connected = {} /\ timed = {} /\ udp = {}
        /\ job = [t \in Threads |-> NoJob]
        /\ stale = {} /\ cleaner = "idle"
        /\ disk = [rooms |-> Empty, index |-> Empty]
        /\ restored = {}
        /\ messages = 0

-----------------------------------------------------------------------------
Message == messages < MaxMessages /\ messages' = messages + 1

mappings == <<mapped, connected, timed, udp>>
background == <<stale, cleaner, disk, restored>>

(* handle_join, first part: the room is created with the password, or the  *)
(* password is checked.  The dict it goes on with is the room's of now.    *)
JoinCheck(t) ==
  /\ job[t] = NoJob /\ Message
  /\ \E r \in Rooms, did \in Dids \cup {NoDid}, key \in Passwords,
        reuse \in {NoId} \cup issued :
       \E h \in IF r \in DOMAIN rooms THEN {rooms[r].table} ELSE Unused :
         /\ IF r \in DOMAIN rooms
            THEN rooms[r].pwd = key /\ UNCHANGED <<rooms, members>>
            ELSE /\ rooms' = Put(rooms, r, [table |-> h, pwd |-> key])
                 /\ members' = [members EXCEPT ![h] = Empty]
         /\ job' = [job EXCEPT ![t] = [pc |-> "insert", room |-> r, table |-> h,
                                       did |-> did, key |-> key, reuse |-> reuse]]
  /\ UNCHANGED <<idIndex, issued, mappings, background>>

\* Mutant: the room is looked up again after the check.
DictAgain(j) == IF j.room \in DOMAIN rooms THEN rooms[j.room].table ELSE j.table

\* The dict the join goes on with: the one it checked the password of.
Dict(j) == j.table

\* The ids a joining client may be given: the one it asks for, if it is free or
\* its own device's; else one its device has; else a new one.
Identities(j) ==
  LET there == members[Dict(j)]
      own == {m \in DOMAIN there : j.did # NoDid /\ there[m].did = j.did}
  IN IF j.reuse # NoId /\ (j.reuse \in DOMAIN there => j.reuse \in own) THEN {j.reuse}
     ELSE IF own # {} THEN own ELSE Ids \ issued

\* Mutant: a device's other ids stay.
DuplicatesStay(j, me) == {}

\* The other ids of the same device, which go.
Duplicates(j, me) == {m \in DOMAIN members[Dict(j)] :
                        j.did # NoDid /\ members[Dict(j)][m].did = j.did /\ m # me}

\* A member of the registry; key, the password it came with, is not stored.
Member(did, key) == [did |-> did, key |-> key, fresh |-> TRUE]

\* Mutant: the index entry is made before the room turns out to be full.
IndexedEarly(j, me, gone, full) == Put(Drop(idIndex, gone), me, j.room)

Indexed(j, me, gone, full) ==
  IF full THEN Drop(idIndex, gone) ELSE Put(Drop(idIndex, gone), me, j.room)

(* handle_join, second part: the id, the removal of the device's other ids *)
(* and of the mappings of a reused one, and, unless the room is full, the  *)
(* entry.                                                                  *)
JoinInsert(t) ==
  LET j == job[t]
  IN /\ j.pc = "insert"
     /\ \E me \in Identities(j) :
          LET gone == Duplicates(j, me)
              kept == Drop(members[Dict(j)], gone)
              full == Cardinality(DOMAIN kept) >= MaxRoomSize /\ me \notin DOMAIN kept
              lost == gone \cup {me}
          IN /\ members' = [members EXCEPT ![Dict(j)] =
                              IF full THEN kept ELSE Put(kept, me, Member(j.did, j.key))]
             /\ idIndex' = Indexed(j, me, gone, full)
             /\ issued' = IF full THEN issued ELSE issued \cup {me}
             /\ job' = [job EXCEPT ![t] = IF full THEN NoJob ELSE [pc |-> "save"]]
             /\ connected' = connected \ lost
             /\ mapped' = mapped \ lost
             /\ udp' = udp \ lost
  /\ UNCHANGED <<rooms, timed, background, messages>>

\* handle_hb, of a member (any other heartbeat is ignored).
Refreshed(m) == [members EXCEPT ![rooms[idIndex[m]].table][m].fresh = TRUE]

IsMember(m) == /\ m \in DOMAIN idIndex /\ idIndex[m] \in DOMAIN rooms
               /\ m \in DOMAIN MembersOf(idIndex[m])

HandleHb(t, m) ==
  /\ job[t] = NoJob /\ Message
  /\ IsMember(m)
  /\ members' = Refreshed(m)
  /\ UNCHANGED <<rooms, idIndex, issued, mappings, job, background>>

\* handle_udp_hello, of any client that ever had an id.
HandleUdpHello(t, m) ==
  /\ job[t] = NoJob /\ Message
  /\ m \in issued
  /\ udp' = udp \cup {m}
  /\ members' = IF IsMember(m) THEN Refreshed(m) ELSE members
  /\ UNCHANGED <<rooms, idIndex, issued, mapped, connected, timed, job, background>>

\* Mutant: the dict without members is kept.
DepartedKept(r, left) == UNCHANGED rooms /\ members' = [members EXCEPT ![rooms[r].table] = left]

\* The room after a member left it: without members it goes, and its password.
Departed(r, left) == /\ members' = [members EXCEPT ![rooms[r].table] = left]
                     /\ rooms' = IF left = Empty THEN Drop(rooms, {r}) ELSE rooms

\* remove_member, the locked part, of an id in the index.
Remove(m) ==
  LET r == idIndex[m]
  IN /\ idIndex' = Drop(idIndex, {m})
     /\ IF r \in DOMAIN rooms THEN Departed(r, Drop(MembersOf(r), {m}))
        ELSE UNCHANGED <<rooms, members>>
     /\ restored' = restored \cap DOMAIN rooms'
     /\ mapped' = mapped \ {m} /\ connected' = connected \ {m}
     /\ timed' = timed \ {m} /\ udp' = udp \ {m}

\* handle_bye.
HandleBye(t, m) ==
  /\ job[t] = NoJob /\ Message
  /\ m \in DOMAIN idIndex
  /\ Remove(m)
  /\ job' = IF IsMember(m) THEN [job EXCEPT ![t] = [pc |-> "save"]] ELSE job
  /\ UNCHANGED <<issued, stale, cleaner, disk>>

-----------------------------------------------------------------------------
(* The mapping connections.                                                *)

\* _handle_tcp_reg: a client registers its mapping; an earlier connection of
\* the id is closed, and its end changes nothing (it is not tcp_socks[id]).
TcpReg(m) ==
  /\ Message
  /\ m \in issued
  /\ mapped' = mapped \cup {m} /\ connected' = connected \cup {m}
  /\ timed' = timed \cup {m}
  /\ members' = IF IsMember(m) THEN Refreshed(m) ELSE members
  /\ UNCHANGED <<rooms, idIndex, issued, udp, job, background>>

\* The connection in tcp_socks ends; the mapping stays for the grace period.
TcpEnds(m) ==
  /\ m \in connected
  /\ connected' = connected \ {m} /\ timed' = timed \cup {m}
  /\ UNCHANGED <<rooms, members, idIndex, issued, mapped, udp, job, background, messages>>

\* Mutant: the grace period of an earlier connection counts.
ExpireAnyway(m) ==
  /\ m \in timed
  /\ mapped' = mapped \ {m} /\ timed' = timed \ {m}
  /\ UNCHANGED <<rooms, members, idIndex, issued, connected, udp, job, background, messages>>

\* cleanup_loop: the grace period of an ended connection is over.
Expire(m) ==
  /\ cleaner = "idle" /\ stale = {}
  /\ m \in timed \ connected
  /\ mapped' = mapped \ {m} /\ timed' = timed \ {m}
  /\ UNCHANGED <<rooms, members, idIndex, issued, connected, udp, job, background, messages>>

-----------------------------------------------------------------------------
(* Time, the cleanup thread, and the state file.                           *)

\* HEARTBEAT_TIMEOUT passes without a sign of a member.
Age(m) ==
  /\ IsMember(m) /\ MembersOf(idIndex[m])[m].fresh
  /\ members' = [members EXCEPT ![rooms[idIndex[m]].table][m].fresh = FALSE]
  /\ UNCHANGED <<rooms, idIndex, issued, mappings, job, background, messages>>

\* cleanup_loop: the stale ids are collected ...
Scan ==
  /\ cleaner = "idle" /\ stale = {}
  /\ stale' = {m \in DOMAIN idIndex : ~(IsMember(m) /\ MembersOf(idIndex[m])[m].fresh)}
  /\ UNCHANGED <<rooms, members, idIndex, issued, mappings, job, cleaner, disk, restored,
                 messages>>

\* ... and removed one by one, whatever came from them meanwhile.
RemoveStale(m) ==
  /\ cleaner = "idle" /\ m \in stale
  /\ stale' = stale \ {m}
  /\ IF m \in DOMAIN idIndex
     THEN Remove(m) /\ cleaner' = IF IsMember(m) THEN "save" ELSE "idle"
     ELSE UNCHANGED <<rooms, members, idIndex, mappings, restored, cleaner>>
  /\ UNCHANGED <<issued, job, disk, messages>>

\* save_state.  (Two threads that write the file at a time: StateFile.)
Snapshot == [rooms |-> [r \in DOMAIN rooms |-> [pwd |-> rooms[r].pwd, there |-> MembersOf(r)]],
             index |-> idIndex]

registry == <<rooms, members, idIndex, issued, mappings, restored, messages>>

SaveByHandler(t) ==
  /\ job[t].pc = "save"
  /\ disk' = Snapshot /\ job' = [job EXCEPT ![t] = NoJob]
  /\ UNCHANGED <<registry, stale, cleaner>>

\* After remove_member, or because STATE_SAVE_INTERVAL is over.
SaveByCleaner ==
  /\ cleaner = "save" \/ stale = {}
  /\ disk' = Snapshot /\ cleaner' = "idle"
  /\ UNCHANGED <<registry, stale, job>>

\* The server crashes and starts again: load_state.
Restart ==
  /\ Message
  /\ \E f \in [DOMAIN disk.rooms -> Tables] :
       /\ \A r, q \in DOMAIN f : f[r] = f[q] => r = q
       /\ rooms' = [r \in DOMAIN f |-> [table |-> f[r], pwd |-> disk.rooms[r].pwd]]
       /\ members' = [h \in Tables |->
            IF \E r \in DOMAIN f : f[r] = h
            THEN LET there == disk.rooms[CHOOSE r \in DOMAIN f : f[r] = h].there
                 IN [m \in DOMAIN there |-> Member(there[m].did, there[m].key)]
            ELSE Empty]
  /\ idIndex' = disk.index
  /\ restored' = DOMAIN disk.rooms
  /\ mapped' = {} /\ connected' = {} /\ timed' = {} /\ udp' = {}
  /\ job' = [t \in Threads |-> NoJob] /\ stale' = {} /\ cleaner' = "idle"
  /\ UNCHANGED <<issued, disk>>

Next == \/ \E t \in Threads : \/ JoinCheck(t) \/ JoinInsert(t) \/ SaveByHandler(t)
                              \/ \E m \in Ids : \/ HandleHb(t, m) \/ HandleUdpHello(t, m)
                                                \/ HandleBye(t, m)
        \/ \E m \in Ids : \/ TcpReg(m) \/ TcpEnds(m) \/ Expire(m) \/ Age(m)
                          \/ RemoveStale(m)
        \/ Scan \/ SaveByCleaner \/ Restart

Spec == Init /\ [][Next]_vars

-----------------------------------------------------------------------------
\* The type of the state.
TypeOK ==
  /\ DOMAIN rooms \subseteq Rooms
  /\ \A r \in DOMAIN rooms : rooms[r] \in [table : Tables, pwd : Passwords]
  /\ \A r, q \in DOMAIN rooms : rooms[r].table = rooms[q].table => r = q
  /\ DOMAIN members = Tables
  /\ \A h \in Tables : /\ DOMAIN members[h] \subseteq Ids
                       /\ \A m \in DOMAIN members[h] : members[h][m] \in
                            [did : Dids \cup {NoDid}, key : Passwords, fresh : BOOLEAN]
  /\ DOMAIN idIndex \subseteq issued /\ issued \subseteq Ids
  /\ \A m \in DOMAIN idIndex : idIndex[m] \in Rooms
  /\ mapped \cup connected \cup timed \cup udp \cup stale \subseteq issued
  /\ \A t \in Threads : job[t].pc \in {"idle", "insert", "save"}
  /\ cleaner \in {"idle", "save"}
  /\ restored \subseteq Rooms
  /\ messages \in 0 .. MaxMessages

\* Nobody is in a room without its password: between the check and the entry
\* the room may go and come again with another one, and the client still only
\* enters the dict whose password it had (信令服务器.py:412-433, 442-508).
PasswordRespected == \A r \in DOMAIN rooms : \A m \in DOMAIN MembersOf(r) :
                       MembersOf(r)[m].key = rooms[r].pwd

\* A device is one member of a room, however it comes back: with its old id,
\* without it, or after a restart of the server (信令服务器.py:457-481).
OneIdPerDevice == \A r \in DOMAIN rooms : \A m, n \in DOMAIN MembersOf(r) :
  MembersOf(r)[m].did = MembersOf(r)[n].did /\ MembersOf(r)[m].did # NoDid => m = n

\* A room without members has a join under way, or was saved while one was: no
\* departure leaves an empty room and its password (信令服务器.py:604-607).
RoomsHaveMembers == \A r \in DOMAIN rooms \ restored :
  MembersOf(r) = Empty => \E t \in Threads : job[t].pc = "insert" /\ job[t].room = r

\* The mapping of an open mapping connection is there for punch_go, whatever
\* the timers of earlier connections of the id do (信令服务器.py:773-847).
OpenIsMapped == connected \subseteq mapped

=============================================================================
