------------------------- MODULE SignalServerProofs -------------------------
(***************************************************************************)
(* Proofs about SignalServer, for every number of rooms, ids, devices,     *)
(* passwords, receive loops and dict objects, and any size of a room:      *)
(* nobody is in a room without its password, a device is one member,       *)
(* departures leave no empty room, and an open mapping connection is       *)
(* mapped - across the two parts of a join, the cleanup thread's late      *)
(* removals, and crashes.                                                  *)
(***************************************************************************)
EXTENDS SignalServer, FiniteSetTheorems, TLAPS

Devices == Dids \cup {NoDid}
RoomType == [table : Tables, pwd : Passwords]
MemberType == [did : Devices, key : Passwords, fresh : BOOLEAN]
InsertType == [pc : {"insert"}, room : Rooms, table : Tables, did : Devices,
               key : Passwords, reuse : Ids \cup {NoId}]

\* The receive loops between the two parts of a join.
Inserting == {t \in Threads : job[t].pc = "insert"}

RoomsTyped ==
  /\ DOMAIN rooms \subseteq Rooms
  /\ \A r \in DOMAIN rooms : rooms[r] \in RoomType
  /\ \A r, q \in DOMAIN rooms : rooms[r].table = rooms[q].table => r = q

MembersTyped ==
  /\ DOMAIN members = Tables
  /\ \A h \in Tables : \A m \in DOMAIN members[h] : members[h][m] \in MemberType

JobsTyped ==
  /\ DOMAIN job = Threads
  /\ \A t \in Threads : job[t].pc \in {"idle", "insert", "save"}
  /\ \A t \in Inserting : job[t] \in InsertType

\* Ids are issued before they are anywhere; the index names rooms, though not always
\* the one the id is in.
IdsTyped ==
  /\ issued \subseteq Ids
  /\ \A m \in DOMAIN idIndex : m \in issued /\ idIndex[m] \in Rooms
  /\ \A h \in Tables : DOMAIN members[h] \subseteq issued

\* If a room has the dict a join holds, it is the join's room, and the join has its
\* password.
JoinsKnow == \A t \in Inserting : \A r \in DOMAIN rooms :
  rooms[r].table = job[t].table => r = job[t].room /\ rooms[r].pwd = job[t].key

\* No device has two entries in a dict, whether or not a room has it.
Single(there) == \A m, n \in DOMAIN there :
                   there[m].did = there[n].did /\ there[m].did # NoDid => m = n
EachOnce == \A h \in Tables : Single(members[h])

\* An empty room waits for a join that holds its very dict.
RoomsAwait == \A r \in DOMAIN rooms \ restored :
  DOMAIN MembersOf(r) = {}
    => \E t \in Inserting : job[t].room = r /\ job[t].table = rooms[r].table

\* What is on disk was once in memory.
DiskHonest ==
  /\ DOMAIN disk.rooms \subseteq Rooms
  /\ \A r \in DOMAIN disk.rooms :
       /\ disk.rooms[r].pwd \in Passwords
       /\ Single(disk.rooms[r].there)
       /\ \A m \in DOMAIN disk.rooms[r].there :
            /\ disk.rooms[r].there[m] \in MemberType
            /\ disk.rooms[r].there[m].key = disk.rooms[r].pwd
            /\ m \in issued
  /\ \A m \in DOMAIN disk.index : m \in issued /\ disk.index[m] \in Rooms

\* The inductive invariant of the registry ...
Registry == /\ RoomsTyped /\ MembersTyped /\ JobsTyped
            /\ IdsTyped
            /\ JoinsKnow
            /\ EachOnce
            /\ PasswordRespected
            /\ RoomsAwait
            /\ DiskHonest

\* ... and of what goes with it.
Around == /\ mapped \cup connected \cup timed \cup udp \cup stale \subseteq issued
          /\ OpenIsMapped
          /\ cleaner \in {"idle", "save"}
          /\ restored \subseteq Rooms
          /\ messages \in 0 .. MaxMessages

-----------------------------------------------------------------------------
(* At the start.                                                           *)

LEMMA RegistryInit == Init => Registry /\ Around
<1> SUFFICES ASSUME Init PROVE Registry /\ Around
  OBVIOUS
<1> USE DEF Init, Empty
<1>1. RoomsTyped /\ MembersTyped /\ IdsTyped
  BY DEF RoomsTyped, MembersTyped, IdsTyped
<1>2. Inserting = {}
  BY DEF Inserting, NoJob
<1>3. JobsTyped
  BY <1>2 DEF JobsTyped, NoJob
<1>4. JoinsKnow
  BY <1>2 DEF JoinsKnow
<1>5. EachOnce /\ PasswordRespected /\ RoomsAwait
  BY DEF EachOnce, Single, PasswordRespected, RoomsAwait
<1>6. DiskHonest
  BY DEF DiskHonest
<1>7. Around
  BY ServerAssumption DEF Around, OpenIsMapped
<1> QED BY <1>1, <1>3, <1>4, <1>5, <1>6, <1>7 DEF Registry

-----------------------------------------------------------------------------
(* The state file.                                                         *)

\* An id that was issued stays so.
IssuedStays == issued \subseteq issued'

LEMMA DiskKept ==
  ASSUME DiskHonest, IssuedStays, UNCHANGED disk
  PROVE  DiskHonest'
BY DEF DiskHonest, IssuedStays

\* What is saved is a registry to start with again.
LEMMA DiskSaved ==
  ASSUME Registry, disk' = Snapshot, UNCHANGED issued
  PROVE  DiskHonest'
<1> USE DEF Registry
<1>1. /\ DOMAIN disk'.rooms = DOMAIN rooms
      /\ disk'.index = idIndex
      /\ \A r \in DOMAIN rooms : /\ disk'.rooms[r].pwd = rooms[r].pwd
                                 /\ disk'.rooms[r].there = members[rooms[r].table]
  BY DEF Snapshot, MembersOf
<1>2. \A r \in DOMAIN rooms : rooms[r].table \in Tables /\ rooms[r].pwd \in Passwords
  BY DEF RoomsTyped, RoomType
<1>3. \A r \in DOMAIN rooms : Single(members[rooms[r].table])
  BY <1>2 DEF EachOnce
<1>4. \A r \in DOMAIN rooms : \A m \in DOMAIN members[rooms[r].table] :
        /\ members[rooms[r].table][m] \in MemberType
        /\ members[rooms[r].table][m].key = rooms[r].pwd
        /\ m \in issued
  BY <1>2 DEF MembersTyped, PasswordRespected, MembersOf, IdsTyped
<1>5. \A m \in DOMAIN idIndex : m \in issued /\ idIndex[m] \in Rooms
  BY DEF IdsTyped
<1>6. DOMAIN rooms \subseteq Rooms
  BY DEF RoomsTyped
<1> HIDE DEF Registry
<1> QED BY <1>1, <1>2, <1>3, <1>4, <1>5, <1>6 DEF DiskHonest

-----------------------------------------------------------------------------
(* Steps after which the same members are in the same rooms.               *)

\* The members are those that were there, with new signs of life or without.
Touched ==
  /\ DOMAIN members' = Tables
  /\ \A h \in Tables : /\ DOMAIN members'[h] = DOMAIN members[h]
                        /\ \A m \in DOMAIN members[h] :
                             /\ members'[h][m] \in MemberType
                             /\ members'[h][m].did = members[h][m].did
                             /\ members'[h][m].key = members[h][m].key

\* The joins under way are the same.
JoinsStay == /\ DOMAIN job' = Threads
             /\ \A t \in Threads : job'[t].pc \in {"idle", "insert", "save"}
             /\ \A t \in Threads : job'[t].pc = "insert" <=> job[t].pc = "insert"
             /\ \A t \in Inserting : job'[t] = job[t]

LEMMA SameMembers ==
  ASSUME Registry, Touched, JoinsStay, UNCHANGED <<rooms, idIndex, issued, restored>>, DiskHonest'
  PROVE  Registry'
<1> USE DEF Registry
<1>1. \A r \in DOMAIN rooms : rooms[r].table \in Tables
  BY DEF RoomsTyped, RoomType
<1>2. \A t \in Inserting : job[t].table \in Tables
  BY DEF JobsTyped, InsertType
<1>3. Inserting' = Inserting
  BY DEF Inserting, JoinsStay
<1>4. RoomsTyped' /\ MembersTyped'
  BY DEF RoomsTyped, MembersTyped, Touched
<1>5. JobsTyped'
  BY <1>3 DEF JobsTyped, JoinsStay
<1>6. IdsTyped'
  BY DEF IdsTyped, Touched
<1>8. JoinsKnow'
  BY <1>2, <1>3 DEF JoinsKnow, JoinsStay, Touched
<1>10. EachOnce'
  BY DEF EachOnce, Single, Touched
<1>11. PasswordRespected'
  <2> SUFFICES ASSUME NEW r \in DOMAIN rooms, NEW m \in DOMAIN members'[rooms[r].table]
               PROVE  members'[rooms[r].table][m].key = rooms[r].pwd
    BY DEF PasswordRespected, MembersOf
  <2>1. \A k \in DOMAIN members[rooms[r].table] : members[rooms[r].table][k].key = rooms[r].pwd
    BY DEF PasswordRespected, MembersOf
  <2>2. /\ m \in DOMAIN members[rooms[r].table]
        /\ members'[rooms[r].table][m].key = members[rooms[r].table][m].key
    BY <1>1 DEF Touched
  <2> QED BY <2>1, <2>2
<1>12. RoomsAwait'
  BY <1>1, <1>3 DEF RoomsAwait, MembersOf, JoinsStay, Touched
<1> QED BY <1>4, <1>5, <1>6, <1>8, <1>10, <1>11, <1>12

\* A sign of life, or its lack, touches one member.
LEMMA FreshTouches ==
  ASSUME Registry, NEW m, IsMember(m), NEW b \in BOOLEAN,
         members' = [members EXCEPT ![rooms[idIndex[m]].table][m].fresh = b]
  PROVE  Touched
<1> DEFINE h == rooms[idIndex[m]].table
<1>1. h \in Tables /\ m \in DOMAIN members[h]
  BY DEF Registry, RoomsTyped, RoomType, IsMember, MembersOf
<1>2. DOMAIN members = Tables
  BY DEF Registry, MembersTyped
<1>3. members' = [members EXCEPT ![h] = [members[h] EXCEPT ![m] = [members[h][m] EXCEPT !.fresh = b]]]
  BY <1>1, <1>2
<1> HIDE DEF h
<1>4. members[h][m] \in MemberType
  BY <1>1 DEF Registry, MembersTyped
<1> DEFINE e == [members[h][m] EXCEPT !.fresh = b]
<1>5. e \in MemberType /\ e.did = members[h][m].did /\ e.key = members[h][m].key
  BY <1>4 DEF MemberType
<1> HIDE DEF e
<1>6. \A g \in Tables : g # h => members'[g] = members[g]
  BY <1>2, <1>3
<1>7. members'[h] = [members[h] EXCEPT ![m] = e] /\ DOMAIN members' = Tables
  BY <1>1, <1>2, <1>3 DEF e
<1>8. DOMAIN members'[h] = DOMAIN members[h]
  BY <1>7
<1>9. \A n \in DOMAIN members[h] : members'[h][n] = IF n = m THEN e ELSE members[h][n]
  BY <1>7
<1> QED BY <1>5, <1>6, <1>7, <1>8, <1>9 DEF Touched, Registry, MembersTyped

-----------------------------------------------------------------------------
(* A member leaves.                                                        *)

\* What remove_member leaves behind.
Left(m) ==
  /\ DOMAIN rooms' \subseteq DOMAIN rooms
  /\ \A r \in DOMAIN rooms' : rooms'[r] = rooms[r]
  /\ DOMAIN members' = Tables
  /\ \A h \in Tables : /\ DOMAIN members'[h] \subseteq DOMAIN members[h]
                        /\ \A n \in DOMAIN members'[h] : members'[h][n] = members[h][n]
  /\ idIndex' = Drop(idIndex, {m})
  /\ \A r \in DOMAIN rooms' :
       DOMAIN members'[rooms[r].table] = {} => DOMAIN members[rooms[r].table] = {}
  /\ restored' = restored \cap DOMAIN rooms'

LEMMA RemoveLeaves ==
  ASSUME Registry, NEW m \in DOMAIN idIndex, Remove(m)
  PROVE  Left(m)
<1> DEFINE r == idIndex[m]
<1> DEFINE h == rooms[r].table
<1> DEFINE left == Drop(members[h], {m})
<1>1. /\ \A q \in DOMAIN rooms : rooms[q].table \in Tables
      /\ \A q \in DOMAIN rooms : rooms[q].table = h /\ r \in DOMAIN rooms => q = r
      /\ DOMAIN members = Tables
  BY DEF Registry, RoomsTyped, RoomType, MembersTyped
<1>3. idIndex' = Drop(idIndex, {m}) /\ restored' = restored \cap DOMAIN rooms'
  BY DEF Remove
<1>4. CASE r \notin DOMAIN rooms
  <2>1. rooms' = rooms /\ members' = members
    BY <1>4 DEF Remove
  <2> HIDE DEF r, h
  <2> QED BY <1>1, <1>3, <2>1 DEF Left
<1>5. CASE r \in DOMAIN rooms
  <2>1. /\ members' = [members EXCEPT ![h] = left]
        /\ rooms' = IF left = Empty THEN Drop(rooms, {r}) ELSE rooms
    BY <1>5 DEF Remove, Departed, MembersOf
  <2>2. /\ DOMAIN left = DOMAIN members[h] \ {m}
        /\ \A n \in DOMAIN left : left[n] = members[h][n]
        /\ DOMAIN left = {} => left = Empty
    BY DEF Drop, Empty
  <2> HIDE DEF left
  <2>3. h \in Tables
    BY <1>1, <1>5
  <2> HIDE DEF h
  <2>4. /\ DOMAIN members' = Tables /\ members'[h] = left
        /\ \A g \in Tables : g # h => members'[g] = members[g]
    BY <1>1, <2>1, <2>3
  <2>5. /\ DOMAIN rooms' \subseteq DOMAIN rooms
        /\ \A q \in DOMAIN rooms' : rooms'[q] = rooms[q]
        /\ r \in DOMAIN rooms' => left # Empty
    BY <2>1 DEF Drop
  <2>6. ASSUME NEW q \in DOMAIN rooms'
        PROVE  DOMAIN members'[rooms[q].table] = {} => DOMAIN members[rooms[q].table] = {}
    <3>1. q \in DOMAIN rooms
      BY <2>5
    <3>2. CASE q = r
      BY <2>2, <2>4, <2>5, <3>2 DEF h
    <3>3. CASE q # r
      <4>1. members'[rooms[q].table] = members[rooms[q].table]
        BY <1>1, <1>5, <2>4, <3>1, <3>3
      <4> QED BY <4>1
    <3> QED BY <3>2, <3>3
  <2>7. \A g \in Tables : /\ DOMAIN members'[g] \subseteq DOMAIN members[g]
                          /\ \A n \in DOMAIN members'[g] : members'[g][n] = members[g][n]
    BY <2>2, <2>4
  <2> QED BY <1>3, <2>4, <2>5, <2>6, <2>7 DEF Left
<1> QED BY <1>4, <1>5

LEMMA LeavingKeeps ==
  ASSUME Registry, NEW m, Left(m), JoinsStay, UNCHANGED <<issued, disk>>
  PROVE  Registry'
<1> USE DEF Registry
<1>1. /\ \A r \in DOMAIN rooms : rooms[r].table \in Tables
      /\ \A r \in DOMAIN rooms' : r \in DOMAIN rooms /\ rooms'[r] = rooms[r]
  BY DEF RoomsTyped, RoomType, Left
<1>2. \A t \in Inserting : job[t].table \in Tables
  BY DEF JobsTyped, InsertType
<1>3. Inserting' = Inserting
  BY DEF Inserting, JoinsStay
<1>4. \A h \in Tables : /\ DOMAIN members'[h] \subseteq DOMAIN members[h]
                        /\ \A n \in DOMAIN members'[h] : members'[h][n] = members[h][n]
  BY DEF Left
<1>5. /\ DOMAIN idIndex' = DOMAIN idIndex \ {m}
      /\ \A n \in DOMAIN idIndex' : idIndex'[n] = idIndex[n]
  BY DEF Left, Drop
<1>6. RoomsTyped' /\ MembersTyped'
  BY <1>1, <1>4 DEF RoomsTyped, MembersTyped, Left
<1>7. JobsTyped'
  BY <1>3 DEF JobsTyped, JoinsStay
<1>8. IdsTyped'
  BY <1>4, <1>5 DEF IdsTyped
<1>10. JoinsKnow'
  BY <1>1, <1>2, <1>3, <1>4 DEF JoinsKnow, JoinsStay
<1>12. EachOnce'
  BY <1>4 DEF EachOnce, Single
<1>13. PasswordRespected'
  <2> SUFFICES ASSUME NEW r \in DOMAIN rooms', NEW n \in DOMAIN members'[rooms[r].table]
               PROVE  members'[rooms[r].table][n].key = rooms[r].pwd
    BY <1>1 DEF PasswordRespected, MembersOf
  <2>1. /\ n \in DOMAIN members[rooms[r].table]
        /\ members'[rooms[r].table][n] = members[rooms[r].table][n]
    BY <1>1, <1>4 DEF Left
  <2> QED BY <1>1, <2>1 DEF PasswordRespected, MembersOf
<1>14. RoomsAwait'
  <2> SUFFICES ASSUME NEW r \in DOMAIN rooms' \ restored',
                      DOMAIN members'[rooms[r].table] = {}
               PROVE  \E t \in Inserting : job'[t].room = r /\ job'[t].table = rooms[r].table
    BY <1>1, <1>3 DEF RoomsAwait, MembersOf
  <2>1. r \in DOMAIN rooms \ restored /\ DOMAIN members[rooms[r].table] = {}
    BY <1>1 DEF Left
  <2>2. \E t \in Inserting : job[t].room = r /\ job[t].table = rooms[r].table
    BY <2>1 DEF RoomsAwait, MembersOf
  <2> QED BY <2>2 DEF JoinsStay
<1>15. DiskHonest'
  BY DiskKept DEF IssuedStays
<1> QED BY <1>6, <1>7, <1>8, <1>10, <1>12, <1>13, <1>14, <1>15

-----------------------------------------------------------------------------
(* A join, first part.                                                     *)

\* The room of the join and the dict it holds, found or made.
Opened(r, h, key) ==
  /\ DOMAIN rooms' = DOMAIN rooms \cup {r}
  /\ \A q \in DOMAIN rooms : rooms'[q] = rooms[q]
  /\ rooms'[r] \in RoomType /\ rooms'[r].table = h /\ rooms'[r].pwd = key
  /\ \A q \in DOMAIN rooms : rooms[q].table = h => q = r
  /\ DOMAIN members' = Tables
  /\ \A q \in DOMAIN rooms : members'[rooms[q].table] = members[rooms[q].table]
  /\ \A u \in Inserting : members'[job[u].table] = members[job[u].table]
  /\ \A g \in Tables : members'[g] = members[g] \/ DOMAIN members'[g] = {}
  /\ r \notin DOMAIN rooms => DOMAIN members'[h] = {}
  /\ \A u \in Inserting : job[u].table = h => job[u].room = r /\ r \in DOMAIN rooms

LEMMA RoomOpens ==
  ASSUME Registry, NEW r \in Rooms, NEW key \in Passwords,
         NEW h \in IF r \in DOMAIN rooms THEN {rooms[r].table} ELSE Unused,
         IF r \in DOMAIN rooms
         THEN rooms[r].pwd = key /\ UNCHANGED <<rooms, members>>
         ELSE /\ rooms' = Put(rooms, r, [table |-> h, pwd |-> key])
              /\ members' = [members EXCEPT ![h] = Empty]
  PROVE  Opened(r, h, key) /\ h \in Tables
<1>1. /\ \A q \in DOMAIN rooms : rooms[q] \in RoomType /\ rooms[q].table \in Tables
      /\ \A q, o \in DOMAIN rooms : rooms[q].table = rooms[o].table => q = o
      /\ DOMAIN members = Tables
  BY DEF Registry, RoomsTyped, RoomType, MembersTyped
<1>2. \A u \in Inserting : \A q \in DOMAIN rooms :
        rooms[q].table = job[u].table => q = job[u].room
  BY DEF Registry, JoinsKnow
<1>3. CASE r \in DOMAIN rooms
  <2>1. /\ h = rooms[r].table /\ rooms[r].pwd = key
        /\ rooms' = rooms /\ members' = members
    BY <1>3
  <2> QED BY <1>1, <1>2, <1>3, <2>1 DEF Opened
<1>4. CASE r \notin DOMAIN rooms
  <2>1. /\ rooms' = Put(rooms, r, [table |-> h, pwd |-> key])
        /\ members' = [members EXCEPT ![h] = Empty]
        /\ h \in Unused
    BY <1>4
  <2>2. /\ h \in Tables
        /\ \A q \in DOMAIN rooms : rooms[q].table # h
        /\ \A u \in Inserting : job[u].table # h
    BY <2>1 DEF Unused, Inserting
  <2>3. /\ DOMAIN rooms' = DOMAIN rooms \cup {r}
        /\ \A q \in DOMAIN rooms : rooms'[q] = rooms[q]
        /\ rooms'[r] = [table |-> h, pwd |-> key]
    BY <1>4, <2>1 DEF Put
  <2>4. rooms'[r] \in RoomType /\ rooms'[r].table = h /\ rooms'[r].pwd = key
    BY <2>2, <2>3 DEF RoomType
  <2>5. /\ DOMAIN members' = Tables /\ DOMAIN members'[h] = {}
        /\ \A g \in Tables : g # h => members'[g] = members[g]
    BY <1>1, <2>1, <2>2 DEF Empty
  <2>6. \A u \in Inserting : job[u].table \in Tables
    BY DEF Registry, JobsTyped, InsertType
  <2>7. /\ \A q \in DOMAIN rooms : members'[rooms[q].table] = members[rooms[q].table]
        /\ \A u \in Inserting : members'[job[u].table] = members[job[u].table]
        /\ \A g \in Tables : members'[g] = members[g] \/ DOMAIN members'[g] = {}
    BY <1>1, <2>2, <2>5, <2>6
  <2> QED BY <2>2, <2>3, <2>4, <2>5, <2>7 DEF Opened
<1> QED BY <1>3, <1>4

LEMMA CheckKeeps ==
  ASSUME Registry, NEW t \in Threads, JoinCheck(t)
  PROVE  Registry'
<1> USE DEF Registry
<1>1. PICK r \in Rooms, did \in Devices, key \in Passwords, reuse \in {NoId} \cup issued :
        \E h \in IF r \in DOMAIN rooms THEN {rooms[r].table} ELSE Unused :
          /\ IF r \in DOMAIN rooms
             THEN rooms[r].pwd = key /\ UNCHANGED <<rooms, members>>
             ELSE /\ rooms' = Put(rooms, r, [table |-> h, pwd |-> key])
                  /\ members' = [members EXCEPT ![h] = Empty]
          /\ job' = [job EXCEPT ![t] = [pc |-> "insert", room |-> r, table |-> h,
                                        did |-> did, key |-> key, reuse |-> reuse]]
  BY DEF JoinCheck, Devices
<1>2. PICK h \in IF r \in DOMAIN rooms THEN {rooms[r].table} ELSE Unused :
        /\ IF r \in DOMAIN rooms
           THEN rooms[r].pwd = key /\ UNCHANGED <<rooms, members>>
           ELSE /\ rooms' = Put(rooms, r, [table |-> h, pwd |-> key])
                /\ members' = [members EXCEPT ![h] = Empty]
        /\ job' = [job EXCEPT ![t] = [pc |-> "insert", room |-> r, table |-> h,
                                      did |-> did, key |-> key, reuse |-> reuse]]
  BY <1>1
<1>3. Opened(r, h, key) /\ h \in Tables
  BY <1>2, RoomOpens
<1> DEFINE j == [pc |-> "insert", room |-> r, table |-> h, did |-> did, key |-> key, reuse |-> reuse]
<1>4. /\ job[t].pc = "idle" /\ DOMAIN job = Threads
      /\ UNCHANGED <<idIndex, issued, disk, restored>>
  BY DEF JoinCheck, NoJob, JobsTyped, background
<1>5. /\ DOMAIN job' = Threads /\ job'[t] = j
      /\ \A u \in Threads : u # t => job'[u] = job[u]
  BY <1>2, <1>4
<1>6. /\ j.pc = "insert" /\ j.room = r /\ j.table = h /\ j.did = did /\ j.key = key
      /\ j.reuse = reuse
  OBVIOUS
<1>7. j \in InsertType
  BY <1>3 DEF InsertType, IdsTyped
<1> HIDE DEF j
<1>8. Inserting' = Inserting \cup {t} /\ t \notin Inserting
  BY <1>4, <1>5, <1>6 DEF Inserting
<1>9. \A u \in Inserting : u \in Threads /\ job'[u] = job[u] /\ job[u].table \in Tables
  BY <1>5, <1>8 DEF Inserting, JobsTyped, InsertType
<1>10. \A q \in DOMAIN rooms : rooms[q].table \in Tables
  BY DEF RoomsTyped, RoomType
<1>11. RoomsTyped'
  BY <1>3 DEF RoomsTyped, Opened
<1>12. MembersTyped'
  BY <1>3 DEF MembersTyped, Opened
<1>13. JobsTyped'
  <2>1. \A u \in Threads : job'[u].pc \in {"idle", "insert", "save"}
    BY <1>5, <1>6 DEF JobsTyped
  <2> QED BY <1>5, <1>7, <1>8, <1>9, <2>1 DEF JobsTyped
<1>14. IdsTyped'
  BY <1>3, <1>4 DEF IdsTyped, Opened
<1>16. JoinsKnow'
  <2> SUFFICES ASSUME NEW u \in Inserting \cup {t}, NEW q \in DOMAIN rooms',
                      rooms'[q].table = job'[u].table
               PROVE  q = job'[u].room /\ rooms'[q].pwd = job'[u].key
    BY <1>8 DEF JoinsKnow
  <2>1. CASE u = t
    BY <1>3, <1>5, <1>6, <2>1 DEF Opened
  <2>2. CASE u \in Inserting
    <3>1. job'[u] = job[u]
      BY <1>9, <2>2
    <3>2. CASE q \in DOMAIN rooms
      BY <1>3, <2>2, <3>1, <3>2 DEF JoinsKnow, Opened
    <3>3. CASE q \notin DOMAIN rooms
      BY <1>3, <2>2, <3>1, <3>3 DEF Opened
    <3> QED BY <3>2, <3>3
  <2> QED BY <2>1, <2>2
<1>18. EachOnce'
  BY <1>3 DEF EachOnce, Single, Opened
<1>19. PasswordRespected'
  <2> SUFFICES ASSUME NEW q \in DOMAIN rooms', NEW m \in DOMAIN members'[rooms'[q].table]
               PROVE  members'[rooms'[q].table][m].key = rooms'[q].pwd
    BY DEF PasswordRespected, MembersOf
  <2>1. q \in DOMAIN rooms
    BY <1>3 DEF Opened
  <2>2. rooms'[q] = rooms[q] /\ members'[rooms[q].table] = members[rooms[q].table]
    BY <1>3, <2>1 DEF Opened
  <2> QED BY <2>1, <2>2 DEF PasswordRespected, MembersOf
<1>20. RoomsAwait'
  <2> SUFFICES ASSUME NEW q \in DOMAIN rooms' \ restored,
                      DOMAIN members'[rooms'[q].table] = {}
               PROVE  \E u \in Inserting \cup {t} : job'[u].room = q /\ job'[u].table = rooms'[q].table
    BY <1>4, <1>8 DEF RoomsAwait, MembersOf
  <2>1. CASE q = r
    BY <1>3, <1>5, <1>6, <2>1 DEF Opened
  <2>2. CASE q # r
    <3>1. /\ q \in DOMAIN rooms /\ rooms'[q] = rooms[q]
          /\ members'[rooms[q].table] = members[rooms[q].table]
      BY <1>3, <2>2 DEF Opened
    <3>2. \E u \in Inserting : job[u].room = q /\ job[u].table = rooms[q].table
      BY <3>1 DEF RoomsAwait, MembersOf
    <3> QED BY <1>9, <3>1, <3>2
  <2> QED BY <2>1, <2>2
<1>21. DiskHonest'
  BY <1>4, DiskKept DEF IssuedStays
<1> QED BY <1>11, <1>12, <1>13, <1>14, <1>16, <1>18, <1>19, <1>20, <1>21

-----------------------------------------------------------------------------
(* A join, second part.                                                    *)

\* Who is added: the joining client under its id, unless the room is full.
Added(me, full) == IF full THEN {} ELSE {me}

\* What the dict h, the index and the issued ids are after the device's other
\* ids, gone, went and the client came as me.
Entered(j, me, gone, full) ==
  /\ gone \subseteq DOMAIN members[j.table]
  /\ \A n \in gone : n # me /\ j.did # NoDid /\ members[j.table][n].did = j.did
  /\ \A n \in DOMAIN members[j.table] \ gone :
       n # me /\ j.did # NoDid => members[j.table][n].did # j.did
  /\ DOMAIN members' = Tables
  /\ \A g \in Tables : g # j.table => members'[g] = members[g]
  /\ DOMAIN members'[j.table] = (DOMAIN members[j.table] \ gone) \cup Added(me, full)
  /\ \A n \in DOMAIN members'[j.table] :
       members'[j.table][n] = IF n = me THEN Member(j.did, j.key) ELSE members[j.table][n]
  /\ DOMAIN members'[j.table] # {}
  /\ DOMAIN idIndex' = (DOMAIN idIndex \ gone) \cup Added(me, full)
  /\ \A n \in DOMAIN idIndex' :
       idIndex'[n] = IF n \in Added(me, full) THEN j.room ELSE idIndex[n]
  /\ me \in Ids
  /\ issued' = issued \cup Added(me, full)

\* The id a client is given: the one it asks for, one of the dict's, or a new one.
LEMMA IdentityTyped ==
  ASSUME Registry, NEW t \in Inserting, NEW me \in Identities(job[t])
  PROVE  me \in Ids
<1>1. /\ job[t].table \in Tables
      /\ job[t].reuse # NoId => job[t].reuse \in Ids
  BY DEF Registry, JobsTyped, InsertType
<1>2. DOMAIN members[job[t].table] \subseteq Ids
  BY <1>1 DEF Registry, IdsTyped
<1> QED BY <1>1, <1>2 DEF Identities, Dict

LEMMA InsertEnters ==
  ASSUME Registry, NEW t \in Threads, JoinInsert(t)
  PROVE  \E me, gone : \E full \in BOOLEAN :
           /\ Entered(job[t], me, gone, full)
           /\ job' = [job EXCEPT ![t] = IF full THEN NoJob ELSE [pc |-> "save"]]
           /\ connected' = connected \ (gone \cup {me})
           /\ mapped' = mapped \ (gone \cup {me})
           /\ udp' = udp \ (gone \cup {me})
<1> DEFINE j == job[t]
<1>1. t \in Inserting
  BY DEF JoinInsert, Inserting
<1> DEFINE Kept(me) == Drop(members[j.table], Duplicates(j, me))
<1> DEFINE Full(me) == /\ Cardinality(DOMAIN Kept(me)) >= MaxRoomSize
                       /\ me \notin DOMAIN Kept(me)
<1>2. PICK me \in Identities(j) :
        /\ members' = [members EXCEPT ![j.table] = IF Full(me) THEN Kept(me)
                                     ELSE Put(Kept(me), me, Member(j.did, j.key))]
        /\ idIndex' = Indexed(j, me, Duplicates(j, me), Full(me))
        /\ issued' = IF Full(me) THEN issued ELSE issued \cup {me}
        /\ job' = [job EXCEPT ![t] = IF Full(me) THEN NoJob ELSE [pc |-> "save"]]
        /\ connected' = connected \ (Duplicates(j, me) \cup {me})
        /\ mapped' = mapped \ (Duplicates(j, me) \cup {me})
        /\ udp' = udp \ (Duplicates(j, me) \cup {me})
  BY DEF JoinInsert, Dict
<1> DEFINE gone == Duplicates(j, me)
<1> DEFINE kept == Kept(me)
<1> DEFINE full == Full(me)
<1>3. me \in Ids
  BY <1>1, <1>2, IdentityTyped
<1>4. /\ gone \subseteq DOMAIN members[j.table]
      /\ \A n \in gone : n # me /\ j.did # NoDid /\ members[j.table][n].did = j.did
      /\ \A n \in DOMAIN members[j.table] \ gone :
           n # me /\ j.did # NoDid => members[j.table][n].did # j.did
  BY DEF Duplicates, Dict
<1>5. /\ DOMAIN kept = DOMAIN members[j.table] \ gone
      /\ \A n \in DOMAIN kept : kept[n] = members[j.table][n]
  BY DEF Drop
<1>6. /\ full \in BOOLEAN
      /\ full => Cardinality(DOMAIN kept) >= MaxRoomSize /\ me \notin DOMAIN kept
  OBVIOUS
<1>7. full => DOMAIN kept # {}
  <2> HIDE DEF kept, full
  <2> SUFFICES ASSUME full, DOMAIN kept = {} PROVE FALSE
    OBVIOUS
  <2>1. Cardinality(DOMAIN kept) = 0
    BY FS_EmptySet
  <2> QED BY <1>6, <2>1, ServerAssumption
<1>8. /\ members' = [members EXCEPT ![j.table] = IF full THEN kept
                                   ELSE Put(kept, me, Member(j.did, j.key))]
      /\ idIndex' = Indexed(j, me, gone, full)
      /\ issued' = IF full THEN issued ELSE issued \cup {me}
      /\ job' = [job EXCEPT ![t] = IF full THEN NoJob ELSE [pc |-> "save"]]
      /\ connected' = connected \ (gone \cup {me})
      /\ mapped' = mapped \ (gone \cup {me})
      /\ udp' = udp \ (gone \cup {me})
  BY <1>2
<1>9. j.table \in Tables /\ DOMAIN members = Tables
  BY <1>1 DEF Registry, JobsTyped, InsertType, MembersTyped
<1> HIDE DEF j, gone, kept, full
<1>10. /\ DOMAIN members' = Tables
       /\ \A g \in Tables : g # j.table => members'[g] = members[g]
       /\ members'[j.table] = IF full THEN kept ELSE Put(kept, me, Member(j.did, j.key))
  BY <1>8, <1>9
<1>11. /\ DOMAIN members'[j.table] = (DOMAIN members[j.table] \ gone) \cup Added(me, full)
       /\ DOMAIN members'[j.table] # {}
       /\ \A n \in DOMAIN members'[j.table] :
            members'[j.table][n] = IF n = me THEN Member(j.did, j.key)
                                   ELSE members[j.table][n]
  <2>1. CASE full
    BY <1>5, <1>6, <1>7, <1>10, <2>1 DEF Added
  <2>2. CASE ~full
    BY <1>5, <1>10, <2>2 DEF Added, Put
  <2> QED BY <2>1, <2>2
<1>12. /\ DOMAIN idIndex' = (DOMAIN idIndex \ gone) \cup Added(me, full)
       /\ \A n \in DOMAIN idIndex' :
            idIndex'[n] = IF n \in Added(me, full) THEN j.room ELSE idIndex[n]
  <2>1. CASE full
    BY <1>8, <2>1 DEF Added, Indexed, Drop
  <2>2. CASE ~full
    BY <1>8, <2>2 DEF Added, Indexed, Drop, Put
  <2> QED BY <2>1, <2>2
<1>13. issued' = issued \cup Added(me, full)
  BY <1>8 DEF Added
<1>14. Entered(j, me, gone, full)
  BY <1>3, <1>4, <1>10, <1>11, <1>12, <1>13 DEF Entered
<1> QED BY <1>6, <1>8, <1>14 DEF j

LEMMA EnteringKeeps ==
  ASSUME Registry, NEW t \in Inserting, NEW me, NEW gone, NEW full \in BOOLEAN,
         Entered(job[t], me, gone, full),
         job' = [job EXCEPT ![t] = IF full THEN NoJob ELSE [pc |-> "save"]],
         UNCHANGED <<rooms, disk, restored>>
  PROVE  Registry' /\ IssuedStays
<1> USE DEF Registry
<1> DEFINE j == job[t]
<1> DEFINE h == j.table
<1> DEFINE there == members[h]
<1> DEFINE now == members'[h]
<1>1. t \in Threads /\ j \in InsertType /\ h \in Tables
  BY DEF Inserting, JobsTyped, InsertType
<1>2. /\ DOMAIN job' = Threads /\ job'[t].pc \in {"idle", "save"}
      /\ \A u \in Threads : u # t => job'[u] = job[u]
  BY <1>1 DEF JobsTyped, NoJob
<1>3. Inserting' = Inserting \ {t} /\ \A u \in Inserting' : u \in Inserting /\ u # t /\ job'[u] = job[u]
  BY <1>2 DEF Inserting
<1>4. /\ \A q \in DOMAIN rooms : rooms[q].table \in Tables
      /\ \A u \in Inserting : job[u].table \in Tables
  BY DEF RoomsTyped, RoomType, JobsTyped, InsertType
<1>5. /\ DOMAIN members' = Tables
      /\ \A g \in Tables : g # h => members'[g] = members[g]
      /\ DOMAIN now = (DOMAIN there \ gone) \cup Added(me, full) /\ DOMAIN now # {}
      /\ \A n \in DOMAIN now : now[n] = IF n = me THEN Member(j.did, j.key) ELSE there[n]
  BY DEF Entered
<1>6. /\ gone \subseteq DOMAIN there
      /\ \A n \in gone : n # me /\ j.did # NoDid /\ there[n].did = j.did
      /\ \A n \in DOMAIN there \ gone : n # me /\ j.did # NoDid => there[n].did # j.did
  BY DEF Entered
<1>7. /\ DOMAIN idIndex' = (DOMAIN idIndex \ gone) \cup Added(me, full)
      /\ \A n \in DOMAIN idIndex' :
           idIndex'[n] = IF n \in Added(me, full) THEN j.room ELSE idIndex[n]
  BY DEF Entered
<1>8. issued' = issued \cup Added(me, full) /\ me \in Ids
  BY DEF Entered
<1>9. Added(me, full) \subseteq {me} /\ (me \notin Added(me, full) => Added(me, full) = {})
  BY DEF Added
<1>10. /\ Member(j.did, j.key) \in MemberType
       /\ Member(j.did, j.key).did = j.did /\ Member(j.did, j.key).key = j.key
       /\ j.room \in Rooms
  BY <1>1 DEF InsertType, Member, MemberType
<1>11. \A n \in DOMAIN there : n \in issued /\ there[n] \in MemberType
  BY <1>1 DEF IdsTyped, MembersTyped
<1>12. IssuedStays
  BY <1>8 DEF IssuedStays
<1> HIDE DEF j, h, there, now
<1>13. \A n \in DOMAIN now : \/ n \in DOMAIN there \ gone /\ n # me /\ now[n] = there[n]
                             \/ n = me /\ now[n] = Member(j.did, j.key)
  <2> SUFFICES ASSUME NEW n \in DOMAIN now
               PROVE  \/ n \in DOMAIN there \ gone /\ n # me /\ now[n] = there[n]
                      \/ n = me /\ now[n] = Member(j.did, j.key)
    OBVIOUS
  <2>1. CASE n = me
    BY <1>5, <2>1
  <2>2. CASE n # me
    <3>1. n \in DOMAIN there \ gone
      BY <1>5, <1>9, <2>2
    <3>2. now[n] = there[n]
      BY <1>5, <2>2
    <3> QED BY <2>2, <3>1, <3>2
  <2> QED BY <2>1, <2>2
<1>14. RoomsTyped'
  BY DEF RoomsTyped
<1>15. MembersTyped'
  BY <1>5, <1>10, <1>11, <1>13 DEF MembersTyped, now, there
<1>16. JobsTyped'
  <2>1. \A u \in Threads : job'[u].pc \in {"idle", "insert", "save"}
    BY <1>2 DEF JobsTyped
  <2> QED BY <1>2, <1>3, <2>1 DEF JobsTyped
<1>18. IdsTyped'
  <2>1. issued' \subseteq Ids
    BY <1>8, <1>9 DEF IdsTyped
  <2>2. ASSUME NEW n \in DOMAIN idIndex'
        PROVE  n \in issued' /\ idIndex'[n] \in Rooms
    <3>1. CASE n \in Added(me, full)
      BY <1>7, <1>8, <1>10, <3>1
    <3>2. CASE n \notin Added(me, full)
      BY <1>7, <1>8, <3>2 DEF IdsTyped
    <3> QED BY <3>1, <3>2
  <2>3. ASSUME NEW g \in Tables
        PROVE  DOMAIN members'[g] \subseteq issued'
    <3>1. CASE g = h
      BY <1>5, <1>8, <1>11, <3>1 DEF now
    <3>2. CASE g # h
      BY <1>5, <1>8, <3>2 DEF IdsTyped
    <3> QED BY <3>1, <3>2
  <2> QED BY <2>1, <2>2, <2>3 DEF IdsTyped
<1>20. JoinsKnow'
  BY <1>3 DEF JoinsKnow
<1>22. EachOnce'
  <2>1. Single(now)
    <3> SUFFICES ASSUME NEW m \in DOMAIN now, NEW n \in DOMAIN now,
                        now[m].did = now[n].did, now[m].did # NoDid
                 PROVE  m = n
      BY DEF Single
    <3>1. Single(there)
      BY <1>1 DEF EachOnce, there
    <3> QED BY <1>6, <1>10, <1>13, <3>1 DEF Single
  <2> QED BY <1>5, <2>1 DEF EachOnce, now
<1>23. PasswordRespected'
  <2> SUFFICES ASSUME NEW q \in DOMAIN rooms, NEW m \in DOMAIN members'[rooms[q].table]
               PROVE  members'[rooms[q].table][m].key = rooms[q].pwd
    BY DEF PasswordRespected, MembersOf
  <2>1. \A n \in DOMAIN members[rooms[q].table] : members[rooms[q].table][n].key = rooms[q].pwd
    BY DEF PasswordRespected, MembersOf
  <2>2. CASE rooms[q].table = h
    <3>1. j.key = rooms[q].pwd
      BY <2>2 DEF JoinsKnow, j, h
    <3> QED BY <1>10, <1>13, <2>1, <2>2, <3>1 DEF now, there
  <2>3. CASE rooms[q].table # h
    BY <1>4, <1>5, <2>1, <2>3
  <2> QED BY <2>2, <2>3
<1>25. RoomsAwait'
  <2> SUFFICES ASSUME NEW q \in DOMAIN rooms \ restored, DOMAIN members'[rooms[q].table] = {}
               PROVE  \E u \in Inserting' : job'[u].room = q /\ job'[u].table = rooms[q].table
    BY DEF RoomsAwait, MembersOf
  <2>1. rooms[q].table # h
    BY <1>5 DEF now
  <2>2. DOMAIN members[rooms[q].table] = {}
    BY <1>4, <1>5, <2>1
  <2>3. PICK u \in Inserting : job[u].room = q /\ job[u].table = rooms[q].table
    BY <2>2 DEF RoomsAwait, MembersOf
  <2>4. u # t
    BY <2>1, <2>3 DEF h, j
  <2> QED BY <1>2, <1>3, <2>3, <2>4 DEF Inserting
<1>26. DiskHonest'
  BY <1>12, DiskKept
<1> QED BY <1>12, <1>14, <1>15, <1>16, <1>18, <1>20, <1>22, <1>23, <1>25, <1>26

-----------------------------------------------------------------------------
(* A restart.                                                              *)

\* What load_state makes of the file: its rooms, each with a dict of its own and
\* the members that were there.
Loaded(f) ==
  /\ \A r \in DOMAIN disk.rooms : f[r] \in Tables
  /\ \A r, q \in DOMAIN disk.rooms : f[r] = f[q] => r = q
  /\ DOMAIN rooms' = DOMAIN disk.rooms
  /\ \A r \in DOMAIN disk.rooms : rooms'[r] = [table |-> f[r], pwd |-> disk.rooms[r].pwd]
  /\ DOMAIN members' = Tables
  /\ \A h \in Tables : \/ DOMAIN members'[h] = {}
                       \/ \E r \in DOMAIN disk.rooms : f[r] = h
  /\ \A r \in DOMAIN disk.rooms :
       LET there == disk.rooms[r].there
       IN /\ DOMAIN members'[f[r]] = DOMAIN there
          /\ \A m \in DOMAIN there : members'[f[r]][m] = Member(there[m].did, there[m].key)

LEMMA RestartLoads ==
  ASSUME Restart
  PROVE  \E f : Loaded(f)
<1> DEFINE D == DOMAIN disk.rooms
<1> DEFINE Anew(there) == [m \in DOMAIN there |-> Member(there[m].did, there[m].key)]
<1>1. PICK f \in [D -> Tables] :
        /\ \A r, q \in DOMAIN f : f[r] = f[q] => r = q
        /\ rooms' = [r \in DOMAIN f |-> [table |-> f[r], pwd |-> disk.rooms[r].pwd]]
        /\ members' = [h \in Tables |->
             IF \E r \in DOMAIN f : f[r] = h
             THEN Anew(disk.rooms[CHOOSE r \in DOMAIN f : f[r] = h].there)
             ELSE Empty]
  BY DEF Restart
<1>2. DOMAIN f = D /\ \A r \in D : f[r] \in Tables
  BY <1>1
<1> HIDE DEF D, Anew
<1>3. /\ DOMAIN rooms' = D
      /\ \A r \in D : rooms'[r] = [table |-> f[r], pwd |-> disk.rooms[r].pwd]
      /\ DOMAIN members' = Tables
  BY <1>1, <1>2
<1>4. \A r \in D : members'[f[r]] = Anew(disk.rooms[r].there)
  <2> SUFFICES ASSUME NEW r \in D PROVE members'[f[r]] = Anew(disk.rooms[r].there)
    OBVIOUS
  <2>1. (CHOOSE q \in DOMAIN f : f[q] = f[r]) = r
    BY <1>1, <1>2
  <2>2. f[r] \in Tables /\ \E q \in DOMAIN f : f[q] = f[r]
    BY <1>2
  <2> QED BY <1>1, <2>1, <2>2
<1>5. \A h \in Tables : DOMAIN members'[h] = {} \/ \E r \in D : f[r] = h
  <2> SUFFICES ASSUME NEW h \in Tables, ~ \E r \in D : f[r] = h
               PROVE  DOMAIN members'[h] = {}
    OBVIOUS
  <2>1. members'[h] = Empty
    BY <1>1, <1>2
  <2> QED BY <2>1 DEF Empty
<1>6. \A there : /\ DOMAIN Anew(there) = DOMAIN there
                 /\ \A m \in DOMAIN there : Anew(there)[m] = Member(there[m].did, there[m].key)
  BY DEF Anew
<1>7. \A r \in D : /\ DOMAIN members'[f[r]] = DOMAIN disk.rooms[r].there
                    /\ \A m \in DOMAIN disk.rooms[r].there :
                         members'[f[r]][m] = Member(disk.rooms[r].there[m].did,
                                                    disk.rooms[r].there[m].key)
  BY <1>4, <1>6
<1>8. \A r, q \in D : f[r] = f[q] => r = q
  BY <1>1, <1>2
<1>9. Loaded(f)
  BY <1>2, <1>3, <1>5, <1>7, <1>8 DEF Loaded, D
<1> QED BY <1>9

LEMMA RestartKeeps ==
  ASSUME Registry, Restart
  PROVE  Registry' /\ restored' \subseteq Rooms
<1> USE DEF Registry
<1> DEFINE D == DOMAIN disk.rooms
<1> DEFINE There(r) == disk.rooms[r].there
<1>1. PICK f : Loaded(f)
  BY RestartLoads
<1>2. /\ idIndex' = disk.index /\ issued' = issued /\ disk' = disk /\ restored' = D
      /\ job' = [t \in Threads |-> NoJob]
  BY DEF Restart
<1>3. /\ \A r \in D : f[r] \in Tables
      /\ \A r, q \in D : f[r] = f[q] => r = q
      /\ DOMAIN rooms' = D
      /\ \A r \in D : rooms'[r] = [table |-> f[r], pwd |-> disk.rooms[r].pwd]
      /\ DOMAIN members' = Tables
      /\ \A h \in Tables : DOMAIN members'[h] = {} \/ \E r \in D : f[r] = h
      /\ \A r \in D :
           /\ DOMAIN members'[f[r]] = DOMAIN There(r)
           /\ \A m \in DOMAIN There(r) :
                members'[f[r]][m] = Member(There(r)[m].did, There(r)[m].key)
  BY <1>1 DEF Loaded
<1>4. /\ D \subseteq Rooms
      /\ \A r \in D :
           /\ disk.rooms[r].pwd \in Passwords
           /\ Single(There(r))
           /\ \A m \in DOMAIN There(r) :
                /\ There(r)[m] \in MemberType
                /\ There(r)[m].key = disk.rooms[r].pwd
                /\ m \in issued
      /\ \A m \in DOMAIN disk.index : m \in issued /\ disk.index[m] \in Rooms
  BY DEF DiskHonest
<1> HIDE DEF D, There
<1>5. ASSUME NEW r \in D, NEW m \in DOMAIN members'[f[r]]
      PROVE  /\ m \in DOMAIN There(r)
             /\ members'[f[r]][m] \in MemberType
             /\ members'[f[r]][m].did = There(r)[m].did
             /\ members'[f[r]][m].key = There(r)[m].key
  <2>1. m \in DOMAIN There(r)
    BY <1>3
  <2>2. There(r)[m] \in MemberType
    BY <1>4, <2>1
  <2>3. members'[f[r]][m] = Member(There(r)[m].did, There(r)[m].key)
    BY <1>3, <2>1
  <2> QED BY <2>1, <2>2, <2>3 DEF Member, MemberType
<1>6. \A r \in D : rooms'[r].table = f[r] /\ rooms'[r].pwd = disk.rooms[r].pwd
  BY <1>3
<1>7. Inserting' = {} /\ \A t \in Threads : job'[t].pc = "idle"
  BY <1>2 DEF Inserting, NoJob
<1>8. RoomsTyped'
  BY <1>3, <1>4, <1>6 DEF RoomsTyped, RoomType
<1>9. MembersTyped'
  BY <1>3, <1>5 DEF MembersTyped
<1>10. JobsTyped'
  BY <1>2, <1>7 DEF JobsTyped
<1>11. IdsTyped'
  <2>1. ASSUME NEW h \in Tables, NEW m \in DOMAIN members'[h]
        PROVE  m \in issued
    <3>1. PICK r \in D : f[r] = h
      BY <1>3
    <3> QED BY <1>4, <1>5, <3>1
  <2> QED BY <1>2, <1>4, <2>1 DEF IdsTyped
<1>12. JoinsKnow'
  BY <1>7 DEF JoinsKnow
<1>13. EachOnce'
  <2> SUFFICES ASSUME NEW h \in Tables, NEW m \in DOMAIN members'[h], NEW n \in DOMAIN members'[h],
                      members'[h][m].did = members'[h][n].did, members'[h][m].did # NoDid
               PROVE  m = n
    BY DEF EachOnce, Single
  <2>1. PICK r \in D : f[r] = h
    BY <1>3
  <2>2. /\ m \in DOMAIN There(r) /\ There(r)[m].did = members'[h][m].did
        /\ n \in DOMAIN There(r) /\ There(r)[n].did = members'[h][n].did
    BY <1>5, <2>1
  <2>3. Single(There(r))
    BY <1>4
  <2> QED BY <2>2, <2>3 DEF Single
<1>14. PasswordRespected'
  <2> SUFFICES ASSUME NEW r \in D, NEW m \in DOMAIN members'[f[r]]
               PROVE  members'[f[r]][m].key = disk.rooms[r].pwd
    BY <1>3, <1>6 DEF PasswordRespected, MembersOf
  <2> QED BY <1>4, <1>5
<1>15. RoomsAwait'
  BY <1>2, <1>3 DEF RoomsAwait
<1>16. DiskHonest'
  BY <1>2, DiskKept DEF IssuedStays
<1> QED BY <1>2, <1>4, <1>8, <1>9, <1>10, <1>11, <1>12, <1>13, <1>14, <1>15, <1>16

-----------------------------------------------------------------------------
(* Every step.                                                             *)

\* A step that leaves the registry and the joins alone.
LEMMA QuietKeeps ==
  ASSUME Registry, JoinsStay, UNCHANGED <<rooms, members, idIndex, issued, restored>>,
         DiskHonest'
  PROVE  Registry'
<1>1. Touched
  BY DEF Touched, Registry, MembersTyped
<1> QED BY <1>1, SameMembers

\* A receive loop that is not in a join goes on to something that is no join either.
LEMMA OtherJob ==
  ASSUME Registry, NEW t \in Threads, job[t].pc # "insert",
         DOMAIN job' = Threads, job'[t].pc \in {"idle", "save"},
         \A u \in Threads : u # t => job'[u] = job[u]
  PROVE  JoinsStay
<1>1. \A u \in Threads : job[u].pc \in {"idle", "insert", "save"}
  BY DEF Registry, JobsTyped
<1> QED BY <1>1 DEF JoinsStay, Inserting

LEMMA SameJobs ==
  ASSUME Registry, UNCHANGED job
  PROVE  JoinsStay
BY DEF JoinsStay, Registry, JobsTyped

\* The registry after each step; and an id that was issued stays so.
LEMMA RegistrySteps ==
  ASSUME Registry, [Next]_vars
  PROVE  Registry' /\ IssuedStays
<1> USE DEF mappings, background, registry
<1>1. ASSUME UNCHANGED issued PROVE IssuedStays
  BY <1>1 DEF IssuedStays
<1>2. ASSUME UNCHANGED <<disk, issued>> PROVE DiskHonest'
  BY <1>1, <1>2, DiskKept DEF Registry
<1>3. CASE UNCHANGED vars
  BY <1>1, <1>2, <1>3, SameJobs, QuietKeeps DEF vars
<1>4. ASSUME NEW t \in Threads, JoinCheck(t) PROVE Registry' /\ IssuedStays
  BY <1>1, <1>4, CheckKeeps DEF JoinCheck
<1>5. ASSUME NEW t \in Threads, JoinInsert(t) PROVE Registry' /\ IssuedStays
  <2>1. t \in Inserting /\ UNCHANGED <<rooms, disk, restored>>
    BY <1>5 DEF JoinInsert, Inserting
  <2>2. PICK me, gone : \E full \in BOOLEAN :
          /\ Entered(job[t], me, gone, full)
          /\ job' = [job EXCEPT ![t] = IF full THEN NoJob ELSE [pc |-> "save"]]
    BY <1>5, InsertEnters
  <2> QED BY <2>1, <2>2, EnteringKeeps
<1>6. ASSUME NEW t \in Threads, SaveByHandler(t) PROVE Registry' /\ IssuedStays
  <2>1. UNCHANGED <<rooms, members, idIndex, issued, restored>> /\ disk' = Snapshot
    BY <1>6 DEF SaveByHandler
  <2>2. JoinsStay
    <3>1. job[t].pc # "insert" /\ job' = [job EXCEPT ![t] = NoJob]
      BY <1>6 DEF SaveByHandler
    <3>2. /\ DOMAIN job' = Threads /\ job'[t] = NoJob
          /\ \A u \in Threads : u # t => job'[u] = job[u]
      BY <3>1 DEF Registry, JobsTyped
    <3>3. job'[t].pc = "idle"
      BY <3>2 DEF NoJob
    <3> QED BY <3>1, <3>2, <3>3, OtherJob
  <2> QED BY <1>1, <2>1, <2>2, DiskSaved, QuietKeeps
<1>7. ASSUME NEW t \in Threads, NEW m, HandleHb(t, m) PROVE Registry' /\ IssuedStays
  <2>1. UNCHANGED <<rooms, idIndex, issued, restored, job, disk>> /\ IsMember(m)
    BY <1>7 DEF HandleHb
  <2>2. Touched
    BY <1>7, <2>1, FreshTouches DEF HandleHb, Refreshed
  <2> QED BY <1>1, <1>2, <2>1, <2>2, SameJobs, SameMembers
<1>8. ASSUME NEW t \in Threads, NEW m, HandleUdpHello(t, m) PROVE Registry' /\ IssuedStays
  <2>1. UNCHANGED <<rooms, idIndex, issued, restored, job, disk>>
    BY <1>8 DEF HandleUdpHello
  <2>2. CASE IsMember(m)
    <3>1. Touched
      BY <1>8, <2>2, FreshTouches DEF HandleUdpHello, Refreshed
    <3> QED BY <1>1, <1>2, <2>1, <3>1, SameJobs, SameMembers
  <2>3. CASE ~IsMember(m)
    <3>1. UNCHANGED members
      BY <1>8, <2>3 DEF HandleUdpHello
    <3> QED BY <1>1, <1>2, <2>1, <3>1, SameJobs, QuietKeeps
  <2> QED BY <2>2, <2>3
<1>9. ASSUME NEW t \in Threads, NEW m, HandleBye(t, m) PROVE Registry' /\ IssuedStays
  <2>1. UNCHANGED <<issued, disk>> /\ m \in DOMAIN idIndex /\ Remove(m) /\ job[t] = NoJob
    BY <1>9 DEF HandleBye
  <2>2. JoinsStay
    <3>1. job[t].pc # "insert"
      BY <2>1 DEF NoJob
    <3>2. CASE IsMember(m)
      <4> DEFINE next == [pc |-> "save"]
      <4>1. job' = [job EXCEPT ![t] = next] /\ next.pc = "save"
        BY <1>9, <3>2 DEF HandleBye
      <4> HIDE DEF next
      <4>2. /\ DOMAIN job' = Threads /\ job'[t] = next
            /\ \A u \in Threads : u # t => job'[u] = job[u]
        BY <4>1 DEF Registry, JobsTyped
      <4> QED BY <3>1, <4>1, <4>2, OtherJob
    <3>3. CASE ~IsMember(m)
      BY <1>9, <3>3, SameJobs DEF HandleBye
    <3> QED BY <3>2, <3>3
  <2> QED BY <1>1, <2>1, <2>2, RemoveLeaves, LeavingKeeps
<1>10. ASSUME NEW m, TcpReg(m) PROVE Registry' /\ IssuedStays
  <2>1. UNCHANGED <<rooms, idIndex, issued, restored, job, disk>>
    BY <1>10 DEF TcpReg
  <2>2. CASE IsMember(m)
    <3>1. Touched
      BY <1>10, <2>2, FreshTouches DEF TcpReg, Refreshed
    <3> QED BY <1>1, <1>2, <2>1, <3>1, SameJobs, SameMembers
  <2>3. CASE ~IsMember(m)
    <3>1. UNCHANGED members
      BY <1>10, <2>3 DEF TcpReg
    <3> QED BY <1>1, <1>2, <2>1, <3>1, SameJobs, QuietKeeps
  <2> QED BY <2>2, <2>3
<1>11. ASSUME NEW m, TcpEnds(m) \/ Expire(m) PROVE Registry' /\ IssuedStays
  <2>1. UNCHANGED <<rooms, members, idIndex, issued, restored, job, disk>>
    BY <1>11 DEF TcpEnds, Expire
  <2> QED BY <1>1, <1>2, <2>1, SameJobs, QuietKeeps
<1>12. ASSUME NEW m, Age(m) PROVE Registry' /\ IssuedStays
  <2>1. UNCHANGED <<rooms, idIndex, issued, restored, job, disk>>
    BY <1>12 DEF Age
  <2>2. Touched
    BY <1>12, FreshTouches DEF Age
  <2> QED BY <1>1, <1>2, <2>1, <2>2, SameJobs, SameMembers
<1>13. ASSUME NEW m, RemoveStale(m) PROVE Registry' /\ IssuedStays
  <2>1. UNCHANGED <<issued, job, disk>>
    BY <1>13 DEF RemoveStale
  <2>2. CASE m \in DOMAIN idIndex
    BY <1>1, <1>13, <2>1, <2>2, SameJobs, RemoveLeaves, LeavingKeeps DEF RemoveStale
  <2>3. CASE m \notin DOMAIN idIndex
    <3>1. UNCHANGED <<rooms, members, idIndex, restored>>
      BY <1>13, <2>3 DEF RemoveStale
    <3> QED BY <1>1, <1>2, <2>1, <3>1, SameJobs, QuietKeeps
  <2> QED BY <2>2, <2>3
<1>14. CASE Scan
  <2>1. UNCHANGED <<rooms, members, idIndex, issued, restored, job, disk>>
    BY <1>14 DEF Scan
  <2> QED BY <1>1, <1>2, <2>1, SameJobs, QuietKeeps
<1>15. CASE SaveByCleaner
  <2>1. /\ UNCHANGED <<rooms, members, idIndex, issued, restored, job>>
        /\ disk' = Snapshot
    BY <1>15 DEF SaveByCleaner
  <2> QED BY <1>1, <2>1, SameJobs, DiskSaved, QuietKeeps
<1>16. CASE Restart
  BY <1>1, <1>16, RestartKeeps DEF Restart
<1> QED
  BY <1>3, <1>4, <1>5, <1>6, <1>7, <1>8, <1>9, <1>10, <1>11, <1>12, <1>13, <1>14, <1>15, <1>16
  DEF Next

\* The same of what goes with the registry.
LEMMA AroundSteps ==
  ASSUME Registry, Around, [Next]_vars, IssuedStays
  PROVE  Around'
<1> USE DEF mappings, background, registry, Around, OpenIsMapped, Message
<1>1. messages' = messages \/ (messages' = messages + 1 /\ messages < MaxMessages)
      => messages' \in 0 .. MaxMessages
  BY ServerAssumption
<1>2. issued \subseteq issued'
  BY DEF IssuedStays
<1>3. \A m \in DOMAIN idIndex : m \in issued
  BY DEF Registry, IdsTyped
<1>4. CASE UNCHANGED vars
  BY <1>4 DEF vars
<1>5. ASSUME NEW t \in Threads, JoinCheck(t) PROVE Around'
  BY <1>1, <1>5 DEF JoinCheck
<1>6. ASSUME NEW t \in Threads, JoinInsert(t) PROVE Around'
  <2>1. PICK me, gone : /\ connected' = connected \ (gone \cup {me})
                        /\ mapped' = mapped \ (gone \cup {me})
                        /\ udp' = udp \ (gone \cup {me})
    BY <1>6, InsertEnters
  <2>2. UNCHANGED <<timed, stale, cleaner, restored, messages>>
    BY <1>6 DEF JoinInsert
  <2> QED BY <1>2, <2>1, <2>2
<1>7. ASSUME NEW t \in Threads, SaveByHandler(t) PROVE Around'
  BY <1>7 DEF SaveByHandler
<1>8. ASSUME NEW t \in Threads, NEW m \in Ids, HandleHb(t, m) PROVE Around'
  BY <1>1, <1>8 DEF HandleHb
<1>9. ASSUME NEW t \in Threads, NEW m \in Ids, HandleUdpHello(t, m) PROVE Around'
  BY <1>1, <1>9 DEF HandleUdpHello
<1>10. ASSUME NEW m, Remove(m), issued' = issued
       PROVE  /\ mapped' \cup connected' \cup timed' \cup udp' \subseteq issued'
              /\ connected' \subseteq mapped'
              /\ restored' \subseteq Rooms
  BY <1>10 DEF Remove
<1>11. ASSUME NEW t \in Threads, NEW m \in Ids, HandleBye(t, m) PROVE Around'
  <2>1. Remove(m) /\ Message /\ UNCHANGED <<issued, stale, cleaner>>
    BY <1>11 DEF HandleBye
  <2>2. messages' \in 0 .. MaxMessages
    BY <1>1, <2>1
  <2> QED BY <1>10, <2>1, <2>2
<1>12. ASSUME NEW m \in Ids, TcpReg(m) PROVE Around'
  BY <1>1, <1>12 DEF TcpReg
<1>13. ASSUME NEW m \in Ids, TcpEnds(m) PROVE Around'
  BY <1>13 DEF TcpEnds
<1>14. ASSUME NEW m \in Ids, Expire(m) PROVE Around'
  BY <1>14 DEF Expire
<1>15. ASSUME NEW m \in Ids, Age(m) PROVE Around'
  BY <1>15 DEF Age
<1>16. ASSUME NEW m \in Ids, RemoveStale(m) PROVE Around'
  <2>1. stale' = stale \ {m} /\ UNCHANGED <<issued, messages>>
    BY <1>16 DEF RemoveStale
  <2>2. CASE m \in DOMAIN idIndex
    <3>1. Remove(m) /\ cleaner' \in {"idle", "save"}
      BY <1>16, <2>2 DEF RemoveStale
    <3>2. /\ mapped' \cup connected' \cup timed' \cup udp' \subseteq issued'
          /\ connected' \subseteq mapped'
          /\ restored' \subseteq Rooms
      BY <1>10, <2>1, <3>1
    <3>3. stale' \subseteq issued' /\ messages' \in 0 .. MaxMessages
      BY <2>1
    <3> QED BY <3>1, <3>2, <3>3
  <2>3. CASE m \notin DOMAIN idIndex
    BY <1>16, <2>1, <2>3 DEF RemoveStale
  <2> QED BY <2>2, <2>3
<1>17. CASE Scan
  BY <1>3, <1>17 DEF Scan
<1>18. CASE SaveByCleaner
  BY <1>18 DEF SaveByCleaner
<1>19. CASE Restart
  BY <1>1, <1>19, RestartKeeps DEF Restart
<1> QED
  BY <1>4, <1>5, <1>6, <1>7, <1>8, <1>9, <1>11, <1>12, <1>13, <1>14, <1>15, <1>16, <1>17, <1>18,
     <1>19 DEF Next

-----------------------------------------------------------------------------
(* What follows.                                                           *)

\* The registry and what goes with it are as described, always.
THEOREM ServerInvariance == Spec => [](Registry /\ Around)
<1>1. Init => Registry /\ Around
  BY RegistryInit
<1>2. Registry /\ Around /\ [Next]_vars => Registry' /\ Around'
  BY RegistrySteps, AroundSteps
<1> QED BY <1>1, <1>2, PTL DEF Spec

\* Type correctness: rooms have dicts of their own, and every id anywhere has been
\* issued.
THEOREM ServerTypeCorrect == Spec => []TypeOK
<1>1. Registry /\ Around => TypeOK
  <2> SUFFICES ASSUME Registry, Around PROVE TypeOK
    OBVIOUS
  <2> USE DEF Registry
  <2>1. /\ DOMAIN rooms \subseteq Rooms
        /\ \A r \in DOMAIN rooms : rooms[r] \in [table : Tables, pwd : Passwords]
        /\ \A r, q \in DOMAIN rooms : rooms[r].table = rooms[q].table => r = q
    BY DEF RoomsTyped, RoomType
  <2>2. /\ DOMAIN members = Tables
        /\ \A h \in Tables : \A m \in DOMAIN members[h] :
             members[h][m] \in [did : Dids \cup {NoDid}, key : Passwords, fresh : BOOLEAN]
    BY DEF MembersTyped, MemberType, Devices
  <2>3. /\ issued \subseteq Ids
        /\ \A m \in DOMAIN idIndex : m \in issued /\ idIndex[m] \in Rooms
        /\ \A h \in Tables : DOMAIN members[h] \subseteq issued
    BY DEF IdsTyped
  <2>4. \A t \in Threads : job[t].pc \in {"idle", "insert", "save"}
    BY DEF JobsTyped
  <2> HIDE DEF Registry
  <2> QED BY <2>1, <2>2, <2>3, <2>4 DEF TypeOK, Around
<1> QED BY <1>1, ServerInvariance, PTL

\* Nobody is in a room without its password, although the room may go and come
\* again, with another one, between the check and the entry.
THEOREM PasswordsHold == Spec => []PasswordRespected
<1>1. Registry => PasswordRespected
  BY DEF Registry
<1> QED BY <1>1, ServerInvariance, PTL

\* A device is one member of its room, whichever receive loops its joins run in: the
\* later entry in a dict removes the device's other ids from it.
THEOREM DevicesAppearOnce == Spec => []OneIdPerDevice
<1>1. Registry => OneIdPerDevice
  BY DEF Registry, RoomsTyped, RoomType, EachOnce, Single, OneIdPerDevice, MembersOf
<1> QED BY <1>1, ServerInvariance, PTL

\* A room without members is one a join is about to enter, or came from the file.
THEOREM NoDeadRooms == Spec => []RoomsHaveMembers
<1>1. Registry => RoomsHaveMembers
  <2> SUFFICES ASSUME Registry, NEW r \in DOMAIN rooms \ restored, MembersOf(r) = Empty
               PROVE  \E t \in Threads : job[t].pc = "insert" /\ job[t].room = r
    BY DEF RoomsHaveMembers
  <2>1. DOMAIN MembersOf(r) = {}
    BY DEF Empty
  <2> QED BY <2>1 DEF Registry, RoomsAwait, Inserting
<1> QED BY <1>1, ServerInvariance, PTL

\* The mapping of an open mapping connection is there for punch_go.
THEOREM OpenStaysMapped == Spec => []OpenIsMapped
<1>1. Around => OpenIsMapped
  BY DEF Around
<1> QED BY <1>1, ServerInvariance, PTL
=============================================================================
