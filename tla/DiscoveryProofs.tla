-------------------------- MODULE DiscoveryProofs ---------------------------
(***************************************************************************)
(* Discovery on a local network, proved for any number of devices and      *)
(* addresses: no table lists a device twice.  The invariant is inductive;  *)
(* it rests on what _upsert_node makes of a table (Upserted).              *)
(***************************************************************************)
EXTENDS Discovery, TLAPS

Entries == Ids \cup {NoId, Absent}

\* No id twice in a table.
Distinct(table) == \A a, b \in IPs : table[a] = table[b] /\ table[a] \in Ids => a = b

\* _upsert_node makes a table of a table.
LEMMA UpsertType ==
  ASSUME NEW table \in [IPs -> Entries], NEW a, NEW did \in Ids \cup {NoId}
  PROVE  Upserted(table, a, did) \in [IPs -> Entries]
BY DEF Upserted, Entries

\* It keeps the ids of a table distinct.
LEMMA UpsertDistinct ==
  ASSUME NEW table \in [IPs -> Entries], Distinct(table),
         NEW a \in IPs, NEW did \in Ids \cup {NoId}
  PROVE  Distinct(Upserted(table, a, did))
BY DiscoveryAssumption DEF Upserted, Distinct, Entries

\* To take an entry away, or to make one without an id, keeps them distinct.
LEMMA ReplacedDistinct ==
  ASSUME NEW table \in [IPs -> Entries], Distinct(table),
         NEW a \in IPs, NEW entry \in {NoId, Absent}
  PROVE  Distinct([table EXCEPT ![a] = entry])
BY DiscoveryAssumption DEF Distinct, Entries

\* What is sent is a datagram, from where its sender is.
LEMMA SentIsDatagram ==
  ASSUME LanTypeOK, NEW d \in Devices, NEW kind \in Kinds
  PROVE  /\ Broadcast(d, kind) \subseteq Datagram
         /\ \A a : SendTo(d, a, kind) \subseteq Datagram
<1>1. ip[d] \in IPs /\ Id[d] \in Ids \cup {NoId}
  BY DiscoveryAssumption DEF LanTypeOK
<1>2. \A e \in Devices : Msg(d, e, kind) \in Datagram
  BY <1>1 DEF Msg, Datagram
<1> QED BY <1>2 DEF Broadcast, SendTo

\* The type invariant holds at the start and every step keeps it.
THEOREM DiscoveryTypes == LanSpec => []LanTypeOK
<1>1. LanInit => LanTypeOK
  BY DiscoveryAssumption DEF LanInit, LanTypeOK
<1>2. LanTypeOK /\ [LanNext]_lanVars => LanTypeOK'
  <2> SUFFICES ASSUME LanTypeOK, [LanNext]_lanVars PROVE LanTypeOK'
    OBVIOUS
  <2> USE DEF LanTypeOK, hostVars
  <2>1. ASSUME NEW d \in Devices, StartDiscovery(d) PROVE LanTypeOK'
    BY <2>1 DEF StartDiscovery
  <2>2. ASSUME NEW d \in Devices, StopDiscovery(d) PROVE LanTypeOK'
    BY <2>2, SentIsDatagram DEF StopDiscovery, Sends, Kinds
  <2>3. ASSUME NEW d \in Devices, Broadcaster(d) \/ BroadcastSearch(d) \/ ScanSubnet(d)
        PROVE  LanTypeOK'
    BY <2>3, SentIsDatagram DEF Broadcaster, BroadcastSearch, ScanSubnet, Sends, Kinds
  <2>4. ASSUME NEW d \in Devices, NEW a \in IPs, AddManualNode(d, a) PROVE LanTypeOK'
    BY <2>4, SentIsDatagram DEF AddManualNode, Sends, Kinds
  <2>5. ASSUME NEW d \in Devices, NEW a \in IPs, Move(d, a) PROVE LanTypeOK'
    BY <2>5 DEF Move
  <2>6. ASSUME NEW d \in Devices, NEW m \in lan,
               OnDiscovery(d, m) \/ AnswerFails(d, m) \/ OnScan(d, m)
        PROVE  LanTypeOK'
    <3>1. m.from \in IPs /\ m.did \in Ids \cup {NoId}
      BY DEF Datagram
    <3>2. nodes' \in [Devices -> [IPs -> Ids \cup {NoId, Absent}]]
      <4>1. nodes[d] \in [IPs -> Entries]
        BY DEF Entries
      <4>2. Upserted(nodes[d], m.from, m.did) \in [IPs -> Entries]
        BY <3>1, <4>1, UpsertType
      <4>3. nodes' = [nodes EXCEPT ![d] = Upserted(nodes[d], m.from, m.did)]
        BY <2>6 DEF OnDiscovery, AnswerFails, OnScan, Register
      <4> QED BY <4>2, <4>3 DEF Entries
    <3>3. lan' \subseteq Datagram
      BY <2>6, SentIsDatagram DEF OnDiscovery, AnswerFails, OnScan, Reply, Kinds
    <3>4. /\ listening' \in [Devices -> BOOLEAN]
          /\ errors' \in Nat
          /\ UNCHANGED <<running, scanning, starts, moves, ip>>
      <4>1. CASE AnswerFails(d, m)
        BY <4>1 DEF AnswerFails, EndListening
      <4>2. CASE OnDiscovery(d, m) \/ OnScan(d, m)
        BY <4>2 DEF OnDiscovery, OnScan
      <4> QED BY <2>6, <4>1, <4>2
    <3> QED BY <3>2, <3>3, <3>4
  <2>7. ASSUME NEW d \in Devices, NEW m \in lan, OnBye(d, m) PROVE LanTypeOK'
    BY <2>7 DEF OnBye, Datagram
  <2>8. ASSUME NEW m \in lan, Lose(m) PROVE LanTypeOK'
    BY <2>8 DEF Lose
  <2>9. ASSUME NEW d \in Devices,
               ListenFails(d) \/ \E m \in lan : ScanAnswerFails(d, m)
        PROVE  LanTypeOK'
    <3>1. /\ lan' \subseteq lan
          /\ EndListening(d) \/ EndScanning(d)
          /\ UNCHANGED nodes
      BY <2>9 DEF ListenFails, ScanAnswerFails
    <3>2. CASE EndListening(d)
      BY <3>1, <3>2 DEF EndListening
    <3>3. CASE EndScanning(d)
      BY <3>1, <3>3 DEF EndScanning
    <3> QED BY <3>1, <3>2, <3>3
  <2>10. CASE UNCHANGED lanVars
    BY <2>10 DEF lanVars
  <2> QED BY <2>1, <2>2, <2>3, <2>4, <2>5, <2>6, <2>7, <2>8, <2>9, <2>10 DEF LanNext
<1> QED BY <1>1, <1>2, PTL DEF LanSpec

\* A device is listed once, by every device that lists it.
THEOREM DiscoveryOnePerDevice == LanSpec => []OnePerDevice
<1> DEFINE Inv == \A d \in Devices : Distinct(nodes[d])
<1>1. LanInit => Inv
  BY DiscoveryAssumption DEF LanInit, Distinct
<1>2. LanTypeOK /\ Inv /\ [LanNext]_lanVars => Inv'
  <2> SUFFICES ASSUME LanTypeOK, Inv, [LanNext]_lanVars PROVE Inv'
    OBVIOUS
  <2>0. \A d \in Devices : nodes[d] \in [IPs -> Entries]
    BY DEF LanTypeOK, Entries
  <2>1. CASE UNCHANGED nodes
    BY <2>1
  <2>2. ASSUME NEW d \in Devices, NEW a \in IPs, AddManualNode(d, a) PROVE Inv'
    <3>1. nodes' = [nodes EXCEPT ![d] = [nodes[d] EXCEPT ![a] = NoId]]
      BY <2>2 DEF AddManualNode
    <3>2. Distinct([nodes[d] EXCEPT ![a] = NoId])
      BY <2>0, ReplacedDistinct
    <3> QED BY <3>1, <3>2 DEF LanTypeOK
  <2>3. ASSUME NEW d \in Devices, NEW m \in lan,
               OnDiscovery(d, m) \/ AnswerFails(d, m) \/ OnScan(d, m)
        PROVE  Inv'
    <3>1. m.from \in IPs /\ m.did \in Ids \cup {NoId}
      BY DEF LanTypeOK, Datagram
    <3>2. nodes' = [nodes EXCEPT ![d] = Upserted(nodes[d], m.from, m.did)]
      BY <2>3 DEF OnDiscovery, AnswerFails, OnScan, Register
    <3>3. Distinct(Upserted(nodes[d], m.from, m.did))
      BY <2>0, <3>1, UpsertDistinct
    <3> QED BY <3>2, <3>3 DEF LanTypeOK
  <2>4. ASSUME NEW d \in Devices, NEW m \in lan, OnBye(d, m) PROVE Inv'
    <3>1. m.from \in IPs
      BY DEF LanTypeOK, Datagram
    <3>2. nodes' = [nodes EXCEPT ![d] = [nodes[d] EXCEPT ![m.from] = Absent]]
      BY <2>4 DEF OnBye
    <3>3. Distinct([nodes[d] EXCEPT ![m.from] = Absent])
      BY <2>0, <3>1, ReplacedDistinct
    <3> QED BY <3>2, <3>3 DEF LanTypeOK
  <2>5. CASE UNCHANGED lanVars
    BY <2>1, <2>5 DEF lanVars
  <2> QED
    BY <2>1, <2>2, <2>3, <2>4, <2>5
    DEF LanNext, StartDiscovery, StopDiscovery, Broadcaster, BroadcastSearch, ScanSubnet,
        ScanAnswerFails, ListenFails, Move, Lose
<1>3. Inv => OnePerDevice
  BY DEF Distinct, OnePerDevice
<1> QED BY <1>1, <1>2, <1>3, DiscoveryTypes, PTL DEF LanSpec

=============================================================================
