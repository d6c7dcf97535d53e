----------------------------- MODULE Discovery ------------------------------
(***************************************************************************)
(* Discovery on a local network, dpmp/link/discovery.py: every device      *)
(* keeps a table of the nodes it has heard of, by address, and removes the *)
(* other entries of a device it hears of by its device id.  Devices start  *)
(* and stop, say goodbye, broadcast, scan, add nodes by hand and get new   *)
(* addresses; datagrams are lost and overtake each other.                  *)
(*                                                                         *)
(* A handler holds the lock for its change of the table; what it sends     *)
(* depends on the datagram only, so that a handler is one step.  An        *)
(* OSError of its socket, at reading or at answering - a stop() in between *)
(* closes it, a network may be unreachable -, ends the listener, which     *)
(* only a later start() replaces.  A device's own broadcasts, which it     *)
(* disregards, are left out, and so are the IPv6 listener and heartbeats:  *)
(* nobody broadcasts by IPv6 or sends the first heartbeat.                 *)
(***************************************************************************)
EXTENDS Naturals, FiniteSets

CONSTANTS Devices,
          IPs,        \* addresses
          Ids, NoId,  \* device ids; NoId is "", and the id of a manual entry
          Id,         \* Id[d]: device_id
          Home,       \* Home[d]: its address at first, which my_ips keeps
          Absent,     \* no entry
          Speakers,   \* the devices pausing_network does not silence for ever
          MaxStarts,  \* bound: calls of start()
          MaxMoves,   \* bound: changes of an address
          MaxErrors,  \* bound: errors of a listener's socket
          MaxNet      \* bound: datagrams under way when one is sent unasked

ASSUME DiscoveryAssumption ==
  /\ NoId \notin Ids /\ Absent \notin Ids \cup {NoId}
  /\ Id \in [Devices -> Ids \cup {NoId}]
  /\ \A d, e \in Devices : d # e /\ Id[d] = Id[e] => Id[d] = NoId
  /\ Home \in [Devices -> IPs]
  /\ Speakers \subseteq Devices
  /\ MaxStarts \in Nat /\ MaxMoves \in Nat /\ MaxErrors \in Nat /\ MaxNet \in Nat

VARIABLES
  running,  \* running
  listening, \* the listener of the discovery port reads
  scanning, \* the listener of the scan port reads
  starts,   \* calls of start() so far
  moves,    \* changes of an address so far
  errors,   \* errors of a listener's socket so far
  ip,       \* the address a device has
  nodes,    \* nodes: by address, the device id of the entry, or Absent
  lan       \* datagrams under way

hostVars == <<running, listening, scanning, starts, moves, errors, ip>>
lanVars == <<hostVars, nodes, lan>>

\* What is received on the discovery port - a request, a reply, a goodbye - and
\* on the scan port, where requests and answers look the same.
Kinds == {"discovery", "reply", "bye", "scan_reply"}
Datagram == [to : Devices, from : IPs, did : Ids \cup {NoId}, kind : Kinds]

LanInit == /\ running = [d \in Devices |-> FALSE]
           /\ listening = running /\ scanning = running
           /\ starts = 0 /\ moves = 0 /\ errors = 0
           /\ ip = Home
           /\ nodes = [d \in Devices |-> [a \in IPs |-> Absent]]
           /\ lan = {}

-----------------------------------------------------------------------------
\* _build_msg: from the address the sender has now.
Msg(d, to, kind) == [to |-> to, from |-> ip[d], did |-> Id[d], kind |-> kind]

\* To 255.255.255.255.
Broadcast(d, kind) == {Msg(d, e, kind) : e \in Devices \ {d}}

\* To an address: to the device that has it.
SendTo(d, a, kind) == {Msg(d, e, kind) : e \in {e \in Devices \ {d} : ip[e] = a}}

\* What a device sends unasked.
Sends(ms) == /\ lan' = lan \cup ms
             /\ Cardinality(lan') <= MaxNet

\* Mutant: what the device is known by elsewhere stays.
UpsertedOnly(table, a, did) == [table EXCEPT ![a] = did]

\* The table after _upsert_node(a, msg).
Upserted(table, a, did) ==
  [x \in IPs |-> IF x = a THEN did
                 ELSE IF did # NoId /\ table[x] = did THEN Absent ELSE table[x]]

\* start(), of a device that is stopped: a port that is taken is a listener that ends
\* at once (ListenFails).
StartDiscovery(d) == /\ ~running[d] /\ starts < MaxStarts
                     /\ running' = [running EXCEPT ![d] = TRUE]
                     /\ listening' = [listening EXCEPT ![d] = TRUE]
                     /\ scanning' = [scanning EXCEPT ![d] = TRUE]
                     /\ starts' = starts + 1
                     /\ UNCHANGED <<moves, errors, ip, nodes, lan>>

\* stop(): the sockets are closed, and _send_bye.
StopDiscovery(d) == /\ running[d]
                    /\ running' = [running EXCEPT ![d] = FALSE]
                    /\ listening' = [listening EXCEPT ![d] = FALSE]
                    /\ scanning' = [scanning EXCEPT ![d] = FALSE]
                    /\ Sends(Broadcast(d, "bye"))
                    /\ UNCHANGED <<starts, moves, errors, ip, nodes>>

\* _udp_broadcaster_on_sock: one round, when pausing_network, which the application
\* sets as it likes, permits it.
Broadcaster(d) == /\ running[d]
                  /\ Sends(Broadcast(d, "discovery"))
                  /\ UNCHANGED <<hostVars, nodes>>

\* broadcast_search, at any time.
BroadcastSearch(d) == /\ Sends(Broadcast(d, "discovery"))
                      /\ UNCHANGED <<hostVars, nodes>>

\* scan_subnet: everybody, while running.
ScanSubnet(d) == /\ running[d]
                 /\ Sends(Broadcast(d, "scan_reply"))
                 /\ UNCHANGED <<hostVars, nodes>>

\* add_manual_node: the entry is made anew, without an id, and a probe is sent to
\* both ports; to the discovery port it is a message without a flag.
AddManualNode(d, a) ==
  /\ nodes' = [nodes EXCEPT ![d][a] = NoId]
  /\ Sends(SendTo(d, a, "discovery") \cup SendTo(d, a, "scan_reply"))
  /\ UNCHANGED hostVars

-----------------------------------------------------------------------------
\* A listener of d reads m, which is neither from an address d had at its start nor
\* from its own id.
Hears(d, m) == /\ m \in lan /\ m.to = d
               /\ m.from # Home[d] /\ (m.did = NoId \/ m.did # Id[d])

Register(d, m) == nodes' = [nodes EXCEPT ![d] = Upserted(@, m.from, m.did)]

\* Mutant: a reply is not sent.
NoReply(d, m) == {}

\* A request is answered, a reply is not.
Reply(d, m) == IF m.kind # "reply" THEN SendTo(d, m.from, "reply") ELSE {}

\* listen_sock: a request or a reply.
OnDiscovery(d, m) ==
  /\ listening[d] /\ Hears(d, m) /\ m.kind \in {"discovery", "reply"}
  /\ Register(d, m)
  /\ lan' = (lan \ {m}) \cup Reply(d, m)
  /\ UNCHANGED hostVars

\* An OSError ends the listener of the discovery port, or that of the scan port.
EndListening(d) == /\ errors < MaxErrors /\ errors' = errors + 1
                   /\ listening' = [listening EXCEPT ![d] = FALSE]
                   /\ UNCHANGED <<running, scanning, starts, moves, ip>>

EndScanning(d) == /\ errors < MaxErrors /\ errors' = errors + 1
                  /\ scanning' = [scanning EXCEPT ![d] = FALSE]
                  /\ UNCHANGED <<running, listening, starts, moves, ip>>

\* listen_sock: the request is registered, but to answer it fails.
AnswerFails(d, m) == /\ listening[d] /\ Hears(d, m) /\ m.kind = "discovery"
                     /\ Register(d, m)
                     /\ lan' = lan \ {m}
                     /\ EndListening(d)

\* listen_sock: a goodbye takes the entry of the address it came from.
OnBye(d, m) ==
  /\ listening[d] /\ Hears(d, m) /\ m.kind = "bye"
  /\ nodes' = [nodes EXCEPT ![d][m.from] = Absent]
  /\ lan' = lan \ {m}
  /\ UNCHANGED hostVars

\* _scan_listener: everything is answered, an answer too, and then registered.
OnScan(d, m) ==
  /\ scanning[d] /\ Hears(d, m) /\ m.kind = "scan_reply"
  /\ Register(d, m)
  /\ lan' = (lan \ {m}) \cup SendTo(d, m.from, "scan_reply")
  /\ UNCHANGED hostVars

\* _scan_listener: to answer fails, and nothing is registered.
ScanAnswerFails(d, m) == /\ scanning[d] /\ Hears(d, m) /\ m.kind = "scan_reply"
                         /\ lan' = lan \ {m}
                         /\ UNCHANGED nodes
                         /\ EndScanning(d)

\* Either listener: to read fails.
ListenFails(d) == /\ \/ listening[d] /\ EndListening(d)
                     \/ scanning[d] /\ EndScanning(d)
                  /\ UNCHANGED <<nodes, lan>>

\* A datagram is lost, or its receiver disregards it.
Lose(m) == /\ m \in lan
           /\ lan' = lan \ {m}
           /\ UNCHANGED <<hostVars, nodes>>

\* A device gets another address.
Move(d, a) == /\ moves < MaxMoves /\ \A e \in Devices : ip[e] # a
              /\ moves' = moves + 1 /\ ip' = [ip EXCEPT ![d] = a]
              /\ UNCHANGED <<running, listening, scanning, starts, errors, nodes, lan>>

LanNext == \/ \E d \in Devices : \/ StartDiscovery(d) \/ StopDiscovery(d) \/ Broadcaster(d)
                                 \/ BroadcastSearch(d) \/ ScanSubnet(d)
                                 \/ \E a \in IPs : AddManualNode(d, a) \/ Move(d, a)
                                 \/ ListenFails(d)
                                 \/ \E m \in lan : \/ OnDiscovery(d, m) \/ AnswerFails(d, m)
                                                   \/ OnBye(d, m)
                                                   \/ OnScan(d, m) \/ ScanAnswerFails(d, m)
           \/ \E m \in lan : Lose(m)

LanSpec == LanInit /\ [][LanNext]_lanVars

\* A listener takes a datagram of the given kind that came from where e is now.
Delivered(d, e, kind) ==
  \E m \in lan : m.from = ip[e] /\ m.kind = kind /\ OnDiscovery(d, m)

Leaves == \E m \in lan : Lose(m) \/ \E d \in Devices : OnScan(d, m) \/ OnBye(d, m)

\* The broadcasters run - strongly fair, as MaxNet may stop them for a while -,
\* nothing is under way for ever, and what is sent again and again arrives.
FairSpec ==
  /\ LanSpec
  /\ WF_lanVars(Leaves)
  /\ \A d \in Speakers : SF_lanVars(Broadcaster(d))
  /\ \A d \in Speakers, e \in Devices :
       d # e => SF_lanVars(Delivered(e, d, "discovery")) /\ SF_lanVars(Delivered(d, e, "reply"))

-----------------------------------------------------------------------------
\* The type of the state.
LanTypeOK == /\ running \in [Devices -> BOOLEAN]
             /\ listening \in [Devices -> BOOLEAN] /\ scanning \in [Devices -> BOOLEAN]
             /\ starts \in Nat /\ moves \in Nat /\ errors \in Nat
             /\ ip \in [Devices -> IPs]
             /\ nodes \in [Devices -> [IPs -> Ids \cup {NoId, Absent}]]
             /\ lan \subseteq Datagram

\* A device is listed at one address, whatever order its datagrams of former and
\* present addresses arrive in, and through which listener (discovery.py:4).
OnePerDevice == \A d \in Devices : \A a, b \in IPs :
                  nodes[d][a] = nodes[d][b] /\ nodes[d][a] \in Ids => a = b

Knows(d, e) == nodes[d][ip[e]] = Id[e]

\* One of two running devices broadcasts: each finds the other, at the address it
\* has, although the other is silent, datagrams of both are lost, late ones of
\* former addresses and runs say otherwise, and listeners of the scan port and of
\* former runs have ended (discovery.py:4-5, 249-260) - unless an error ends one of
\* their discovery listeners, which makes its device deaf (263), or one has got the
\* address the other started with, which the other takes for its own (63, 226).
BothFind == \A d \in Speakers, e \in Devices :
  d # e /\ <>[](/\ running[d] /\ listening[d] /\ listening[e]
                /\ ip[d] # Home[e] /\ ip[e] # Home[d])
    => []<>Knows(d, e) /\ []<>Knows(e, d)
=============================================================================
