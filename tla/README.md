# A TLA+ model of DPMP

DPMP (`src/dpmp`, Python) connects the members of a room directly: a signalling
server introduces them, their NATs are traversed over TCP and UDP, and each pair
then keeps one TCP connection and one reliable UDP channel (UDP-RTP) alive. This
directory models the parts of it that keep state, checks them with TLC on small
instances, and proves their safety with TLAPS, for instances of any size.

Line numbers below are those of the Python sources. `PROJECT.json` gives, for
every definition, the lines it stands for (`map`), the hazards of the code
(`hazards`), and for every property a plausible bug that breaks it (`mutants`).

## 1. The system

| part | source | state it keeps | operations |
|---|---|---|---|
| UDP-RTP socket | `dpmp/link/rtp.py` | send queue, window, sequence numbers, reorder buffer, receive buffer, closed flags; SYNC and round state | `sendall`, `recv`, `close`, `on_packet` (DATA, ACK, FIN, SYNC*, PUNCH_*), `_rtx_loop`, keepalive and dead-peer loop |
| Keepalive scheduler | `dpmp/link/path.py:19-73` | interval, two bounds, counters, stable flag | `on_success`, `on_failure` |
| Path scheduler of a peer | `dpmp/link/path.py:97-180` | path id -> role and scheduler | `register`, `remove`, `regrade`, `promote_on_hot_failure` |
| Connection manager | `dpmp/link/manager.py` | members, the TCP `Conn` and the UDP-RTP channel of each peer, path schedulers, punch tasks, due times, agreed rounds | member and punch events from signalling, hole and RTP events from the receive loop, inbound connections, punch tasks, keepalive loop, stop, network change |
| TCP hole puncher | `dpmp/link/puncher.py` | the result slot of one punch | candidate threads, simultaneous connect and accept |
| Signalling client | `dpmp/link/signaling.py` | sockets, identity, handler tables, the flags its threads look at | start and join with retries, failover, stop, rebind; receive loop, heartbeat, hole socket's loop, mapping connection; hole probes |
| Signalling server | `server/信令服务器.py` | rooms, passwords, id index, mappings, timers; the state file | `handle_join`, `handle_hb`, `handle_udp_hello`, `handle_bye`, `handle_punch_req`, `_handle_tcp_reg`, `cleanup_loop`, `save_state`, `load_state` |
| LAN discovery | `dpmp/link/discovery.py` | nodes by address, own addresses, whether it runs | start, stop, broadcasts and goodbyes, scans, entries by hand, two listeners; no entry expires |
| NAT probe, codec, addresses, config, channel wrapper, utilities | `dpmp/link/natprobe.py`, `dpmp/protocol/`, `dpmp/config.py`, `dpmp/stream/channel.py`, `dpmp/util/net.py` | none that outlives a call | pure functions and I/O |
| Kotlin port | `kotlin/` | as above | a second implementation of the same protocol |

How they interact. The signalling client's threads call the manager's handlers
(`on_joined`, `on_member_join`, `on_member_leave`, `on_punch_go`); the hole
socket's receive loop dispatches each datagram either to the `on_packet` of the
peer's `UdpReliableSocket`, through a handler table the manager fills, or, for a
peer without a handler, to `on_udp_hole_ready`. RTP calls back into the manager
(TCP ready, SYNC ready, PUNCH_FAIL, peer dead). Every manager thread works on the
same tables under `self.lock`, but connects, closes and probes outside it. The
server's handlers, its cleanup thread and its mapping connections share the
registry under `state_lock`, and send and save outside it. Discovery is by itself: it
knows devices by datagrams on the local network, and tells the application.

What is hard about it, and what makes each part correct:

* **UDP-RTP** - loss, duplication and reordering; a sender, a retransmission
  thread and the receive loop on one queue; a window that shrinks and grows under
  a waiting sender. *Correct*: the reader gets a prefix of what was written, in
  order and once; all of it in spite of loss; bounded memory; no sender waits for
  ever. Two of these it does not keep (section 5).
* **SYNC** - two clocks, late and repeated answers, copies of a commit. *Correct*:
  both ends punch at one instant, to half a round trip; a commit counts once.
* **Keepalive intervals and paths** - long sequences of registrations, failures and
  removals; a search between two bounds that every probe moves and a change of role
  restarts. *Correct*: one hot and one safe path at most, a hot one when any is alive,
  each path with the schedule of its present role, within the protocol's limits, and no
  outcome of a probe moves it the wrong way.
* **Connection manager** - four kinds of threads install, replace and close the
  same connection. *Correct*: no socket leaks or has two owners, the two ends keep
  the same connection of two, no place of the task limit is lost.
* **Hole puncher** - workers that win, fail or come late in any order. *Correct*: one
  connection survives a punch, few are attempted at a time, everything ends.
* **Signalling server** - handlers in several locked parts, ids that come back,
  timers that outlive what they timed, crashes. *Correct*: nobody in a room
  without its password, a device once per room, no room without members, no mapping
  is lost under an open connection.
* **Signalling client** - candidates tried one after another while late answers are
  under way; threads of a former connection that survive a rebind; a stop in the middle
  of a start. *Correct*: a client that joined works and goes by the id of the server it
  talks to, a stopped one ends its threads.
* **LAN discovery** - datagrams without any order, devices that restart, change their
  address or never broadcast; listeners that an error ends. *Correct*: a device is
  listed once, and two devices that run and listen find each other.

## 2. The modules

### UDP-RTP: `ReliableStream`, `Rtp`, `RtpProofs`, `MCRtp`

`ReliableStream` is what a channel promises: per direction, `sent` grows, and
`got` is a growing prefix of it; its fair version adds that `got` catches up.

`Rtp` is two `UdpReliableSocket`s and the network between them. A payload is its
position in the stream. The network is the set of all packets ever transmitted:
a packet that stays in it can arrive late, twice or in another order, and one that
is never taken is lost. Retransmitting a packet sends the same bytes, so it adds
nothing to the set; what matters about `_rtx_loop` is the *first* transmission it
may make in place of `sendall`, and the window it halves.

| code | action |
|---|---|
| `sendall` 123-127: the call, cut into chunks | `Sendall` |
| 127-135: number, queue, compare with the window (locked) | `Enqueue` |
| 136-139: the polling wait | `Unblock` |
| 140-145: `_send_fn` outside the lock; it raises | `Transmit`; `SendFails` |
| `_rtx_loop` 489-507 | `Rtx`, `RtxExit` |
| `_on_data` 391-407 with the header's acknowledgement | `OnData` (`AckEffect`, `InOrder`, `NotInOrder`) |
| `_on_ack` 409-417, FIN 361-364 | `OnAck`, `OnFin` |
| `recv` 147-181, `close` 332-342 | `Recv`, `RecvEof`, `Close` |

SYNC, which shares only the closed flag with this, is the module `Sync`. Left out:
rounds, keepalive and dead-peer detection of the same class (see the plan), 32-bit wrap of the sequence number, and an end that is rebuilt while
the other lives on. `on_packet` sends the ACK of a packet a moment before it stores
the chunk; `OnData` does both at once, which no other thread can tell apart (its
comment says why).

### SYNC: `Sync`, `SyncProofs`, `MCSync`

The end with the smaller id asks the other for its time, `sync_sample_count` times,
and takes the difference of the clocks from the quickest answer; it then commits
both to an instant at which to punch over TCP. `Sync` is that thread, the receive
loops of both ends and the network (a set of packets, as above). `now` is real time
and the initiator's clock, the responder's is `skew` ahead; `skew` is any integer.
`version` is the protocol version of the responder: one that speaks version 1 gets
the delay instead of the instant. `agreed` and `heard` are the calls of
`on_sync_ready` at the two ends.

| code | action |
|---|---|
| `start_sync` 234-241, under `_sync_lock` | `StartSync` |
| 243-257: one request; closed, or sending fails | `Ask`; `GiveUp` |
| 258: `evt.wait` | `Wake` |
| 259-269: the reply popped, a sample made | `Take` |
| 271-288: the quickest, the instant, the number | `Choose` |
| 286-317: each copy; sending fails; the callback | `SendCommit` |
| `_on_sync_req`, `_on_sync_ack`, `_on_sync_commit` | `OnSyncReq`, `OnSyncAck`, `OnSyncCommit`, `OnSyncDelay` |

A request waits 50 ms after the last one; here that is that two requests never carry
the same time (`now > t1`), which the reply tables rely on. Not here: drift of the
clocks during a measurement, the responder's own `_peer_ver` (it never commits), and
a channel that is rebuilt at one end, whose commit numbers restart.

### Paths and their keepalive intervals: `KeepaliveScheduler`, `PathTable`, `PeerPaths`, `PathProofs`, `MCPeerPaths`

`KeepaliveScheduler` holds `on_success` and `on_failure` as functions on records;
times are whole seconds, as in the code (`int()`, `//`), and the role factors 1, 1.5
and 4 are the integers `DoubleFactor` (2, 3, 8) of the doubling. `PathTable` holds the
role tables that `register`, `remove`, `regrade` and `promote_on_hot_failure` leave
behind; `PeerPaths` runs them with the scheduler of each path; `LinkManager` uses
`PathTable` too.

The outcome of a probe is a choice (`Probed`). The code means the interval to approach
the NAT's timeout (`DPMP_PROTOCOL.md:129`), but a probe sends nothing: `_probe_path`
(`manager.py:939-954`) asks whether the local socket still reads or the RTP channel is
past its dead-peer time, and the due time is the interval times an idle factor
(`:894`), which may exceed the safe cap. No NAT is modelled, because what the code
does has no relation to one; of the scheduler remain its limits and the direction in
which outcomes move it.

### Connection manager: `LinkManager`, `LinkManagerProofs`, `MCLinkManager`

One peer, as one manager sees it, and every thread that works for it. A step is
what a thread does between two acquisitions of the lock, so all interleavings the
lock permits are there; time spent connecting, sleeping, aligning rounds or
waiting for `T_go` is the gap between two steps. The puncher is its outcome (a
socket or none), the peer and the network are the events (`MaxEvents` of them).
`conn` is `connections[peer]`; the identity of the Python object the keepalive
thread tests (`self.connections.get(pid) is conn`) is `watch.holds`. `handler` is
the peer's entry in the signalling client's table, which survives its channel.

| thread | actions |
|---|---|
| signalling | `AddMember`, `MemberLeave`, `PunchGo` |
| hole socket's receive loop | `HoleReady`, `HoleInsert`, `HoleRegister`, `PeerTcpReady`, `SyncReady`, `PeerPunchFail`, `PunchFailPath` |
| listener | `Inbound`, `InboundInstall` |
| `_punch_task`, `_sync_punch_task` | `Enter`, `Round`, `Rewait`, `PunchWins`, `PunchLoses`, `MarkFailed`, `Install`, `RegisterTcp`, `Finish` |
| keepalive loop, dead-peer callback | `Watch`, `WatchAlive`, `WatchDead`, `WatchPathFailure`, `UdpDead`, `UdpPop` |
| application | `Stop`, `NetworkChanged`, `Rebind` |

The choice of a channel to send on is left out: `get_send_channel` (570-608) takes the
path table's lock and the manager's one after the other, several times, and changes
nothing (section 6).

### Hole puncher: `Puncher`, `PuncherProofs`, `MCPuncher`

One call of `punch()` (77-153) and its workers. Which addresses the peer has, which
connections succeed and how long they take are choices; so the barrier, whose
timeout lets everybody pass, needs no state, and `Return` may come at any time after
the workers are started, as `done.wait` and the joins have timeouts too.

| code | action |
|---|---|
| `punch`, 108-110, 145-153 | `NoCandidate`, `OneCandidate`, `StartWorker`, `AllStarted`, `Return` |
| `worker` 120-132 | `Begin`, `Acquire`, `Skip` |
| `_try_connect` 199-258 and the release | `Connect`, `Connected`, `Failed` |
| `worker` 133-143, under `win_lock` | `Race` |

In `LinkManager` the whole punch is its outcome. A winner that comes after `Return`
is nobody's: its socket stays open (section 5).

### Signalling server: `SignalServer`, `SignalServerProofs`, `MCSignalServer`, `StateFile`, `MCStateFile`

`SignalServer` is the registry under `state_lock`: a step is what one thread does
while it holds the lock once, so `handle_join` is two steps (`JoinCheck`,
`JoinInsert`) and the save a third. `rooms[room]` is a reference to a dict object
that a join under way may still hold after the room is gone; the model therefore
names dict objects (`Tables`). `key`, the password a member came with, is a
history the registry does not store. `Restart` is a crash at any moment followed
by `load_state`. Handlers that change nothing in the registry (`handle_punch_req`,
`handle_nat_probe`, `handle_time_req`) have no action, and the addresses a member is
sent to are left out. Either loop takes the messages of any client, since one that has
both address families may use both, and a join may ask for any id the server has given
so far, also one of another room. So a member may be without its entry in `id_index`,
or a device's second join may meet its first in the middle: the invariants hold all
the same, and what does not is in section 5.

`StateFile` is `save_state` as the file system sees it: contents, the names
`path` and `path.tmp`, and each saver's open file and position.

### Signalling client: `SignalClient`, `SignalClientProofs`, `MCSignalClient`

The life of one `SignalingClient` and its threads. `call` is where `start()` is, each
`start()` names the threads it leaves behind, and a loop is `"check"` (about to look
at its flag), `"reading"` the present socket or `"stranded"` in `recvfrom` of one that
was closed. `stop` and `rebind` do not wait for the threads, so a rebind can set
`_running` again before a loop looked at it. A socket has a new port, so what a
server sends to a former one never arrives. The servers answer a join or not.

| code | action |
|---|---|
| `start` 194-241: the candidates, their end | `Start` (by `Begin`), `Failover`, `GiveUp` |
| `_try_connect_one` 243-285: a socket and a join, or none, or an exception | `TryConnectOne`, `NoSocket`, `Raised` |
| `_wait_joined` 622-647: again, an answer, an error, the end, an exception | `Resend`, `WaitJoined`, `Rejected`, `Deadline`, `WaitRaises` |
| `_sync_time` 540-556: what it throws away; 269-274 | `Forget`; `SyncTime` |
| `_open_udp_hole_socket` 364-373; 374-393 | `OpenUdpHoleSocket`; `StartHoleLoop` |
| 277-285 | `StartLoops` |
| `stop` 315-329; 330-339 | `Stop` (by `ClearFlags`); `StopCloses` (by `CloseSockets`) |
| `rebind` 351-359; 360 | `Rebind`; `Restart` |
| `_recv_loop` 649-683 | `RecvLoop`, `RecvMessage` |
| `_hb_loop`, `_open_mapping`, `_udp_global_recv_loop` | `HbLoop`, `OpenMapping`, `HoleLoop` |

A `stop` comes at any moment, also while a `start` waits, measures the clock or starts
its threads (`signaling.py:623` looks for it), and in two parts, the flags and the
sockets; `start` goes on meanwhile. `cut` is history: the last `stop` came so. `start`
and `rebind` are called one at a time, and after a `stop` is over.

### LAN discovery: `Discovery`, `DiscoveryProofs`, `MCDiscovery`

Devices on one network, each with its table `nodes` (by address, the device id of the
entry) and the address it has now; `Home` is the address it started with, which
`my_ips` keeps. A datagram carries its sender's address and id; the set of those under
way loses, delays and reorders them. `listening` and `scanning` say whether the listener
of either port still reads: an OSError ends it, at reading or at answering, for the
answer is sent within the listener's `try` (`discovery.py:259-264`, `:298-309`), and only
the next `start` makes another. The network may be unreachable at any moment, so any
request may be the one whose answer fails.

| code | action |
|---|---|
| `start`, `stop` with its goodbye | `StartDiscovery`, `StopDiscovery` |
| the broadcasters 169-184, `broadcast_search`, `scan_subnet`, `add_manual_node` | `Broadcaster`, `BroadcastSearch`, `ScanSubnet`, `AddManualNode` |
| `_udp_listener` 220-260 | `OnDiscovery`, `OnBye` |
| `_scan_listener` 289-305 | `OnScan` |
| the errors that end them, 249-264 and 298-309 | `AnswerFails`, `ScanAnswerFails`, `ListenFails` |
| `_upsert_node` 108-138 | `Upserted` |

## 3. The runs

| run | instance | distinct states | what it shows |
|---|---|---|---|
| `rtp_safety` | a sends 4 chunks (1 or 2 per call), b sends 1; window 3 at first, between 1 and 3; a may close and its sends may fail | 630,040 | safety over an arbitrary network, refinement of `ReliableStream` |
| `rtp_live` | the same traffic without loss, window 2 at first, between 1 (the default least) and 3 | 21,396 | a sender that waits gets on unless its own packet is alone in a window of one; refinement of the fair stream: everything accepted arrives |
| `rtp_wait` | the same | violated | that sender waits for ever |
| `rtp_loss` | as `rtp_safety`, without close and failing sends | violated | a lost packet leaves the send queue |
| `sync` | clocks 3 behind and 2 ahead, both versions, 2 calls of 2 samples, timeout 1, 2 copies, 3 ticks | 485,902 | the clock difference, the common instant, one punch per commit, the packet format |
| `paths` | 2 TCP and 2 UDP paths, 5 outcomes of probes | 116,126 | roles and schedules agree after any sequence, outcomes move the interval the right way |
| `link` | 3 task threads, 2 sockets, 2 attempts, 5 events | 1,303,311 | sockets, the task limit, the hot path, the preferred connection |
| `puncher` | none to 4 candidates, 2 at a time (the default) | 17,189 | one survivor, everybody ends |
| `server` | 2 rooms, 3 ids, 1 device and anonymous clients, 2 passwords, 2 receive loops, 3 dicts, room size 2, 3 messages | 404,504 | passwords, identities, empty rooms, mappings |
| `client` | 2 servers, failover, 2 starts, one of which may be a rebind's, stops at any moment | 991,180 | a joined client works under the right id, a stopped one ends its threads |
| `discovery` | 2 devices, one without an id and silent, 3 addresses, 3 starts, 1 change of an address, 1 error of a listener, 2 datagrams under way | 525,472 | one entry per device, both find each other |
| `server_file` | 2 savers, texts of one and two blocks | violated | the state file is cut short or mixed |

Why the bounds suffice. *Rtp*: four chunks with a window of at most 3 fill the
window, block the sender, leave gaps of one and two packets in the reorder buffer
and drain runs of two; b's one chunk is what carries an acknowledgement in a DATA
header; the proofs remove the bound for everything but liveness. *Sync*: three ticks let an
answer take none to three ticks each way, come after the timeout of 1 and after the
next request; two calls make two commits whose copies overtake each other; the skews
are odd and even, of both signs (the division rounds down); the proofs hold for any
values. *Paths*: four paths fill hot, safe and two loose places; five outcomes bring one
path past its third failure after two successes, or to its fifth outcome, from which on
the loss rate counts (`path.py:53-56`); the proofs hold for any set and number. *Link*: three threads are one more than the limit of two; two
connections are one per direction, and the properties speak of pairs; five events
are enough for punch, hole, inbound, failure and restart in one behaviour, and all
actions fire. *Puncher*: four candidates are two more
than are tried at a time, so that workers queue while others win and fail; the proofs
hold for any number. *Server*: the room of two can be full, three ids exceed it, two
loops are what the server starts, three dicts are two rooms', or a room's, a dead one and
a new one; three messages let a join cross a leave and a second join, or ask for an id of
the other room; the crash and the messages share the bound. (With one room four messages
pass too, in 1,075,220 states.) *Client*:
two servers make one failover, after which the first may still answer; the second start
meets every thread the first left, in every place; a third only multiplies them.
A stop may cut into either start.
*Discovery*: the change of address puts datagrams of a former and a present one under way
at once, through both listeners; three starts let one device restart, with a listener
that ended, while the other runs; one error ends any one of the four listeners; the
proofs hold for any numbers. Symmetry is used only where no property is temporal
in a way that names the permuted values (`PreferredKept` is an action property,
invariant under the permutations).

Deadlock is checked for `paths`, which never stops. The other instances stop when
their traffic, events or messages are used up (`CHECK_DEADLOCK FALSE`).

Fairness. `rtp_live`, `puncher`, `client` and `discovery` need it. `FairSpec` of `Rtp` assumes weak
fairness of the sender's steps (`sendall` runs in a live thread and polls every
5 ms), of the retransmission loop (`while not closed: sleep; scan`), of a reading
application, and that the network loses nothing: each chunk arrives once
(`Arrival`), each acknowledgement takes effect, FIN arrives. Nothing is assumed
about order. The application need not send (`Sendall`) nor close. `rtp_wait` is refuted
under the same assumptions. `FairSpec` of `Puncher` is
weak fairness of each thread: they run, and every call they block in has a timeout
except `acquire()`, which waits for a place and is what the property is about.
`FairSpec` of `SignalClient` is weak fairness of every loop and nothing else: each is
a thread whose blocking call has a timeout. The application need not stop the client,
the servers need not answer. `FairSpec` of `Discovery` assumes that what is under way
does not stay there (weak fairness), that the broadcaster of a device that is not
paused goes on, and that of the requests and replies which are sent again and again
some arrive (strong fairness, per pair of devices); `BothFind` speaks only of pairs
that both run, and whose listeners read, from some time on.

## 4. Proofs

Checked by TLAPS, for every value of the constants the named assumptions admit.

* **`RtpProofs`** (`TwoPeers`, `BoundsAssumption`, `WindowAssumption`). `Spec =>
  []IInv` (`Invariance`), from it `TypeCorrect`, `StreamSafe`, `DrainComplete`,
  `QueueBounded`, `EmptyMeansRoom`, the action property
  `Monotone`, and `Refinement`, that the channel implements `ReliableStream`.
  `StreamIsPrefix` is not inductive: a packet on the wire could carry a number
  nobody gave out. `HeadersHonest` adds that packets on the wire and in queues
  were numbered by `sendall` and that an acknowledgement names a chunk its sender
  has (which says nothing of the chunks below it: `rtp_loss`);
  `RoomToQueue` adds where the sender stands relative to the window, without which
  the queue's bound does not survive `Enqueue`. The window's arithmetic
  (`RoomWhenEmpty`) rests on an acknowledgement widening it by what it removed.
* **`SyncProofs`** (`SyncAssumption`). `SyncTypes`, `SyncOffset`, `SyncTogether`,
  `SyncOnce` and `SyncFormat` for every skew, timeout and number of samples and
  copies. The heart is `HalfRtt`: an answer stamped between its request and its
  arrival, by whatever clock, gives the difference to half the round trip.
  `PunchTogether` speaks of two ends that have both been called; what makes it
  inductive is `UnderWay`, that everybody who knows of the commit being sent knows
  the same of it, and `WireTogether`, the same property of commits still under way.
  `VersionLearnt` says why the format fits: there is no sample without an answer,
  and every answer carries the version.
* **`PuncherProofs`** (`PuncherAssumption`). `PuncherTypes`, `PuncherOneSurvivor` and
  `PuncherFewAtOnce` for every set of candidates and every limit. `Phases` says where
  a winner can be: nobody enters the race with a closed socket, and a result and a
  later winner exclude each other. The limit is counted with the finite-set lemmas.
* **`PathProofs`** (`LimitsAssumption`, `RankAssumption`, `PeerPathsAssumption`).
  `PathsTypes`, `PathsOneOfEach`, `PathsProbedByRole` and the action property
  `PathsOutcomesSteer`, for every set of paths, every total order of them and all floors,
  caps and factors. One-of-each is preserved by a regrade because the order is total,
  and by a promotion because the heir's place was its own. The limits of an interval are
  not inductive: the two bounds the bisection averages have to be within them too
  (`Sound`), for the role the path has now (`Fits`). That an outcome moves the interval
  the right way rests on the order of the three (`Ordered`): the interval is not above
  what failed last nor, until three failures, below what succeeded last, whatever was
  clamped in between. Lemmas on `Clamp`, `OnSuccess` and `OnFailure` carry both.
* **`LinkManagerProofs`** (`ManagerAssumption`). `ManagerSockets`, `ManagerPlaces` and
  `ManagerPreferred`, for every number of task threads, connections, attempts and
  events. `SocketsOwned` alone is not inductive: two hands could hold one socket, and
  closing it in one would leave the other with a closed one. `Apart` excludes that,
  `Fitting` says at which step a task has a socket and from which on it may have a
  place. The four ways a step can treat sockets (leave them, close the one in the
  table, bring a fresh one, hand one over) are lemmas, and the actions are instances
  of them; the count of places uses the finite-set lemmas. `ManagerPreferred` follows
  from the invariant because only `Adopt` exchanges one live connection for another.
  `ManagerTypes` and `ManagerHotExists` need the rest of the state: that TCP is hot as
  long as it is alive, and UDP otherwise (`Graded`), because only the UDP path is ever
  removed without a regrade (`Rest`), and that a task counts its attempts (`Attempts`).
* **`SignalServerProofs`** (`ServerAssumption`). `ServerTypeCorrect`, `PasswordsHold`,
  `DevicesAppearOnce`, `NoDeadRooms` and `OpenStaysMapped` for every number of rooms, ids,
  devices, receive loops and dict objects, and whatever ids clients ask for. Most are not
  inductive, because a join that has passed its check holds a dict while everything
  around it may go and come again. `JoinsKnow` says that a dict a join holds is of its
  room, with its password, or of no room; `EachOnce`
  that a device is once in every dict, also in one that has lost its room; `RoomsAwait`
  and `DiskHonest` carry empty rooms and what a crash brings back.
* **`SignalClientProofs`** (`ClientAssumption`). `ClientTypesHold`, `ClientWorks` and
  `ClientJoinedHere` for every number of servers and starts. `Works` asks for some thread
  of each kind; the invariant says which: those of the present start (`OwnThreads`), since
  one of a former start may still end at any time. `OwnServer` says that what a waiting
  client can receive comes from the server it asked, as each candidate gets a new socket.
* **`DiscoveryProofs`** (`DiscoveryAssumption`). `DiscoveryTypes` and
  `DiscoveryOnePerDevice` for every set of devices, addresses and ids, and any number of
  starts, moves, errors and datagrams under way.

Type correctness is proved of every module with a theorem; where a run does not list the
type invariant it is left to the proof, as are `NeverBackwards` of `Rtp` and `FewAtOnce`
of `Puncher`.

Only model-checked: liveness (`WaitsOnlyAlone`, `EverybodyEnds`, `StopsAll`, `BothFind`,
the fair refinement), which needs ENABLED. Every invariant and every action property of
a passing run is a theorem. `DroppedWhenReceived`, `SenderUnblocks` and `FileIsWhole` do
not hold.

## 5. Where the code and its documents part

Shown by a run (`findings`):

* `rtp_loss`: `_on_ack` drops all packets below the acknowledged number, but packets are
  acknowledged one by one (`rtp.py:411`, `:394`). When a packet is lost and a later one
  arrives, the acknowledgement of the later one takes the lost one out of the queue,
  nobody sends it again, and the reader gets nothing more. `DPMP_PROTOCOL.md:145` has the
  acknowledgement cumulative, `rtp.py:2` the channel reliable. TLC's trace is two
  `Enqueue`s and `Transmit`s, `OnData` of the second, `OnAck` of its acknowledgement.
  (`ImplementsFairStream` holds all the same, as it assumes that every chunk arrives.)
* `rtp_wait`: the newest packet is never removed by an acknowledgement, and `sendall`
  counts it before it waits. With the default least window of one, timeouts that halve
  the window to one leave `sendall` waiting for ever for its own packet, which the
  retransmission thread has long delivered: `SenderUnblocks` is violated without any
  loss. `WaitsOnlyAlone`, which `rtp_live` checks under the same constants, says that
  this is the only way to wait for ever.
* `server_file`: two savers share one temporary file, so the state file may be cut short
  or mixed (`信令服务器.py:180`; `:182`: atomic replacement).

Met while modelling, modelled as the code does it, but not claimed by a run:

* A `join` may ask for the id of another room's member, which overwrites the member's
  entry of `id_index` (`信令服务器.py:452-455`, `:509`). Until its next join that member is
  in its room without an entry: its heartbeats and its goodbye count for the other
  room's member of that id, and it never times out. In `SignalServer`: `JoinCheck` and
  `JoinInsert` of one room, then of the other with the first's id as `reuse`.
* A `stop()` that comes while `start()` is under way does not end it. The hole socket's
  loop that `start()` then opens sets `_udp_recv_running` after `stop()` has cleared it
  (`signaling.py:378-382`, `:329`), nobody ends the loop, and a next `start()`, finding
  the flag set, starts none for its own socket. In `SignalClient`: `Stop` and
  `StopCloses` while `call` is `"sync"`, then `SyncTime`, `OpenUdpHoleSocket`,
  `StartHoleLoop`. `Works` and `StopsAll` except this loop by `cut`, and hold of all else.
* Without a network `_send_join` raises out of `start()` (`signaling.py:253`, `:627`),
  which leaves `_running` set: a next `start()` returns False (`Raised`).
* An OSError ends a listener of LAN discovery for good, also when it was the answer that
  could not be sent (`discovery.py:259-264`): a device whose network was away for a
  moment while a request was answered is found by nobody until it is started again.
  `BothFind` excepts devices whose discovery listener has ended. A scan listener that
  fails to answer has not even registered who asked (`:298-300`).
* No probe is sent to keep a path alive, whatever the schedule says; see section 2.
* `handle_join` takes the room's dict in one locked part and enters the member in a
  second (`信令服务器.py:433`, `:508`); if the last member leaves in between, the client
  is answered `joined` (`server/README.md:140`) and is in no room. In `SignalServer`:
  `JoinCheck`, `HandleBye` of the only member by the other loop, `JoinInsert`.
* After a rebind, or a stop and a start, a receive loop of the former connection that
  goes on may read the new socket before `_wait_joined` does. If it takes the error
  that refuses the join, the wait runs into its deadline and the next server is tried,
  where `signaling.py:173` says that a refusal ends the search; if it takes `joined`,
  join is sent again. In `SignalClient`: `RecvMessage` while `call` is `"wait"`.
* Every `scan_reply` is answered by a `scan_reply` (`discovery.py:298`): two devices of
  which one scanned answer each other for as long as both run.
* `my_ips` is read once (`discovery.py:63`): a device that gets an address another one
  had at its start is taken for that one's own echo and never found by it
  (`BothFind` excepts the case).
* `on_new_node` and `on_node_gone` are called after the lock of the node table is
  released, by two threads, so that an application can hear of a node's leaving after
  its coming back. No entry of the table ever expires.
* `_punch_task` gives up for want of a target and leaves the connection `connecting`
  (`manager.py:743`), so that no later trigger starts another task;
  `manager.py:728-729` says they do. `Rewait` does the same.
* A candidate that connects after the caller of `punch()` has given up wins a place
  nobody reads: its socket stays open and the peer sees a connection
  (`puncher.py:142`, `:153`; `:107`: the first success is returned). With more
  candidates than places the second pair only starts when the first has failed, which
  may take the whole time the caller waits.
* `on_inbound` installs an accepted connection without registering a path
  (`manager.py:525`; `manager.py:7`: every path is registered), so UDP is preferred
  over it and no schedule probes it. `InboundInstall` does the same.
* `sendall` returns silently when a send fails: the rest of the call's data is lost
  from the stream without an error (`rtp.py:143-145`).
* The reorder buffer has no bound, `constants.py:59` notwithstanding.
* FIN has no number, so `recv` may report the end before late data; `recv` at the
  end that closed itself waits for a flag it never gets.
* The idle factor multiplies an interval past its safe cap
  (`DPMP_PROTOCOL.md:130`); `manager.py:895-896` prunes the due times of other
  peers' paths.
* A TCP failure reported when the hot path is UDP kills that healthy path
  (`_on_path_failure` promotes whatever is hot).
* After `on_member_leave` the closed channel's handler stays in the signalling
  client's table, and the hole is not reported again until a rebind.
* A task or the listener in mid-step can install a connection after the peer has
  left or the manager stopped; a TCP path registered after PUNCH_FAIL stays hot
  without a connection.
* For up to half a second after a rebind two receive loops can call `on_packet`.
* `rtp_window` of `config.py:11` has no effect; `PUNCH_DELAY_MS` is 300 in
  `server/README.md` and 1000 in the code.
* An empty room saved between the two parts of a join comes back after a crash
  with its password and never goes (`DPMP_PROTOCOL.md:78`: an empty room goes
  completely). `RoomsHaveMembers` exempts rooms restored from disk.
* The cleanup thread removes a member that came back after the scan; a late
  `udp_hello` of a removed id stays in `udp_mappings`; `member_join` and
  `member_leave` are sent outside the lock and may arrive in the other order; a
  `join` sent again without a device id makes a second member.

## 6. Not modelled, and the plan

Not modelled on purpose: NAT probing (two requests, only logged), the channel
wrapper, OS queries, launchers and examples (no state), packing of bytes (no
property here is about it), the Kotlin port (the Python code is the reference).
Modules for them would hold nothing that can go wrong over several steps.

Left of what is modelled in part:

* *Client, manager and server together*: `Introduction`, how members come to know each
  other. That two members which are there know each other once nothing is under way is
  what one would like to state, and it does not hold: a join or a heartbeat from a socket
  the client has closed, when it arrives late, sets the member's address back
  (`信令服务器.py:500-508`, `:547`), the notices meant for the member go nowhere until its
  next heartbeat, and a notice lost so is not sent again. What holds needs the addresses
  of every datagram, the heartbeats, removals by `cleanup_loop` and returns after a stop,
  and a promise that speaks of what the next heartbeat repairs.
* *UDP-RTP*: `RtpSession`, an `Rtp` with an end that is rebuilt (numbers and commit ids
  restart) and the dead-peer timer; the rounds of `PUNCH_ROUND`, which the tasks of the
  two managers align by; the wrap of 32-bit numbers.
* *Connection manager*: `Sending`, the choice of a channel in `get_send_channel`, its
  locked parts one by one against the threads that close channels; `KeepaliveLoop`, the
  due times of several peers' paths, the idle factor and the rebuild cooldown; that
  every task ends, which needs the time a punch takes. Tasks of several peers share only `_punch_sem`, which is wider than two of them.
* *Signalling client*: the sending of hole probes (`_hole_targets`: two overlapping
  probes of one address share an entry, and the first to end removes it), and the
  averages `_sync_time` computes.
* *Hole puncher*: the list of candidates, a choice here.

Theorems to come: those of the modules above.
