-------------------------------- MODULE Rtp --------------------------------
(***************************************************************************)
(* UDP-RTP, dpmp/link/rtp.py: two UdpReliableSocket objects, one per peer, *)
(* over the shared UDP hole socket.  Modelled here: sendall with its       *)
(* window wait, the retransmission thread, ACK processing and the adaptive *)
(* window, reordering at the receiver, recv, close and FIN.                *)
(*                                                                         *)
(* The network is the set of packets ever transmitted.  A packet stays in  *)
(* it, so it may arrive in any order and any number of times, and it is    *)
(* lost when nobody ever takes its arrival step.  A retransmission resends *)
(* the very bytes kept in _send_queue, hence adds nothing new.             *)
(*                                                                         *)
(* Payloads are named by their position in the stream (ReliableStream);    *)
(* sequence numbers stay far below 2^32 (the bound is MaxChunks).          *)
(***************************************************************************)
EXTENDS Naturals, Sequences, FiniteSets

CONSTANTS Peers,      \* the two ends
          MaxChunks,  \* bound: MaxChunks[p] chunks are sent by p at most
          MaxCall,    \* bound: chunks of one sendall() call
          WindowInit, WindowMin, WindowMax,
          MayClose,   \* the peers whose application may call close()
          MayFail     \* the peers whose _send_fn may raise

ASSUME TwoPeers == \E p, q \in Peers : p # q /\ Peers = {p, q}
ASSUME BoundsAssumption == /\ MaxChunks \in [Peers -> Nat]
                           /\ MaxCall \in Nat
                           /\ MayClose \subseteq Peers /\ MayFail \subseteq Peers
ASSUME WindowAssumption ==
    /\ WindowInit \in Nat /\ WindowMin \in Nat /\ WindowMax \in Nat
    /\ WindowMin >= 1 /\ WindowMin <= WindowInit /\ WindowInit <= WindowMax

VARIABLES
  sendSeq,    \* _send_seq
  sendQueue,  \* _send_queue: the DATA packets not yet acknowledged
  window,     \* window
  pc,         \* where sendall() is: "idle", "chunk", "window" or "send"
  left,       \* chunks of the current sendall() not yet transmitted
  recvNext,   \* _recv_next
  outOfOrder, \* the keys of _out_of_order
  recvBuf,    \* _recv_buf
  read,       \* history: what recv() has returned
  eof,        \* history: recv() has returned b""
  closed, peerClosed,
  rtxRunning, \* the retransmission thread has not seen _closed yet
  net         \* the packets transmitted so far

sendVars == <<sendSeq, sendQueue, window, pc, left, rtxRunning>>
recvVars == <<recvNext, outOfOrder, recvBuf, peerClosed>>
appVars  == <<read, eof>>
vars == <<sendVars, recvVars, appVars, closed, net>>

----------------------------------------------------------------------------
Other(p) == CHOOSE q \in Peers : q # p

Packet(p, type, seq, ack) == [from |-> p, type |-> type, seq |-> seq, ack |-> ack]
Packets == [from : Peers, type : {"DATA", "ACK", "FIN"}, seq : Nat, ack : Nat]

Least(a, b) == IF a <= b THEN a ELSE b
Most(a, b)  == IF a >= b THEN a ELSE b

QueuedSeqs(p) == {x.seq : x \in sendQueue[p]}

\* The chunk p has already, in order or in reserve.
Has(p, s) == s < recvNext[p] \/ s \in outOfOrder[p]

\* What the receiving side of p has made readable since the start.
Stream(p) == read[p] \o recvBuf[p]

Init ==
  /\ sendSeq = [p \in Peers |-> 0]
  /\ sendQueue = [p \in Peers |-> {}]
  /\ window = [p \in Peers |-> WindowInit]
  /\ pc = [p \in Peers |-> "idle"]
  /\ left = [p \in Peers |-> 0]
  /\ recvNext = [p \in Peers |-> 0]
  /\ outOfOrder = [p \in Peers |-> {}]
  /\ recvBuf = [p \in Peers |-> << >>]
  /\ read = [p \in Peers |-> << >>]
  /\ eof = [p \in Peers |-> FALSE]
  /\ closed = [p \in Peers |-> FALSE]
  /\ peerClosed = [p \in Peers |-> FALSE]
  /\ rtxRunning = [p \in Peers |-> TRUE]
  /\ net = {}

----------------------------------------------------------------------------
(* The application's sending thread; io_lock allows one at a time.         *)

\* sendall(data): data is cut into k chunks.
Sendall(p) ==
  /\ pc[p] = "idle" /\ ~closed[p]
  /\ \E k \in 1 .. MaxCall :
        /\ sendSeq[p] + k <= MaxChunks[p]
        /\ left' = [left EXCEPT ![p] = k]
  /\ pc' = [pc EXCEPT ![p] = "chunk"]
  /\ UNCHANGED <<sendSeq, sendQueue, window, rtxRunning, recvVars, appVars,
                 closed, net>>


\* The locked section: number the chunk, queue it, and only then compare the
\* queue with the window.
Enqueue(p) ==
  LET queued == sendQueue[p] \cup {Packet(p, "DATA", sendSeq[p], recvNext[p])} IN
  /\ pc[p] = "chunk"
  /\ sendSeq' = [sendSeq EXCEPT ![p] = @ + 1]
  /\ sendQueue' = [sendQueue EXCEPT ![p] = queued]
  /\ pc' = [pc EXCEPT ![p] =
              IF Cardinality(queued) >= window[p] /\ ~closed[p]
              THEN "window" ELSE "send"]
  /\ UNCHANGED <<window, left, rtxRunning, recvVars, appVars, closed, net>>

\* Mutant: off by one at the window.
UnblockAtWindow(p) ==
  /\ pc[p] = "window"
  /\ Cardinality(sendQueue[p]) <= window[p] \/ closed[p]
  /\ pc' = [pc EXCEPT ![p] = "send"]
  /\ UNCHANGED <<sendSeq, sendQueue, window, left, rtxRunning, recvVars,
                 appVars, closed, net>>

\* The poll of the wait loop finds room in the window, or the socket closed.
Unblock(p) ==
  /\ pc[p] = "window"
  /\ Cardinality(sendQueue[p]) < window[p] \/ closed[p]
  /\ pc' = [pc EXCEPT ![p] = "send"]
  /\ UNCHANGED <<sendSeq, sendQueue, window, left, rtxRunning, recvVars,
                 appVars, closed, net>>

\* The packet in hand is the last one numbered.  An acknowledgement may have
\* emptied the queue of it only if the other thread transmitted it before.
InHand(p) == {x \in sendQueue[p] : x.seq + 1 = sendSeq[p]}

\* _send_fn outside the lock, then the next chunk or the end of the call.
Transmit(p) ==
  /\ pc[p] = "send"
  /\ net' = net \cup InHand(p)
  /\ left' = [left EXCEPT ![p] = @ - 1]
  /\ pc' = [pc EXCEPT ![p] = IF left[p] = 1 THEN "idle" ELSE "chunk"]
  /\ UNCHANGED <<sendSeq, sendQueue, window, rtxRunning, recvVars, appVars,
                 closed>>

\* _send_fn raises: sendall() logs it and returns.  The packet stays queued for
\* the retransmission thread; the rest of the call's data is never numbered.
SendFails(p) ==
  /\ p \in MayFail /\ pc[p] = "send"
  /\ left' = [left EXCEPT ![p] = 0]
  /\ pc' = [pc EXCEPT ![p] = "idle"]
  /\ UNCHANGED <<sendSeq, sendQueue, window, rtxRunning, recvVars, appVars,
                 closed, net>>

(* The retransmission thread.  Which packets are older than the RTO is any *)
(* non-empty part of the queue; a pass that finds none changes nothing.    *)
(* After close() the pass under way still goes through.                    *)
Rtx(p) ==
  /\ rtxRunning[p]
  /\ \E expired \in (SUBSET sendQueue[p]) \ {{}} : net' = net \cup expired
  /\ window' = [window EXCEPT ![p] = Most(WindowMin, @ \div 2)]
  /\ rtxRunning' = [rtxRunning EXCEPT ![p] = ~closed[p]]
  /\ UNCHANGED <<sendSeq, sendQueue, pc, left, recvVars, appVars, closed>>

\* The loop condition sees _closed.
RtxExit(p) ==
  /\ rtxRunning[p] /\ closed[p]
  /\ rtxRunning' = [rtxRunning EXCEPT ![p] = FALSE]
  /\ UNCHANGED <<sendSeq, sendQueue, window, pc, left, recvVars, appVars,
                 closed, net>>

----------------------------------------------------------------------------
(* on_packet(): one receiving thread per hole socket calls it.             *)

\* Mutants: off by one in what is acknowledged; the window does not grow.
AckShort(q, ack) ==
  LET done == {x \in sendQueue[q] : x.seq + 1 < ack} IN
  /\ sendQueue' = [sendQueue EXCEPT ![q] = @ \ done]
  /\ window' = [window EXCEPT ![q] =
                  IF done = {} THEN @ ELSE Least(WindowMax, @ + Cardinality(done))]
AckNoGrowth(q, ack) ==
  /\ sendQueue' = [sendQueue EXCEPT ![q] = {x \in @ : x.seq >= ack}]
  /\ UNCHANGED window

\* _on_ack: every queued packet below ack is done; the window grows by them.
AckEffect(q, ack) ==
  LET done == {x \in sendQueue[q] : x.seq < ack} IN
  /\ sendQueue' = [sendQueue EXCEPT ![q] = @ \ done]
  /\ window' = [window EXCEPT ![q] =
                  IF done = {} THEN @ ELSE Least(WindowMax, @ + Cardinality(done))]

\* Mutants: whatever is not old counts as in order; drained chunks stay in the
\* reorder buffer; only the arriving chunk is taken.
InOrderAnyNewer(q, seq) ==
  /\ seq >= recvNext[q]
  /\ recvNext' = [recvNext EXCEPT ![q] = seq + 1]
  /\ recvBuf' = [recvBuf EXCEPT ![q] = Append(@, seq)]
  /\ UNCHANGED outOfOrder
InOrderNoPop(q, seq) ==
  /\ seq = recvNext[q]
  /\ \E n \in seq + 1 .. seq + 1 + Cardinality(outOfOrder[q]) :
        /\ n \notin outOfOrder[q]
        /\ \A s \in seq + 1 .. n - 1 : s \in outOfOrder[q]
        /\ recvNext' = [recvNext EXCEPT ![q] = n]
        /\ recvBuf' = [recvBuf EXCEPT ![q] = @ \o [i \in 1 .. n - seq |-> seq + i - 1]]
  /\ UNCHANGED outOfOrder
InOrderNoDrain(q, seq) ==
  /\ seq = recvNext[q]
  /\ recvNext' = [recvNext EXCEPT ![q] = seq + 1]
  /\ recvBuf' = [recvBuf EXCEPT ![q] = Append(@, seq)]
  /\ UNCHANGED outOfOrder

\* _on_data's in-order branch: the chunk, then the run of chunks that waited
\* for it (up to and without n).
InOrder(q, seq) ==
  /\ seq = recvNext[q]
  /\ \E n \in seq + 1 .. seq + 1 + Cardinality(outOfOrder[q]) :
        /\ n \notin outOfOrder[q]
        /\ \A s \in seq + 1 .. n - 1 : s \in outOfOrder[q]
        /\ recvNext' = [recvNext EXCEPT ![q] = n]
        /\ outOfOrder' = [outOfOrder EXCEPT ![q] = @ \ (seq + 1 .. n - 1)]
        /\ recvBuf' = [recvBuf EXCEPT ![q] = @ \o [i \in 1 .. n - seq |-> seq + i - 1]]

\* Mutant: a repeated chunk is appended once more.
AppendRepeated(q, seq) ==
  /\ seq # recvNext[q]
  /\ outOfOrder' = [outOfOrder EXCEPT ![q] =
                      IF seq > recvNext[q] THEN @ \cup {seq} ELSE @]
  /\ recvBuf' = [recvBuf EXCEPT ![q] = IF seq < recvNext[q] THEN Append(@, seq) ELSE @]
  /\ UNCHANGED recvNext

\* _on_data's other branches: keep a later chunk, ignore an old one.
NotInOrder(q, seq) ==
  /\ seq # recvNext[q]
  /\ outOfOrder' = [outOfOrder EXCEPT ![q] =
                      IF seq > recvNext[q] THEN @ \cup {seq} ELSE @]
  /\ UNCHANGED <<recvNext, recvBuf>>

(* _on_data: the acknowledgement carries the number of THIS packet.  It is  *)
(* sent a moment before the chunk is stored, by the one thread that stores  *)
(* chunks; until it has, that thread takes no other packet, and all the     *)
(* rest of the program can see is an older _recv_next: the same as if the   *)
(* packet had come later.                                                   *)
OnData(q) ==
  /\ ~closed[q]
  /\ \E m \in net :
        /\ m.from = Other(q) /\ m.type = "DATA"
        /\ AckEffect(q, m.ack)
        /\ net' = net \cup {Packet(q, "ACK", 0, m.seq)}
        /\ InOrder(q, m.seq) \/ NotInOrder(q, m.seq)
  /\ UNCHANGED <<sendSeq, pc, left, rtxRunning, peerClosed, appVars, closed>>

OnAck(q) ==
  /\ ~closed[q]
  /\ \E m \in net : /\ m.from = Other(q) /\ m.type = "ACK"
                    /\ AckEffect(q, m.ack)
  /\ UNCHANGED <<sendSeq, pc, left, rtxRunning, recvVars, appVars, closed, net>>

OnFin(q) ==
  /\ ~closed[q]
  /\ \E m \in net : m.from = Other(q) /\ m.type = "FIN"
  /\ peerClosed' = [peerClosed EXCEPT ![q] = TRUE]
  /\ UNCHANGED <<sendVars, recvNext, outOfOrder, recvBuf, appVars, closed, net>>

----------------------------------------------------------------------------
(* The application's receiving thread, and close().                        *)

\* recv(n) returns a non-empty part of what is buffered ...
Recv(p) ==
  /\ \E k \in 1 .. Len(recvBuf[p]) :
        /\ read' = [read EXCEPT ![p] = @ \o SubSeq(recvBuf[p], 1, k)]
        /\ recvBuf' = [recvBuf EXCEPT ![p] = SubSeq(@, k + 1, Len(@))]
  /\ UNCHANGED <<sendVars, recvNext, outOfOrder, peerClosed, eof, closed, net>>

\* ... or b"" when nothing is buffered and the peer's FIN has arrived.
RecvEof(p) ==
  /\ recvBuf[p] = << >> /\ peerClosed[p]
  /\ eof' = [eof EXCEPT ![p] = TRUE]
  /\ UNCHANGED <<sendVars, recvVars, read, closed, net>>

\* close(): a FIN that is neither numbered nor retransmitted.
Close(p) ==
  /\ p \in MayClose /\ ~closed[p]
  /\ closed' = [closed EXCEPT ![p] = TRUE]
  /\ net' = net \cup {Packet(p, "FIN", 0, recvNext[p])}
  /\ UNCHANGED <<sendVars, recvVars, appVars>>

----------------------------------------------------------------------------
Next == \E p \in Peers :
          \/ Sendall(p) \/ Enqueue(p) \/ Unblock(p) \/ Transmit(p)
          \/ SendFails(p) \/ Rtx(p) \/ RtxExit(p)
          \/ OnData(p) \/ OnAck(p) \/ OnFin(p)
          \/ Recv(p) \/ RecvEof(p) \/ Close(p)

Spec == Init /\ [][Next]_vars

(* rtp.py's threads loop without end, the sender polls every 5 ms and the  *)
(* receive loop takes whatever comes.  OnData and OnAck are fair when the  *)
(* network loses nothing (and MayFail is empty): each chunk arrives once,  *)
(* and is not delivered again for the model's convenience; an ACK has its  *)
(* effect on its first arrival.                                            *)
Arrival(p) == /\ OnData(p)
              /\ \E s \in 0 .. MaxChunks[Other(p)] - 1 : ~Has(p, s) /\ Has(p, s)'

FairSpec == Spec /\ \A p \in Peers :
              /\ WF_vars(Enqueue(p)) /\ WF_vars(Unblock(p)) /\ WF_vars(Transmit(p))
              /\ WF_vars(Rtx(p))
              /\ WF_vars(Arrival(p)) /\ WF_vars(OnAck(p)) /\ WF_vars(OnFin(p))
              /\ WF_vars(Recv(p))

----------------------------------------------------------------------------
(* Every variable has its type, the window stays between the limits the    *)
(* configuration gives (_on_ack and _rtx_loop both move it).               *)
TypeOK ==
  /\ sendSeq \in [Peers -> Nat]
  /\ sendQueue \in [Peers -> SUBSET Packets]
  /\ window \in [Peers -> WindowMin .. WindowMax]
  /\ pc \in [Peers -> {"idle", "chunk", "window", "send"}]
  /\ left \in [Peers -> Nat]
  /\ recvNext \in [Peers -> Nat]
  /\ outOfOrder \in [Peers -> SUBSET Nat]
  /\ recvBuf \in [Peers -> Seq(Nat)]
  /\ read \in [Peers -> Seq(Nat)]
  /\ eof \in [Peers -> BOOLEAN]
  /\ closed \in [Peers -> BOOLEAN]
  /\ peerClosed \in [Peers -> BOOLEAN]
  /\ rtxRunning \in [Peers -> BOOLEAN]
  /\ net \in SUBSET Packets
  /\ \A p \in Peers : IsFiniteSet(sendQueue[p]) /\ IsFiniteSet(outOfOrder[p])

(* Whatever the network loses, repeats or reorders, what the application   *)
(* reads plus what is buffered for it is the beginning of what the peer's  *)
(* application sent: in order, once, nothing invented (rtp.py:398-407).    *)
StreamIsPrefix ==
  \A p \in Peers :
    /\ Len(Stream(p)) = recvNext[p]
    /\ recvNext[p] <= sendSeq[Other(p)]
    /\ \A i \in 1 .. Len(Stream(p)) : Stream(p)[i] = i - 1

(* The reorder buffer holds only chunks that are still to come: the drain  *)
(* loop (rtp.py:401-403) leaves neither an old key nor the next one in it, *)
(* so no chunk that is there waits for a packet already delivered.         *)
NothingReadyWaits ==
  \A p \in Peers : \A s \in outOfOrder[p] :
    recvNext[p] < s /\ s < sendSeq[Other(p)]

(* While the socket is open the send queue never outgrows the configured   *)
(* maximum, although sendall() queues a chunk before it looks at the       *)
(* window (rtp.py:135-136) and the window may shrink meanwhile.            *)
QueueWithinMax ==
  \A p \in Peers : ~closed[p] => Cardinality(sendQueue[p]) <= WindowMax

(* A packet leaves the send queue only when the peer has it: what the      *)
(* header's ack means, "the highest contiguous number received, plus one"  *)
(* (DPMP_PROTOCOL.md:145).  _on_data acknowledges the number of the packet *)
(* that came instead, so a packet that overtakes another one takes it out  *)
(* of the queue for good (rtp.py:394, 411): the run rtp_loss.              *)
DroppedWhenReceived ==
  \A p \in Peers : \A s \in 0 .. sendSeq[p] - 1 :
    s \in QueuedSeqs(p) \/ Has(Other(p), s)

(* An empty queue leaves room for two packets: acknowledgements that empty *)
(* it also widen the window (rtp.py:416-417), so a sendall() that finds    *)
(* nothing in flight does not wait.                                        *)
RoomWhenEmpty ==
  \A p \in Peers : sendQueue[p] = {} => window[p] >= Least(2, WindowInit)

(* What the above rest on.  Every packet on the wire or in a send queue was *)
(* numbered by sendall(), its header claims no more than its sender has,   *)
(* and an ACK names a chunk its sender has in order or in reserve.         *)
HeadersHonest ==
  /\ \A m \in net :
       /\ m.type = "DATA" => /\ m.seq < sendSeq[m.from]
                             /\ m.ack <= recvNext[m.from]
       /\ m.type = "ACK" => m.ack < recvNext[m.from] \/ m.ack \in outOfOrder[m.from]
  /\ \A p \in Peers : \A x \in sendQueue[p] :
       /\ x.from = p /\ x.type = "DATA"
       /\ x.seq < sendSeq[p] /\ x.ack <= recvNext[p]

\* A sendall() that is not waiting has left room for the next packet.
RoomToQueue ==
  \A p \in Peers : ~closed[p] =>
    /\ Cardinality(sendQueue[p]) <= WindowMax
    /\ pc[p] # "window" => Cardinality(sendQueue[p]) < WindowMax

\* sendall() is under way exactly while it has chunks left.
CallOpen == \A p \in Peers : pc[p] = "idle" <=> left[p] = 0

IInv == /\ TypeOK /\ CallOpen /\ HeadersHonest /\ StreamIsPrefix /\ NothingReadyWaits
        /\ RoomToQueue /\ RoomWhenEmpty

(* The send queue only loses packets by acknowledgement and the receive    *)
(* position only grows; no step gives back what the application has read.  *)
Progress ==
  \A p \in Peers : /\ recvNext'[p] >= recvNext[p]
                   /\ Len(Stream(p)') >= Len(Stream(p))
                   /\ Len(read'[p]) >= Len(read[p])
NeverBackwards == [][Progress]_vars

(* Without loss sendall() does not wait for ever: the window opens as the  *)
(* peer acknowledges.  With the default least window of 1 it does not hold *)
(* (rtp.py:136-139, 394, 497-500): the run rtp_wait.                       *)
SenderUnblocks == \A p \in Peers : pc[p] = "window" ~> pc[p] # "window"

(* The one way to wait for ever: the window has shrunk to a single packet, *)
(* and the queue holds the very packet sendall() is about to send.  From   *)
(* every other wait acknowledgements, the retransmission thread's packets  *)
(* and the growing window lead out.                                        *)
AloneInWindow(p) == window[p] = 1 /\ sendQueue[p] = InHand(p)
WaitsOnlyAlone ==
  \A p \in Peers : pc[p] = "window" ~> (pc[p] # "window" \/ AloneInWindow(p))

(* The channel implements the stream it promises.                          *)
Promise == INSTANCE ReliableStream WITH
             sent <- sendSeq, got <- [p \in Peers |-> Stream(p)]
ImplementsStream == Promise!AbsSpec
ImplementsFairStream == Promise!AbsFairSpec

=============================================================================
