----------------------------- MODULE RtpProofs -----------------------------
(***************************************************************************)
(* Proofs about Rtp for any two peers, any bounds on the traffic and any   *)
(* window limits: the inductive invariant IInv, the safety properties that *)
(* follow from it, and that the channel implements ReliableStream.         *)
(***************************************************************************)
EXTENDS Rtp, FiniteSetTheorems, SequenceTheorems, TLAPS

\* Each peer has one opposite end.
LEMMA OtherFacts ==
  ASSUME NEW p \in Peers
  PROVE  Other(p) \in Peers /\ Other(p) # p /\ Other(Other(p)) = p
<1>1. \A q \in Peers : \E r \in Peers : r # q
  BY TwoPeers
<1>2. \A q \in Peers : Other(q) \in Peers /\ Other(q) # q
  BY <1>1 DEF Other
<1>3. Other(Other(p)) \in Peers /\ Other(Other(p)) # Other(p)
  BY <1>2
<1> QED BY <1>2, <1>3, TwoPeers

\* Removing what an acknowledgement covers keeps a queue finite and in bounds.
LEMMA DoneFacts ==
  ASSUME NEW S, IsFiniteSet(S), NEW T \in SUBSET S
  PROVE  /\ IsFiniteSet(T) /\ IsFiniteSet(S \ T)
         /\ Cardinality(T) \in Nat /\ Cardinality(S \ T) \in Nat
         /\ Cardinality(S) \in Nat
         /\ Cardinality(S \ T) <= Cardinality(S)
         /\ T # {} => Cardinality(T) >= 1
<1>1. S \ T \in SUBSET S
  OBVIOUS
<1>2. IsFiniteSet(T) /\ IsFiniteSet(S \ T) /\ Cardinality(S \ T) <= Cardinality(S)
  BY <1>1, FS_Subset
<1>3. Cardinality(T) \in Nat /\ Cardinality(S \ T) \in Nat /\ Cardinality(S) \in Nat
  BY <1>2, FS_CardinalityType
<1>4. T # {} => Cardinality(T) # 0
  BY <1>2, FS_EmptySet
<1> QED BY <1>2, <1>3, <1>4

\* _on_ack keeps the send side well-formed, and only shrinks the queue.
LEMMA AckFacts ==
  ASSUME TypeOK, NEW q \in Peers, NEW ack \in Nat, AckEffect(q, ack)
  PROVE  /\ sendQueue' \in [Peers -> SUBSET Packets]
         /\ \A p \in Peers : IsFiniteSet(sendQueue'[p])
         /\ window' \in [Peers -> WindowMin .. WindowMax]
         /\ \A p \in Peers : sendQueue'[p] \subseteq sendQueue[p]
         /\ \A p \in Peers : Cardinality(sendQueue'[p]) \in Nat
         /\ \A p \in Peers : Cardinality(sendQueue'[p]) <= Cardinality(sendQueue[p])
         /\ \A p \in Peers \ {q} : sendQueue'[p] = sendQueue[p] /\ window'[p] = window[p]
         /\ \A x \in sendQueue[q] : x \in sendQueue'[q] \/ x.seq < ack
         /\ sendQueue'[q] # sendQueue[q] => window'[q] >= Least(2, WindowInit)
         /\ sendQueue'[q] = sendQueue[q] => window'[q] = window[q]
<1> DEFINE done == {x \in sendQueue[q] : x.seq < ack}
<1>1. /\ done \in SUBSET sendQueue[q]
      /\ sendQueue' = [sendQueue EXCEPT ![q] = @ \ done]
      /\ window' = [window EXCEPT ![q] =
                      IF done = {} THEN @ ELSE Least(WindowMax, @ + Cardinality(done))]
  BY DEF AckEffect
<1>2. \A p \in Peers : IsFiniteSet(sendQueue[p]) /\ sendQueue[p] \in SUBSET Packets
  BY DEF TypeOK
<1>3. /\ IsFiniteSet(sendQueue[q] \ done)
      /\ Cardinality(done) \in Nat /\ Cardinality(sendQueue[q] \ done) \in Nat
      /\ Cardinality(sendQueue[q] \ done) <= Cardinality(sendQueue[q])
      /\ done # {} => Cardinality(done) >= 1
  <2> HIDE DEF done
  <2> QED BY <1>1, <1>2, DoneFacts
<1>4. \A p \in Peers : Cardinality(sendQueue[p]) \in Nat
  BY <1>2, FS_CardinalityType
<1>5. sendQueue \in [Peers -> SUBSET Packets] /\ window \in [Peers -> WindowMin .. WindowMax]
  BY DEF TypeOK
<1>6. sendQueue'[q] # sendQueue[q] <=> done # {}
  BY <1>1, <1>5
<1>7. \A x \in sendQueue[q] : x \in sendQueue'[q] \/ x.seq < ack
  BY <1>1, <1>5
<1> HIDE DEF done
<1>8. /\ sendQueue' \in [Peers -> SUBSET Packets]
      /\ sendQueue'[q] = sendQueue[q] \ done
      /\ \A p \in Peers \ {q} : sendQueue'[p] = sendQueue[p]
  BY <1>1, <1>5
<1>9. /\ window' \in [Peers -> WindowMin .. WindowMax]
      /\ \A p \in Peers \ {q} : window'[p] = window[p]
      /\ done = {} => window'[q] = window[q]
      /\ done # {} => window'[q] >= Least(2, WindowInit)
  BY <1>1, <1>3, <1>5, WindowAssumption DEF Least
<1>10. \A p \in Peers : /\ IsFiniteSet(sendQueue'[p])
                        /\ Cardinality(sendQueue'[p]) \in Nat
                        /\ Cardinality(sendQueue'[p]) <= Cardinality(sendQueue[p])
  BY <1>2, <1>3, <1>4, <1>8
<1>11. \A p \in Peers : sendQueue'[p] \subseteq sendQueue[p]
  BY <1>8
<1> QED BY <1>6, <1>7, <1>8, <1>9, <1>10, <1>11

\* Appending to the buffered part of a stream appends to the stream.
LEMMA AppendToStream ==
  ASSUME NEW r \in Seq(Nat), NEW b \in Seq(Nat), NEW t \in Seq(Nat)
  PROVE  r \o (b \o t) = (r \o b) \o t
BY SMTT(20)

\* One branch of _on_data: what it does to the receive side of q.
LEMMA ReceiveFacts ==
  ASSUME TypeOK, StreamIsPrefix, NothingReadyWaits,
         NEW q \in Peers, NEW seq \in Nat, seq < sendSeq[Other(q)],
         InOrder(q, seq) \/ NotInOrder(q, seq), UNCHANGED read
  PROVE  /\ recvNext' \in [Peers -> Nat]
         /\ outOfOrder' \in [Peers -> SUBSET Nat]
         /\ \A p \in Peers : IsFiniteSet(outOfOrder'[p])
         /\ recvBuf' \in [Peers -> Seq(Nat)]
         /\ \A p \in Peers \ {q} : /\ recvNext'[p] = recvNext[p]
                                   /\ outOfOrder'[p] = outOfOrder[p]
                                   /\ recvBuf'[p] = recvBuf[p]
         /\ recvNext'[q] >= recvNext[q] /\ recvNext'[q] <= sendSeq[Other(q)]
         /\ \A s \in outOfOrder'[q] : recvNext'[q] < s /\ s < sendSeq[Other(q)]
         /\ \A s \in Nat : Has(q, s) => Has(q, s)'
         /\ Has(q, seq)'
         /\ Stream(q)' \in Seq(Nat) /\ Len(Stream(q)') = recvNext'[q]
         /\ \A i \in 1 .. Len(Stream(q)') : Stream(q)'[i] = i - 1
<1>1. /\ recvNext \in [Peers -> Nat] /\ sendSeq \in [Peers -> Nat]
      /\ outOfOrder \in [Peers -> SUBSET Nat]
      /\ recvBuf \in [Peers -> Seq(Nat)] /\ read \in [Peers -> Seq(Nat)]
      /\ \A p \in Peers : IsFiniteSet(outOfOrder[p])
  BY DEF TypeOK
<1>2. Other(q) \in Peers
  BY OtherFacts
<1>3. Stream(q) \in Seq(Nat)
  BY <1>1, ConcatProperties DEF Stream
<1>4. CASE NotInOrder(q, seq)
  <2>1. /\ recvNext' = recvNext /\ recvBuf' = recvBuf /\ seq # recvNext[q]
        /\ outOfOrder' = [outOfOrder EXCEPT ![q] =
                            IF seq > recvNext[q] THEN @ \cup {seq} ELSE @]
    BY <1>4 DEF NotInOrder
  <2>2. /\ outOfOrder' \in [Peers -> SUBSET Nat]
        /\ \A p \in Peers \ {q} : outOfOrder'[p] = outOfOrder[p]
        /\ outOfOrder'[q] = IF seq > recvNext[q] THEN outOfOrder[q] \cup {seq}
                            ELSE outOfOrder[q]
    BY <2>1, <1>1
  <2>3. \A p \in Peers : IsFiniteSet(outOfOrder'[p])
    <3>1. IsFiniteSet(outOfOrder[q] \cup {seq})
      BY <1>1, FS_AddElement
    <3>2. IsFiniteSet(outOfOrder'[q])
      BY <3>1, <2>2, <1>1
    <3> QED BY <3>2, <2>2, <1>1
  <2>4. \A s \in outOfOrder[q] : recvNext[q] < s /\ s < sendSeq[Other(q)]
    BY DEF NothingReadyWaits
  <2>5. Stream(q)' = Stream(q)
    BY <2>1 DEF Stream
  <2>6. /\ Len(Stream(q)) = recvNext[q] /\ recvNext[q] <= sendSeq[Other(q)]
        /\ \A i \in 1 .. Len(Stream(q)) : Stream(q)[i] = i - 1
    BY DEF StreamIsPrefix
  <2>7. \A s \in Nat : Has(q, s) => Has(q, s)'
    BY <2>1, <2>2 DEF Has
  <2>8. Has(q, seq)'
    BY <2>1, <2>2, <1>1 DEF Has
  <2>9. \A s \in outOfOrder'[q] : recvNext'[q] < s /\ s < sendSeq[Other(q)]
    BY <2>1, <2>2, <2>4, <1>1
  <2>10. /\ recvNext' \in [Peers -> Nat] /\ recvBuf' \in [Peers -> Seq(Nat)]
         /\ \A p \in Peers \ {q} : /\ recvNext'[p] = recvNext[p]
                                   /\ outOfOrder'[p] = outOfOrder[p]
                                   /\ recvBuf'[p] = recvBuf[p]
         /\ recvNext'[q] >= recvNext[q] /\ recvNext'[q] <= sendSeq[Other(q)]
    BY <1>1, <2>1, <2>2, <2>6
  <2>11. /\ Stream(q)' \in Seq(Nat) /\ Len(Stream(q)') = recvNext'[q]
         /\ \A i \in 1 .. Len(Stream(q)') : Stream(q)'[i] = i - 1
    BY <1>3, <2>1, <2>5, <2>6
  <2> QED BY <2>2, <2>3, <2>7, <2>8, <2>9, <2>10, <2>11, Zenon
<1>5. CASE InOrder(q, seq)
  <2>1. PICK n \in seq + 1 .. seq + 1 + Cardinality(outOfOrder[q]) :
        /\ n \notin outOfOrder[q]
        /\ \A s \in seq + 1 .. n - 1 : s \in outOfOrder[q]
        /\ recvNext' = [recvNext EXCEPT ![q] = n]
        /\ outOfOrder' = [outOfOrder EXCEPT ![q] = @ \ (seq + 1 .. n - 1)]
        /\ recvBuf' = [recvBuf EXCEPT ![q] = @ \o [i \in 1 .. n - seq |-> seq + i - 1]]
    BY <1>5 DEF InOrder
  <2>2. seq = recvNext[q]
    BY <1>5 DEF InOrder
  <2>3. n \in Nat /\ n > seq
    BY <2>1, <1>1, FS_CardinalityType
  <2>4. \A s \in outOfOrder[q] : s \in Nat /\ recvNext[q] < s /\ s < sendSeq[Other(q)]
    BY <1>1 DEF NothingReadyWaits
  <2>5. /\ recvNext' \in [Peers -> Nat] /\ recvNext'[q] = n
        /\ \A p \in Peers \ {q} : recvNext'[p] = recvNext[p]
    BY <2>1, <2>3, <1>1
  <2>6. n <= sendSeq[Other(q)]
    <3>1. CASE n = seq + 1
      BY <3>1, <1>1, <1>2
    <3>2. CASE n # seq + 1
      <4>1. n - 1 \in seq + 1 .. n - 1
        BY <3>2, <2>3
      <4> QED BY <4>1, <2>1, <2>3, <2>4, <1>1, <1>2
    <3> QED BY <3>1, <3>2
  <2>7. /\ outOfOrder' \in [Peers -> SUBSET Nat]
        /\ outOfOrder'[q] = outOfOrder[q] \ (seq + 1 .. n - 1)
        /\ \A p \in Peers \ {q} : outOfOrder'[p] = outOfOrder[p]
    BY <2>1, <1>1
  <2>8. \A p \in Peers : IsFiniteSet(outOfOrder'[p])
    BY <2>7, <1>1, FS_Difference
  <2>9. \A s \in outOfOrder'[q] : recvNext'[q] < s /\ s < sendSeq[Other(q)]
    BY <2>1, <2>2, <2>3, <2>4, <2>5, <2>7
  <2>10. \A s \in Nat : Has(q, s) => Has(q, s)'
    BY <2>2, <2>3, <2>5, <2>7 DEF Has
  <2>11. Has(q, seq)'
    BY <2>3, <2>5 DEF Has
  <2> DEFINE run == [i \in 1 .. n - seq |-> seq + i - 1]
  <2>12. run \in Seq(Nat) /\ Len(run) = n - seq
    <3>1. n - seq \in Nat /\ \A i \in 1 .. n - seq : seq + i - 1 \in Nat
      BY <2>3
    <3> QED BY <3>1
  <2>13. \A i \in 1 .. n - seq : run[i] = seq + i - 1
    OBVIOUS
  <2>14. /\ recvBuf'[q] = recvBuf[q] \o run
         /\ \A p \in Peers \ {q} : recvBuf'[p] = recvBuf[p]
    BY <2>1, <1>1
  <2>15. recvBuf' \in [Peers -> Seq(Nat)]
    <3>1. recvBuf[q] \o run \in Seq(Nat)
      <4> HIDE DEF run
      <4> QED BY <2>12, <1>1, ConcatProperties
    <3>2. recvBuf' = [recvBuf EXCEPT ![q] = recvBuf[q] \o run]
      BY <2>1
    <3> HIDE DEF run
    <3> QED BY <3>1, <3>2, <1>1
  <2> HIDE DEF run
  <2>16. Stream(q)' = Stream(q) \o run
    <3>1. Stream(q)' = read[q] \o (recvBuf[q] \o run)
      BY <2>14 DEF Stream
    <3>2. read[q] \in Seq(Nat) /\ recvBuf[q] \in Seq(Nat)
      BY <1>1
    <3>3. (read[q] \o recvBuf[q]) \o run = read[q] \o (recvBuf[q] \o run)
      BY <2>12, <3>2, AppendToStream, Zenon
    <3> QED BY <3>1, <3>3 DEF Stream
  <2>17. /\ Stream(q)' \in Seq(Nat)
         /\ Len(Stream(q)') = Len(Stream(q)) + Len(run)
         /\ \A i \in 1 .. Len(Stream(q)) + Len(run) : Stream(q)'[i] =
               IF i <= Len(Stream(q)) THEN Stream(q)[i] ELSE run[i - Len(Stream(q))]
    <3>1. /\ Stream(q) \o run \in Seq(Nat)
          /\ Len(Stream(q) \o run) = Len(Stream(q)) + Len(run)
          /\ \A i \in 1 .. Len(Stream(q)) + Len(run) : (Stream(q) \o run)[i] =
                IF i <= Len(Stream(q)) THEN Stream(q)[i] ELSE run[i - Len(Stream(q))]
      BY <2>12, <1>3, ConcatProperties, Zenon
    <3> QED BY <3>1, <2>16, Zenon
  <2>18. /\ Len(Stream(q)) = seq
         /\ \A i \in 1 .. seq : Stream(q)[i] = i - 1
    BY <2>2 DEF StreamIsPrefix
  <2>19. Len(Stream(q)') = recvNext'[q]
    BY <2>3, <2>5, <2>12, <2>17, <2>18
  <2>20. \A i \in 1 .. Len(Stream(q)') : Stream(q)'[i] = i - 1
    <3>1. SUFFICES ASSUME NEW i \in 1 .. n PROVE Stream(q)'[i] = i - 1
      BY <2>19, <2>5
    <3>2. CASE i <= seq
      BY <3>2, <2>3, <2>12, <2>17, <2>18
    <3>3. CASE i > seq
      <4>1. i - seq \in 1 .. n - seq
        BY <3>3, <2>3
      <4>2. run[i - seq] = i - 1
        BY <4>1, <2>13, <2>3
      <4> QED BY <4>2, <3>3, <2>3, <2>12, <2>17, <2>18
    <3> QED BY <3>2, <3>3
  <2>21. /\ \A p \in Peers \ {q} : /\ recvNext'[p] = recvNext[p]
                                   /\ outOfOrder'[p] = outOfOrder[p]
                                   /\ recvBuf'[p] = recvBuf[p]
         /\ recvNext'[q] >= recvNext[q] /\ recvNext'[q] <= sendSeq[Other(q)]
    BY <2>2, <2>3, <2>5, <2>6, <2>7, <2>14
  <2> QED BY <2>5, <2>7, <2>8, <2>9, <2>10, <2>11, <2>15, <2>17, <2>19, <2>20,
             <2>21, Zenon
<1> QED BY <1>4, <1>5

LEMMA InvInit == Init => IInv
<1> SUFFICES ASSUME Init PROVE IInv
  OBVIOUS
<1>1. \A p \in Peers : Stream(p) = << >>
  BY DEF Init, Stream
<1>2. Cardinality({}) = 0 /\ IsFiniteSet({})
  BY FS_EmptySet
<1>3. TypeOK
  BY <1>2, WindowAssumption DEF Init, TypeOK
<1>4. StreamIsPrefix
  BY <1>1, OtherFacts DEF Init, StreamIsPrefix
<1>5. HeadersHonest /\ NothingReadyWaits
  BY DEF Init, HeadersHonest, NothingReadyWaits
<1>6. RoomToQueue /\ RoomWhenEmpty /\ CallOpen
  BY <1>2, WindowAssumption DEF Init, RoomToQueue, RoomWhenEmpty, Least, CallOpen
<1> QED BY <1>3, <1>4, <1>5, <1>6 DEF IInv

\* Sequence numbers grow and nothing else of the stream moves: what the
\* receive side owes to the send side stays true.
LEMMA StreamFrame ==
  ASSUME IInv, UNCHANGED <<recvNext, outOfOrder>>, sendSeq' \in [Peers -> Nat],
         \A p \in Peers : sendSeq'[p] >= sendSeq[p],
         \A p \in Peers : Stream(p)' = Stream(p)
  PROVE  StreamIsPrefix' /\ NothingReadyWaits'
<1>1. /\ sendSeq \in [Peers -> Nat] /\ recvNext \in [Peers -> Nat]
      /\ outOfOrder \in [Peers -> SUBSET Nat]
  BY DEF IInv, TypeOK
<1>2. StreamIsPrefix'
  BY <1>1, OtherFacts DEF IInv, StreamIsPrefix
<1>3. NothingReadyWaits'
  <2>1. SUFFICES ASSUME NEW p \in Peers, NEW s \in outOfOrder[p]
                 PROVE  recvNext[p] < s /\ s < sendSeq'[Other(p)]
    BY DEF NothingReadyWaits
  <2>2. recvNext[p] < s /\ s < sendSeq[Other(p)]
    BY DEF IInv, NothingReadyWaits
  <2>3. s \in Nat
    BY <1>1
  <2> QED BY <1>1, <2>2, <2>3, OtherFacts
<1> QED BY <1>2, <1>3

LEMMA SendallStep ==
  ASSUME IInv, NEW p \in Peers, Sendall(p)
  PROVE  IInv'
<1> USE DEF recvVars, appVars
<1>1. TypeOK'
  BY DEF IInv, TypeOK, Sendall
<1>2. StreamIsPrefix' /\ NothingReadyWaits'
  <2>1. \A q \in Peers : Stream(q)' = Stream(q)
    BY DEF Sendall, Stream
  <2>2. /\ sendSeq' \in [Peers -> Nat]
        /\ \A q \in Peers : sendSeq'[q] >= sendSeq[q]
    BY DEF IInv, TypeOK, Sendall
  <2>3. UNCHANGED <<recvNext, outOfOrder>>
    BY DEF Sendall
  <2> QED BY <2>1, <2>2, <2>3, StreamFrame
<1>3. HeadersHonest'
  BY DEF IInv, HeadersHonest, QueuedSeqs, Sendall
<1>4. RoomToQueue' /\ RoomWhenEmpty' /\ CallOpen'
  BY DEF IInv, TypeOK, RoomToQueue, RoomWhenEmpty, CallOpen, Sendall
<1> QED BY <1>1, <1>2, <1>3, <1>4 DEF IInv

LEMMA EnqueueStep ==
  ASSUME IInv, NEW p \in Peers, Enqueue(p)
  PROVE  IInv'
<1> USE DEF recvVars, appVars
<1> DEFINE pkt == Packet(p, "DATA", sendSeq[p], recvNext[p])
           queued == sendQueue[p] \cup {pkt}
<1>1. /\ pc[p] = "chunk"
      /\ sendSeq' = [sendSeq EXCEPT ![p] = @ + 1]
      /\ sendQueue' = [sendQueue EXCEPT ![p] = queued]
      /\ pc' = [pc EXCEPT ![p] = IF Cardinality(queued) >= window[p] /\ ~closed[p]
                                 THEN "window" ELSE "send"]
      /\ UNCHANGED <<window, left, rtxRunning, recvVars, appVars, closed, net>>
  BY DEF Enqueue
<1>2. TypeOK
  BY DEF IInv
<1>3. /\ sendSeq \in [Peers -> Nat] /\ recvNext \in [Peers -> Nat]
      /\ sendQueue \in [Peers -> SUBSET Packets]
      /\ window \in [Peers -> WindowMin .. WindowMax]
      /\ pc \in [Peers -> {"idle", "chunk", "window", "send"}]
      /\ \A q \in Peers : IsFiniteSet(sendQueue[q])
  BY <1>2 DEF TypeOK
<1>4. /\ pkt \in Packets /\ pkt.from = p /\ pkt.type = "DATA"
      /\ pkt.seq = sendSeq[p] /\ pkt.ack = recvNext[p]
  BY <1>3 DEF Packet, Packets
<1>5. /\ IsFiniteSet(queued) /\ Cardinality(queued) \in Nat
      /\ Cardinality(sendQueue[p]) \in Nat
      /\ Cardinality(queued) <= Cardinality(sendQueue[p]) + 1
  <2> HIDE DEF pkt
  <2>1. /\ IsFiniteSet(queued)
        /\ Cardinality(queued) = IF pkt \in sendQueue[p] THEN Cardinality(sendQueue[p])
                                 ELSE Cardinality(sendQueue[p]) + 1
    BY <1>3, FS_AddElement
  <2>2. Cardinality(queued) \in Nat /\ Cardinality(sendQueue[p]) \in Nat
    BY <2>1, <1>3, FS_CardinalityType
  <2> QED BY <2>1, <2>2
<1> HIDE DEF pkt
<1>6. /\ sendSeq' \in [Peers -> Nat] /\ sendSeq'[p] = sendSeq[p] + 1
      /\ \A q \in Peers \ {p} : sendSeq'[q] = sendSeq[q]
      /\ \A q \in Peers : sendSeq'[q] >= sendSeq[q]
  BY <1>1, <1>3
<1>7. /\ sendQueue' \in [Peers -> SUBSET Packets] /\ sendQueue'[p] = queued
      /\ \A q \in Peers \ {p} : sendQueue'[q] = sendQueue[q]
  BY <1>1, <1>3, <1>4
<1>8. \A q \in Peers : IsFiniteSet(sendQueue'[q])
  <2> HIDE DEF queued
  <2> QED BY <1>3, <1>5, <1>7
<1>9. TypeOK'
  <2>1. pc' \in [Peers -> {"idle", "chunk", "window", "send"}]
    BY <1>1, <1>3
  <2> QED BY <1>1, <1>2, <1>6, <1>7, <1>8, <2>1 DEF TypeOK
<1>10. StreamIsPrefix' /\ NothingReadyWaits'
  <2>1. \A q \in Peers : Stream(q)' = Stream(q)
    BY <1>1 DEF Stream
  <2> QED BY <1>1, <1>6, <2>1, StreamFrame
<1>11. HeadersHonest'
  <2>1. ASSUME NEW m \in net', m.type = "DATA"
        PROVE  m.seq < sendSeq'[m.from] /\ m.ack <= recvNext'[m.from]
    <3>1. m \in net /\ m \in Packets
      BY <1>1, <1>2 DEF TypeOK
    <3>2. m.from \in Peers /\ m.seq \in Nat
      BY <3>1 DEF Packets
    <3>3. m.seq < sendSeq[m.from] /\ m.ack <= recvNext[m.from]
      BY <2>1, <3>1 DEF IInv, HeadersHonest
    <3> QED BY <1>1, <1>3, <1>6, <3>2, <3>3
  <2>2. \A m \in net' : m.type = "ACK" =>
           m.ack < recvNext'[m.from] \/ m.ack \in outOfOrder'[m.from]
    BY <1>1 DEF IInv, HeadersHonest
  <2>3. ASSUME NEW q \in Peers, NEW x \in sendQueue'[q]
        PROVE  x.from = q /\ x.type = "DATA" /\ x.seq < sendSeq'[q] /\ x.ack <= recvNext'[q]
    <3>1. CASE x \in sendQueue[q]
      <4>1. x \in Packets
        BY <3>1, <1>3
      <4>2. x.seq \in Nat
        BY <4>1 DEF Packets
      <4>3. x.from = q /\ x.type = "DATA" /\ x.seq < sendSeq[q] /\ x.ack <= recvNext[q]
        BY <3>1 DEF IInv, HeadersHonest
      <4> QED BY <4>2, <4>3, <1>1, <1>3, <1>6
    <3>2. CASE q = p /\ x = pkt
      BY <3>2, <1>1, <1>3, <1>4, <1>6
    <3> QED BY <2>3, <3>1, <3>2, <1>7
  <2> QED BY <2>1, <2>2, <2>3 DEF HeadersHonest
<1>13. RoomToQueue'
  <2>1. SUFFICES ASSUME NEW q \in Peers, ~closed[q]
                 PROVE  /\ Cardinality(sendQueue'[q]) <= WindowMax
                        /\ pc'[q] # "window" => Cardinality(sendQueue'[q]) < WindowMax
    BY <1>1 DEF RoomToQueue
  <2>2. /\ Cardinality(sendQueue[q]) <= WindowMax
        /\ pc[q] # "window" => Cardinality(sendQueue[q]) < WindowMax
    BY <2>1 DEF IInv, RoomToQueue
  <2>3. CASE q # p
    BY <2>2, <2>3, <1>1, <1>3, <1>7
  <2>4. CASE q = p
    <3> HIDE DEF queued
    <3>1. Cardinality(queued) <= WindowMax
      BY <2>2, <2>4, <1>1, <1>5, WindowAssumption
    <3>2. pc'[p] # "window" => Cardinality(queued) < window[p]
      BY <2>1, <2>4, <1>1, <1>3, <1>5
    <3> QED BY <3>1, <3>2, <2>4, <1>3, <1>5, <1>7, WindowAssumption
  <2> QED BY <2>3, <2>4
<1>14. RoomWhenEmpty' /\ CallOpen'
  <2>1. CallOpen'
    BY <1>1, <1>3 DEF IInv, CallOpen
  <2> QED BY <1>1, <1>7, <2>1 DEF IInv, RoomWhenEmpty
<1> QED BY <1>9, <1>10, <1>11, <1>13, <1>14 DEF IInv

LEMMA UnblockStep ==
  ASSUME IInv, NEW p \in Peers, Unblock(p)
  PROVE  IInv'
<1> USE DEF recvVars, appVars
<1>1. TypeOK'
  BY DEF IInv, TypeOK, Unblock
<1>2. StreamIsPrefix' /\ NothingReadyWaits'
  <2>1. \A q \in Peers : Stream(q)' = Stream(q)
    BY DEF Unblock, Stream
  <2> QED BY <2>1, StreamFrame DEF IInv, TypeOK, Unblock
<1>3. HeadersHonest' /\ RoomWhenEmpty'
  BY DEF IInv, HeadersHonest, QueuedSeqs, RoomWhenEmpty, Unblock
<1>5. CallOpen'
  BY DEF IInv, TypeOK, CallOpen, Unblock
<1>4. RoomToQueue'
  <2>1. SUFFICES ASSUME NEW q \in Peers, ~closed[q]
                 PROVE  /\ Cardinality(sendQueue[q]) <= WindowMax
                        /\ pc'[q] # "window" => Cardinality(sendQueue[q]) < WindowMax
    BY DEF RoomToQueue, Unblock
  <2>2. /\ Cardinality(sendQueue[q]) <= WindowMax
        /\ pc[q] # "window" => Cardinality(sendQueue[q]) < WindowMax
        /\ q # p => pc'[q] = pc[q]
    BY <2>1 DEF IInv, TypeOK, RoomToQueue, Unblock
  <2>3. q = p => Cardinality(sendQueue[q]) < window[q]
    BY <2>1 DEF Unblock
  <2>4. Cardinality(sendQueue[q]) \in Nat /\ window[q] \in WindowMin .. WindowMax
    BY FS_CardinalityType DEF IInv, TypeOK
  <2> QED BY <2>2, <2>3, <2>4, WindowAssumption
<1> QED BY <1>1, <1>2, <1>3, <1>4, <1>5 DEF IInv

\* Transmitting queued packets, by sendall or by the retransmission thread.
LEMMA ResendHonest ==
  ASSUME IInv, NEW p \in Peers, NEW S \in SUBSET sendQueue[p], net' = net \cup S,
         UNCHANGED <<sendSeq, sendQueue, recvNext, outOfOrder>>
  PROVE  HeadersHonest' /\ net' \in SUBSET Packets
<1>1. sendQueue[p] \in SUBSET Packets /\ net \in SUBSET Packets
  BY DEF IInv, TypeOK
<1>2. \A x \in S : /\ x.from = p /\ x.type = "DATA"
                   /\ x.seq < sendSeq[p] /\ x.ack <= recvNext[p]
  BY DEF IInv, HeadersHonest
<1>3. HeadersHonest
  BY DEF IInv
<1> QED BY <1>1, <1>2, <1>3 DEF HeadersHonest

LEMMA TransmitStep ==
  ASSUME IInv, NEW p \in Peers, Transmit(p)
  PROVE  IInv'
<1> USE DEF recvVars, appVars
<1>1. /\ pc[p] = "send" /\ net' = net \cup InHand(p)
      /\ left' = [left EXCEPT ![p] = @ - 1]
      /\ pc' = [pc EXCEPT ![p] = IF left[p] = 1 THEN "idle" ELSE "chunk"]
      /\ UNCHANGED <<sendSeq, sendQueue, window, rtxRunning, recvVars, appVars, closed>>
  BY DEF Transmit
<1>2. HeadersHonest' /\ net' \in SUBSET Packets
  <2>1. InHand(p) \in SUBSET sendQueue[p]
    BY DEF InHand
  <2>2. UNCHANGED <<sendSeq, sendQueue, recvNext, outOfOrder>>
    BY <1>1
  <2> QED BY <1>1, <2>1, <2>2, ResendHonest
<1>3. StreamIsPrefix' /\ NothingReadyWaits'
  <2>1. \A q \in Peers : Stream(q)' = Stream(q)
    BY <1>1 DEF Stream
  <2> QED BY <1>1, <2>1, StreamFrame DEF IInv, TypeOK
<1>4. RoomWhenEmpty'
  BY <1>1 DEF IInv, QueuedSeqs, RoomWhenEmpty
<1>5. RoomToQueue'
  BY <1>1 DEF IInv, TypeOK, RoomToQueue
<1>6. left \in [Peers -> Nat] /\ left[p] # 0
  BY <1>1 DEF IInv, TypeOK, CallOpen
<1>7. TypeOK'
  BY <1>1, <1>2, <1>6 DEF IInv, TypeOK
<1>8. CallOpen'
  BY <1>1, <1>6 DEF IInv, TypeOK, CallOpen
<1> QED BY <1>2, <1>3, <1>4, <1>5, <1>7, <1>8 DEF IInv

\* Giving up the call disturbs nothing but where sendall is.
LEMMA SendFailsStep ==
  ASSUME IInv, NEW p \in Peers, SendFails(p)
  PROVE  IInv'
<1> USE DEF recvVars, appVars
<1>1. /\ pc[p] = "send"
      /\ left' = [left EXCEPT ![p] = 0]
      /\ pc' = [pc EXCEPT ![p] = "idle"]
      /\ UNCHANGED <<sendSeq, sendQueue, window, rtxRunning, recvVars, appVars, closed, net>>
  BY DEF SendFails
<1>2. HeadersHonest'
  BY <1>1 DEF IInv, HeadersHonest
<1>3. StreamIsPrefix' /\ NothingReadyWaits'
  BY <1>1, Zenon DEF IInv, StreamIsPrefix, NothingReadyWaits, Stream
<1>4. RoomWhenEmpty'
  BY <1>1 DEF IInv, QueuedSeqs, RoomWhenEmpty
<1>5. RoomToQueue'
  BY <1>1 DEF IInv, TypeOK, RoomToQueue
<1>6. TypeOK'
  BY <1>1 DEF IInv, TypeOK
<1>7. CallOpen'
  BY <1>1 DEF IInv, TypeOK, CallOpen
<1> QED BY <1>2, <1>3, <1>4, <1>5, <1>6, <1>7 DEF IInv

LEMMA RtxStep ==
  ASSUME IInv, NEW p \in Peers, Rtx(p)
  PROVE  IInv'
<1> USE DEF recvVars, appVars
<1>1. PICK expired \in (SUBSET sendQueue[p]) \ {{}} : net' = net \cup expired
  BY DEF Rtx
<1>2. /\ window' = [window EXCEPT ![p] = Most(WindowMin, @ \div 2)]
      /\ rtxRunning' = [rtxRunning EXCEPT ![p] = ~closed[p]]
      /\ UNCHANGED <<sendSeq, sendQueue, pc, left, recvVars, appVars, closed>>
  BY DEF Rtx
<1>3. HeadersHonest' /\ net' \in SUBSET Packets
  BY <1>1, <1>2, ResendHonest
<1>4. StreamIsPrefix' /\ NothingReadyWaits'
  <2>1. \A q \in Peers : Stream(q)' = Stream(q)
    BY <1>2 DEF Stream
  <2> QED BY <1>2, <2>1, StreamFrame DEF IInv, TypeOK
<1>5. window' \in [Peers -> WindowMin .. WindowMax]
  <2>1. window \in [Peers -> WindowMin .. WindowMax]
    BY DEF IInv, TypeOK
  <2>2. window[p] \div 2 \in Nat /\ window[p] \div 2 <= window[p]
    BY <2>1, WindowAssumption
  <2>3. Most(WindowMin, window[p] \div 2) \in WindowMin .. WindowMax
    BY <2>1, <2>2, WindowAssumption DEF Most
  <2> QED BY <1>2, <2>1, <2>3
<1>6. TypeOK'
  BY <1>2, <1>3, <1>5 DEF IInv, TypeOK
<1>7. RoomToQueue' /\ CallOpen'
  BY <1>2, Zenon DEF IInv, QueuedSeqs, RoomToQueue, CallOpen
<1>8. RoomWhenEmpty'
  <2>1. sendQueue[p] # {}
    BY <1>1
  <2>2. \A q \in Peers \ {p} : window'[q] = window[q]
    <3>1. window \in [Peers -> WindowMin .. WindowMax]
      BY DEF IInv, TypeOK
    <3>2. window' = [window EXCEPT ![p] = Most(WindowMin, @ \div 2)]
      BY <1>2
    <3> QED BY <3>1, <3>2, Zenon
  <2>3. RoomWhenEmpty /\ sendQueue' = sendQueue
    BY <1>2 DEF IInv
  <2> QED BY <2>1, <2>2, <2>3 DEF RoomWhenEmpty
<1> QED BY <1>3, <1>4, <1>6, <1>7, <1>8 DEF IInv

\* Steps that touch none of what IInv speaks of beside types.
LEMMA RtxExitStep ==
  ASSUME IInv, NEW p \in Peers, RtxExit(p)
  PROVE  IInv'
<1> USE DEF recvVars, appVars
<1>1. TypeOK'
  BY DEF IInv, TypeOK, RtxExit
<1>2. StreamIsPrefix' /\ NothingReadyWaits'
  BY DEF IInv, StreamIsPrefix, NothingReadyWaits, Stream, RtxExit
<1>3. /\ CallOpen' /\ HeadersHonest' /\ RoomToQueue'
      /\ RoomWhenEmpty'
  BY DEF IInv, CallOpen, HeadersHonest, QueuedSeqs, RoomToQueue,
         RoomWhenEmpty, RtxExit
<1> QED BY <1>1, <1>2, <1>3 DEF IInv

LEMMA OnFinStep ==
  ASSUME IInv, NEW q \in Peers, OnFin(q)
  PROVE  IInv'
<1> USE DEF sendVars, appVars
<1>1. TypeOK'
  BY DEF IInv, TypeOK, OnFin
<1>2. StreamIsPrefix' /\ NothingReadyWaits'
  BY DEF IInv, StreamIsPrefix, NothingReadyWaits, Stream, OnFin
<1>3. /\ CallOpen' /\ HeadersHonest' /\ RoomToQueue'
      /\ RoomWhenEmpty'
  BY DEF IInv, CallOpen, HeadersHonest, QueuedSeqs, RoomToQueue,
         RoomWhenEmpty, OnFin
<1> QED BY <1>1, <1>2, <1>3 DEF IInv

LEMMA RecvEofStep ==
  ASSUME IInv, NEW p \in Peers, RecvEof(p)
  PROVE  IInv'
<1> USE DEF sendVars, recvVars
<1>1. TypeOK'
  BY DEF IInv, TypeOK, RecvEof
<1>2. StreamIsPrefix' /\ NothingReadyWaits'
  BY DEF IInv, StreamIsPrefix, NothingReadyWaits, Stream, RecvEof
<1>3. /\ CallOpen' /\ HeadersHonest' /\ RoomToQueue'
      /\ RoomWhenEmpty'
  BY DEF IInv, CallOpen, HeadersHonest, QueuedSeqs, RoomToQueue,
         RoomWhenEmpty, RecvEof
<1> QED BY <1>1, <1>2, <1>3 DEF IInv

LEMMA CloseStep ==
  ASSUME IInv, NEW p \in Peers, Close(p)
  PROVE  IInv'
<1> USE DEF sendVars, recvVars, appVars
<1> DEFINE fin == Packet(p, "FIN", 0, recvNext[p])
<1>1. /\ closed' = [closed EXCEPT ![p] = TRUE] /\ net' = net \cup {fin}
      /\ UNCHANGED <<sendVars, recvVars, appVars>>
  BY DEF Close
<1>2. fin \in Packets /\ fin.type = "FIN"
  BY DEF IInv, TypeOK, Packet, Packets
<1> HIDE DEF fin
<1>3. TypeOK'
  BY <1>1, <1>2 DEF IInv, TypeOK
<1>4. StreamIsPrefix' /\ NothingReadyWaits'
  BY <1>1 DEF IInv, StreamIsPrefix, NothingReadyWaits, Stream
<1>5. CallOpen' /\ RoomWhenEmpty'
  BY <1>1 DEF IInv, CallOpen, QueuedSeqs, RoomWhenEmpty
<1>6. RoomToQueue'
  BY <1>1 DEF IInv, TypeOK, RoomToQueue
<1>7. HeadersHonest'
  BY <1>1, <1>2 DEF IInv, HeadersHonest
<1> QED BY <1>3, <1>4, <1>5, <1>6, <1>7 DEF IInv

LEMMA RecvStep ==
  ASSUME IInv, NEW p \in Peers, Recv(p)
  PROVE  IInv'
<1> USE DEF sendVars
<1>1. PICK k \in 1 .. Len(recvBuf[p]) :
        /\ read' = [read EXCEPT ![p] = @ \o SubSeq(recvBuf[p], 1, k)]
        /\ recvBuf' = [recvBuf EXCEPT ![p] = SubSeq(@, k + 1, Len(@))]
  BY DEF Recv
<1>2. UNCHANGED <<sendVars, recvNext, outOfOrder, peerClosed, eof, closed, net>>
  BY DEF Recv
<1>3. read \in [Peers -> Seq(Nat)] /\ recvBuf \in [Peers -> Seq(Nat)]
  BY DEF IInv, TypeOK
<1> DEFINE taken == SubSeq(recvBuf[p], 1, k)
           rest == SubSeq(recvBuf[p], k + 1, Len(recvBuf[p]))
<1>4. taken \in Seq(Nat) /\ rest \in Seq(Nat)
  BY <1>3
<1>5. taken \o rest = recvBuf[p]
  <2>1. Len(recvBuf[p]) \in Nat
    BY <1>3
  <2>2. /\ 1 \in 1 .. Len(recvBuf[p]) + 1
        /\ k \in 1 - 1 .. Len(recvBuf[p])
        /\ Len(recvBuf[p]) \in k .. Len(recvBuf[p])
    BY <2>1
  <2>3. taken \o rest = SubSeq(recvBuf[p], 1, Len(recvBuf[p]))
    BY <1>3, <2>2, ConcatAdjacentSubSeq
  <2> QED BY <1>3, <2>3, SubSeqFull
<1> HIDE DEF taken, rest
<1>6. /\ read' = [read EXCEPT ![p] = read[p] \o taken]
      /\ recvBuf' = [recvBuf EXCEPT ![p] = rest]
  BY <1>1 DEF taken, rest
<1>7. read[p] \o taken \in Seq(Nat)
  BY <1>3, <1>4
<1>8. read' \in [Peers -> Seq(Nat)] /\ recvBuf' \in [Peers -> Seq(Nat)]
  BY <1>3, <1>4, <1>6, <1>7
<1>9. TypeOK'
  BY <1>2, <1>8 DEF IInv, TypeOK
<1>10. \A q \in Peers : Stream(q)' = Stream(q)
  <2>1. ASSUME NEW q \in Peers, q # p PROVE Stream(q)' = Stream(q)
    BY <2>1, <1>3, <1>6 DEF Stream
  <2>2. Stream(p)' = Stream(p)
    <3>1. Stream(p)' = (read[p] \o taken) \o rest
      BY <1>3, <1>6 DEF Stream
    <3>2. read[p] \o (taken \o rest) = (read[p] \o taken) \o rest
      BY <1>3, <1>4, AppendToStream
    <3> QED BY <1>5, <3>1, <3>2 DEF Stream
  <2> QED BY <2>1, <2>2
<1>11. StreamIsPrefix' /\ NothingReadyWaits'
  <2>1. /\ sendSeq' \in [Peers -> Nat]
        /\ \A q \in Peers : sendSeq'[q] >= sendSeq[q]
    BY <1>2 DEF IInv, TypeOK, sendVars
  <2>2. UNCHANGED <<recvNext, outOfOrder>>
    BY <1>2
  <2> QED BY <1>10, <2>1, <2>2, StreamFrame
<1>12. /\ CallOpen' /\ HeadersHonest' /\ RoomToQueue'
       /\ RoomWhenEmpty'
  BY <1>2, Zenon DEF IInv, CallOpen, HeadersHonest, QueuedSeqs, RoomToQueue,
         RoomWhenEmpty
<1> QED BY <1>9, <1>11, <1>12 DEF IInv

\* The receive side of every peer keeps what it has.
Keeps == \A r \in Peers : /\ recvNext'[r] >= recvNext[r]
                          /\ \A s \in Nat : Has(r, s) => Has(r, s)'

\* Any acknowledgement leaves the queue and the window in good order.
LEMMA AckKeeps ==
  ASSUME IInv, NEW q \in Peers, NEW ack \in Nat, AckEffect(q, ack),
         UNCHANGED <<sendSeq, pc, left, closed>>
  PROVE  CallOpen' /\ RoomToQueue' /\ RoomWhenEmpty'
<1>1. /\ TypeOK /\ CallOpen /\ RoomToQueue /\ RoomWhenEmpty
  BY DEF IInv
<1>2. /\ \A p \in Peers : sendQueue'[p] \subseteq sendQueue[p]
      /\ \A p \in Peers : Cardinality(sendQueue'[p]) \in Nat
      /\ \A p \in Peers : Cardinality(sendQueue'[p]) <= Cardinality(sendQueue[p])
      /\ \A p \in Peers \ {q} : sendQueue'[p] = sendQueue[p] /\ window'[p] = window[p]
      /\ \A x \in sendQueue[q] : x \in sendQueue'[q] \/ x.seq < ack
      /\ sendQueue'[q] # sendQueue[q] => window'[q] >= Least(2, WindowInit)
      /\ sendQueue'[q] = sendQueue[q] => window'[q] = window[q]
  BY <1>1, AckFacts, Zenon
<1>3. \A p \in Peers : Cardinality(sendQueue[p]) \in Nat
  BY <1>1, FS_CardinalityType DEF TypeOK
<1>4. CallOpen'
  BY <1>1 DEF CallOpen
<1>5. RoomToQueue'
  BY <1>1, <1>2, <1>3, WindowAssumption DEF RoomToQueue
<1>6. RoomWhenEmpty'
  BY <1>1, <1>2 DEF RoomWhenEmpty
<1> QED BY <1>4, <1>5, <1>6

LEMMA OnAckStep ==
  ASSUME IInv, NEW q \in Peers, OnAck(q)
  PROVE  IInv'
<1> USE DEF recvVars, appVars
<1>1. PICK m \in net : m.from = Other(q) /\ m.type = "ACK" /\ AckEffect(q, m.ack)
  BY DEF OnAck
<1>2. UNCHANGED <<sendSeq, pc, left, rtxRunning, recvVars, appVars, closed, net>>
  BY DEF OnAck
<1>3. TypeOK
  BY DEF IInv
<1>4. m \in Packets /\ m.ack \in Nat
  BY <1>3, Zenon DEF TypeOK, Packets
<1>8. CallOpen' /\ RoomToQueue' /\ RoomWhenEmpty'
  BY <1>1, <1>2, <1>4, AckKeeps
<1>9. /\ sendQueue' \in [Peers -> SUBSET Packets]
      /\ \A p \in Peers : IsFiniteSet(sendQueue'[p])
      /\ window' \in [Peers -> WindowMin .. WindowMax]
      /\ \A p \in Peers : sendQueue'[p] \subseteq sendQueue[p]
  BY <1>1, <1>3, <1>4, AckFacts, Zenon
<1>10. TypeOK'
  BY <1>2, <1>3, <1>9 DEF TypeOK
<1>11. StreamIsPrefix' /\ NothingReadyWaits'
  <2>1. \A p \in Peers : Stream(p)' = Stream(p)
    BY <1>2 DEF Stream
  <2> QED BY <1>2, <2>1, StreamFrame DEF IInv, TypeOK
<1>12. HeadersHonest'
  <2>1. HeadersHonest
    BY DEF IInv
  <2> QED BY <1>2, <1>9, <2>1 DEF HeadersHonest
<1> QED BY <1>8, <1>10, <1>11, <1>12 DEF IInv

LEMMA OnDataStep ==
  ASSUME IInv, NEW q \in Peers, OnData(q)
  PROVE  IInv'
<1> USE DEF appVars
<1> DEFINE p == Other(q)
<1>1. PICK m \in net :
        /\ m.from = p /\ m.type = "DATA"
        /\ AckEffect(q, m.ack)
        /\ net' = net \cup {Packet(q, "ACK", 0, m.seq)}
        /\ InOrder(q, m.seq) \/ NotInOrder(q, m.seq)
  BY DEF OnData
<1>2. UNCHANGED <<sendSeq, pc, left, rtxRunning, peerClosed, appVars, closed>>
  BY DEF OnData
<1>3. TypeOK /\ StreamIsPrefix /\ NothingReadyWaits /\ HeadersHonest
  BY DEF IInv
<1>4. m \in Packets /\ m.ack \in Nat /\ m.seq \in Nat
  BY <1>3, Zenon DEF TypeOK, Packets
<1>5. m.seq < sendSeq[p] /\ m.ack <= recvNext[p]
  BY <1>1, <1>3 DEF HeadersHonest
<1>6. p \in Peers /\ p # q
  BY OtherFacts
<1>7. /\ recvNext' \in [Peers -> Nat]
      /\ outOfOrder' \in [Peers -> SUBSET Nat]
      /\ \A r \in Peers : IsFiniteSet(outOfOrder'[r])
      /\ recvBuf' \in [Peers -> Seq(Nat)]
      /\ \A r \in Peers \ {q} : /\ recvNext'[r] = recvNext[r]
                                /\ outOfOrder'[r] = outOfOrder[r]
                                /\ recvBuf'[r] = recvBuf[r]
      /\ recvNext'[q] >= recvNext[q] /\ recvNext'[q] <= sendSeq[Other(q)]
      /\ \A s \in outOfOrder'[q] : recvNext'[q] < s /\ s < sendSeq[Other(q)]
      /\ \A s \in Nat : Has(q, s) => Has(q, s)'
      /\ Has(q, m.seq)'
      /\ Stream(q)' \in Seq(Nat) /\ Len(Stream(q)') = recvNext'[q]
      /\ \A i \in 1 .. Len(Stream(q)') : Stream(q)'[i] = i - 1
  <2>1. UNCHANGED read
    BY <1>2
  <2> QED BY <1>1, <1>3, <1>4, <1>5, <2>1, ReceiveFacts, Zenon
<1>8. Keeps
  <2>1. ASSUME NEW r \in Peers, r # q
        PROVE  /\ recvNext'[r] >= recvNext[r]
               /\ \A s \in Nat : Has(r, s) => Has(r, s)'
    <3>1. recvNext'[r] = recvNext[r] /\ outOfOrder'[r] = outOfOrder[r]
      BY <2>1, <1>7
    <3>2. recvNext[r] \in Nat
      BY <1>3 DEF TypeOK
    <3> QED BY <3>1, <3>2 DEF Has
  <2> QED BY <2>1, <1>7 DEF Keeps
<1>9. CallOpen' /\ RoomToQueue' /\ RoomWhenEmpty'
  BY <1>1, <1>2, <1>4, AckKeeps
<1>10. /\ sendQueue' \in [Peers -> SUBSET Packets]
       /\ \A r \in Peers : IsFiniteSet(sendQueue'[r])
       /\ window' \in [Peers -> WindowMin .. WindowMax]
       /\ \A r \in Peers : sendQueue'[r] \subseteq sendQueue[r]
  BY <1>1, <1>3, <1>4, AckFacts, Zenon
<1> DEFINE ackPkt == Packet(q, "ACK", 0, m.seq)
<1>11. /\ ackPkt \in Packets /\ ackPkt.type = "ACK" /\ ackPkt.from = q
       /\ ackPkt.ack = m.seq
  BY <1>4 DEF Packet, Packets
<1>12. net' = net \cup {ackPkt}
  BY <1>1
<1> HIDE DEF ackPkt
<1>13. TypeOK'
  <2>1. net' \in SUBSET Packets
    BY <1>3, <1>11, <1>12 DEF TypeOK
  <2> QED BY <1>2, <1>3, <1>7, <1>10, <2>1 DEF TypeOK
<1>14. StreamIsPrefix'
  <2>1. ASSUME NEW r \in Peers, r # q
        PROVE  /\ Len(Stream(r)') = recvNext'[r]
               /\ recvNext'[r] <= sendSeq'[Other(r)]
               /\ \A i \in 1 .. Len(Stream(r)') : Stream(r)'[i] = i - 1
    <3>1. Stream(r)' = Stream(r)
      BY <2>1, <1>2, <1>7 DEF Stream
    <3>2. recvNext'[r] = recvNext[r] /\ sendSeq'[Other(r)] = sendSeq[Other(r)]
      BY <2>1, <1>2, <1>7
    <3>3. /\ Len(Stream(r)) = recvNext[r]
          /\ recvNext[r] <= sendSeq[Other(r)]
          /\ \A i \in 1 .. Len(Stream(r)) : Stream(r)[i] = i - 1
      BY <1>3, Zenon DEF StreamIsPrefix
    <3> QED BY <3>1, <3>2, <3>3
  <2>2. sendSeq' = sendSeq
    BY <1>2
  <2> QED BY <2>1, <2>2, <1>7 DEF StreamIsPrefix
<1>15. NothingReadyWaits'
  BY <1>2, <1>3, <1>7 DEF NothingReadyWaits
<1>16. HeadersHonest'
  <2>1. ASSUME NEW x \in net', x.type = "DATA"
        PROVE  x.seq < sendSeq'[x.from] /\ x.ack <= recvNext'[x.from]
    <3>1. x \in net /\ x \in Packets
      BY <2>1, <1>3, <1>11, <1>12 DEF TypeOK
    <3>2. x.from \in Peers /\ x.ack \in Nat
      BY <3>1, Zenon DEF Packets
    <3>3. x.seq < sendSeq[x.from] /\ x.ack <= recvNext[x.from]
      BY <2>1, <3>1, <1>3 DEF HeadersHonest
    <3>4. recvNext[x.from] \in Nat /\ recvNext'[x.from] \in Nat
          /\ recvNext'[x.from] >= recvNext[x.from]
      BY <3>2, <1>3, <1>7, <1>8 DEF Keeps, TypeOK
    <3> QED BY <3>2, <3>3, <3>4, <1>2
  <2>2. ASSUME NEW x \in net', x.type = "ACK"
        PROVE  Has(x.from, x.ack)'
    <3>1. CASE x = ackPkt
      BY <3>1, <1>7, <1>11 DEF Has
    <3>2. CASE x \in net
      <4>1. x.from \in Peers /\ x.ack \in Nat
        BY <3>2, <1>3, Zenon DEF TypeOK, Packets
      <4>2. Has(x.from, x.ack)
        BY <2>2, <3>2, <1>3 DEF HeadersHonest, Has
      <4> QED BY <4>1, <4>2, <1>8 DEF Keeps, Has
    <3> QED BY <2>2, <3>1, <3>2, <1>12
  <2>3. ASSUME NEW r \in Peers, NEW x \in sendQueue'[r]
        PROVE  x.from = r /\ x.type = "DATA" /\ x.seq < sendSeq'[r] /\ x.ack <= recvNext'[r]
    <3>1. x \in sendQueue[r] /\ x \in Packets
      BY <1>10
    <3>2. x.ack \in Nat
      BY <3>1, Zenon DEF Packets
    <3>3. x.from = r /\ x.type = "DATA" /\ x.seq < sendSeq[r] /\ x.ack <= recvNext[r]
      BY <3>1, <1>3 DEF HeadersHonest
    <3>4. recvNext[r] \in Nat /\ recvNext'[r] \in Nat /\ recvNext'[r] >= recvNext[r]
      BY <1>3, <1>7, <1>8 DEF Keeps, TypeOK
    <3> QED BY <3>2, <3>3, <3>4, <1>2
  <2> QED BY <2>1, <2>2, <2>3 DEF HeadersHonest, Has
<1> QED BY <1>9, <1>13, <1>14, <1>15, <1>16 DEF IInv

LEMMA InvStutter == IInv /\ UNCHANGED vars => IInv'
<1> SUFFICES ASSUME IInv, UNCHANGED vars PROVE IInv'
  OBVIOUS
<1> USE DEF vars, sendVars, recvVars, appVars
<1>1. TypeOK'
  BY DEF IInv, TypeOK
<1>2. StreamIsPrefix' /\ NothingReadyWaits'
  BY DEF IInv, StreamIsPrefix, NothingReadyWaits, Stream
<1>3. /\ CallOpen' /\ HeadersHonest' /\ RoomToQueue'
      /\ RoomWhenEmpty'
  BY DEF IInv, CallOpen, HeadersHonest, QueuedSeqs, RoomToQueue,
         RoomWhenEmpty
<1> QED BY <1>1, <1>2, <1>3 DEF IInv

\* The invariant is inductive: one lemma above for each action of Next.
LEMMA InvNext == IInv /\ [Next]_vars => IInv'
<1> SUFFICES ASSUME IInv, [Next]_vars PROVE IInv'
  OBVIOUS
<1>1. CASE UNCHANGED vars
  BY <1>1, InvStutter
<1>2. ASSUME NEW p \in Peers,
             \/ Sendall(p) \/ Enqueue(p) \/ Unblock(p) \/ Transmit(p) \/ SendFails(p)
             \/ Rtx(p) \/ RtxExit(p) \/ OnData(p) \/ OnAck(p) \/ OnFin(p)
             \/ Recv(p) \/ RecvEof(p) \/ Close(p)
      PROVE  IInv'
  BY <1>2, SendallStep, EnqueueStep, UnblockStep, TransmitStep, SendFailsStep, RtxStep, RtxExitStep,
     OnDataStep, OnAckStep, OnFinStep, RecvStep, RecvEofStep, CloseStep
<1> QED BY <1>1, <1>2 DEF Next

\* For any bounds and window limits, the whole inductive invariant, of which the
\* named properties below are parts, holds in every state of UDP-RTP.
THEOREM Invariance == Spec => []IInv
BY InvInit, InvNext, PTL DEF Spec

\* Every variable keeps its type, the window its limits, the queues are finite.
THEOREM TypeCorrect == Spec => []TypeOK
<1>1. IInv => TypeOK
  BY DEF IInv
<1> QED BY <1>1, Invariance, PTL

\* Loss, repetition and reordering never show in what the application reads:
\* the stream is the beginning of what the peer sent.
THEOREM StreamSafe == Spec => []StreamIsPrefix
<1>1. IInv => StreamIsPrefix
  BY DEF IInv
<1> QED BY <1>1, Invariance, PTL

\* The drain loop of _on_data leaves nothing deliverable in the reorder buffer.
THEOREM DrainComplete == Spec => []NothingReadyWaits
<1>1. IInv => NothingReadyWaits
  BY DEF IInv
<1> QED BY <1>1, Invariance, PTL

\* The send queue of an open socket is bounded, for every window history.
THEOREM QueueBounded == Spec => []QueueWithinMax
<1>1. IInv => QueueWithinMax
  BY DEF IInv, RoomToQueue, QueueWithinMax
<1> QED BY <1>1, Invariance, PTL

\* A sendall() that finds nothing in flight never waits.
THEOREM EmptyMeansRoom == Spec => []RoomWhenEmpty
<1>1. IInv => RoomWhenEmpty
  BY DEF IInv
<1> QED BY <1>1, Invariance, PTL

\* What each step does to the streams, as the abstract channel sees it: one peer
\* takes one more chunk, or one peer's stream grows, or neither.
LEMMA StreamSteps ==
  ASSUME IInv, IInv', Next
  PROVE  \/ /\ \E p \in Peers : sendSeq' = [sendSeq EXCEPT ![p] = @ + 1]
            /\ \A r \in Peers : Stream(r)' = Stream(r)
         \/ /\ sendSeq' = sendSeq
            /\ \E q \in Peers : \A r \in Peers \ {q} : Stream(r)' = Stream(r)
<1> USE DEF sendVars, recvVars, appVars
<1>1. PICK p \in Peers :
             \/ Sendall(p) \/ Enqueue(p) \/ Unblock(p) \/ Transmit(p) \/ SendFails(p)
             \/ Rtx(p) \/ RtxExit(p) \/ OnData(p) \/ OnAck(p) \/ OnFin(p)
             \/ Recv(p) \/ RecvEof(p) \/ Close(p)
  BY DEF Next
<1>2. CASE Enqueue(p)
  <2>1. sendSeq' = [sendSeq EXCEPT ![p] = @ + 1] /\ read' = read /\ recvBuf' = recvBuf
    BY <1>2 DEF Enqueue
  <2> QED BY <2>1 DEF Stream
<1>3. CASE OnData(p) \/ Recv(p)
  <2>1. sendSeq' = sendSeq
    BY <1>3 DEF OnData, Recv
  <2>2. \A r \in Peers \ {p} : read'[r] = read[r] /\ recvBuf'[r] = recvBuf[r]
    <3>1. read \in [Peers -> Seq(Nat)] /\ recvBuf \in [Peers -> Seq(Nat)]
      BY DEF IInv, TypeOK
    <3>2. CASE OnData(p)
      BY <3>1, <3>2 DEF OnData, InOrder, NotInOrder
    <3>3. CASE Recv(p)
      BY <3>1, <3>3 DEF Recv
    <3> QED BY <1>3, <3>2, <3>3
  <2> QED BY <2>1, <2>2 DEF Stream
<1>4. CASE \/ Sendall(p) \/ Unblock(p) \/ Transmit(p) \/ SendFails(p) \/ Rtx(p) \/ RtxExit(p)
           \/ OnAck(p) \/ OnFin(p) \/ RecvEof(p) \/ Close(p)
  <2>1. sendSeq' = sendSeq /\ read' = read /\ recvBuf' = recvBuf
    BY <1>4 DEF Sendall, Unblock, Transmit, SendFails, Rtx, RtxExit, OnAck, OnFin, RecvEof, Close
  <2> QED BY <2>1, OtherFacts DEF Stream
<1> QED BY <1>1, <1>2, <1>3, <1>4

LEMMA ProgressStep ==
  ASSUME IInv, IInv', [Next]_vars
  PROVE  Progress
<1> USE DEF sendVars, recvVars, appVars
<1>1. /\ read \in [Peers -> Seq(Nat)] /\ recvBuf \in [Peers -> Seq(Nat)]
      /\ recvNext \in [Peers -> Nat] /\ recvNext' \in [Peers -> Nat]
      /\ \A r \in Peers : Cardinality(outOfOrder[r]) \in Nat
  BY FS_CardinalityType DEF IInv, TypeOK
<1>2. \A r \in Peers : Len(Stream(r)) = recvNext[r] /\ Len(Stream(r)') = recvNext'[r]
  BY DEF IInv, StreamIsPrefix
<1>3. \A r \in Peers : recvNext'[r] >= recvNext[r] /\ Len(read'[r]) >= Len(read[r])
  <2>1. CASE recvNext' = recvNext /\ read' = read
    BY <2>1, <1>1
  <2>2. CASE UNCHANGED vars
    BY <2>1, <2>2 DEF vars
  <2>3. ASSUME NEW p \in Peers, OnData(p)
        PROVE  \A r \in Peers : recvNext'[r] >= recvNext[r] /\ Len(read'[r]) >= Len(read[r])
    <3>1. read' = read
      BY <2>3 DEF OnData
    <3>2. PICK m \in net : InOrder(p, m.seq) \/ NotInOrder(p, m.seq)
      BY <2>3 DEF OnData
    <3>3. CASE NotInOrder(p, m.seq)
      BY <2>1, <3>1, <3>3 DEF NotInOrder
    <3>4. CASE InOrder(p, m.seq)
      <4>1. PICK n \in m.seq + 1 .. m.seq + 1 + Cardinality(outOfOrder[p]) :
              recvNext' = [recvNext EXCEPT ![p] = n]
        BY <3>4 DEF InOrder
      <4>2. m.seq = recvNext[p]
        BY <3>4 DEF InOrder
      <4>3. n \in Nat /\ n >= recvNext[p]
        BY <4>1, <4>2, <1>1
      <4> QED BY <4>1, <4>3, <3>1, <1>1
    <3> QED BY <3>2, <3>3, <3>4
  <2>4. ASSUME NEW p \in Peers, Recv(p)
        PROVE  \A r \in Peers : recvNext'[r] >= recvNext[r] /\ Len(read'[r]) >= Len(read[r])
    <3>1. PICK k \in 1 .. Len(recvBuf[p]) :
            read' = [read EXCEPT ![p] = @ \o SubSeq(recvBuf[p], 1, k)]
      BY <2>4 DEF Recv
    <3>2. SubSeq(recvBuf[p], 1, k) \in Seq(Nat)
      BY <1>1
    <3>3. recvNext' = recvNext
      BY <2>4 DEF Recv
    <3>4. Len(read[p] \o SubSeq(recvBuf[p], 1, k)) >= Len(read[p])
      <4>1. Len(SubSeq(recvBuf[p], 1, k)) \in Nat /\ Len(read[p]) \in Nat
        BY <1>1, <3>2, LenProperties
      <4>2. Len(read[p] \o SubSeq(recvBuf[p], 1, k))
              = Len(read[p]) + Len(SubSeq(recvBuf[p], 1, k))
        BY <1>1, <3>2, ConcatProperties
      <4> QED BY <4>1, <4>2
    <3>5. \A r \in Peers : read'[r] = IF r = p THEN read[p] \o SubSeq(recvBuf[p], 1, k)
                                      ELSE read[r]
      BY <1>1, <3>1
    <3>6. \A r \in Peers : Len(read[r]) \in Nat
      BY <1>1
    <3>7. ASSUME NEW r \in Peers PROVE Len(read'[r]) >= Len(read[r])
      <4>1. CASE r = p
        <5>1. read'[p] = read[p] \o SubSeq(recvBuf[p], 1, k)
          BY <3>5
        <5> QED BY <3>4, <4>1, <5>1, Zenon
      <4>2. CASE r # p
        BY <3>5, <3>6, <4>2
      <4> QED BY <4>1, <4>2
    <3> QED BY <1>1, <3>3, <3>7
  <2>5. ASSUME NEW p \in Peers,
               \/ Sendall(p) \/ Enqueue(p) \/ Unblock(p) \/ Transmit(p) \/ SendFails(p) \/ Rtx(p)
               \/ RtxExit(p) \/ OnAck(p) \/ OnFin(p) \/ RecvEof(p) \/ Close(p)
        PROVE  recvNext' = recvNext /\ read' = read
    BY <2>5 DEF Sendall, Enqueue, Unblock, Transmit, SendFails, Rtx, RtxExit, OnAck, OnFin,
                RecvEof, Close
  <2> QED BY <2>1, <2>2, <2>3, <2>4, <2>5 DEF Next
<1> QED BY <1>2, <1>3 DEF Progress

\* No step takes back a chunk that was made readable or read.
THEOREM Monotone == Spec => NeverBackwards
<1>1. IInv /\ IInv' /\ [Next]_vars => [Progress]_vars
  BY ProgressStep
<1> QED BY <1>1, Invariance, PTL DEF Spec, NeverBackwards

\* The readable stream, in the vocabulary of the abstract channel.
LEMMA StreamForm ==
  IInv => \A r \in Peers :
            /\ Stream(r) = Promise!FirstChunks(recvNext[r])
            /\ recvNext[r] \in Nat /\ recvNext[r] <= sendSeq[Other(r)]
            /\ Len(Stream(r)) = recvNext[r]
<1> SUFFICES ASSUME IInv, NEW r \in Peers
             PROVE  /\ Stream(r) = Promise!FirstChunks(recvNext[r])
                    /\ recvNext[r] \in Nat /\ recvNext[r] <= sendSeq[Other(r)]
                    /\ Len(Stream(r)) = recvNext[r]
  OBVIOUS
<1>1. /\ recvNext[r] \in Nat /\ read[r] \in Seq(Nat) /\ recvBuf[r] \in Seq(Nat)
  BY DEF IInv, TypeOK
<1>2. Stream(r) \in Seq(Nat)
  BY <1>1 DEF Stream
<1>3. /\ Len(Stream(r)) = recvNext[r] /\ recvNext[r] <= sendSeq[Other(r)]
      /\ \A i \in 1 .. Len(Stream(r)) : Stream(r)[i] = i - 1
  BY DEF IInv, StreamIsPrefix
<1>4. Stream(r) \in [1 .. recvNext[r] -> Nat]
  BY <1>2, <1>3, LenProperties
<1>5. Stream(r) = [i \in 1 .. recvNext[r] |-> i - 1]
  BY <1>3, <1>4
<1> QED BY <1>1, <1>3, <1>5 DEF Promise!FirstChunks

LEMMA RefineInit == Init => Promise!AbsInit
<1> SUFFICES ASSUME Init PROVE Promise!AbsInit
  OBVIOUS
<1>1. [p \in Peers |-> Stream(p)] = [p \in Peers |-> << >>]
  BY DEF Init, Stream
<1> QED BY <1>1 DEF Init, Promise!AbsInit

\* Accepting a chunk is Accept, a longer stream is Hand, the rest is stuttering.
LEMMA RefineNext ==
  ASSUME IInv, IInv', [Next]_vars
  PROVE  [Promise!AbsNext]_(Promise!absVars)
<1> DEFINE got == [p \in Peers |-> Stream(p)]
<1>1. CASE UNCHANGED vars
  <2>1. got' = got /\ sendSeq' = sendSeq
    BY <1>1 DEF vars, sendVars, recvVars, appVars, Stream
  <2> QED BY <2>1 DEF Promise!absVars
<1>2. CASE Next
  <2>1. CASE /\ \E p \in Peers : sendSeq' = [sendSeq EXCEPT ![p] = @ + 1]
             /\ \A r \in Peers : Stream(r)' = Stream(r)
    <3>1. got' = got
      BY <2>1
    <3> QED BY <2>1, <3>1 DEF Promise!AbsNext, Promise!Accept
  <2>2. CASE /\ sendSeq' = sendSeq
             /\ \E q \in Peers : \A r \in Peers \ {q} : Stream(r)' = Stream(r)
    <3>1. PICK q \in Peers : \A r \in Peers \ {q} : Stream(r)' = Stream(r)
      BY <2>2
    <3>2. recvNext'[q] >= recvNext[q]
      BY ProgressStep DEF Progress
    <3>3. /\ Stream(q) = Promise!FirstChunks(recvNext[q])
          /\ recvNext[q] \in Nat /\ Len(Stream(q)) = recvNext[q]
      BY StreamForm
    <3>4. /\ Stream(q)' = Promise!FirstChunks(recvNext'[q])
          /\ recvNext'[q] \in Nat /\ recvNext'[q] <= sendSeq'[Other(q)]
      <4>1. Promise!FirstChunks(recvNext[q])' = Promise!FirstChunks(recvNext'[q])
        BY DEF Promise!FirstChunks
      <4>2. (\A r \in Peers :
               /\ Stream(r) = Promise!FirstChunks(recvNext[r])
               /\ recvNext[r] \in Nat /\ recvNext[r] <= sendSeq[Other(r)]
               /\ Len(Stream(r)) = recvNext[r])'
        BY StreamForm, PTL
      <4> QED BY <4>1, <4>2
    <3>5. CASE recvNext'[q] = recvNext[q]
      <4>1. got' = got
        BY <3>1, <3>3, <3>4, <3>5
      <4> QED BY <2>2, <4>1 DEF Promise!absVars
    <3>6. CASE recvNext'[q] # recvNext[q]
      <4>1. got' = [got EXCEPT ![q] = Promise!FirstChunks(recvNext'[q])]
        BY <3>1, <3>4
      <4>2. Promise!Other(q) = Other(q)
        BY DEF Promise!Other, Other
      <4>3. sendSeq[Other(q)] \in Nat
        BY OtherFacts DEF IInv, TypeOK
      <4>4. recvNext'[q] \in Len(got[q]) + 1 .. sendSeq[Promise!Other(q)]
        BY <2>2, <3>2, <3>3, <3>4, <3>6, <4>2, <4>3
      <4> HIDE DEF got
      <4>5. \E n \in Len(got[q]) + 1 .. sendSeq[Promise!Other(q)] :
               got' = [got EXCEPT ![q] = Promise!FirstChunks(n)]
        BY <4>1, <4>4
      <4> QED BY <2>2, <4>5 DEF Promise!AbsNext, Promise!Hand, got
    <3> QED BY <3>5, <3>6
  <2> QED BY <1>2, <2>1, <2>2, StreamSteps
<1> QED BY <1>1, <1>2

\* UDP-RTP implements the stream it promises, whatever the network does.
THEOREM Refinement == Spec => ImplementsStream
<1>1. IInv /\ IInv' /\ [Next]_vars => [Promise!AbsNext]_(Promise!absVars)
  BY RefineNext
<1> QED BY <1>1, RefineInit, Invariance, PTL DEF Spec, ImplementsStream, Promise!AbsSpec
=============================================================================
