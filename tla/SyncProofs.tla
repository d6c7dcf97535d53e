----------------------------- MODULE SyncProofs -----------------------------
(***************************************************************************)
(* The safety of Sync for every clock difference, timeout, number of       *)
(* samples and copies, and every behaviour of the network.                 *)
(***************************************************************************)
EXTENDS Sync, TLAPS

\* An answer was made by the responder's clock between its request and now.
AnswersHonest == \A m \in net :
  /\ m.type = "req" => m.t1 <= now
  /\ m.type = "ack" => m.t1 <= m.t2 - skew /\ m.t2 - skew <= now /\ m.ver = version

\* The version learnt is never above the peer's, and is the peer's as soon as
\* there is a sample.
VersionLearnt == /\ peerVer <= version
                 /\ replies \cup samples # {} \/ pc = "commit" => peerVer = version

\* The commits made so far have the numbers up to commitSeq, and the responder
\* has heard only of those.
Numbered ==
  /\ \A m \in net : m.type = "commit" => 1 <= m.id /\ m.id <= commitSeq
  /\ \A a \in agreed : 1 <= a.id /\ a.id <= commitSeq
  /\ \A h \in heard : h.id = 0 \/ (h.id <= lastCommit /\ h.id <= commitSeq)

\* While a commit is being sent, everybody who knows it knows the same of it.
UnderWay == pc = "commit" =>
  /\ commitSeq >= 1
  /\ Within(plan.offset - skew, plan.rtt)
  /\ \A m \in net : m.type = "commit" /\ m.id = commitSeq => m.at = plan.go + plan.offset
  /\ \A h \in heard : h.id = commitSeq => h.at = plan.go + plan.offset
  /\ \A a \in agreed : a.id # commitSeq

\* PunchTogether of the commits that are still to arrive.
WireTogether == \A a \in agreed, m \in net :
  m.type = "commit" /\ a.id = m.id => Within(m.at - skew - a.at, a.rtt)

\* The inductive invariant.
IInv == /\ TypeOK /\ OffsetWithinHalfRtt /\ AnswersHonest /\ VersionLearnt /\ Numbered
        /\ UnderWay /\ WireTogether /\ PunchTogether /\ OncePerCommit /\ FormatFits

-----------------------------------------------------------------------------
\* The measurement: half a round trip, and one half for the division.
LEMMA HalfRtt ==
  ASSUME NEW req \in Int, NEW t2 \in Int, NEW t4 \in Int, NEW s \in Int,
         req <= t2 - s, t2 - s <= t4
  PROVE  /\ Measured(req, t2, t2, t4) \in Samples
         /\ Within(Measured(req, t2, t2, t4).offset - s, Measured(req, t2, t2, t4).rtt)
<1> DEFINE sum == (t2 - req) + (t2 - t4)
<1>1. sum \in Int /\ sum \div 2 \in Int
  OBVIOUS
<1>2. sum - 1 <= 2 * (sum \div 2) /\ 2 * (sum \div 2) <= sum
  BY <1>1
<1>3. /\ Measured(req, t2, t2, t4).offset = sum \div 2
      /\ Measured(req, t2, t2, t4).rtt = (t4 - req) - (t2 - t2)
      /\ Measured(req, t2, t2, t4) \in Samples
  BY <1>1 DEF Measured, Samples
<1> HIDE DEF sum
<1>4. sum = (t2 - req) + (t2 - t4)
  BY DEF sum
<1> QED BY <1>1, <1>2, <1>3, <1>4 DEF Within

\* Initially.
LEMMA InvInit == Init => IInv
<1> SUFFICES ASSUME Init PROVE IInv
  OBVIOUS
<1> USE SyncAssumption DEF Init
<1>1. TypeOK
  <2>1. answered \in BOOLEAN
    OBVIOUS
  <2>2. skew \in Skews /\ version \in Versions /\ now \in 0 .. MaxTime
    BY DEF ProtoVer
  <2>3. plan \in [go : Int, rtt : Int, offset : Int] /\ peerVer \in 1 .. ProtoVer
    BY DEF NoPlan, ProtoVer
  <2> QED BY <2>1, <2>2, <2>3 DEF TypeOK
<1>2. OffsetWithinHalfRtt /\ AnswersHonest /\ VersionLearnt
  BY DEF OffsetWithinHalfRtt, AnswersHonest, VersionLearnt, ProtoVer
<1>3. Numbered /\ UnderWay /\ WireTogether /\ PunchTogether /\ OncePerCommit /\ FormatFits
  BY DEF Numbered, UnderWay, WireTogether, PunchTogether, OncePerCommit, FormatFits
<1> QED BY <1>1, <1>2, <1>3 DEF IInv

\* Steps of start_sync that neither send nor agree.
LEMMA QuietStep ==
  ASSUME IInv, Tick \/ StartSync \/ GiveUp \/ Wake \/ Take
  PROVE  IInv'
<1> USE SyncAssumption DEF world, responder
<1>1. /\ UNCHANGED <<world, peerVer, commitSeq, plan, responder, agreed, net>>
      /\ now' \in 0 .. MaxTime /\ now' >= now
      /\ replies' \subseteq replies /\ samples' \subseteq replies \cup samples
      /\ pc' \in {"idle", "ask", "wait", "take", "commit"}
      /\ pc' = "commit" => pc = "commit"
  BY DEF IInv, TypeOK, Tick, StartSync, GiveUp, Wake, Take
<1>2. TypeOK'
  <2>1. left' \in Nat /\ t1' \in Int /\ pending' \subseteq Int
    <3>1. left' \in {left, 0, SampleCount} /\ t1' = t1
      BY DEF Tick, StartSync, GiveUp, Wake, Take
    <3>2. pending' \subseteq pending
      BY DEF Tick, StartSync, GiveUp, Wake, Take
    <3> QED BY <3>1, <3>2 DEF IInv, TypeOK
  <2>2. answered' \in BOOLEAN
    BY Zenon DEF IInv, TypeOK, Tick, StartSync, GiveUp, Wake, Take
  <2> QED BY <1>1, <2>1, <2>2 DEF IInv, TypeOK
<1>3. OffsetWithinHalfRtt' /\ VersionLearnt'
  BY <1>1 DEF IInv, OffsetWithinHalfRtt, VersionLearnt, Within
<1>4. AnswersHonest'
  <2>1. SUFFICES ASSUME NEW m \in net
                 PROVE  /\ m.type = "req" => m.t1 <= now'
                        /\ m.type = "ack" => /\ m.t1 <= m.t2 - skew /\ m.t2 - skew <= now'
                                             /\ m.ver = version
    BY <1>1 DEF AnswersHonest
  <2>2. /\ m.type = "req" => m.t1 <= now
        /\ m.type = "ack" => m.t1 <= m.t2 - skew /\ m.t2 - skew <= now /\ m.ver = version
    BY DEF IInv, AnswersHonest
  <2>3. /\ m.type = "req" => m.t1 \in Int
        /\ m.type = "ack" => m.t2 \in Int
        /\ now \in Int /\ now' \in Int /\ skew \in Int
    BY <1>1 DEF IInv, TypeOK, Packets
  <2> QED BY <1>1, <2>2, <2>3
<1>5. Numbered' /\ UnderWay' /\ WireTogether'
  BY <1>1 DEF IInv, Numbered, UnderWay, WireTogether, Within
<1>6. PunchTogether' /\ OncePerCommit' /\ FormatFits'
  BY <1>1 DEF IInv, PunchTogether, OncePerCommit, FormatFits, Within
<1> QED BY <1>2, <1>3, <1>4, <1>5, <1>6 DEF IInv

\* A request is sent.
LEMMA AskStep ==
  ASSUME IInv, Ask
  PROVE  IInv'
<1> USE DEF world, responder
<1>1. /\ UNCHANGED <<now, world, answered, replies, samples, peerVer, commitSeq, plan,
                     responder, agreed>>
      /\ net' = net \cup {Request(now)} /\ pc' = "wait"
      /\ left \in Nat /\ left > 0 /\ left' = left - 1
      /\ t1' = now /\ pending' = pending \cup {now}
  BY DEF IInv, TypeOK, Ask
<1>2. Request(now) \in Packets /\ Request(now).type = "req" /\ Request(now).t1 = now
  BY DEF IInv, TypeOK, Packets, Request
<1>3. TypeOK'
  <2>1. left' \in Nat /\ t1' \in Int /\ pending' \subseteq Int /\ net' \subseteq Packets
    BY <1>1, <1>2 DEF IInv, TypeOK
  <2> QED BY <1>1, <2>1 DEF IInv, TypeOK
<1>4. OffsetWithinHalfRtt' /\ VersionLearnt'
  BY <1>1 DEF IInv, OffsetWithinHalfRtt, VersionLearnt, Within
<1>5. AnswersHonest'
  BY <1>1, <1>2 DEF IInv, TypeOK, AnswersHonest
<1>6. Numbered' /\ UnderWay' /\ WireTogether'
  BY <1>1, <1>2 DEF IInv, Numbered, UnderWay, WireTogether, Within
<1>7. PunchTogether' /\ OncePerCommit' /\ FormatFits'
  BY <1>1, <1>2 DEF IInv, PunchTogether, OncePerCommit, FormatFits, Within
<1> QED BY <1>3, <1>4, <1>5, <1>6, <1>7 DEF IInv

\* A request is answered.
LEMMA OnSyncReqStep ==
  ASSUME IInv, OnSyncReq
  PROVE  IInv'
<1> USE DEF world, responder
<1>1. PICK m \in net : m.type = "req" /\ net' = net \cup {Answer(m.t1, now + skew)}
  BY DEF OnSyncReq
<1>2. UNCHANGED <<now, world, pc, left, t1, answered, pending, replies, samples, peerVer,
                  commitSeq, plan, responder, agreed>>
  BY DEF OnSyncReq
<1> DEFINE new == Answer(m.t1, now + skew)
<1>3. m.t1 \in Int /\ m.t1 <= now /\ now \in Int /\ skew \in Int /\ version \in Versions
  BY <1>1, SyncAssumption DEF IInv, TypeOK, Packets, AnswersHonest
<1>4. /\ new.type = "ack" /\ new.t1 = m.t1 /\ new.t2 = now + skew /\ new.ver = version
      /\ new \in Packets
  BY <1>3 DEF Answer, Packets
<1>5. net' = net \cup {new}
  BY <1>1
<1> HIDE DEF new
<1>6. TypeOK'
  BY <1>2, <1>4, <1>5 DEF IInv, TypeOK
<1>7. OffsetWithinHalfRtt' /\ VersionLearnt'
  BY <1>2 DEF IInv, OffsetWithinHalfRtt, VersionLearnt, Within
<1>8. AnswersHonest'
  BY <1>2, <1>3, <1>4, <1>5 DEF IInv, AnswersHonest
<1>9. Numbered' /\ UnderWay' /\ WireTogether'
  BY <1>2, <1>4, <1>5 DEF IInv, Numbered, UnderWay, WireTogether, Within
<1>10. PunchTogether' /\ OncePerCommit' /\ FormatFits'
  BY <1>2, <1>4, <1>5 DEF IInv, PunchTogether, OncePerCommit, FormatFits, Within
<1> QED BY <1>6, <1>7, <1>8, <1>9, <1>10 DEF IInv

\* An answer is measured: the first use of HalfRtt.
LEMMA OnSyncAckStep ==
  ASSUME IInv, OnSyncAck
  PROVE  IInv'
<1> USE DEF world, responder
<1>1. PICK m \in net :
        /\ m.type = "ack"
        /\ peerVer' = IF m.ver > peerVer THEN m.ver ELSE peerVer
        /\ replies' = IF m.t1 \notin pending THEN replies
                      ELSE {r \in replies : r.t1 # m.t1}
                             \cup {Measured(m.t1, m.t2, m.t2, now)}
  BY DEF OnSyncAck
<1>2. UNCHANGED <<now, world, pc, left, t1, answered, pending, samples, commitSeq, plan,
                  responder, agreed, net>>
  BY DEF OnSyncAck
<1> DEFINE new == Measured(m.t1, m.t2, m.t2, now)
<1>3. /\ m.t1 \in Int /\ m.t2 \in Int /\ now \in Int /\ skew \in Int
      /\ m.t1 <= m.t2 - skew /\ m.t2 - skew <= now /\ m.ver = version
  BY <1>1, SyncAssumption DEF IInv, TypeOK, Packets, AnswersHonest
<1>4. new \in Samples /\ Within(new.offset - skew, new.rtt)
  BY <1>3, HalfRtt
<1>5. replies' \subseteq replies \cup {new}
  BY <1>1
<1>6. peerVer' = version
  BY <1>1, <1>3, SyncAssumption DEF IInv, TypeOK, VersionLearnt, ProtoVer
<1> HIDE DEF new
<1>7. TypeOK'
  <2>1. replies' \subseteq Samples /\ peerVer' \in 1 .. ProtoVer
    BY <1>4, <1>5, <1>6, SyncAssumption DEF IInv, TypeOK
  <2> QED BY <1>2, <2>1 DEF IInv, TypeOK
<1>8. OffsetWithinHalfRtt' /\ VersionLearnt'
  <2>1. OffsetWithinHalfRtt'
    BY <1>2, <1>4, <1>5 DEF IInv, OffsetWithinHalfRtt, Within
  <2>2. VersionLearnt'
    BY <1>2, <1>6, SyncAssumption DEF IInv, TypeOK, VersionLearnt
  <2> QED BY <2>1, <2>2
<1>9. AnswersHonest'
  BY <1>2 DEF IInv, AnswersHonest
<1>10. Numbered' /\ UnderWay' /\ WireTogether'
  BY <1>2 DEF IInv, Numbered, UnderWay, WireTogether, Within
<1>11. PunchTogether' /\ OncePerCommit' /\ FormatFits'
  BY <1>2 DEF IInv, PunchTogether, OncePerCommit, FormatFits, Within
<1> QED BY <1>7, <1>8, <1>9, <1>10, <1>11 DEF IInv

\* A commit is made: nobody can know its number yet.
LEMMA ChooseStep ==
  ASSUME IInv, Choose
  PROVE  IInv'
<1> USE DEF world, responder
<1>1. /\ pc = "ask" /\ left = 0
      /\ UNCHANGED <<now, world, t1, answered, pending, replies, samples, peerVer, responder,
                     agreed, net>>
  BY DEF Choose
<1>2. CASE pc' = "idle" /\ UNCHANGED <<left, commitSeq, plan>>
  <2>1. TypeOK' /\ OffsetWithinHalfRtt' /\ AnswersHonest' /\ VersionLearnt'
    BY <1>1, <1>2 DEF IInv, TypeOK, OffsetWithinHalfRtt, AnswersHonest, VersionLearnt, Within
  <2>2. Numbered' /\ UnderWay' /\ WireTogether'
    BY <1>1, <1>2 DEF IInv, Numbered, UnderWay, WireTogether, Within
  <2>3. PunchTogether' /\ OncePerCommit' /\ FormatFits'
    BY <1>1, <1>2 DEF IInv, PunchTogether, OncePerCommit, FormatFits, Within
  <2> QED BY <2>1, <2>2, <2>3 DEF IInv
<1>3. CASE \E s \in samples :
             /\ plan' = [go |-> now + CommitDelay, rtt |-> s.rtt, offset |-> s.offset]
             /\ commitSeq' = commitSeq + 1
             /\ left' = IF peerVer >= ProtoVer THEN CommitResend ELSE 1
             /\ pc' = "commit"
  <2>1. PICK s \in samples :
          /\ plan' = [go |-> now + CommitDelay, rtt |-> s.rtt, offset |-> s.offset]
          /\ commitSeq' = commitSeq + 1
          /\ left' \in {CommitResend, 1}
          /\ pc' = "commit"
    BY <1>3
  <2>2. s.rtt \in Int /\ s.offset \in Int /\ Within(s.offset - skew, s.rtt)
    BY DEF IInv, TypeOK, Samples, OffsetWithinHalfRtt
  <2>3. commitSeq \in Nat /\ now \in Int /\ commitSeq' \in Nat /\ commitSeq' >= 1
    BY <2>1 DEF IInv, TypeOK
  <2>4. /\ plan' \in [go : Int, rtt : Int, offset : Int]
        /\ plan'.offset = s.offset /\ plan'.rtt = s.rtt
    BY <2>1, <2>2, <2>3, SyncAssumption
  <2>5. TypeOK'
    BY <1>1, <2>1, <2>3, <2>4, SyncAssumption DEF IInv, TypeOK
  <2>6. OffsetWithinHalfRtt' /\ AnswersHonest'
    BY <1>1 DEF IInv, OffsetWithinHalfRtt, AnswersHonest, Within
  <2>7. VersionLearnt'
    BY <1>1 DEF IInv, VersionLearnt
  <2>8. Numbered'
    <3>1. \A m \in net : m.type = "commit" => m.id \in Int
      BY DEF IInv, TypeOK, Packets
    <3>2. /\ \A a \in agreed : a.id \in Int
          /\ \A h \in heard : h.id \in Int
      BY DEF IInv, TypeOK
    <3> QED BY <1>1, <2>1, <2>3, <3>1, <3>2 DEF IInv, Numbered
  <2>9. UnderWay'
    <3>1. \A m \in net : m.type = "commit" => m.id # commitSeq'
      BY <2>1, <2>3 DEF IInv, TypeOK, Packets, Numbered
    <3>2. \A h \in heard : h.id # commitSeq'
      BY <2>1, <2>3 DEF IInv, TypeOK, Numbered
    <3>3. \A a \in agreed : a.id # commitSeq'
      BY <2>1, <2>3 DEF IInv, TypeOK, Numbered
    <3>4. Within(plan'.offset - skew', plan'.rtt)
      BY <1>1, <2>2, <2>4
    <3> QED BY <1>1, <2>3, <3>1, <3>2, <3>3, <3>4 DEF UnderWay
  <2>10. WireTogether' /\ PunchTogether' /\ OncePerCommit' /\ FormatFits'
    BY <1>1 DEF IInv, WireTogether, PunchTogether, OncePerCommit, FormatFits, Within
  <2> QED BY <2>5, <2>6, <2>7, <2>8, <2>9, <2>10 DEF IInv
<1> QED BY <1>2, <1>3 DEF Choose

\* A copy of the commit is sent; with the last one the initiator agrees.
LEMMA SendCommitStep ==
  ASSUME IInv, SendCommit
  PROVE  IInv'
<1> USE DEF world, responder
<1> DEFINE mine == [id |-> commitSeq, at |-> plan.go, rtt |-> plan.rtt]
           packet == CommitPacket
<1>1. /\ pc = "commit"
      /\ UNCHANGED <<now, world, t1, answered, pending, replies, samples, peerVer, commitSeq,
                     plan, responder>>
  BY DEF SendCommit
<1>2. /\ net' \subseteq net \cup {packet} /\ left' \in Nat
      /\ \/ agreed' = agreed /\ pc' \in {"commit", "idle"}
         \/ agreed' = agreed \cup {mine} /\ pc' = "idle"
  BY DEF SendCommit, IInv, TypeOK
<1>3. /\ plan.go \in Int /\ plan.offset \in Int /\ plan.rtt \in Int /\ commitSeq \in Nat
      /\ commitSeq >= 1 /\ skew \in Int /\ version \in 1 .. ProtoVer /\ peerVer = version
      /\ Within(plan.offset - skew, plan.rtt)
  BY <1>1, SyncAssumption DEF IInv, TypeOK, UnderWay, VersionLearnt
<1>4. /\ packet \in Packets
      /\ packet.type = "commit" => /\ packet.id = commitSeq
                                   /\ packet.at = plan.go + plan.offset
                                   /\ version = ProtoVer
      /\ packet.type = "delay" => version < ProtoVer
      /\ packet.type \in {"commit", "delay"}
  <2>1. CASE peerVer >= ProtoVer
    <3>1. packet = Commit(plan.go + plan.offset, commitSeq) /\ version = ProtoVer
      BY <2>1, <1>3 DEF CommitPacket, ProtoVer
    <3> QED BY <3>1, <1>3 DEF Commit, Packets
  <2>2. CASE ~(peerVer >= ProtoVer)
    <3>1. packet = Delay /\ version < ProtoVer
      BY <2>2, <1>3 DEF CommitPacket, ProtoVer
    <3> QED BY <3>1, SyncAssumption DEF Delay, Packets
  <2> QED BY <2>1, <2>2
<1>5. /\ mine \in [id : Nat, at : Int, rtt : Int]
      /\ mine.id = commitSeq /\ mine.at = plan.go /\ mine.rtt = plan.rtt
  BY <1>3
<1> HIDE DEF mine, packet
<1>6. TypeOK'
  <2>1. net' \subseteq Packets /\ agreed' \subseteq [id : Nat, at : Int, rtt : Int]
    BY <1>2, <1>4, <1>5 DEF IInv, TypeOK
  <2>2. pc' \in {"idle", "ask", "wait", "take", "commit"}
    BY <1>2
  <2> QED BY <1>1, <1>2, <2>1, <2>2 DEF IInv, TypeOK
<1>7. OffsetWithinHalfRtt'
  BY <1>1 DEF IInv, OffsetWithinHalfRtt, Within
<1>8. AnswersHonest' /\ FormatFits'
  BY <1>1, <1>2, <1>4 DEF IInv, AnswersHonest, FormatFits
<1>9. VersionLearnt'
  BY <1>1, <1>2, <1>3 DEF IInv, VersionLearnt
<1>10. Numbered'
  BY <1>1, <1>2, <1>3, <1>4, <1>5 DEF IInv, Numbered
<1>11. UnderWay'
  BY <1>1, <1>2, <1>3, <1>4 DEF IInv, UnderWay, Within
<1>12. \A m \in net' : m.type = "commit" /\ m.id = commitSeq => m.at = plan.go + plan.offset
  BY <1>1, <1>2, <1>4 DEF IInv, UnderWay
<1>13. WireTogether'
  <2>1. SUFFICES ASSUME NEW a \in agreed', NEW m \in net', m.type = "commit", a.id = m.id
                 PROVE  Within(m.at - skew - a.at, a.rtt)
    BY <1>1 DEF WireTogether
  <2>2. CASE a \in agreed
    <3>1. a.id # commitSeq
      BY <1>1, <2>2 DEF IInv, UnderWay
    <3>2. m \in net
      BY <1>2, <1>4, <2>1, <3>1
    <3> QED BY <2>1, <2>2, <3>2 DEF IInv, WireTogether
  <2>3. CASE a = mine
    <3>1. m.at = plan.go + plan.offset
      BY <1>5, <1>12, <2>1, <2>3
    <3>2. m.at - skew - a.at = plan.offset - skew /\ a.rtt = plan.rtt
      BY <1>3, <1>5, <2>3, <3>1
    <3> QED BY <1>3, <3>2
  <2> QED BY <1>2, <2>2, <2>3
<1>14. PunchTogether'
  <2>1. SUFFICES ASSUME NEW a \in agreed', NEW h \in heard, a.id = h.id
                 PROVE  Within(h.at - skew - a.at, a.rtt)
    BY <1>1 DEF PunchTogether
  <2>2. CASE a \in agreed
    BY <2>1, <2>2 DEF IInv, PunchTogether
  <2>3. CASE a = mine
    <3>1. h.at = plan.go + plan.offset
      BY <1>1, <1>5, <2>1, <2>3 DEF IInv, UnderWay
    <3>2. h.at - skew - a.at = plan.offset - skew /\ a.rtt = plan.rtt
      BY <1>3, <1>5, <2>3, <3>1
    <3> QED BY <1>3, <3>2
  <2> QED BY <1>2, <2>2, <2>3
<1>15. OncePerCommit'
  BY <1>1 DEF IInv, OncePerCommit
<1> QED BY <1>6, <1>7, <1>8, <1>9, <1>10, <1>11, <1>13, <1>14, <1>15 DEF IInv

\* A commit is heard: its number is above all that were.
LEMMA OnSyncCommitStep ==
  ASSUME IInv, OnSyncCommit
  PROVE  IInv'
<1> USE DEF world, responder
<1>1. PICK m \in net :
        /\ m.type = "commit" /\ m.id > lastCommit /\ lastCommit' = m.id
        /\ heard' = heard \cup {[id |-> m.id, at |-> m.at, arrival |-> now]}
  BY DEF OnSyncCommit, NewCommit
<1>2. UNCHANGED <<now, world, pc, left, t1, answered, pending, replies, samples, peerVer,
                  commitSeq, plan, agreed, net>>
  BY DEF OnSyncCommit
<1> DEFINE new == [id |-> m.id, at |-> m.at, arrival |-> now]
<1>3. /\ m.id \in Nat /\ m.at \in Int /\ now \in Nat /\ lastCommit \in Int
      /\ 1 <= m.id /\ m.id <= commitSeq /\ commitSeq \in Nat
  BY <1>1 DEF IInv, TypeOK, Packets, Numbered
<1>4. /\ new \in [id : Nat, at : Int, arrival : Nat]
      /\ new.id = m.id /\ new.at = m.at
  BY <1>3
<1>5. heard' = heard \cup {new}
  BY <1>1
<1>6. \A h \in heard : h.id \in Nat /\ (h.id = 0 \/ (h.id <= lastCommit /\ h.id <= commitSeq))
  BY DEF IInv, TypeOK, Numbered
<1> HIDE DEF new
<1>7. TypeOK'
  <2>1. heard' \subseteq [id : Nat, at : Int, arrival : Nat] /\ lastCommit' \in Int
    BY <1>1, <1>3, <1>4, <1>5 DEF IInv, TypeOK
  <2> QED BY <1>2, <2>1 DEF IInv, TypeOK
<1>8. OffsetWithinHalfRtt' /\ AnswersHonest' /\ VersionLearnt'
  BY <1>2 DEF IInv, OffsetWithinHalfRtt, AnswersHonest, VersionLearnt, Within
<1>9. Numbered'
  BY <1>1, <1>2, <1>3, <1>4, <1>5, <1>6 DEF IInv, Numbered
<1>10. UnderWay'
  BY <1>1, <1>2, <1>4, <1>5 DEF IInv, UnderWay, Within
<1>11. WireTogether' /\ FormatFits'
  BY <1>2 DEF IInv, WireTogether, FormatFits, Within
<1>12. PunchTogether'
  BY <1>1, <1>2, <1>4, <1>5 DEF IInv, PunchTogether, WireTogether, Within
<1>13. OncePerCommit'
  BY <1>1, <1>3, <1>4, <1>5, <1>6 DEF IInv, OncePerCommit
<1> QED BY <1>7, <1>8, <1>9, <1>10, <1>11, <1>12, <1>13 DEF IInv

\* A delay is heard: it has no number to be agreed on.
LEMMA OnSyncDelayStep ==
  ASSUME IInv, OnSyncDelay
  PROVE  IInv'
<1> USE DEF world, responder
<1>1. PICK m \in net :
        /\ m.type = "delay"
        /\ heard' = heard \cup {[id |-> 0, at |-> now + skew + m.delta, arrival |-> now]}
  BY DEF OnSyncDelay
<1>2. UNCHANGED <<now, world, pc, left, t1, answered, pending, replies, samples, peerVer,
                  commitSeq, plan, lastCommit, agreed, net>>
  BY DEF OnSyncDelay
<1> DEFINE new == [id |-> 0, at |-> now + skew + m.delta, arrival |-> now]
<1>3. m.delta \in Nat /\ now \in Nat /\ skew \in Int
  BY <1>1, SyncAssumption DEF IInv, TypeOK, Packets
<1>4. new \in [id : Nat, at : Int, arrival : Nat] /\ new.id = 0
  BY <1>3
<1>5. heard' = heard \cup {new}
  BY <1>1
<1> HIDE DEF new
<1>6. TypeOK'
  <2>1. heard' \subseteq [id : Nat, at : Int, arrival : Nat]
    BY <1>4, <1>5 DEF IInv, TypeOK
  <2> QED BY <1>2, <2>1 DEF IInv, TypeOK
<1>7. OffsetWithinHalfRtt' /\ AnswersHonest' /\ VersionLearnt'
  BY <1>2 DEF IInv, OffsetWithinHalfRtt, AnswersHonest, VersionLearnt, Within
<1>8. Numbered'
  BY <1>2, <1>4, <1>5 DEF IInv, Numbered
<1>9. UnderWay'
  BY <1>2, <1>4, <1>5 DEF IInv, TypeOK, UnderWay, Within
<1>10. WireTogether' /\ FormatFits'
  BY <1>2 DEF IInv, WireTogether, FormatFits, Within
<1>11. PunchTogether'
  BY <1>2, <1>4, <1>5 DEF IInv, TypeOK, Numbered, PunchTogether, Within
<1>12. OncePerCommit'
  BY <1>4, <1>5 DEF IInv, OncePerCommit
<1> QED BY <1>6, <1>7, <1>8, <1>9, <1>10, <1>11, <1>12 DEF IInv

-----------------------------------------------------------------------------
\* Every step preserves the invariant.
LEMMA InvNext == IInv /\ [Next]_vars => IInv'
<1> SUFFICES ASSUME IInv, [Next]_vars PROVE IInv'
  OBVIOUS
<1>1. CASE Tick \/ StartSync \/ GiveUp \/ Wake \/ Take
  BY <1>1, QuietStep
<1>2. CASE Ask
  BY <1>2, AskStep
<1>3. CASE Choose
  BY <1>3, ChooseStep
<1>4. CASE SendCommit
  BY <1>4, SendCommitStep
<1>5. CASE OnSyncReq
  BY <1>5, OnSyncReqStep
<1>6. CASE OnSyncAck
  BY <1>6, OnSyncAckStep
<1>7. CASE OnSyncCommit
  BY <1>7, OnSyncCommitStep
<1>8. CASE OnSyncDelay
  BY <1>8, OnSyncDelayStep
<1>9. CASE UNCHANGED vars
  <2> USE <1>9 DEF vars
  <2>1. TypeOK' /\ OffsetWithinHalfRtt' /\ AnswersHonest' /\ VersionLearnt'
    BY DEF IInv, TypeOK, OffsetWithinHalfRtt, AnswersHonest, VersionLearnt, Within
  <2>2. Numbered' /\ UnderWay' /\ WireTogether'
    BY DEF IInv, Numbered, UnderWay, WireTogether, Within
  <2>3. PunchTogether' /\ OncePerCommit' /\ FormatFits'
    BY DEF IInv, PunchTogether, OncePerCommit, FormatFits, Within
  <2> QED BY <2>1, <2>2, <2>3 DEF IInv
<1> QED BY <1>1, <1>2, <1>3, <1>4, <1>5, <1>6, <1>7, <1>8, <1>9 DEF Next

\* The invariant holds always.
LEMMA Always == Spec => []IInv
BY InvInit, InvNext, PTL DEF Spec

\* Type correctness, for every clock difference and every bound.
THEOREM SyncTypes == Spec => []TypeOK
<1>1. IInv => TypeOK
  BY DEF IInv
<1> QED BY <1>1, Always, PTL

\* No sample is further from the clocks' difference than half its round trip
\* (rtp.py:443-449), whatever the network does with requests and answers.
THEOREM SyncOffset == Spec => []OffsetWithinHalfRtt
<1>1. IInv => OffsetWithinHalfRtt
  BY DEF IInv
<1> QED BY <1>1, Always, PTL

\* Both ends punch within half a round trip of each other (rtp.py:274-292).
THEOREM SyncTogether == Spec => []PunchTogether
<1>1. IInv => PunchTogether
  BY DEF IInv
<1> QED BY <1>1, Always, PTL

\* The copies of a commit start one punch (rtp.py:457-460).
THEOREM SyncOnce == Spec => []OncePerCommit
<1>1. IInv => OncePerCommit
  BY DEF IInv
<1> QED BY <1>1, Always, PTL

\* A commit is sent in the format its receiver reads (DPMP_PROTOCOL.md:191-193).
THEOREM SyncFormat == Spec => []FormatFits
<1>1. IInv => FormatFits
  BY DEF IInv
<1> QED BY <1>1, Always, PTL
=============================================================================
