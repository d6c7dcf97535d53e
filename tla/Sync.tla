-------------------------------- MODULE Sync --------------------------------
(***************************************************************************)
(* SYNC, dpmp/link/rtp.py: the end with the smaller id measures how far    *)
(* the peer's clock is from its own, and commits both ends to one instant  *)
(* at which to punch.  The packets go over the hole socket as they are:    *)
(* any may be lost, late, repeated or overtaken by others.                 *)
(* Real time is the initiator's clock; the responder's is skew ahead, and  *)
(* as many milliseconds as one likes make a tick.  Only the initiator runs *)
(* start_sync (manager.py:200-203), so the responder's own _sync_offset is *)
(* 0.  The manager calls it once per channel; the class allows more calls, *)
(* one after the other, and so does the model.                             *)
(***************************************************************************)
EXTENDS Integers, FiniteSets

CONSTANTS Skews,        \* how far apart the clocks may be
          Versions,     \* of the protocol, that the responder may speak
          SampleCount,  \* sync_sample_count
          Timeout,      \* sync_timeout
          CommitDelay,  \* sync_commit_delay_ms
          CommitResend, \* sync_commit_resend
          MaxSyncs,     \* bound: calls of start_sync
          MaxAnswers,   \* bound: times one request arrives
          MaxTime       \* bound

ProtoVer == 2

ASSUME SyncAssumption == /\ Skews \subseteq Int /\ Versions \subseteq 1 .. ProtoVer
                         /\ SampleCount \in Nat /\ Timeout \in Nat
                         /\ CommitDelay \in Nat /\ CommitResend \in Nat \ {0}
                         /\ MaxSyncs \in Nat /\ MaxAnswers \in Nat /\ MaxTime \in Nat

VARIABLES now, skew, version,
          pc,         \* where start_sync is: "idle", "ask", "wait", "take" or "commit"
          left,       \* the samples, or copies of the commit, still to come
          t1,         \* the time of the last request
          answered,   \* evt.wait() returned before its timeout
          pending,    \* the keys of _sync_pending
          replies,    \* _sync_replies
          samples,    \* _sync_samples
          peerVer,    \* _peer_ver
          commitSeq,  \* _commit_seq
          plan,       \* t_go and the sample it rests on
          lastCommit, \* the responder's _last_commit_id
          agreed,     \* history: on_sync_ready of the initiator
          heard,      \* history: on_sync_ready of the responder
          net

vars == <<now, skew, version, pc, left, t1, answered, pending, replies, samples, peerVer,
          commitSeq, plan, lastCommit, agreed, heard, net>>

world == <<skew, version>>
responder == <<lastCommit, heard>>

\* Mutant: the sum of the two ways is not halved.
MeasuredTwice(req, t2, t3, t4) == [t1 |-> req, rtt |-> (t4 - req) - (t3 - t2),
                                   offset |-> (t2 - req) + (t3 - t4)]

\* An answer's arrival at t4: round trip and clock difference.
Measured(req, t2, t3, t4) == [t1 |-> req, rtt |-> (t4 - req) - (t3 - t2),
                              offset |-> ((t2 - req) + (t3 - t4)) \div 2]

Request(at) == [type |-> "req", t1 |-> at]
Answer(at, t2) == [type |-> "ack", t1 |-> at, t2 |-> t2, ver |-> version]
Commit(at, id) == [type |-> "commit", at |-> at, id |-> id]
Delay == [type |-> "delay", delta |-> CommitDelay]

NoPlan == [go |-> 0, rtt |-> 0, offset |-> 0]

Init == /\ now = 0 /\ skew \in Skews /\ version \in Versions
        /\ pc = "idle" /\ left = 0 /\ t1 = -1 /\ answered = FALSE
        /\ pending = {} /\ replies = {} /\ samples = {}
        /\ peerVer = 1 /\ commitSeq = 0 /\ plan = NoPlan
        /\ lastCommit = -1
        /\ agreed = {} /\ heard = {}
        /\ net = {}

Tick == /\ now < MaxTime /\ now' = now + 1
        /\ UNCHANGED <<world, pc, left, t1, answered, pending, replies, samples, peerVer,
                       commitSeq, plan, responder, agreed, net>>

-----------------------------------------------------------------------------
(* The initiator's thread in start_sync.                                   *)

\* A call while another is under way returns at once.
StartSync ==
  /\ pc = "idle" /\ commitSeq < MaxSyncs
  /\ pc' = "ask" /\ left' = SampleCount
  /\ samples' = {} /\ pending' = {} /\ replies' = {}
  /\ UNCHANGED <<now, world, t1, answered, peerVer, commitSeq, plan, responder, agreed, net>>

\* The next request, 50 ms after the last at the earliest.
Ask ==
  /\ pc = "ask" /\ left > 0 /\ now > t1
  /\ t1' = now /\ pending' = pending \cup {now}
  /\ net' = net \cup {Request(now)}
  /\ pc' = "wait" /\ left' = left - 1
  /\ UNCHANGED <<now, world, answered, replies, samples, peerVer, commitSeq, plan, responder,
                 agreed>>

\* The socket was closed, or sending fails: what there is has to do.
GiveUp ==
  /\ pc = "ask" /\ left > 0
  /\ \/ pc' = "idle" /\ UNCHANGED left
     \/ pc' = "ask" /\ left' = 0
  /\ UNCHANGED <<now, world, t1, answered, pending, replies, samples, peerVer, commitSeq,
                 plan, responder, agreed, net>>

\* evt.wait() returns ...
Wake ==
  /\ pc = "wait"
  /\ \/ \E r \in replies : r.t1 = t1 /\ answered' = TRUE
     \/ (\A r \in replies : r.t1 # t1) /\ now >= t1 + Timeout /\ answered' = FALSE
  /\ pc' = "take"
  /\ UNCHANGED <<now, world, left, t1, pending, replies, samples, peerVer, commitSeq, plan,
                 responder, agreed, net>>

\* ... and the reply is taken, or forgotten if it came after the timeout.
Take ==
  /\ pc = "take"
  /\ replies' = {r \in replies : r.t1 # t1}
  /\ pending' = pending \ {t1}
  /\ samples' = IF answered THEN samples \cup {r \in replies : r.t1 = t1} ELSE samples
  /\ pc' = "ask"
  /\ UNCHANGED <<now, world, left, t1, answered, peerVer, commitSeq, plan, responder, agreed,
                 net>>

Quickest(s) == \A r \in samples : s.rtt <= r.rtt

\* No sample, or the instant to punch at by the quickest one (of equals, any: the
\* code takes the first).
Choose ==
  /\ pc = "ask" /\ left = 0
  /\ \/ /\ samples = {}
        /\ pc' = "idle"
        /\ UNCHANGED <<left, commitSeq, plan>>
     \/ \E s \in samples :
          /\ Quickest(s)
          /\ plan' = [go |-> now + CommitDelay, rtt |-> s.rtt, offset |-> s.offset]
          /\ commitSeq' = commitSeq + 1
          /\ left' = IF peerVer >= ProtoVer THEN CommitResend ELSE 1
          /\ pc' = "commit"
  /\ UNCHANGED <<now, world, t1, answered, pending, replies, samples, peerVer, responder,
                 agreed, net>>

\* Mutants: every peer gets the new format; the offset is left out.
PacketAlwaysNew == Commit(plan.go + plan.offset, commitSeq)
PacketOwnClock == IF peerVer >= ProtoVer THEN Commit(plan.go, commitSeq) ELSE Delay

\* The commit in the format the peer reads: the instant by its own clock, and
\* the number of the commit; or how long to wait from now.
CommitPacket == IF peerVer >= ProtoVer THEN Commit(plan.go + plan.offset, commitSeq)
                ELSE Delay

\* A copy of it, or sending fails; after the last one, on_sync_ready.
SendCommit ==
  /\ pc = "commit"
  /\ \/ /\ left > 1
        /\ net' = net \cup {CommitPacket} /\ left' = left - 1
        /\ UNCHANGED <<pc, agreed>>
     \/ /\ left = 1
        /\ net' = net \cup {CommitPacket} /\ left' = 0
        /\ agreed' = agreed \cup {[id |-> commitSeq, at |-> plan.go, rtt |-> plan.rtt]}
        /\ pc' = "idle"
     \/ pc' = "idle" /\ UNCHANGED <<net, left, agreed>>
  /\ UNCHANGED <<now, world, t1, answered, pending, replies, samples, peerVer, commitSeq,
                 plan, responder>>

-----------------------------------------------------------------------------
(* The receive loops.                                                      *)

\* _on_sync_req, at the responder.
OnSyncReq ==
  /\ \E m \in net :
       /\ m.type = "req"
       /\ Cardinality({a \in net : a.type = "ack" /\ a.t1 = m.t1}) < MaxAnswers
       /\ net' = net \cup {Answer(m.t1, now + skew)}
  /\ UNCHANGED <<now, world, pc, left, t1, answered, pending, replies, samples, peerVer,
                 commitSeq, plan, responder, agreed>>

\* _on_sync_ack, at the initiator.
OnSyncAck ==
  /\ \E m \in net :
       /\ m.type = "ack"
       /\ peerVer' = IF m.ver > peerVer THEN m.ver ELSE peerVer
       /\ replies' = IF m.t1 \notin pending THEN replies
                     ELSE {r \in replies : r.t1 # m.t1}
                            \cup {Measured(m.t1, m.t2, m.t2, now)}
  /\ UNCHANGED <<now, world, pc, left, t1, answered, pending, samples, commitSeq, plan,
                 responder, agreed, net>>

\* Mutant: only the very number seen last is a repetition.
OtherCommit(id) == id # lastCommit

NewCommit(id) == id > lastCommit

\* _on_sync_commit, at the responder: the copies of a commit count once.
OnSyncCommit ==
  /\ \E m \in net :
       /\ m.type = "commit" /\ NewCommit(m.id)
       /\ lastCommit' = m.id
       /\ heard' = heard \cup {[id |-> m.id, at |-> m.at, arrival |-> now]}
  /\ UNCHANGED <<now, world, pc, left, t1, answered, pending, replies, samples, peerVer,
                 commitSeq, plan, agreed, net>>

\* The old format has no number; its delay counts from the arrival.  (Bound: the
\* first arrival; later ones start further punches.)
OnSyncDelay ==
  /\ \A h \in heard : h.id # 0
  /\ \E m \in net :
       /\ m.type = "delay"
       /\ heard' = heard \cup {[id |-> 0, at |-> now + skew + m.delta, arrival |-> now]}
  /\ UNCHANGED <<now, world, pc, left, t1, answered, pending, replies, samples, peerVer,
                 commitSeq, plan, lastCommit, agreed, net>>

-----------------------------------------------------------------------------
Next == \/ Tick
        \/ StartSync \/ Ask \/ GiveUp \/ Wake \/ Take \/ Choose \/ SendCommit
        \/ OnSyncReq \/ OnSyncAck \/ OnSyncCommit \/ OnSyncDelay

Spec == Init /\ [][Next]_vars

-----------------------------------------------------------------------------
\* The type of the state.
Samples == [t1 : Int, rtt : Int, offset : Int]
Packets == [type : {"req"}, t1 : Int]
             \cup [type : {"ack"}, t1 : Int, t2 : Int, ver : Versions]
             \cup [type : {"commit"}, at : Int, id : Nat]
             \cup [type : {"delay"}, delta : Nat]
TypeOK ==
  /\ now \in 0 .. MaxTime /\ skew \in Skews /\ version \in Versions
  /\ pc \in {"idle", "ask", "wait", "take", "commit"}
  /\ left \in Nat /\ t1 \in Int /\ answered \in BOOLEAN
  /\ pending \subseteq Int /\ replies \subseteq Samples /\ samples \subseteq Samples
  /\ peerVer \in 1 .. ProtoVer /\ commitSeq \in Nat
  /\ plan \in [go : Int, rtt : Int, offset : Int]
  /\ lastCommit \in Int
  /\ agreed \subseteq [id : Nat, at : Int, rtt : Int]
  /\ heard \subseteq [id : Nat, at : Int, arrival : Nat]
  /\ net \subseteq Packets

\* The error of a clock difference, doubled, is at most the round trip it was
\* measured with, and the one the division by two leaves.
Within(error, rtt) == -(rtt + 1) <= 2 * error /\ 2 * error <= rtt

\* Whatever the two ways take, and however late, repeated or mixed up answers
\* arrive, no sample is further off than half its round trip (rtp.py:443-449).
OffsetWithinHalfRtt ==
  \A s \in replies \cup samples : Within(s.offset - skew, s.rtt)

\* So both ends punch together: the instants they agree on with one commit are
\* no further apart than half the round trip of the sample it rests on, however
\* far apart the clocks are (rtp.py:274-292, 457-462).
PunchTogether ==
  \A a \in agreed, h \in heard : a.id = h.id => Within(h.at - skew - a.at, a.rtt)

\* The three copies of a commit start one punch, even if they arrive late or
\* after a later commit (rtp.py:457-460).
OncePerCommit == \A h, k \in heard : h.id = k.id /\ h.id # 0 => h = k

\* A commit is sent in the format its receiver reads (DPMP_PROTOCOL.md:191-193).
FormatFits == \A m \in net : /\ m.type = "commit" => version = ProtoVer
                             /\ m.type = "delay" => version < ProtoVer
=============================================================================
