------------------------------ MODULE Puncher ------------------------------
(***************************************************************************)
(* One punch of HolePuncher, dpmp/link/puncher.py: the thread that calls   *)
(* punch() starts a worker per candidate address; they connect a few at a  *)
(* time and race for the one place of the winner, while the caller waits   *)
(* for a limited time.  The peer's addresses and the network are choices:  *)
(* which candidates there are, which connections succeed, and how long     *)
(* anything takes.  (The barrier at which workers line up lets everybody   *)
(* pass in the end, by its timeout if need be: it is one more delay.)      *)
(***************************************************************************)
EXTENDS Integers, FiniteSets

CONSTANTS Candidates,  \* the addresses a peer may have
          Concurrency, \* punch_candidate_concurrency
          NoOne

ASSUME PuncherAssumption == /\ IsFiniteSet(Candidates) /\ NoOne \notin Candidates
                            /\ Concurrency \in Nat \ {0}

VARIABLES candidates, \* of this peer, from _build_candidates
          caller,     \* where punch() is: "start", "wait" or "returned"
          pc,         \* where each worker is
          free,       \* the counter of conn_sem
          sock,       \* the socket of each candidate: "none", "open" or "closed"
          done, win,  \* the event and results["win"]
          result      \* what punch() returned

vars == <<candidates, caller, pc, free, sock, done, win, result>>

Init == /\ candidates \in SUBSET Candidates
        /\ caller = "start"
        /\ pc = [c \in Candidates |-> "none"]
        /\ free = Concurrency
        /\ sock = [c \in Candidates |-> "none"]
        /\ done = FALSE /\ win = NoOne /\ result = NoOne

-----------------------------------------------------------------------------
(* The caller.                                                             *)

\* No address to connect to.
NoCandidate ==
  /\ caller = "start" /\ candidates = {}
  /\ caller' = "returned"
  /\ UNCHANGED <<candidates, pc, free, sock, done, win, result>>

\* The only one is connected to without a worker; it succeeds or it does not.
OneCandidate ==
  /\ caller = "start"
  /\ \E c \in candidates :
       /\ candidates = {c}
       /\ \/ sock' = [sock EXCEPT ![c] = "open"] /\ result' = c
          \/ sock' = [sock EXCEPT ![c] = "closed"] /\ UNCHANGED result
  /\ caller' = "returned"
  /\ UNCHANGED <<candidates, pc, free, done, win>>

StartWorker ==
  /\ caller = "start" /\ Cardinality(candidates) > 1
  /\ \E c \in candidates : pc[c] = "none" /\ pc' = [pc EXCEPT ![c] = "begin"]
  /\ UNCHANGED <<candidates, caller, free, sock, done, win, result>>

AllStarted ==
  /\ caller = "start" /\ Cardinality(candidates) > 1
  /\ \A c \in candidates : pc[c] # "none"
  /\ caller' = "wait"
  /\ UNCHANGED <<candidates, pc, free, sock, done, win, result>>

\* done.wait() and the joins are over, because there is a winner or because it
\* took too long; a later winner finds nobody.
Return ==
  /\ caller = "wait"
  /\ caller' = "returned" /\ result' = win
  /\ UNCHANGED <<candidates, pc, free, sock, done, win>>

-----------------------------------------------------------------------------
(* A worker.                                                               *)

\* After the barrier: there may be a winner already.
Begin(c) ==
  /\ pc[c] = "begin"
  /\ pc' = [pc EXCEPT ![c] = IF done THEN "end" ELSE "acquire"]
  /\ UNCHANGED <<candidates, caller, free, sock, done, win, result>>

\* conn_sem.acquire()
Acquire(c) ==
  /\ pc[c] = "acquire" /\ free > 0
  /\ free' = free - 1
  /\ pc' = [pc EXCEPT ![c] = "inside"]
  /\ UNCHANGED <<candidates, caller, sock, done, win, result>>

\* Mutant: without a connection no place is given back.
SkipUnreleased(c) ==
  /\ pc[c] = "inside" /\ done
  /\ pc' = [pc EXCEPT ![c] = "end"]
  /\ UNCHANGED <<candidates, caller, free, sock, done, win, result>>

\* Somebody won while it waited: it leaves, and gives its place back (finally).
Skip(c) ==
  /\ pc[c] = "inside" /\ done
  /\ free' = free + 1
  /\ pc' = [pc EXCEPT ![c] = "end"]
  /\ UNCHANGED <<candidates, caller, sock, done, win, result>>

\* _try_connect creates its socket, binds it and connects ...
Connect(c) ==
  /\ pc[c] = "inside" /\ ~done
  /\ sock' = [sock EXCEPT ![c] = "open"]
  /\ pc' = [pc EXCEPT ![c] = "connect"]
  /\ UNCHANGED <<candidates, caller, free, done, win, result>>

\* ... with success, or without: after an error or the timeout of select() the
\* socket is closed.
Connected(c) ==
  /\ pc[c] = "connect"
  /\ free' = free + 1
  /\ pc' = [pc EXCEPT ![c] = "race"]
  /\ UNCHANGED <<candidates, caller, sock, done, win, result>>

Failed(c) ==
  /\ pc[c] = "connect"
  /\ sock' = [sock EXCEPT ![c] = "closed"]
  /\ free' = free + 1
  /\ pc' = [pc EXCEPT ![c] = "end"]
  /\ UNCHANGED <<candidates, caller, done, win, result>>

\* Mutant: the latest takes it all.
RaceUnchecked(c) ==
  /\ pc[c] = "race"
  /\ win' = c /\ done' = TRUE
  /\ pc' = [pc EXCEPT ![c] = "end"]
  /\ UNCHANGED <<candidates, caller, free, sock, result>>

\* Under win_lock: the first wins, the others close what they have.
Race(c) ==
  /\ pc[c] = "race"
  /\ IF done THEN sock' = [sock EXCEPT ![c] = "closed"] /\ UNCHANGED <<done, win>>
             ELSE win' = c /\ done' = TRUE /\ UNCHANGED sock
  /\ pc' = [pc EXCEPT ![c] = "end"]
  /\ UNCHANGED <<candidates, caller, free, result>>

Worker(c) == Begin(c) \/ Acquire(c) \/ Skip(c) \/ Connect(c) \/ Connected(c) \/ Failed(c)
             \/ Race(c)

Next == \/ NoCandidate \/ OneCandidate \/ StartWorker \/ AllStarted \/ Return
        \/ \E c \in Candidates : Worker(c)

Spec == Init /\ [][Next]_vars

\* Every thread runs; select() returns within its timeout, and so do wait and join.
\* A semaphore wakes one of those who wait, not each of them in turn: weak fairness.
FairSpec == /\ Spec
            /\ WF_vars(NoCandidate \/ OneCandidate \/ StartWorker \/ AllStarted \/ Return)
            /\ \A c \in Candidates : WF_vars(Worker(c))

-----------------------------------------------------------------------------
\* The type of the state.
TypeOK ==
  /\ candidates \subseteq Candidates
  /\ caller \in {"start", "wait", "returned"}
  /\ pc \in [Candidates -> {"none", "begin", "acquire", "inside", "connect", "race", "end"}]
  /\ free \in 0 .. Concurrency
  /\ sock \in [Candidates -> {"none", "open", "closed"}]
  /\ done \in BOOLEAN
  /\ win \in Candidates \cup {NoOne} /\ result \in Candidates \cup {NoOne}

\* Of the connections that several workers make at the same time, one at most
\* outlives them, and it is the one punch() returns unless its caller had given up
\* before there was any (puncher.py:135-143, 153).
OneSurvivor ==
  /\ \A c \in Candidates : sock[c] = "open" =>
       c \in {win, result} \/ pc[c] \in {"connect", "race"}
  /\ \A c \in {win, result} \ {NoOne} : sock[c] = "open"
  /\ win # NoOne /\ result # NoOne => win = result

\* No more than Concurrency connections are attempted at a time, whoever leaves the
\* queue and why (puncher.py:117, 126-132).
FewAtOnce ==
  free + Cardinality({c \in Candidates : pc[c] \in {"inside", "connect"}}) = Concurrency

\* Every worker comes to an end, and so does punch(): nobody waits for a place for
\* ever (puncher.py:120-154).
EverybodyEnds ==
  <>[](caller = "returned" /\ \A c \in candidates : pc[c] \in {"none", "end"})
=============================================================================
