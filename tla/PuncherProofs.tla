--------------------------- MODULE PuncherProofs ---------------------------
(***************************************************************************)
(* The safety of Puncher for every set of candidates and every limit on    *)
(* the connections at a time.                                              *)
(***************************************************************************)
EXTENDS Puncher, FiniteSetTheorems, TLAPS

Inside == {c \in Candidates : pc[c] \in {"inside", "connect"}}

\* Where the winner, the result and the others can be.
Phases ==
  /\ done <=> win # NoOne
  /\ \A c \in Candidates : pc[c] \in {"connect", "race"} => sock[c] = "open"
  /\ win # NoOne => pc[win] = "end"
  /\ result # NoOne => /\ caller = "returned"
                       /\ win = result \/ \A c \in Candidates : pc[c] = "none"
  /\ (\E c \in Candidates : pc[c] # "none") => Cardinality(candidates) > 1

\* The inductive invariant.
IInv == TypeOK /\ FewAtOnce /\ OneSurvivor /\ Phases

-----------------------------------------------------------------------------
LEMMA InsideFinite == Inside \subseteq Candidates /\ IsFiniteSet(Inside)
BY PuncherAssumption, FS_Subset DEF Inside

\* Initially.
LEMMA InvInit == Init => IInv
<1> SUFFICES ASSUME Init PROVE IInv
  OBVIOUS
<1> USE PuncherAssumption DEF Init
<1>1. TypeOK
  <2>1. done \in BOOLEAN
    OBVIOUS
  <2> QED BY <2>1 DEF TypeOK
<1>2. FewAtOnce
  <2>1. Inside = {}
    BY DEF Inside
  <2>2. Cardinality(Inside) = 0
    BY <2>1, FS_EmptySet
  <2> QED BY <2>2 DEF FewAtOnce, Inside
<1>3. OneSurvivor /\ Phases
  BY DEF OneSurvivor, Phases
<1> QED BY <1>1, <1>2, <1>3 DEF IInv

\* A place is counted where it is.
LEMMA PlaceTaken ==
  ASSUME IInv, NEW c \in Candidates, c \notin Inside, free > 0, free' = free - 1,
         pc' = [pc EXCEPT ![c] = "inside"]
  PROVE  FewAtOnce' /\ free' \in 0 .. Concurrency
<1>1. Inside' = Inside \cup {c}
  BY DEF Inside, IInv, TypeOK
<1>2. Cardinality(Inside') = Cardinality(Inside) + 1
  BY <1>1, InsideFinite, FS_AddElement
<1>3. Cardinality(Inside) \in Nat /\ free \in Nat
  BY InsideFinite, FS_CardinalityType, PuncherAssumption DEF IInv, TypeOK
<1>4. free + Cardinality(Inside) = Concurrency
  BY DEF IInv, FewAtOnce, Inside
<1> QED BY <1>2, <1>3, <1>4, PuncherAssumption DEF FewAtOnce, Inside

LEMMA PlaceGivenBack ==
  ASSUME IInv, NEW c \in Inside, free' = free + 1,
         NEW place \in {"race", "end"}, pc' = [pc EXCEPT ![c] = place]
  PROVE  FewAtOnce' /\ free' \in 0 .. Concurrency
<1>1. Inside' = Inside \ {c}
  BY DEF Inside, IInv, TypeOK
<1>2. Cardinality(Inside') = Cardinality(Inside) - 1
  BY <1>1, InsideFinite, FS_RemoveElement
<1>3. Cardinality(Inside) \in Nat /\ Cardinality(Inside') \in Nat /\ free \in Nat
  <2>1. IsFiniteSet(Inside')
    BY <1>1, InsideFinite, FS_RemoveElement
  <2> QED BY <2>1, InsideFinite, FS_CardinalityType, PuncherAssumption DEF IInv, TypeOK
<1>4. free + Cardinality(Inside) = Concurrency
  BY DEF IInv, FewAtOnce, Inside
<1> QED BY <1>2, <1>3, <1>4, PuncherAssumption DEF FewAtOnce, Inside

LEMMA PlacesKept ==
  ASSUME IInv, UNCHANGED free, Inside' = Inside
  PROVE  FewAtOnce' /\ free' \in 0 .. Concurrency
BY DEF IInv, TypeOK, FewAtOnce, Inside

\* The caller's steps.
LEMMA CallerStep ==
  ASSUME IInv, NoCandidate \/ OneCandidate \/ StartWorker \/ AllStarted \/ Return
  PROVE  IInv'
<1> USE PuncherAssumption
<1>1. CASE NoCandidate
  <2>1. Inside' = Inside
    BY <1>1 DEF NoCandidate, Inside
  <2>2. FewAtOnce'
    BY <1>1, <2>1, PlacesKept DEF NoCandidate
  <2>3. TypeOK'
    BY <1>1 DEF NoCandidate, IInv, TypeOK
  <2>4. OneSurvivor' /\ Phases'
    BY <1>1 DEF NoCandidate, IInv, OneSurvivor, Phases
  <2> QED BY <2>2, <2>3, <2>4 DEF IInv
<1>2. CASE OneCandidate
  <2>1. PICK c \in candidates :
          /\ candidates = {c}
          /\ \/ sock' = [sock EXCEPT ![c] = "open"] /\ result' = c
             \/ sock' = [sock EXCEPT ![c] = "closed"] /\ UNCHANGED result
    BY <1>2 DEF OneCandidate
  <2>2. /\ caller = "start" /\ caller' = "returned"
        /\ UNCHANGED <<candidates, pc, free, done, win>>
    BY <1>2 DEF OneCandidate
  <2>3. c \in Candidates
    BY DEF IInv, TypeOK
  <2>4. \A d \in Candidates : pc[d] = "none"
    <3>1. Cardinality(candidates) = 1
      BY <2>1, FS_Singleton
    <3> QED BY <3>1 DEF IInv, Phases
  <2>5. win = NoOne /\ result = NoOne
    BY <2>2, <2>4 DEF IInv, TypeOK, Phases
  <2>6. Inside' = Inside
    BY <2>2 DEF Inside
  <2>7. FewAtOnce'
    BY <2>2, <2>6, PlacesKept
  <2>8. TypeOK'
    BY <2>1, <2>2, <2>3 DEF IInv, TypeOK
  <2>9. OneSurvivor' /\ Phases'
    BY <2>1, <2>2, <2>3, <2>4, <2>5 DEF IInv, TypeOK, OneSurvivor, Phases
  <2> QED BY <2>7, <2>8, <2>9 DEF IInv
<1>3. CASE StartWorker
  <2>1. PICK c \in candidates : pc[c] = "none" /\ pc' = [pc EXCEPT ![c] = "begin"]
    BY <1>3 DEF StartWorker
  <2>2. /\ caller = "start" /\ Cardinality(candidates) > 1
        /\ UNCHANGED <<candidates, caller, free, sock, done, win, result>>
    BY <1>3 DEF StartWorker
  <2>3. Inside' = Inside
    BY <2>1, <2>2 DEF Inside, IInv, TypeOK
  <2>4. FewAtOnce'
    BY <2>2, <2>3, PlacesKept
  <2>5. TypeOK'
    BY <2>1, <2>2 DEF IInv, TypeOK
  <2>6. OneSurvivor' /\ Phases'
    BY <2>1, <2>2 DEF IInv, TypeOK, OneSurvivor, Phases
  <2> QED BY <2>4, <2>5, <2>6 DEF IInv
<1>4. CASE AllStarted
  <2>1. Inside' = Inside
    BY <1>4 DEF AllStarted, Inside
  <2>2. FewAtOnce'
    BY <1>4, <2>1, PlacesKept DEF AllStarted
  <2>3. TypeOK' /\ OneSurvivor' /\ Phases'
    BY <1>4 DEF AllStarted, IInv, TypeOK, OneSurvivor, Phases
  <2> QED BY <2>2, <2>3 DEF IInv
<1>5. CASE Return
  <2>1. Inside' = Inside
    BY <1>5 DEF Return, Inside
  <2>2. FewAtOnce'
    BY <1>5, <2>1, PlacesKept DEF Return
  <2>3. TypeOK' /\ OneSurvivor' /\ Phases'
    BY <1>5 DEF Return, IInv, TypeOK, OneSurvivor, Phases
  <2> QED BY <2>2, <2>3 DEF IInv
<1> QED BY <1>1, <1>2, <1>3, <1>4, <1>5

\* A worker's steps.
LEMMA WorkerStep ==
  ASSUME IInv, NEW c \in Candidates, Worker(c)
  PROVE  IInv'
<1> USE PuncherAssumption
<1>1. CASE Begin(c)
  <2>1. Inside' = Inside
    BY <1>1 DEF Begin, Inside, IInv, TypeOK
  <2>2. FewAtOnce'
    BY <1>1, <2>1, PlacesKept DEF Begin
  <2>3. TypeOK'
    BY <1>1 DEF Begin, IInv, TypeOK
  <2>4. OneSurvivor' /\ Phases'
    BY <1>1 DEF Begin, IInv, TypeOK, OneSurvivor, Phases
  <2> QED BY <2>2, <2>3, <2>4 DEF IInv
<1>2. CASE Acquire(c)
  <2>1. FewAtOnce' /\ free' \in 0 .. Concurrency
    BY <1>2, PlaceTaken DEF Acquire, Inside
  <2>2. TypeOK'
    BY <1>2, <2>1 DEF Acquire, IInv, TypeOK
  <2>3. OneSurvivor' /\ Phases'
    BY <1>2 DEF Acquire, IInv, TypeOK, OneSurvivor, Phases
  <2> QED BY <2>1, <2>2, <2>3 DEF IInv
<1>3. CASE Skip(c)
  <2>1. FewAtOnce' /\ free' \in 0 .. Concurrency
    BY <1>3, PlaceGivenBack DEF Skip, Inside
  <2>2. TypeOK'
    BY <1>3, <2>1 DEF Skip, IInv, TypeOK
  <2>3. OneSurvivor' /\ Phases'
    BY <1>3 DEF Skip, IInv, TypeOK, OneSurvivor, Phases
  <2> QED BY <2>1, <2>2, <2>3 DEF IInv
<1>4. CASE Connect(c)
  <2>1. Inside' = Inside
    BY <1>4 DEF Connect, Inside, IInv, TypeOK
  <2>2. FewAtOnce'
    BY <1>4, <2>1, PlacesKept DEF Connect
  <2>3. TypeOK'
    BY <1>4 DEF Connect, IInv, TypeOK
  <2>4. OneSurvivor' /\ Phases'
    BY <1>4 DEF Connect, IInv, TypeOK, OneSurvivor, Phases
  <2> QED BY <2>2, <2>3, <2>4 DEF IInv
<1>5. CASE Connected(c)
  <2>1. FewAtOnce' /\ free' \in 0 .. Concurrency
    BY <1>5, PlaceGivenBack DEF Connected, Inside
  <2>2. TypeOK'
    BY <1>5, <2>1 DEF Connected, IInv, TypeOK
  <2>3. OneSurvivor' /\ Phases'
    BY <1>5 DEF Connected, IInv, TypeOK, OneSurvivor, Phases
  <2> QED BY <2>1, <2>2, <2>3 DEF IInv
<1>6. CASE Failed(c)
  <2>1. FewAtOnce' /\ free' \in 0 .. Concurrency
    BY <1>6, PlaceGivenBack DEF Failed, Inside
  <2>2. TypeOK'
    BY <1>6, <2>1 DEF Failed, IInv, TypeOK
  <2>3. c \notin {win, result}
    BY <1>6 DEF Failed, IInv, Phases
  <2>4. OneSurvivor' /\ Phases'
    BY <1>6, <2>3 DEF Failed, IInv, TypeOK, OneSurvivor, Phases
  <2> QED BY <2>1, <2>2, <2>4 DEF IInv
<1>7. CASE Race(c)
  <2>1. Inside' = Inside
    BY <1>7 DEF Race, Inside, IInv, TypeOK
  <2>2. FewAtOnce'
    BY <1>7, <2>1, PlacesKept DEF Race
  <2>3. c \notin {win, result} /\ sock[c] = "open" /\ pc[c] = "race" /\ c # NoOne
    BY <1>7 DEF Race, IInv, Phases
  <2>4. TypeOK'
    BY <1>7 DEF Race, IInv, TypeOK
  <2>5. OneSurvivor' /\ Phases'
    <3>1. CASE done
      BY <1>7, <2>3, <3>1 DEF Race, IInv, TypeOK, OneSurvivor, Phases
    <3>2. CASE ~done
      <4>1. result = NoOne
        BY <2>3, <3>2 DEF IInv, Phases
      <4> QED BY <1>7, <2>3, <3>2, <4>1 DEF Race, IInv, TypeOK, OneSurvivor, Phases
    <3> QED BY <3>1, <3>2
  <2> QED BY <2>2, <2>4, <2>5 DEF IInv
<1> QED BY <1>1, <1>2, <1>3, <1>4, <1>5, <1>6, <1>7 DEF Worker

LEMMA InvNext == IInv /\ [Next]_vars => IInv'
<1> SUFFICES ASSUME IInv, [Next]_vars PROVE IInv'
  OBVIOUS
<1>1. CASE NoCandidate \/ OneCandidate \/ StartWorker \/ AllStarted \/ Return
  BY <1>1, CallerStep
<1>2. CASE \E c \in Candidates : Worker(c)
  BY <1>2, WorkerStep
<1>3. CASE UNCHANGED vars
  <2>1. Inside' = Inside
    BY <1>3 DEF vars, Inside
  <2>2. FewAtOnce'
    BY <1>3, <2>1, PlacesKept DEF vars
  <2>3. TypeOK' /\ OneSurvivor' /\ Phases'
    BY <1>3 DEF vars, IInv, TypeOK, OneSurvivor, Phases
  <2> QED BY <2>2, <2>3 DEF IInv
<1> QED BY <1>1, <1>2, <1>3 DEF Next

LEMMA Always == Spec => []IInv
BY InvInit, InvNext, PTL DEF Spec

\* Type correctness; the counter of the semaphore stays within its limit.
THEOREM PuncherTypes == Spec => []TypeOK
<1>1. IInv => TypeOK
  BY DEF IInv
<1> QED BY <1>1, Always, PTL

\* At most one connection survives a punch (puncher.py:135-143), for any number of
\* candidates.
THEOREM PuncherOneSurvivor == Spec => []OneSurvivor
<1>1. IInv => OneSurvivor
  BY DEF IInv
<1> QED BY <1>1, Always, PTL

\* No more than Concurrency connections at a time (puncher.py:117-132), and every
\* place is given back.
THEOREM PuncherFewAtOnce == Spec => []FewAtOnce
<1>1. IInv => FewAtOnce
  BY DEF IInv
<1> QED BY <1>1, Always, PTL
=============================================================================
