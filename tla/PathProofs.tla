----------------------------- MODULE PathProofs -----------------------------
(***************************************************************************)
(* Proofs about KeepaliveScheduler and PeerPaths.                          *)
(*   - Every method of a scheduler leaves the interval and the bounds of   *)
(*     the bisection between the protocol's floor and the role's cap, and  *)
(*     the interval between the two bounds.                                *)
(*   - A peer's paths, however many, are one hot and one warm_safe at most *)
(*     and each is probed within the limits of the role it has; failures   *)
(*     never lengthen an interval, successes never shorten one.            *)
(***************************************************************************)
EXTENDS PeerPaths, TLAPS

-----------------------------------------------------------------------------
(* KeepaliveScheduler.                                                     *)

\* The schedulers of the model.
SchedulerType == [role : Roles, proto : Protos, interval : Nat,
                  upper : Nat \cup {None}, lower : Nat \cup {None},
                  successes : Nat, failures : Nat, stable : BOOLEAN]

\* A scheduler whose interval and bounds are within limits.
Sound(s) == /\ s \in SchedulerType
            /\ s.interval \in Bounds(s.role, s.proto)
            /\ s.upper # None => s.upper \in Bounds(s.role, s.proto)
            /\ s.lower # None => s.lower \in Bounds(s.role, s.proto)

\* No role's cap is below its protocol's starting interval.
LEMMA CapAboveFloor ==
  ASSUME NEW r \in Roles, NEW p \in Protos
  PROVE  /\ Floor[p] \in Nat \ {0}
         /\ Cap(r, p) \in Nat
         /\ 2 * Floor[p] <= Cap(r, p)
BY LimitsAssumption DEF Cap

\* _clamp returns a value within limits, whatever it is given.
LEMMA ClampInBounds ==
  ASSUME NEW r \in Roles, NEW p \in Protos, NEW v \in Int
  PROVE  Clamp(r, p, v) \in Bounds(r, p)
<1>1. Floor[p] \in Nat /\ Cap(r, p) \in Nat /\ Floor[p] <= Cap(r, p)
  BY CapAboveFloor
<1> QED BY <1>1 DEF Clamp, Bounds

\* Limits are natural numbers.
LEMMA BoundsAreNaturals ==
  ASSUME NEW r \in Roles, NEW p \in Protos
  PROVE  Bounds(r, p) \subseteq Nat /\ Floor[p] \in Bounds(r, p)
                                    /\ 2 * Floor[p] \in Bounds(r, p)
BY CapAboveFloor DEF Bounds

\* A new scheduler is sound.
LEMMA NewSound ==
  ASSUME NEW r \in Roles, NEW p \in Protos
  PROVE  Sound(NewScheduler(r, p))
BY BoundsAreNaturals DEF NewScheduler, Sound, SchedulerType, None

\* on_success() keeps a scheduler sound.
LEMMA SuccessSound ==
  ASSUME NEW s, Sound(s)
  PROVE  Sound(OnSuccess(s))
<1> DEFINE seen == [s EXCEPT !.successes = @ + 1, !.upper = s.interval]
<1> DEFINE grown == Clamp(s.role, s.proto, Below(s, s.interval * DoubleFactor[s.role]))
<1>1. s \in SchedulerType /\ s.role \in Roles /\ s.proto \in Protos
  BY DEF Sound, SchedulerType
<1>2. Sound(seen)
  <2>0. s.interval \in Nat /\ s.successes + 1 \in Nat
    BY <1>1 DEF SchedulerType
  <2>1. seen \in SchedulerType
    BY <1>1, <2>0 DEF SchedulerType
  <2>2. /\ seen.role = s.role /\ seen.proto = s.proto /\ seen.lower = s.lower
        /\ seen.interval = s.interval /\ seen.upper = s.interval
    BY <1>1 DEF SchedulerType
  <2> HIDE DEF seen
  <2> QED BY <2>1, <2>2 DEF Sound
<1>3. Below(s, s.interval * DoubleFactor[s.role]) \in Int
  <2>1. s.interval \in Nat /\ s.lower \in Int /\ DoubleFactor[s.role] \in Nat
    BY <1>1, LimitsAssumption DEF SchedulerType, None
  <2>2. s.interval * DoubleFactor[s.role] \in Int
    BY <2>1
  <2> HIDE <1>2
  <2> QED BY <2>1, <2>2 DEF Below
<1>4. grown \in Bounds(s.role, s.proto)
  BY <1>1, <1>3, ClampInBounds
<1>5. grown \in Nat
  BY <1>1, <1>4, BoundsAreNaturals
<1>6. Sound([seen EXCEPT !.stable = TRUE])
  BY <1>1, <1>2 DEF Sound, SchedulerType
<1>7. Sound([seen EXCEPT !.stable = (s.lower # None), !.interval = grown])
  <2> HIDE DEF grown
  <2> QED BY <1>1, <1>2, <1>4, <1>5 DEF Sound, SchedulerType
<1> QED BY <1>2, <1>6, <1>7 DEF OnSuccess

\* on_failure() keeps a scheduler sound.
LEMMA FailureSound ==
  ASSUME NEW s, Sound(s)
  PROVE  Sound(OnFailure(s))
<1> DEFINE next == IF s.upper # None THEN (s.upper + s.interval) \div 2
                   ELSE Floor[s.proto]
<1> DEFINE fallen == IF s.failures + 1 >= 3 THEN Floor[s.proto]
                     ELSE Clamp(s.role, s.proto, next)
<1>1. s \in SchedulerType /\ s.role \in Roles /\ s.proto \in Protos
  BY DEF Sound, SchedulerType
<1>2. next \in Int
  <2>1. s.interval \in Nat /\ s.upper \in Int /\ Floor[s.proto] \in Nat
    BY <1>1, CapAboveFloor DEF SchedulerType, None
  <2> QED BY <2>1
<1>3. fallen \in Bounds(s.role, s.proto)
  <2>1. Clamp(s.role, s.proto, next) \in Bounds(s.role, s.proto)
    BY <1>1, <1>2, ClampInBounds
  <2> HIDE DEF next
  <2> QED BY <1>1, <2>1, BoundsAreNaturals
<1>4. fallen \in Nat
  BY <1>1, <1>3, BoundsAreNaturals
<1>5. OnFailure(s) = [s EXCEPT !.failures = @ + 1, !.lower = s.interval,
                              !.stable = FALSE, !.interval = fallen]
  BY DEF OnFailure
<1> HIDE DEF fallen
<1> DEFINE t == OnFailure(s)
<1>6. t \in SchedulerType
  <2>1. s.interval \in Nat /\ s.failures + 1 \in Nat
    BY <1>1 DEF SchedulerType
  <2> QED BY <1>1, <1>4, <1>5, <2>1 DEF SchedulerType
<1>7. /\ t.role = s.role /\ t.proto = s.proto /\ t.upper = s.upper
      /\ t.interval = fallen /\ t.lower = s.interval
  BY <1>1, <1>5 DEF SchedulerType
<1> HIDE DEF t
<1>8. Sound(t)
  BY <1>3, <1>6, <1>7 DEF Sound
<1> QED BY <1>8 DEF t

\* The interval stands between the bounds of the bisection: never above the last
\* interval that failed, nor, before the retreat to the floor, below the last that
\* succeeded.
Ordered(s) == /\ s.lower # None => s.interval <= s.lower
              /\ s.failures < 3 => s.upper <= s.interval

\* _clamp moves a value no further than into the limits.
LEMMA ClampMonotone ==
  ASSUME NEW r \in Roles, NEW p \in Protos, NEW v \in Int, NEW b \in Bounds(r, p)
  PROVE  /\ v <= b => Clamp(r, p, v) <= b
         /\ b <= v => b <= Clamp(r, p, v)
<1>1. Floor[p] \in Nat /\ Cap(r, p) \in Nat /\ Floor[p] <= Cap(r, p)
  BY CapAboveFloor
<1> QED BY <1>1 DEF Clamp, Bounds

\* A successful probe does not shorten the interval, and keeps the order.
LEMMA SuccessSteers ==
  ASSUME NEW s, Sound(s), Ordered(s)
  PROVE  Ordered(OnSuccess(s)) /\ OnSuccess(s).interval >= s.interval
<1> DEFINE wish == Below(s, s.interval * DoubleFactor[s.role])
<1> DEFINE grown == Clamp(s.role, s.proto, wish)
<1> DEFINE t == OnSuccess(s)
<1>1. s \in SchedulerType /\ s.role \in Roles /\ s.proto \in Protos
  BY DEF Sound, SchedulerType
<1>2. /\ s.interval \in Nat /\ s.lower \in Nat \cup {None} /\ s.failures \in Nat
      /\ s.interval \in Bounds(s.role, s.proto)
      /\ s.lower # None => s.lower \in Bounds(s.role, s.proto) /\ s.interval <= s.lower
  BY <1>1 DEF Sound, Ordered, SchedulerType
<1>3. wish \in Int /\ s.interval <= wish /\ (s.lower # None => wish <= s.lower)
  <2>1. DoubleFactor[s.role] \in Nat \ {0}
    BY <1>1, LimitsAssumption
  <2>2. s.interval * DoubleFactor[s.role] \in Nat
        /\ s.interval <= s.interval * DoubleFactor[s.role]
    BY <1>2, <2>1
  <2> DEFINE v == s.interval * DoubleFactor[s.role]
  <2>3. v \in Nat /\ s.interval <= v
    BY <2>2
  <2> HIDE DEF v
  <2>4. wish = Below(s, v)
    BY DEF v
  <2> QED BY <1>2, <2>3, <2>4 DEF Below, None
<1> HIDE DEF wish
<1>4. /\ grown \in Bounds(s.role, s.proto) /\ grown \in Nat
      /\ s.interval <= grown /\ (s.lower # None => grown <= s.lower)
  <2>1. grown \in Bounds(s.role, s.proto)
    BY <1>1, <1>3, ClampInBounds
  <2> QED BY <1>1, <1>2, <1>3, <2>1, BoundsAreNaturals, ClampMonotone
<1> HIDE DEF grown
<1>5. /\ t.interval \in {s.interval, grown} /\ t.upper = s.interval
      /\ t.lower = s.lower /\ t.failures = s.failures
  BY <1>1 DEF OnSuccess, SchedulerType, grown, wish
<1> HIDE DEF t
<1>6. t.interval >= s.interval /\ Ordered(t)
  BY <1>2, <1>4, <1>5 DEF Ordered
<1> QED BY <1>6 DEF t

\* A failed probe does not lengthen the interval, and keeps the order.
LEMMA FailureSteers ==
  ASSUME NEW s, Sound(s), Ordered(s)
  PROVE  Ordered(OnFailure(s)) /\ OnFailure(s).interval <= s.interval
<1> DEFINE next == IF s.upper # None THEN (s.upper + s.interval) \div 2
                   ELSE Floor[s.proto]
<1> DEFINE middle == Clamp(s.role, s.proto, next)
<1> DEFINE t == OnFailure(s)
<1>1. s \in SchedulerType /\ s.role \in Roles /\ s.proto \in Protos
  BY DEF Sound, SchedulerType
<1>2. /\ s.interval \in Nat /\ s.upper \in Nat \cup {None} /\ s.failures \in Nat
      /\ s.interval \in Bounds(s.role, s.proto)
      /\ s.upper # None => s.upper \in Bounds(s.role, s.proto)
      /\ s.failures < 3 => s.upper <= s.interval
  BY <1>1 DEF Sound, Ordered, SchedulerType
<1>3. /\ Floor[s.proto] \in Nat /\ Floor[s.proto] <= s.interval
      /\ Floor[s.proto] \in Bounds(s.role, s.proto)
  BY <1>1, <1>2, CapAboveFloor, BoundsAreNaturals DEF Bounds
<1>4. s.failures < 3 => /\ next \in Int /\ next <= s.interval /\ s.upper <= next
  BY <1>2, <1>3 DEF None
<1> HIDE DEF next
<1>5. s.failures < 3 => /\ middle \in Nat /\ middle <= s.interval /\ s.upper <= middle
  <2> SUFFICES ASSUME s.failures < 3
               PROVE  middle \in Nat /\ middle <= s.interval /\ s.upper <= middle
    OBVIOUS
  <2>1. middle \in Bounds(s.role, s.proto) /\ middle \in Nat
    BY <1>1, <1>4, ClampInBounds, BoundsAreNaturals
  <2>2. middle <= s.interval
    BY <1>1, <1>2, <1>4, ClampMonotone
  <2>3. s.upper # None => s.upper <= middle
    BY <1>1, <1>2, <1>4, ClampMonotone
  <2> QED BY <2>1, <2>2, <2>3 DEF None
<1>6. /\ t.interval = IF s.failures + 1 >= 3 THEN Floor[s.proto] ELSE middle
      /\ t.upper = s.upper /\ t.lower = s.interval /\ t.failures = s.failures + 1
  BY <1>1 DEF OnFailure, SchedulerType, next
<1> HIDE DEF t, middle
<1>7. t.interval <= s.interval /\ Ordered(t)
  BY <1>2, <1>3, <1>5, <1>6 DEF Ordered
<1> QED BY <1>7 DEF t

-----------------------------------------------------------------------------
(* PeerPaths.                                                              *)

\* No two hot and no two warm_safe paths in a table.
Single(t) == \A p, q \in DOMAIN t : t[p] = t[q] /\ t[p] \in {Hot, Safe} => p = q

\* The scheduler of a path: sound, of its protocol, and of the role of a path
\* alive.
Fits(s, p, role) == /\ Sound(s) /\ Ordered(s)
                    /\ s.proto = Proto[p]
                    /\ role # Dead => s.role = role

PInv == /\ roles \in Tables
        /\ Single(roles)
        /\ DOMAIN sched = DOMAIN roles
        /\ \A p \in DOMAIN roles : Fits(sched[p], p, roles[p])

\* What a table is, without the union.
LEMMA TableType ==
  ASSUME NEW t
  PROVE  t \in Tables <=> /\ DOMAIN t \in SUBSET PathIds
                          /\ t \in [DOMAIN t -> PathRoles]
BY DEF Tables

\* The graded table has one hot and one warm_safe path: of two paths the one
\* of smaller rank is ahead of the other.
LEMMA RegradedSingle ==
  ASSUME NEW t \in Tables
  PROVE  /\ Regraded(t) \in Tables
         /\ DOMAIN Regraded(t) = DOMAIN t
         /\ \A p \in DOMAIN t : Regraded(t)[p] = Dead <=> t[p] = Dead
         /\ Single(Regraded(t))
<1> DEFINE u == Regraded(t)
<1>1. DOMAIN t \in SUBSET PathIds
  BY TableType
<1>2. /\ DOMAIN u = DOMAIN t
      /\ u \in [DOMAIN t -> PathRoles]
      /\ \A p \in DOMAIN t : u[p] = Dead <=> t[p] = Dead
  BY DEF Regraded, PathRoles, Hot, Safe, Loose, Dead
<1>3. u \in Tables
  BY <1>1, <1>2 DEF Tables
<1>4. ASSUME NEW p \in DOMAIN t, NEW q \in DOMAIN t, p # q, u[p] = u[q],
             u[p] \in {Hot, Safe}
      PROVE  FALSE
  <2>1. Rank[p] \in Nat /\ Rank[q] \in Nat /\ Rank[p] # Rank[q]
    BY <1>1, <1>4, RankAssumption
  <2>2. p \in Alive(t) /\ q \in Alive(t)
    BY <1>2, <1>4 DEF Alive, Hot, Safe, Dead
  <2>3. p \in Ahead(t, q) \/ q \in Ahead(t, p)
    BY <2>1, <2>2 DEF Ahead
  <2>4. \A r \in Ahead(t, p), s \in Ahead(t, q) :
           Rank[r] < Rank[p] /\ Rank[s] < Rank[q]
    BY DEF Ahead
  <2>5. CASE u[p] = Hot
    <3>1. Ahead(t, p) = {} /\ Ahead(t, q) = {}
      BY <1>4, <2>2, <2>5 DEF Regraded, Alive, Hot, Safe, Loose, Dead
    <3> QED BY <2>3, <3>1
  <2>6. CASE u[p] = Safe
    <3>1. /\ Ahead(t, p) # {} /\ Ahead(t, q) # {}
          /\ \A r, s \in Ahead(t, p) : r = s
          /\ \A r, s \in Ahead(t, q) : r = s
      BY <1>4, <2>2, <2>6 DEF Regraded, Alive, Hot, Safe, Loose, Dead
    <3>2. Ahead(t, p) \subseteq PathIds /\ Ahead(t, q) \subseteq PathIds
      BY <1>1 DEF Ahead, Alive
    <3>3. CASE p \in Ahead(t, q)
      <4>1. PICK r \in Ahead(t, p) : TRUE
        BY <3>1
      <4>2. Rank[r] \in Nat /\ Rank[r] < Rank[p] /\ Rank[p] < Rank[q]
        BY <2>4, <3>2, <3>3, <4>1, RankAssumption
      <4>3. r \in Ahead(t, q)
        BY <2>1, <4>1, <4>2 DEF Ahead
      <4>4. r = p
        BY <3>1, <3>3, <4>3
      <4> QED BY <2>1, <4>2, <4>4
    <3>4. CASE q \in Ahead(t, p)
      <4>1. PICK r \in Ahead(t, q) : TRUE
        BY <3>1
      <4>2. Rank[r] \in Nat /\ Rank[r] < Rank[q] /\ Rank[q] < Rank[p]
        BY <2>4, <3>2, <3>4, <4>1, RankAssumption
      <4>3. r \in Ahead(t, p)
        BY <2>1, <4>1, <4>2 DEF Ahead
      <4>4. r = q
        BY <3>1, <3>4, <4>3
      <4> QED BY <2>1, <4>2, <4>4
    <3> QED BY <2>3, <3>3, <3>4
  <2> QED BY <1>4, <2>5, <2>6
<1>5. Single(u)
  BY <1>2, <1>4 DEF Single
<1> QED BY <1>2, <1>3, <1>5

\* register(): a table with a new or revived path is graded.
LEMMA RegisteredSingle ==
  ASSUME NEW t \in Tables, Single(t), NEW p \in PathIds
  PROVE  /\ Registered(t, p) \in Tables
         /\ Single(Registered(t, p))
         /\ \A q \in DOMAIN Registered(t, p) \ DOMAIN t : Registered(t, p)[q] # Dead
<1>1. CASE p \in Alive(t)
  BY <1>1 DEF Registered
<1>2. CASE p \notin Alive(t)
  <2> DEFINE u == With(t, p, Loose)
  <2>1. /\ DOMAIN u = DOMAIN t \cup {p}
        /\ u[p] = Loose
        /\ \A q \in DOMAIN t \ {p} : u[q] = t[q]
    BY DEF With
  <2>2. u \in Tables
    <3>1. DOMAIN t \in SUBSET PathIds /\ t \in [DOMAIN t -> PathRoles]
      BY TableType
    <3>2. u \in [DOMAIN t \cup {p} -> PathRoles]
      BY <3>1 DEF With, PathRoles
    <3> QED BY <2>1, <3>1, <3>2, TableType
  <2>3. Registered(t, p) = Regraded(u)
    BY <1>2 DEF Registered
  <2> HIDE DEF u
  <2> QED BY <2>1, <2>2, <2>3, RegradedSingle DEF Loose, Dead
<1> QED BY <1>1, <1>2

\* remove() takes a path away and changes no other.
LEMMA RemovedSingle ==
  ASSUME NEW t \in Tables, Single(t), NEW p
  PROVE  /\ Removed(t, p) \in Tables
         /\ Single(Removed(t, p))
         /\ DOMAIN Removed(t, p) \subseteq DOMAIN t
<1>1. DOMAIN t \in SUBSET PathIds /\ t \in [DOMAIN t -> PathRoles]
  BY TableType
<1>2. /\ DOMAIN Removed(t, p) = DOMAIN t \ {p}
      /\ \A q \in DOMAIN t \ {p} : Removed(t, p)[q] = t[q]
      /\ Removed(t, p) \in [DOMAIN t \ {p} -> PathRoles]
  BY <1>1 DEF Removed
<1> QED BY <1>1, <1>2, TableType DEF Single

\* promote_on_hot_failure() passes each role on to one path.
LEMMA PromotedSingle ==
  ASSUME NEW t \in Tables, Single(t), NEW u \in Promotions(t)
  PROVE  u \in Tables /\ Single(u) /\ DOMAIN u = DOMAIN t
<1>1. DOMAIN t \in SUBSET PathIds /\ t \in [DOMAIN t -> PathRoles]
  BY TableType
<1>2. PICK hot \in OneOf(t, Hot), safe \in OneOf(t, Safe), loose \in OneOf(t, Loose) :
        u = [p \in DOMAIN t |-> IF p = hot THEN Dead
                                ELSE IF p = safe THEN Hot
                                ELSE IF p = loose THEN Safe ELSE t[p]]
  BY DEF Promotions
<1>3. u \in [DOMAIN t -> PathRoles] /\ DOMAIN u = DOMAIN t
  BY <1>1, <1>2 DEF PathRoles
<1>4. \A p \in DOMAIN t : t[p] = Hot <=> p = hot
  BY <1>1, <1>2, RankAssumption DEF OneOf, Single
<1>5. \A p \in DOMAIN t : t[p] = Safe <=> p = safe
  BY <1>1, <1>2, RankAssumption DEF OneOf, Single
<1>6. \A p \in DOMAIN t : u[p] = Hot <=> p = safe
  BY <1>2, <1>4, <1>5 DEF Hot, Safe, Dead
<1>7. \A p \in DOMAIN t : u[p] = Safe <=> p = loose
  <2>1. \A p \in DOMAIN t : p = loose => t[p] = Loose
    BY <1>1, <1>2, RankAssumption DEF OneOf
  <2> QED BY <1>2, <1>4, <1>5, <2>1 DEF Hot, Safe, Loose, Dead
<1>8. Single(u)
  BY <1>3, <1>6, <1>7 DEF Single
<1> QED BY <1>1, <1>3, <1>8, TableType

\* set_role() gives every path whose role changes a scheduler that fits it.
LEMMA SetRolesKeepsFit ==
  ASSUME PInv, NEW table \in Tables, Single(table), SetRoles(table),
         \A p \in DOMAIN table \ DOMAIN roles : table[p] # Dead
  PROVE  PInv'
<1>1. DOMAIN table \in SUBSET PathIds /\ table \in [DOMAIN table -> PathRoles]
  BY TableType
<1>2. roles' = table /\ DOMAIN sched' = DOMAIN table
  BY DEF SetRoles
<1>3. ASSUME NEW p \in DOMAIN table
      PROVE  Fits(sched'[p], p, table[p])
  <2>1. p \in PathIds /\ Proto[p] \in Protos
    BY <1>1, PeerPathsAssumption
  <2>2. CASE p \in DOMAIN roles /\ (table[p] = roles[p] \/ table[p] = Dead)
    <3>1. sched'[p] = sched[p]
      BY <2>2 DEF SetRoles
    <3> QED BY <2>2, <3>1 DEF PInv, Fits
  <2>3. CASE ~(p \in DOMAIN roles /\ (table[p] = roles[p] \/ table[p] = Dead))
    <3>1. sched'[p] = NewScheduler(table[p], Proto[p])
      BY <2>3 DEF SetRoles
    <3>2. table[p] \in Roles
      BY <1>1, <2>3, PeerPathsAssumption DEF PathRoles
    <3>3. Sound(NewScheduler(table[p], Proto[p]))
      BY <2>1, <3>2, NewSound
    <3>4. Ordered(NewScheduler(table[p], Proto[p]))
      <4>1. Floor[Proto[p]] \in Nat
        BY <2>1, LimitsAssumption
      <4> DEFINE f == Floor[Proto[p]]
      <4>2. NewScheduler(table[p], Proto[p]) =
              [role |-> table[p], proto |-> Proto[p], interval |-> 2 * f, upper |-> -1,
               lower |-> -1, successes |-> 0, failures |-> 0, stable |-> FALSE]
        BY DEF NewScheduler, None
      <4> HIDE DEF f
      <4> QED BY <4>1, <4>2 DEF Ordered, None, f
    <3> QED BY <3>1, <3>3, <3>4 DEF Fits, NewScheduler
  <2> QED BY <2>2, <2>3
<1> QED BY <1>2, <1>3 DEF PInv, Single

\* The outcome of a probe changes neither protocol nor role of a scheduler.
LEMMA OutcomeKeepsRole ==
  ASSUME NEW s, Sound(s)
  PROVE  /\ OnSuccess(s).role = s.role /\ OnSuccess(s).proto = s.proto
         /\ OnFailure(s).role = s.role /\ OnFailure(s).proto = s.proto
<1>1. s \in SchedulerType
  BY DEF Sound
<1>2. OnSuccess(s).role = s.role /\ OnSuccess(s).proto = s.proto
  BY <1>1 DEF OnSuccess, SchedulerType
<1>3. OnFailure(s).role = s.role /\ OnFailure(s).proto = s.proto
  BY <1>1 DEF OnFailure, SchedulerType
<1> QED BY <1>2, <1>3

\* The invariant holds at the start and every step keeps it.
THEOREM PathsInvariance == Spec => []PInv
<1>1. Init => PInv
  BY DEF Init, PInv, NoPaths, Tables, Single
<1>2. PInv /\ [Next]_vars => PInv'
  <2> SUFFICES ASSUME PInv, [Next]_vars PROVE PInv'
    OBVIOUS
  <2>0. roles \in Tables /\ Single(roles)
    BY DEF PInv
  <2>1. ASSUME NEW p \in PathIds, Register(p) PROVE PInv'
    BY <2>0, <2>1, RegisteredSingle, SetRolesKeepsFit DEF Register
  <2>2. ASSUME NEW p \in PathIds, Remove(p) PROVE PInv'
    <3>1. DOMAIN Removed(roles, p) \ DOMAIN roles = {}
      BY <2>0, RemovedSingle
    <3> QED BY <2>0, <2>2, <3>1, RemovedSingle, SetRolesKeepsFit DEF Remove
  <2>3. ASSUME NEW p \in PathIds, Probed(p) PROVE PInv'
    <3>1. PICK s \in {OnSuccess(sched[p]), OnFailure(sched[p])} :
            sched' = [sched EXCEPT ![p] = s]
      BY <2>3 DEF Probed
    <3>2. p \in DOMAIN roles /\ roles' = roles /\ Fits(sched[p], p, roles[p])
      BY <2>3 DEF Probed, PInv
    <3>3. Fits(s, p, roles[p])
      BY <3>1, <3>2, SuccessSound, FailureSound, SuccessSteers,
         FailureSteers, OutcomeKeepsRole DEF Fits
    <3>4. DOMAIN sched' = DOMAIN roles
      BY <3>1 DEF PInv
    <3>5. \A q \in DOMAIN roles : Fits(sched'[q], q, roles[q])
      BY <3>1, <3>2, <3>3 DEF PInv
    <3> QED BY <2>0, <3>2, <3>4, <3>5 DEF PInv
  <2>4. CASE PromoteOnHotFailure
    <3>1. PICK table \in Promotions(roles) : SetRoles(table)
      BY <2>4 DEF PromoteOnHotFailure
    <3>2. table \in Tables /\ Single(table) /\ DOMAIN table = DOMAIN roles
      BY <2>0, <3>1, PromotedSingle
    <3> QED BY <3>1, <3>2, SetRolesKeepsFit
  <2>5. CASE Regrade
    <3>1. /\ Regraded(roles) \in Tables /\ Single(Regraded(roles))
          /\ DOMAIN Regraded(roles) = DOMAIN roles
      BY <2>0, RegradedSingle
    <3> QED BY <2>5, <3>1, SetRolesKeepsFit DEF Regrade
  <2>6. CASE UNCHANGED vars
    BY <2>6 DEF vars, PInv, Single
  <2> QED BY <2>1, <2>2, <2>3, <2>4, <2>5, <2>6 DEF Next
<1> QED BY <1>1, <1>2, PTL DEF Spec

\* The state keeps its type.
THEOREM PathsTypes == Spec => []TypeOK
<1>1. PInv => TypeOK
  <2> SUFFICES ASSUME PInv PROVE TypeOK
    OBVIOUS
  <2>1. \A p \in DOMAIN sched : Fits(sched[p], p, roles[p])
    BY DEF PInv
  <2>2. \A p \in DOMAIN sched : sched[p].role \in Roles /\ sched[p].proto = Proto[p]
    BY <2>1 DEF Fits, Sound, SchedulerType
  <2> QED BY <2>2 DEF PInv, TypeOK
<1> QED BY <1>1, PathsInvariance, PTL

\* One path is hot and one is warm_safe at most.
THEOREM PathsOneOfEach == Spec => []OneOfEach
<1>1. PInv => OneOfEach
  BY DEF PInv, Single, OneOfEach
<1> QED BY <1>1, PathsInvariance, PTL

\* Every path alive is probed within the limits of the role it has now.
THEOREM PathsProbedByRole == Spec => []ProbedByRole
<1>1. PInv => ProbedByRole
  <2> SUFFICES ASSUME PInv, NEW p \in Alive(roles)
               PROVE  /\ sched[p].role = roles[p]
                      /\ Floor[Proto[p]] <= sched[p].interval
                      /\ sched[p].interval <= Cap(roles[p], Proto[p])
    BY DEF ProbedByRole
  <2>1. Fits(sched[p], p, roles[p]) /\ roles[p] # Dead
    BY DEF Alive, PInv
  <2>2. /\ sched[p].role = roles[p]
        /\ sched[p].interval \in Bounds(roles[p], Proto[p])
    BY <2>1 DEF Fits, Sound
  <2>3. roles[p] \in Roles /\ Proto[p] \in Protos
    BY <2>1, <2>2 DEF Fits, Sound, SchedulerType
  <2>4. Floor[Proto[p]] \in Nat /\ Cap(roles[p], Proto[p]) \in Nat
    BY <2>3, CapAboveFloor
  <2> QED BY <2>2, <2>4 DEF Bounds
<1> QED BY <1>1, PathsInvariance, PTL

\* A failed probe never lengthens a path's interval, a successful one never shortens
\* it, over every history of outcomes and roles.
THEOREM PathsOutcomesSteer == Spec => OutcomesSteer
<1>1. PInv /\ [Next]_vars => [SteeredByOutcomes]_vars
  <2> SUFFICES ASSUME PInv, Next, NEW p \in DOMAIN sched \cap DOMAIN sched'
               PROVE  /\ sched'[p].failures > sched[p].failures
                           => sched'[p].interval <= sched[p].interval
                      /\ sched'[p].successes > sched[p].successes
                           => sched'[p].interval >= sched[p].interval
    BY DEF SteeredByOutcomes
  <2> DEFINE s == sched[p]
  <2>1. Sound(s) /\ Ordered(s) /\ s \in SchedulerType
    BY DEF PInv, Fits, Sound
  <2>2. s.interval \in Nat /\ s.failures \in Nat /\ s.successes \in Nat
    BY <2>1 DEF SchedulerType
  <2>3. ASSUME NEW table, SetRoles(table)
        PROVE  (sched'[p] = s) \/ (sched'[p].failures = 0 /\ sched'[p].successes = 0)
    BY <2>3 DEF SetRoles, NewScheduler
  <2>4. CASE \E table : SetRoles(table)
    BY <2>2, <2>3, <2>4
  <2>5. ASSUME NEW q \in PathIds, Probed(q)
        PROVE  sched'[p] \in {s, OnSuccess(s), OnFailure(s)}
    BY <2>5 DEF Probed
  <2>6. CASE \E q \in PathIds : Probed(q)
    <3>1. /\ OnSuccess(s).failures = s.failures /\ OnSuccess(s).interval >= s.interval
          /\ OnFailure(s).successes = s.successes /\ OnFailure(s).interval <= s.interval
      BY <2>1, SuccessSteers, FailureSteers DEF OnSuccess, OnFailure, SchedulerType
    <3> HIDE DEF s
    <3>2. sched'[p] \in {s, OnSuccess(s), OnFailure(s)}
      BY <2>5, <2>6
    <3>3. /\ sched'[p].failures > s.failures => sched'[p].interval <= s.interval
          /\ sched'[p].successes > s.successes => sched'[p].interval >= s.interval
      BY <2>2, <3>1, <3>2
    <3> QED BY <3>3 DEF s
  <2>7. \/ \E table : SetRoles(table)
        \/ \E q \in PathIds : Probed(q)
    BY DEF Next, Register, Remove, PromoteOnHotFailure, Regrade
  <2> QED BY <2>4, <2>6, <2>7
<1> QED BY <1>1, PathsInvariance, PTL DEF Spec, OutcomesSteer
=============================================================================
