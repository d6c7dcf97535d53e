------------------------- MODULE KeepaliveScheduler -------------------------
(***************************************************************************)
(* KeepaliveScheduler, dpmp/link/path.py: how long a path may stay silent  *)
(* before it is probed.  The interval grows while probes succeed, is       *)
(* bisected between the last success and the last failure, and falls back  *)
(* to the protocol's floor.  A scheduler is a record; on_success() and     *)
(* on_failure() are functions from a scheduler to the next one.            *)
(***************************************************************************)
EXTENDS Integers

CONSTANTS Protos, Roles,
          WarmSafe,      \* the role held to its protocol's safe cap
          Floor,         \* proto_floor
          SafeCap,       \* proto_safe_cap
          DoubleFactor,  \* 2 * role_factor: the growth of one success
          MaxInterval    \* the 3600 s of _clamp

\* The defaults of dpmp/config.py have all of this; a caller's override of
\* proto_floor or proto_safe_cap has to keep it, for current_interval starts
\* at twice the floor without being clamped.
ASSUME LimitsAssumption ==
  /\ WarmSafe \in Roles
  /\ Floor \in [Protos -> Nat \ {0}]
  /\ SafeCap \in [Protos -> Nat]
  /\ DoubleFactor \in [Roles -> Nat \ {0}]
  /\ MaxInterval \in Nat
  /\ \A p \in Protos : 2 * Floor[p] <= SafeCap[p] /\ 2 * Floor[p] <= MaxInterval

None == -1  \* upper_bound and lower_bound before the first outcome

Cap(role, proto) == IF role = WarmSafe THEN SafeCap[proto] ELSE MaxInterval

Bounds(role, proto) == Floor[proto] .. Cap(role, proto)

Clamp(role, proto, v) ==
  LET raised == IF v < Floor[proto] THEN Floor[proto] ELSE v
  IN  IF raised > Cap(role, proto) THEN Cap(role, proto) ELSE raised

NewScheduler(role, proto) ==
  [role |-> role, proto |-> proto, interval |-> 2 * Floor[proto],
   upper |-> None, lower |-> None, successes |-> 0, failures |-> 0, stable |-> FALSE]

\* fail_count / (total + 1) > 0.05, the success just seen included in total.
TooLossy(s) == LET total == s.successes + 1 + s.failures
               IN  total >= 5 /\ 20 * s.failures > total + 1

\* The bisection point, once there is a failure to stay below.
Below(s, v) == LET mid == (s.interval + s.lower) \div 2
               IN  IF s.lower # None /\ mid < v THEN mid ELSE v

OnSuccess(s) ==
  LET seen == [s EXCEPT !.successes = @ + 1, !.upper = s.interval]
  IN  IF s.stable THEN seen
      ELSE IF TooLossy(s) THEN [seen EXCEPT !.stable = TRUE]
      ELSE [seen EXCEPT !.stable = (s.lower # None),
                        !.interval = Clamp(s.role, s.proto,
                                           Below(s, s.interval * DoubleFactor[s.role]))]

\* Mutant: the retreat after three failures is to the interval of the start.
OnFailureToStart(s) ==
  LET next == IF s.upper # None THEN (s.upper + s.interval) \div 2 ELSE Floor[s.proto]
  IN  [s EXCEPT !.failures = @ + 1, !.lower = s.interval, !.stable = FALSE,
                !.interval = IF s.failures + 1 >= 3 THEN 2 * Floor[s.proto]
                             ELSE Clamp(s.role, s.proto, next)]

OnFailure(s) ==
  LET next == IF s.upper # None THEN (s.upper + s.interval) \div 2 ELSE Floor[s.proto]
  IN  [s EXCEPT !.failures = @ + 1, !.lower = s.interval, !.stable = FALSE,
                !.interval = IF s.failures + 1 >= 3 THEN Floor[s.proto]
                             ELSE Clamp(s.role, s.proto, next)]
=============================================================================
