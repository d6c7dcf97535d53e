----------------------------- MODULE PeerPaths -----------------------------
(***************************************************************************)
(* PeerPathScheduler, dpmp/link/path.py, together with the scheduler each  *)
(* of its paths carries: registration, removal, promotion after a failure  *)
(* of the hot path, and the outcome of keepalive probes, in any order.     *)
(* Every method runs under the peer's lock; probes do not.                 *)
(***************************************************************************)
EXTENDS PathTable, KeepaliveScheduler, Functions

CONSTANTS Proto,       \* the protocol of each path id
          MaxOutcomes  \* bound: probe outcomes the peer's schedulers have seen together

ASSUME PeerPathsAssumption == /\ Roles = {Hot, Safe, Loose}
                              /\ WarmSafe = Safe
                              /\ Proto \in [PathIds -> Protos]
                              /\ MaxOutcomes \in Nat

VARIABLES roles,  \* {path_id: Path.role}
          sched   \* {path_id: Path.scheduler}

vars == <<roles, sched>>

Init == roles = NoPaths /\ sched = [p \in {} |-> NewScheduler(Loose, Proto[p])]

\* Mutant: the scheduler survives the change of role.
SetRolesOnly(table) ==
  /\ roles' = table
  /\ sched' = [p \in DOMAIN table |->
       IF p \in DOMAIN sched THEN sched[p] ELSE NewScheduler(table[p], Proto[p])]

\* set_role() where the role is new and not dead: promote_on_hot_failure
\* marks the dead path without a new scheduler.  A path that was dead is
\* replaced by a new Path when it is registered.
SetRoles(table) ==
  /\ roles' = table
  /\ sched' = [p \in DOMAIN table |->
       IF p \in DOMAIN roles /\ (table[p] = roles[p] \/ table[p] = Dead)
       THEN sched[p]
       ELSE NewScheduler(table[p], Proto[p])]

Register(p) == SetRoles(Registered(roles, p))

Remove(p) == p \in DOMAIN roles /\ SetRoles(Removed(roles, p))

PromoteOnHotFailure == \E table \in Promotions(roles) : SetRoles(table)

\* regrade(), the public one
Regrade == SetRoles(Regraded(roles))

Outcomes == SumFunction([p \in DOMAIN sched |-> sched[p].successes + sched[p].failures])

\* The keepalive loop has probed p, an alive path of its snapshot, and tells
\* the scheduler what came of it.
Probed(p) ==
  /\ p \in DOMAIN sched
  /\ Outcomes < MaxOutcomes
  /\ sched' \in {[sched EXCEPT ![p] = OnSuccess(@)],
                 [sched EXCEPT ![p] = OnFailure(@)]}
  /\ UNCHANGED roles

Next == \/ \E p \in PathIds : Register(p) \/ Remove(p) \/ Probed(p)
        \/ PromoteOnHotFailure \/ Regrade

Spec == Init /\ [][Next]_vars

-----------------------------------------------------------------------------
\* The type of the state.
TypeOK == /\ roles \in Tables
          /\ DOMAIN sched = DOMAIN roles
          /\ \A p \in DOMAIN sched : sched[p].role \in Roles /\ sched[p].proto = Proto[p]

\* One path carries the data and one stands by under the safe cap, whatever
\* was registered, lost and promoted before (path.py:6-9).
OneOfEach == \A p, q \in DOMAIN roles :
               roles[p] = roles[q] /\ roles[p] \in {Hot, Safe} => p = q

\* A path alive is kept alive by the rules of the role it has now: however
\* roles and probe outcomes interleave, the interval of a warm_safe path is
\* under its safe cap, and no path's is under its floor (DPMP_PROTOCOL.md:129-
\* 130).  It is the scheduler's interval that is limited; _keepalive_loop then
\* multiplies it by the peer's idle factor (manager.py:894).
ProbedByRole == \A p \in Alive(roles) :
                  /\ sched[p].role = roles[p]
                  /\ Floor[Proto[p]] <= sched[p].interval
                  /\ sched[p].interval <= Cap(roles[p], Proto[p])

\* Outcomes steer the right way: after a failed probe a path is probed no less
\* often, after a successful one no more often, wherever the bisection stands,
\* at the limits and after the retreat to the floor (path.py:48-75).
SteeredByOutcomes == \A p \in DOMAIN sched \cap DOMAIN sched' :
  /\ sched'[p].failures > sched[p].failures => sched'[p].interval <= sched[p].interval
  /\ sched'[p].successes > sched[p].successes => sched'[p].interval >= sched[p].interval
OutcomesSteer == [][SteeredByOutcomes]_vars
=============================================================================
