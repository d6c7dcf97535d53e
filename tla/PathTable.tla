----------------------------- MODULE PathTable -----------------------------
(***************************************************************************)
(* PeerPathScheduler.paths, dpmp/link/path.py: the roles of the paths to   *)
(* one peer.  A table is a function from the registered path ids to roles; *)
(* the operators give the table each method leaves behind.                 *)
(***************************************************************************)
EXTENDS Integers

CONSTANTS PathIds, NoPath,
          Rank  \* the order of _regrade_locked: (proto_priority, rtt), and the
                \* order of registration between equals

ASSUME RankAssumption == /\ NoPath \notin PathIds
                         /\ Rank \in [PathIds -> Nat]
                         /\ \A p, q \in PathIds : Rank[p] = Rank[q] => p = q

Hot == "hot"
Safe == "warm_safe"
Loose == "warm_loose"
Dead == "dead"
PathRoles == {Hot, Safe, Loose, Dead}

Tables == UNION {[S -> PathRoles] : S \in SUBSET PathIds}
NoPaths == [p \in {} |-> Dead]

Alive(t) == {p \in DOMAIN t : t[p] # Dead}
With(t, p, r) == [q \in DOMAIN t \cup {p} |-> IF q = p THEN r ELSE t[q]]

Ahead(t, p) == {q \in Alive(t) : Rank[q] < Rank[p]}

\* _regrade_locked: the paths alive, in order of rank, are hot, warm_safe and
\* from the third on warm_loose.
Regraded(t) == [p \in DOMAIN t |->
  IF t[p] = Dead THEN Dead
  ELSE IF Ahead(t, p) = {} THEN Hot
  ELSE IF \A q, r \in Ahead(t, p) : q = r THEN Safe
  ELSE Loose]

\* Mutant: the new path is put on top without a regrade.
RegisteredUngraded(t, p) == IF p \in Alive(t) THEN t ELSE With(t, p, Hot)

\* register(): a path that is alive is kept as it is.
Registered(t, p) == IF p \in Alive(t) THEN t ELSE Regraded(With(t, p, Loose))

\* remove(): no regrade.
Removed(t, p) == [q \in DOMAIN t \ {p} |-> t[q]]

\* One of the paths with this role, where there is one.
OneOf(t, role) == IF \E p \in DOMAIN t : t[p] = role
                  THEN {p \in DOMAIN t : t[p] = role} ELSE {NoPath}

\* Mutant: nobody inherits the role of the hot path.
PromotionsNoHeir(t) ==
  {[p \in DOMAIN t |-> IF p = hot THEN Dead ELSE t[p]] : hot \in OneOf(t, Hot)}

(* promote_on_hot_failure(): a hot path dies, a warm_safe one becomes hot, *)
(* and one of the warm_loose paths (the dict's last) becomes warm_safe.    *)
Promotions(t) ==
  {[p \in DOMAIN t |-> IF p = hot THEN Dead
                       ELSE IF p = safe THEN Hot
                       ELSE IF p = loose THEN Safe ELSE t[p]] :
     hot \in OneOf(t, Hot), safe \in OneOf(t, Safe), loose \in OneOf(t, Loose)}
=============================================================================
