------------------------------ MODULE Gr1Game -------------------------------
(***************************************************************************)
(* The GR(1) games of gr1_oxidd.h: a game graph over the latch valuations, *)
(* moves of the environment and of the controller in each round, a bad     *)
(* predicate, system goals (justice) and environment assumptions           *)
(* (fairness).  Goals and assumptions are state predicates: the solver     *)
(* first latches the ones that read inputs.  The controller wins a play    *)
(* when no round is bad and, if every assumption recurs, every goal does.  *)
(*                                                                         *)
(* The valuation of b inputs is the number below 2^b whose highest bit is  *)
(* the first input; Skolemising the inputs one by one, choosing 1 wherever *)
(* some completion exists, then picks the greatest move of a relation.     *)
(***************************************************************************)
EXTENDS Naturals, Sequences, FiniteSets

CONSTANTS State,   \* valuations of the latches
          NumU,    \* uncontrollable inputs
          NumC,    \* controllable inputs
          Games

UMove == 0..(2^NumU - 1)
CMove == 0..(2^NumC - 1)
Val   == State \X UMove \X CMove   \* rounds <<s, u, c>>

\* resetKnown: no latch is uninitialised.
GameRecords ==
  [succ : [Val -> State], bad : SUBSET Val, goals : Seq(SUBSET State),
   fairs : Seq(SUBSET State), reset : State, resetKnown : BOOLEAN]

ASSUME Gr1Constants ==
  NumU \in Nat /\ NumC \in Nat /\ Games \subseteq GameRecords

NumGoals(g) == Len(g.goals)

\* Without assumptions the solver runs its loops once, for an assumption that
\* always holds.
NumFairs(g) == IF Len(g.fairs) = 0 THEN 1 ELSE Len(g.fairs)
Fair(g, i) == IF Len(g.fairs) = 0 THEN State ELSE g.fairs[i]

\* cpre_unquantified: the rounds that are not bad and end in T.
SafeInto(g, T) == {v \in Val : v \notin g.bad /\ g.succ[v] \in T}

\* cpre_full: forall u exists c.
CPre(g, T) ==
  {s \in State : \A u \in UMove : \E c \in CMove : <<s, u, c>> \in SafeInto(g, T)}

\* dpre_unquantified: the rounds that are bad or end in T.
BadOrInto(g, T) == {v \in Val : v \in g.bad \/ g.succ[v] \in T}

\* dpre_full: exists u forall c.
DPre(g, T) ==
  {s \in State : \E u \in UMove : \A c \in CMove : <<s, u, c>> \in BadOrInto(g, T)}

\* The next goal or assumption of n, back to the first after the last.
Cyclic(k, n) == IF k < n THEN k + 1 ELSE 1

\* What Skolemisation picks from a set of moves; 0 where there is none.
Greatest(moves) ==
  IF moves = {} THEN 0
  ELSE CHOOSE c \in moves : \A d \in moves : d <= c

-----------------------------------------------------------------------------
(***************************************************************************)
(* The one-step obligations of gr1_check.c.  A policy of the system or of  *)
(* the environment comes with a certificate of ranks; the checker accepts  *)
(* it when the ranks are well shaped, belong to this game and every round  *)
(* from the invariant, in every mode of the policy's counter, stays inside *)
(* and makes progress.  The region method asks only that progress be       *)
(* possible, of a certificate that comes without a policy.                 *)
(*                                                                         *)
(* A policy is combinational: out and count read the state of the game and *)
(* the counter, a set of one-hot bits; the system's also reads u.          *)
(***************************************************************************)
\* The counter's modes: all zero after the reset, then one-hot.
Modes(n) == {{}} \cup {{k} : k \in 1..n}

Current(mode) == IF mode = {} THEN 1 ELSE CHOOSE k \in mode : TRUE

\* The counter the format prescribes: on to the next when the current is met.
Prescribed(mode, n, met) ==
  {IF met THEN Cyclic(Current(mode), n) ELSE Current(mode)}

-----------------------------------------------------------------------------
\* The artifacts fit the game: what the checker has established of their names,
\* arities and numbers of levels when it starts to compile them.
SystemPolicyFits(g, policy) ==
  LET D == State \X (SUBSET (1..NumGoals(g))) \X UMove
  IN  policy.out \in [D -> CMove] /\ policy.count \in [D -> SUBSET (1..NumGoals(g))]

EnvironmentPolicyFits(g, policy) ==
  LET D == State \X (SUBSET (1..NumFairs(g)))
  IN  policy.out \in [D -> UMove] /\ policy.count \in [D -> SUBSET (1..NumFairs(g))]

SystemCertFits(g, cert) ==
  /\ cert.inv \subseteq State
  /\ cert.y \in [1..NumGoals(g) -> Seq(SUBSET State)]
  /\ cert.x \in [(1..NumGoals(g)) \X (1..NumFairs(g)) -> Seq(SUBSET State)]
  /\ \A j \in 1..NumGoals(g), i \in 1..NumFairs(g) :
       Len(cert.x[<<j, i>>]) = Len(cert.y[j])

EnvironmentCertFits(g, cert) ==
  LET Level == [z : SUBSET State, y : [1..NumGoals(g) -> SUBSET State],
                x : [(1..NumGoals(g)) \X (1..NumFairs(g)) -> Seq(SUBSET State)]]
  IN  cert.inv \subseteq State /\ cert.levels \in Seq(Level)

\* Every rank has a level.
SystemRanked(g, cert) == \A j \in 1..NumGoals(g) : Len(cert.y[j]) > 0

EnvironmentRanked(cert) ==
  /\ Len(cert.levels) > 0
  /\ \A k \in 1..Len(cert.levels) : \A ji \in DOMAIN cert.levels[k].x :
       Len(cert.levels[k].x[ji]) > 0

-----------------------------------------------------------------------------
\* The system's certificate: inv, goals, x[<<j, i>>][k] and y[j][k]; stateOnly
\* says that none of its outputs depends on an input of the game.

\* validate_certificate_predicates
SystemShape(g, cert) ==
  /\ cert.stateOnly
  /\ \A j \in 1..NumGoals(g) : \A k \in 1..Len(cert.y[j]) :
       /\ cert.y[j][k] = UNION {cert.x[<<j, i>>][k] : i \in 1..NumFairs(g)}
       /\ k > 1 => cert.y[j][k - 1] \subseteq cert.y[j][k]

\* Every state of the invariant has a rank for every goal.
Covered(g, cert) ==
  \A j \in 1..NumGoals(g), s \in cert.inv :
    \E i \in 1..NumFairs(g), k \in 1..Len(cert.y[j]) : s \in cert.x[<<j, i>>][k]

\* The states of the invariant whose least rank for goal j is level k with
\* assumption i: not at the goal, in this X and in none before it.
RankLayer(g, cert, j, k, i) ==
  {s \in cert.inv :
     /\ s \notin g.goals[j]
     /\ s \in cert.x[<<j, i>>][k]
     /\ \A b \in 1..NumFairs(g), m \in 1..k :
          (m < k \/ b < i) => s \notin cert.x[<<j, b>>][m]}

\* The level need not fall.
SameLevel(g, cert, j, k, i) ==
  (cert.x[<<j, i>>][k] \ Fair(g, i)) \cup (g.goals[j] \cap cert.inv) \cup cert.y[j][k]

\* Where a round from there may lead: to the goal, to a smaller level, or inside
\* X while assumption i is false (never, in a game without assumptions).
Progress(g, cert, j, k, i) ==
  (cert.x[<<j, i>>][k] \ Fair(g, i))
  \cup (g.goals[j] \cap cert.inv)
  \cup (IF k = 1 THEN {} ELSE cert.y[j][k - 1])

\* The round is safe, wherever it leads.
SafeRoundOnly(g, policy, cert, mode, s, u) ==
  LET j == Current(mode)
      v == <<s, u, policy.out[<<s, mode, u>>]>>
  IN  /\ v \in SafeInto(g, State)
      /\ policy.count[<<s, mode, u>>] = Prescribed(mode, NumGoals(g), s \in g.goals[j])
      /\ \A k \in 1..Len(cert.y[j]), i \in 1..NumFairs(g) :
           s \in RankLayer(g, cert, j, k, i) => g.succ[v] \in Progress(g, cert, j, k, i)

\* The obligations on one round of the policy from a state of the invariant.
RoundOK(g, policy, cert, mode, s, u) ==
  LET j == Current(mode)
      v == <<s, u, policy.out[<<s, mode, u>>]>>
  IN  /\ v \in SafeInto(g, cert.inv)
      /\ policy.count[<<s, mode, u>>] = Prescribed(mode, NumGoals(g), s \in g.goals[j])
      /\ \A k \in 1..Len(cert.y[j]), i \in 1..NumFairs(g) :
           s \in RankLayer(g, cert, j, k, i) => g.succ[v] \in Progress(g, cert, j, k, i)

SystemMode(g, policy, cert, mode) ==
  \A s \in cert.inv, u \in UMove : RoundOK(g, policy, cert, mode, s, u)

\* check_region_totality_mode: in every layer and for every u some c will do.
RegionMode(g, cert, mode) ==
  LET j == Current(mode)
      Total(layer, good) ==
        \A s \in layer, u \in UMove : \E c \in CMove :
          <<s, u, c>> \in SafeInto(g, good)
  IN  /\ Total(cert.inv \cap g.goals[j], cert.inv)
      /\ \A k \in 1..Len(cert.y[j]), i \in 1..NumFairs(g) :
           Total(RankLayer(g, cert, j, k, i), cert.inv \cap Progress(g, cert, j, k, i))

-----------------------------------------------------------------------------
\* The environment's certificate: inv, goals, fairs, and per outer level z, y[j]
\* and the inner ranks x[<<j, i>>][l].

LastOf(seq) == seq[Len(seq)]

\* The outer levels before k.
Before(cert, k) == IF k = 1 THEN {} ELSE cert.levels[k - 1].z

\* validate_environment_certificate_predicates
EnvironmentShape(g, cert) ==
  /\ cert.stateOnly
  /\ \A k \in 1..Len(cert.levels) :
       LET level == cert.levels[k] IN
         /\ \A j \in 1..NumGoals(g), i \in 1..NumFairs(g) :
              \A l \in 2..Len(level.x[<<j, i>>]) :
                level.x[<<j, i>>][l - 1] \subseteq level.x[<<j, i>>][l]
         /\ \A j \in 1..NumGoals(g) :
              level.y[j] = {s \in State : \A i \in 1..NumFairs(g) :
                                            s \in LastOf(level.x[<<j, i>>])}
         /\ level.z = UNION {level.y[j] : j \in 1..NumGoals(g)}
         /\ Before(cert, k) \subseteq level.z
  /\ cert.inv = LastOf(cert.levels).z

\* The states whose first outer level is k, first goal in it j and first inner
\* rank l for the assumption waited for.
DualLayer(g, cert, k, j, l, phase) ==
  {s \in cert.levels[k].z \ Before(cert, k) :
     /\ s \in cert.levels[k].y[j]
     /\ \A b \in 1..(j - 1) : s \notin cert.levels[k].y[b]
     /\ s \in cert.levels[k].x[<<j, phase>>][l]
     /\ \A m \in 1..(l - 1) : s \notin cert.levels[k].x[<<j, phase>>][m]}

\* The denied goal is forgotten.
GoalAllowed(g, cert, k, j, l, phase) ==
  cert.levels[k].y[j]
  \cap (Fair(g, phase) \cup (IF l = 1 THEN {}
                               ELSE cert.levels[k].x[<<j, phase>>][l - 1]))

\* Where the round may lead: to a smaller outer level or missing goal j, inside
\* Y, and to the awaited assumption or closer to it.
DualProgress(g, cert, k, j, l, phase) ==
  (Before(cert, k) \cup (State \ g.goals[j]))
  \cap cert.levels[k].y[j]
  \cap (Fair(g, phase) \cup (IF l = 1 THEN {}
                               ELSE cert.levels[k].x[<<j, phase>>][l - 1]))

\* A state where the current assumption holds waits for the next one already.
EnvironmentMode(g, policy, cert, mode) ==
  \A s \in cert.inv :
    LET n == NumFairs(g)
        met == s \in Fair(g, Current(mode))
        phase == IF met THEN Cyclic(Current(mode), n) ELSE Current(mode)
    IN  /\ policy.count[<<s, mode>>] = Prescribed(mode, n, met)
        /\ \A k \in 1..Len(cert.levels), j \in 1..NumGoals(g) :
             \A l \in 1..Len(cert.levels[k].x[<<j, phase>>]) :
               s \in DualLayer(g, cert, k, j, l, phase) =>
                 \A c \in CMove :
                   <<s, policy.out[<<s, mode>>], c>> \in
                     BadOrInto(g, DualProgress(g, cert, k, j, l, phase))
=============================================================================
