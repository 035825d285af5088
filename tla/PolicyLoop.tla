----------------------------- MODULE PolicyLoop -----------------------------
(***************************************************************************)
(* What the checker's obligations are for: a policy that gr1_check.c       *)
(* accepts by its certificate, in the closed loop with its game.  Whatever *)
(* the other side plays, the game stays in the certificate's region, its   *)
(* ranks descend, and the policy wins.                                     *)
(***************************************************************************)
EXTENDS Gr1Game

CONSTANT Candidates   \* policies with their certificates, of either side

\* What the checker has established of the artifacts when it compiles them.
ASSUME CandidatesFit ==
  \A a \in Candidates :
    /\ a.game \in Games /\ NumGoals(a.game) > 0 /\ a.environment \in BOOLEAN
    /\ IF a.environment
         THEN /\ EnvironmentPolicyFits(a.game, a.policy)
              /\ EnvironmentCertFits(a.game, a.cert) /\ EnvironmentRanked(a.cert)
         ELSE /\ SystemPolicyFits(a.game, a.policy)
              /\ SystemCertFits(a.game, a.cert) /\ SystemRanked(a.game, a.cert)

VARIABLES task,       \* the policy that is played
          plant,      \* the state of the game
          counter,    \* the policy's counter
          bad         \* a bad round was played

vars == <<task, plant, counter, bad>>

G == task.game
Cert == task.cert
NumCounters == IF task.environment THEN NumFairs(G) ELSE NumGoals(G)

\* The certificate method, VERIFIED.
Accepted(a) ==
  /\ a.cert.goals = a.game.goals /\ a.game.reset \in a.cert.inv
  /\ IF a.environment
       THEN /\ a.cert.fairs = a.game.fairs /\ EnvironmentShape(a.game, a.cert)
            /\ \A mode \in Modes(NumFairs(a.game)) :
                 EnvironmentMode(a.game, a.policy, a.cert, mode)
       ELSE /\ SystemShape(a.game, a.cert) /\ Covered(a.game, a.cert)
            /\ \A mode \in Modes(NumGoals(a.game)) :
                 SystemMode(a.game, a.policy, a.cert, mode)

Init ==
  /\ task \in Candidates /\ Accepted(task)
  /\ plant = G.reset /\ counter = {} /\ bad = FALSE

Play(u, c) ==
  /\ plant' = G.succ[<<plant, u, c>>]
  /\ bad' = (bad \/ <<plant, u, c>> \in G.bad)
  /\ UNCHANGED task

\* The environment plays u, the system's policy answers.
SystemRound(u) ==
  /\ ~task.environment
  /\ Play(u, task.policy.out[<<plant, counter, u>>])
  /\ counter' = task.policy.count[<<plant, counter, u>>]

\* The environment's policy moves, the controller answers c.  A bad round ends
\* the play: the environment has won.
EnvironmentRound(c) ==
  /\ task.environment /\ ~bad
  /\ Play(task.policy.out[<<plant, counter>>], c)
  /\ counter' = task.policy.count[<<plant, counter>>]

Round == \/ \E u \in UMove : SystemRound(u)
         \/ \E c \in CMove : EnvironmentRound(c)

Spec == Init /\ [][Round]_vars

\* A play goes on for ever.
FairSpec == Spec /\ WF_vars(Round)

-----------------------------------------------------------------------------
TypeOK ==
  /\ task \in Candidates /\ plant \in State
  /\ counter \in SUBSET (1..NumCounters) /\ bad \in BOOLEAN

\* The system's policy never plays a bad round, and neither side's leaves its
\* region (the environment's until it has won) or a one-hot counter: the
\* one-step obligations, checked mode by mode, cover every reachable state.
RegionKept ==
  ~task.environment \/ ~bad =>
    ~bad /\ plant \in Cert.inv /\ counter \in Modes(NumCounters)

\* One round of the system's policy while its goal j is missed.
SystemDescends ==
  LET j == Current(counter)
      Layer(k, i) == RankLayer(G, Cert, j, k, i)
      Ranks == (1..Len(Cert.y[j])) \X (1..NumFairs(G))
  IN  plant \notin G.goals[j] =>
        /\ Current(counter') = j
        /\ \/ plant' \in G.goals[j]
           \/ \E r, q \in Ranks :
                /\ plant \in Layer(r[1], r[2]) /\ plant' \in Layer(q[1], q[2])
                /\ \/ q[1] < r[1]
                   \/ q[1] = r[1] /\ q[2] <= r[2] /\ plant' \notin Fair(G, r[2])

\* Every round of the system's policy: until the goal is reached the counter
\* waits for it, and the rank of the game's state, level first and assumption
\* second, never rises; the level falls unless the assumption is false.
RankDescends == [][~task.environment => SystemDescends]_vars

\* k is the first outer level, and j the first goal in it, that hold s.
Denied(cert, s, k, j) ==
  /\ s \in cert.levels[k].z \ Before(cert, k)
  /\ s \in cert.levels[k].y[j]
  /\ \A b \in 1..(j - 1) : s \notin cert.levels[k].y[b]

\* One round of the environment's policy that is not bad.
EnvironmentDescends ==
  LET K == 1..Len(Cert.levels)
      J == 1..NumGoals(G)
      p == Current(counter')
  IN  \E k, m \in K, j, b \in J :
        /\ Denied(Cert, plant, k, j) /\ Denied(Cert, plant', m, b)
        /\ \/ m < k
           \/ m = k /\ b <= j /\ plant' \notin G.goals[j]
        /\ \/ plant' \in Fair(G, p)
           \/ \E l \in 1..Len(Cert.levels[k].x[<<j, p>>]) :
                /\ plant \in DualLayer(G, Cert, k, j, l, p)
                /\ l > 1 /\ plant' \in Cert.levels[k].x[<<j, p>>][l - 1]

\* The rounds of the environment's policy: the outer level never rises; while
\* it stays, neither does the goal denied, and that goal is missed; and the
\* awaited assumption is met or comes closer.
DualRankDescends ==
  [][task.environment => bad' \/ EnvironmentDescends]_vars

\* Either side's accepted policy goes down the ranks of its certificate.
RanksDescend == RankDescends /\ DualRankDescends

MaxOf(S) == CHOOSE n \in S : \A k \in S : k <= n
SomeGoal == 1..MaxOf({NumGoals(g) : g \in Games})
SomeFair == 1..MaxOf({NumFairs(g) : g \in Games})

HoldsFair(k) == k <= NumFairs(G) => plant \in Fair(G, k)
HoldsGoal(k) == k <= NumGoals(G) => plant \in G.goals[k]

AllFair == \A k \in SomeFair : []<>HoldsFair(k)

\* An accepted policy of the system wins: when every assumption recurs, every
\* goal does.
SystemWins ==
  []~task.environment /\ AllFair => \A k \in SomeGoal : []<>HoldsGoal(k)

\* An accepted policy of the environment wins: a round is bad, or every
\* assumption recurs and some goal is missed from some point on.
EnvironmentWins ==
  []task.environment =>
    <>bad \/ (AllFair /\ \E k \in SomeGoal : <>[](~HoldsGoal(k)))

\* An accepted policy wins, whichever side's it is.
AcceptedWins == SystemWins /\ EnvironmentWins
=============================================================================
