-------------------------- MODULE PolicyLoopProofs --------------------------
(***************************************************************************)
(* For all games, policies and certificates: a policy that passes the      *)
(* checker's one-step obligations stays in its region and its ranks        *)
(* descend, whatever the other side plays and however long.                *)
(***************************************************************************)
EXTENDS PolicyLoop, WellFoundedInduction, TLAPS

\* Every non-empty set of naturals has a least element.
LEMMA LeastNatural ==
  ASSUME NEW T \in SUBSET Nat, T # {}
  PROVE  \E x \in T : \A y \in T : x <= y
<1> DEFINE R == {ss \in Nat \X Nat : ss[1] < ss[2]}
<1>1. IsWellFoundedOn(R, Nat)
  BY NatLessThanWellFounded, Zenon DEF OpToRel
<1>2. \A x, y \in Nat : ~(<<y, x>> \in R) => x <= y
  OBVIOUS
<1> HIDE DEF R
<1>3. \E x \in T : \A y \in T : ~(<<y, x>> \in R)
  BY <1>1, WFMin, Zenon
<1> QED
  BY <1>2, <1>3, Zenon

\* The counter's modes: the current index is one of them, and the prescribed
\* next mode is one-hot, the same index while it is not met.
LEMMA ModeFacts ==
  ASSUME NEW n \in Nat, n > 0, NEW mode \in Modes(n), NEW met \in BOOLEAN
  PROVE  /\ mode \in SUBSET (1..n)
         /\ Current(mode) \in 1..n
         /\ Prescribed(mode, n, met) \in Modes(n)
         /\ Current(Prescribed(mode, n, met)) =
              IF met THEN Cyclic(Current(mode), n) ELSE Current(mode)
<1>1. \A k : Current({k}) = k
  BY DEF Current
<1>2. mode \in SUBSET (1..n) /\ Current(mode) \in 1..n
  <2>1. CASE mode = {}
    BY <2>1 DEF Current
  <2>2. CASE mode # {}
    <3>1. PICK k \in 1..n : mode = {k}
      BY <2>2 DEF Modes
    <3> QED
      BY <3>1, <1>1
  <2> QED
    BY <2>1, <2>2
<1>3. Cyclic(Current(mode), n) \in 1..n
  BY <1>2 DEF Cyclic
<1> DEFINE next == IF met THEN Cyclic(Current(mode), n) ELSE Current(mode)
<1>4. next \in 1..n
  BY <1>2, <1>3
<1>5. Prescribed(mode, n, met) = {next}
  BY DEF Prescribed
<1> HIDE DEF next
<1>6. Prescribed(mode, n, met) \in Modes(n) /\ Current(Prescribed(mode, n, met)) = next
  BY <1>1, <1>4, <1>5 DEF Modes
<1> QED
  BY <1>2, <1>6 DEF next

\* What the game record of a candidate is.
LEMMA GameFacts ==
  ASSUME NEW g \in Games
  PROVE  /\ g.succ \in [Val -> State] /\ g.reset \in State
         /\ NumGoals(g) \in Nat /\ NumFairs(g) \in Nat /\ NumFairs(g) > 0
<1>1. g \in GameRecords
  BY Gr1Constants
<1>2. g.goals \in Seq(SUBSET State) /\ g.fairs \in Seq(SUBSET State)
  BY <1>1 DEF GameRecords
<1>3. Len(g.goals) \in Nat /\ Len(g.fairs) \in Nat
  BY <1>2
<1> QED
  BY <1>1, <1>3 DEF GameRecords, NumGoals, NumFairs

IInv == TypeOK /\ Accepted(task) /\ RegionKept

-----------------------------------------------------------------------------
\* One round of an accepted policy of the system, from the invariant.
LEMMA SystemRoundFacts ==
  ASSUME IInv, NEW u \in UMove, SystemRound(u)
  PROVE  /\ ~bad /\ plant \in Cert.inv /\ counter \in Modes(NumGoals(G))
         /\ task' = task /\ bad' = FALSE
         /\ plant' \in State /\ plant' \in Cert.inv
         /\ counter' = Prescribed(counter, NumGoals(G), plant \in G.goals[Current(counter)])
         /\ \A k \in 1..Len(Cert.y[Current(counter)]), i \in 1..NumFairs(G) :
              plant \in RankLayer(G, Cert, Current(counter), k, i) =>
                plant' \in Progress(G, Cert, Current(counter), k, i)
<1>1. task \in Candidates /\ ~task.environment /\ Accepted(task) /\ plant \in State
  BY DEF IInv, TypeOK, SystemRound
<1>2. ~bad /\ plant \in Cert.inv /\ counter \in Modes(NumGoals(G))
  BY <1>1 DEF IInv, RegionKept, NumCounters
<1>3. SystemMode(G, task.policy, Cert, counter)
  BY <1>1, <1>2 DEF Accepted, G, Cert
<1>4. RoundOK(G, task.policy, Cert, counter, plant, u)
  BY <1>2, <1>3 DEF SystemMode
<1> DEFINE v == <<plant, u, task.policy.out[<<plant, counter, u>>]>>
<1>5. /\ v \in SafeInto(G, Cert.inv)
      /\ task.policy.count[<<plant, counter, u>>] =
           Prescribed(counter, NumGoals(G), plant \in G.goals[Current(counter)])
      /\ \A k \in 1..Len(Cert.y[Current(counter)]), i \in 1..NumFairs(G) :
           plant \in RankLayer(G, Cert, Current(counter), k, i) =>
             G.succ[v] \in Progress(G, Cert, Current(counter), k, i)
  BY <1>4 DEF RoundOK
<1>6. /\ plant' = G.succ[v] /\ bad' = (bad \/ v \in G.bad) /\ task' = task
      /\ counter' = task.policy.count[<<plant, counter, u>>]
  BY DEF SystemRound, Play
<1> HIDE DEF v
<1>7. v \in Val /\ v \notin G.bad /\ G.succ[v] \in Cert.inv
  BY <1>5 DEF SafeInto
<1>8. bad' = FALSE
  BY <1>2, <1>6, <1>7
<1>9. plant' \in State
  BY <1>1, <1>6, <1>7, GameFacts, CandidatesFit DEF G
<1> QED
  BY <1>2, <1>5, <1>6, <1>7, <1>8, <1>9

\* A state of the region that is not at the goal and lies in some X has a rank;
\* it is no greater than the level and assumption of any X that holds it.
LEMMA RankExists ==
  ASSUME NEW g \in Games, NEW cert, NEW j \in 1..NumGoals(g), NEW s \in cert.inv,
         s \notin g.goals[j], Len(cert.y[j]) \in Nat,
         NEW k \in 1..Len(cert.y[j]), NEW i \in 1..NumFairs(g),
         s \in cert.x[<<j, i>>][k]
  PROVE  \E m \in 1..Len(cert.y[j]), b \in 1..NumFairs(g) :
           /\ s \in RankLayer(g, cert, j, m, b)
           /\ m < k \/ (m = k /\ b <= i)
<1>0. NumFairs(g) \in Nat
  BY GameFacts
<1> DEFINE KS == {m \in 1..Len(cert.y[j]) :
                    \E b \in 1..NumFairs(g) : s \in cert.x[<<j, b>>][m]}
<1>1. KS \in SUBSET Nat /\ k \in KS
  OBVIOUS
<1>2. PICK m \in KS : \A y \in KS : m <= y
  <2> HIDE DEF KS
  <2> QED
    BY <1>1, LeastNatural
<1> DEFINE IS == {b \in 1..NumFairs(g) : s \in cert.x[<<j, b>>][m]}
<1>3. IS \in SUBSET Nat /\ IS # {}
  BY <1>0, <1>2
<1>4. PICK b \in IS : \A y \in IS : b <= y
  <2> HIDE DEF IS
  <2> QED
    BY <1>3, LeastNatural
<1>5. s \in RankLayer(g, cert, j, m, b)
  <2>1. ASSUME NEW c \in 1..NumFairs(g), NEW l \in 1..m, l < m \/ c < b
        PROVE  s \notin cert.x[<<j, c>>][l]
    <3>1. CASE l < m
      <4>1. ASSUME s \in cert.x[<<j, c>>][l]  PROVE FALSE
        <5>1. l \in 1..Len(cert.y[j]) /\ m \in Nat /\ l \in Nat
          BY <1>2, <3>1
        <5>2. l \in KS
          BY <4>1, <5>1
        <5>3. m <= l
          BY <1>2, <5>2
        <5> QED
          BY <3>1, <5>1, <5>3
      <4> QED
        BY <4>1
    <3>2. CASE ~(l < m)
      <4>1. l = m /\ c < b
        BY <1>2, <2>1, <3>2
      <4>2. ASSUME s \in cert.x[<<j, c>>][l]  PROVE FALSE
        <5>1. c \in IS
          BY <4>1, <4>2
        <5>2. b <= c /\ b \in Nat /\ c \in Nat
          BY <1>0, <1>4, <5>1
        <5> QED
          BY <4>1, <5>2
      <4> QED
        BY <4>2
    <3> QED
      BY <3>1, <3>2
  <2>2. s \in cert.x[<<j, b>>][m]
    BY <1>4
  <2> QED
    BY <2>1, <2>2 DEF RankLayer
<1>6. m <= k /\ (m = k => b <= i)
  BY <1>0, <1>1, <1>2, <1>4
<1>7. m \in 1..Len(cert.y[j]) /\ b \in 1..NumFairs(g) /\ (m < k \/ (m = k /\ b <= i))
  BY <1>0, <1>2, <1>4, <1>6
<1> QED
  BY <1>5, <1>7

\* What an accepted candidate of the system is.
LEMMA SystemFacts ==
  ASSUME NEW a \in Candidates, ~a.environment, Accepted(a)
  PROVE  /\ a.game \in Games /\ NumGoals(a.game) > 0
         /\ a.game.reset \in a.cert.inv
         /\ SystemShape(a.game, a.cert) /\ Covered(a.game, a.cert)
         /\ \A j \in 1..NumGoals(a.game) : Len(a.cert.y[j]) \in Nat
<1>1. a.game \in Games /\ NumGoals(a.game) > 0 /\ SystemCertFits(a.game, a.cert)
  BY CandidatesFit
<1>2. \A j \in 1..NumGoals(a.game) : a.cert.y[j] \in Seq(SUBSET State)
  BY <1>1 DEF SystemCertFits
<1> QED
  BY <1>1, <1>2 DEF Accepted

\* A round of the system's policy lets the rank descend.
LEMMA SystemStepDescends ==
  ASSUME IInv, NEW u \in UMove, SystemRound(u)
  PROVE  SystemDescends
<1> DEFINE j == Current(counter)
           Layer(k, i) == RankLayer(G, Cert, j, k, i)
<1>1. /\ task \in Candidates /\ Accepted(task) /\ ~task.environment
  BY DEF IInv, TypeOK, SystemRound
<1>2. /\ G \in Games /\ NumGoals(G) \in Nat /\ NumGoals(G) > 0 /\ NumFairs(G) \in Nat
      /\ SystemShape(G, Cert) /\ Covered(G, Cert)
      /\ \A e \in 1..NumGoals(G) : Len(Cert.y[e]) \in Nat
  BY <1>1, SystemFacts, GameFacts DEF G, Cert
<1>3. /\ plant \in Cert.inv /\ counter \in Modes(NumGoals(G))
      /\ plant' \in Cert.inv
      /\ counter' = Prescribed(counter, NumGoals(G), plant \in G.goals[j])
      /\ \A k \in 1..Len(Cert.y[j]), i \in 1..NumFairs(G) :
           plant \in Layer(k, i) => plant' \in Progress(G, Cert, j, k, i)
  BY SystemRoundFacts
<1>4. j \in 1..NumGoals(G) /\ Len(Cert.y[j]) \in Nat
  BY <1>2, <1>3, ModeFacts
<1> SUFFICES ASSUME plant \notin G.goals[j]
             PROVE  /\ Current(counter') = j
                    /\ \/ plant' \in G.goals[j]
                       \/ \E r, q \in (1..Len(Cert.y[j])) \X (1..NumFairs(G)) :
                            /\ plant \in Layer(r[1], r[2]) /\ plant' \in Layer(q[1], q[2])
                            /\ \/ q[1] < r[1]
                               \/ q[1] = r[1] /\ q[2] <= r[2] /\ plant' \notin Fair(G, r[2])
  BY DEF SystemDescends
<1>5. Current(counter') = j
  <2>1. counter' = Prescribed(counter, NumGoals(G), FALSE)
    BY <1>3 DEF Prescribed
  <2> HIDE DEF j
  <2> QED
    BY <1>2, <1>3, <2>1, ModeFacts DEF j
<1> HIDE DEF j
<1>6. PICK k0 \in 1..Len(Cert.y[j]), i0 \in 1..NumFairs(G) : plant \in Cert.x[<<j, i0>>][k0]
  BY <1>2, <1>3, <1>4 DEF Covered
<1>7. PICK k \in 1..Len(Cert.y[j]), i \in 1..NumFairs(G) : plant \in Layer(k, i)
  BY <1>2, <1>3, <1>4, <1>6, RankExists
<1>8. plant' \in Progress(G, Cert, j, k, i)
  BY <1>3, <1>7
<1>9. ASSUME plant' \notin G.goals[j]
      PROVE  \E m \in 1..Len(Cert.y[j]), b \in 1..NumFairs(G) :
               /\ plant' \in Layer(m, b)
               /\ m < k \/ (m = k /\ b <= i /\ plant' \notin Fair(G, i))
  <2>1. CASE plant' \in Cert.x[<<j, i>>][k] /\ plant' \notin Fair(G, i)
    <3>1. PICK m \in 1..Len(Cert.y[j]), b \in 1..NumFairs(G) :
            plant' \in Layer(m, b) /\ (m < k \/ (m = k /\ b <= i))
      BY <1>2, <1>3, <1>4, <1>9, <2>1, RankExists
    <3> QED
      BY <2>1, <3>1
  <2>2. CASE k # 1 /\ plant' \in Cert.y[j][k - 1]
    <3>1. k - 1 \in 1..Len(Cert.y[j])
      BY <1>4, <2>2
    <3>2. Cert.y[j][k - 1] = UNION {Cert.x[<<j, e>>][k - 1] : e \in 1..NumFairs(G)}
      BY <1>2, <1>4, <3>1 DEF SystemShape
    <3>3. PICK e \in 1..NumFairs(G) : plant' \in Cert.x[<<j, e>>][k - 1]
      BY <2>2, <3>2
    <3>4. PICK m \in 1..Len(Cert.y[j]), b \in 1..NumFairs(G) :
            plant' \in Layer(m, b) /\ (m < k - 1 \/ (m = k - 1 /\ b <= e))
      BY <1>2, <1>3, <1>4, <1>9, <3>1, <3>3, RankExists
    <3>5. m < k
      BY <1>4, <3>4
    <3> QED
      BY <3>4, <3>5
  <2> QED
    BY <1>8, <1>9, <2>1, <2>2 DEF Progress
<1>10. ASSUME plant' \notin G.goals[j]
       PROVE  \E r, q \in (1..Len(Cert.y[j])) \X (1..NumFairs(G)) :
                /\ plant \in Layer(r[1], r[2]) /\ plant' \in Layer(q[1], q[2])
                /\ \/ q[1] < r[1]
                   \/ q[1] = r[1] /\ q[2] <= r[2] /\ plant' \notin Fair(G, r[2])
  <2>1. PICK m \in 1..Len(Cert.y[j]), b \in 1..NumFairs(G) :
          /\ plant' \in Layer(m, b)
          /\ m < k \/ (m = k /\ b <= i /\ plant' \notin Fair(G, i))
    BY <1>9, <1>10
  <2> HIDE DEF Layer
  <2> WITNESS <<k, i>> \in (1..Len(Cert.y[j])) \X (1..NumFairs(G)),
              <<m, b>> \in (1..Len(Cert.y[j])) \X (1..NumFairs(G))
  <2> QED
    BY <1>7, <2>1
<1> QED
  BY <1>5, <1>10
-----------------------------------------------------------------------------
\* What an accepted candidate of the environment is.
LEMMA EnvironmentFacts ==
  ASSUME NEW a \in Candidates, a.environment, Accepted(a)
  PROVE  /\ a.game \in Games /\ NumGoals(a.game) > 0
         /\ a.game.reset \in a.cert.inv
         /\ EnvironmentShape(a.game, a.cert)
         /\ Len(a.cert.levels) \in Nat /\ Len(a.cert.levels) > 0
         /\ \A k \in 1..Len(a.cert.levels), j \in 1..NumGoals(a.game),
               i \in 1..NumFairs(a.game) :
              /\ Len(a.cert.levels[k].x[<<j, i>>]) \in Nat
              /\ Len(a.cert.levels[k].x[<<j, i>>]) > 0
<1> DEFINE g == a.game
           n == NumFairs(g)
           Level == [z : SUBSET State, y : [1..NumGoals(g) -> SUBSET State],
                     x : [(1..NumGoals(g)) \X (1..n) -> Seq(SUBSET State)]]
<1>1. /\ g \in Games /\ NumGoals(g) > 0
      /\ EnvironmentCertFits(g, a.cert) /\ EnvironmentRanked(a.cert)
  BY CandidatesFit
<1>t. a.cert.levels \in Seq(Level)
  BY <1>1 DEF EnvironmentCertFits
<1>d. \A k \in 1..Len(a.cert.levels) :
        DOMAIN a.cert.levels[k].x = (1..NumGoals(g)) \X (1..n)
  <2> SUFFICES ASSUME NEW k \in 1..Len(a.cert.levels)
               PROVE  DOMAIN a.cert.levels[k].x = (1..NumGoals(g)) \X (1..n)
    OBVIOUS
  <2>1. a.cert.levels[k] \in Level
    <3> HIDE DEF Level
    <3> QED
      BY <1>t
  <2> QED
    BY <2>1
<1>2. /\ a.cert.levels \in Seq(Level) /\ Len(a.cert.levels) > 0
      /\ \A k \in 1..Len(a.cert.levels), ji \in (1..NumGoals(g)) \X (1..n) :
           Len(a.cert.levels[k].x[ji]) > 0
  <2> HIDE DEF Level
  <2> QED
    BY <1>1, <1>t, <1>d DEF EnvironmentRanked
<1>3. ASSUME NEW k \in 1..Len(a.cert.levels), NEW j \in 1..NumGoals(g), NEW i \in 1..n
      PROVE  Len(a.cert.levels[k].x[<<j, i>>]) \in Nat
  <2>1. a.cert.levels[k] \in Level
    <3> HIDE DEF Level
    <3> QED
      BY <1>2
  <2>2. a.cert.levels[k].x[<<j, i>>] \in Seq(SUBSET State)
    BY <2>1
  <2>3. \A q \in Seq(SUBSET State) : Len(q) \in Nat
    OBVIOUS
  <2> QED
    BY <2>2, <2>3, Zenon
<1>4. Len(a.cert.levels) \in Nat
  <2> HIDE DEF Level
  <2> QED
    BY <1>2
<1> QED
  BY <1>1, <1>2, <1>3, <1>4 DEF Accepted

\* A state in the Y of a level and goal has a first level and a first goal in
\* it, and they are no later.
LEMMA DeniedExists ==
  ASSUME NEW g \in Games, NEW cert, EnvironmentShape(g, cert), Len(cert.levels) \in Nat,
         NEW k \in 1..Len(cert.levels), NEW j \in 1..NumGoals(g), NEW s,
         s \in cert.levels[k].y[j]
  PROVE  \E m \in 1..Len(cert.levels), b \in 1..NumGoals(g) :
           Denied(cert, s, m, b) /\ (m < k \/ (m = k /\ b <= j))
<1>0. NumGoals(g) \in Nat
  BY GameFacts
<1>1. \A m \in 1..Len(cert.levels) :
        cert.levels[m].z = UNION {cert.levels[m].y[b] : b \in 1..NumGoals(g)}
  BY DEF EnvironmentShape
<1> DEFINE KS == {m \in 1..Len(cert.levels) : s \in cert.levels[m].z}
<1>2. KS \in SUBSET Nat /\ k \in KS
  BY <1>1
<1>3. PICK m \in KS : \A y \in KS : m <= y
  <2> HIDE DEF KS
  <2> QED
    BY <1>2, LeastNatural
<1> DEFINE JS == {b \in 1..NumGoals(g) : s \in cert.levels[m].y[b]}
<1>4. JS \in SUBSET Nat /\ JS # {}
  BY <1>0, <1>1, <1>3
<1>5. PICK b \in JS : \A y \in JS : b <= y
  <2> HIDE DEF JS
  <2> QED
    BY <1>4, LeastNatural
<1>6. m \in 1..Len(cert.levels) /\ b \in 1..NumGoals(g)
  BY <1>3, <1>5
<1>7. s \notin Before(cert, m)
  <2>1. CASE m = 1
    BY <2>1 DEF Before
  <2>2. CASE m # 1
    <3>1. m - 1 \in 1..Len(cert.levels) /\ ~(m <= m - 1)
      BY <1>6, <2>2
    <3>2. m - 1 \notin KS
      BY <1>3, <3>1
    <3> QED
      BY <2>2, <3>1, <3>2 DEF Before
  <2> QED
    BY <2>1, <2>2
<1>8. ASSUME NEW e \in 1..(b - 1)  PROVE s \notin cert.levels[m].y[e]
  <2>1. e \in 1..NumGoals(g) /\ ~(b <= e)
    BY <1>0, <1>6
  <2>2. e \notin JS
    BY <1>5, <2>1
  <2> QED
    BY <2>1, <2>2
<1>9. Denied(cert, s, m, b)
  BY <1>3, <1>5, <1>7, <1>8 DEF Denied
<1>10. m <= k /\ (m = k => b <= j)
  <2>1. m <= k
    BY <1>2, <1>3
  <2>2. ASSUME m = k  PROVE b <= j
    <3>1. j \in JS
      BY <2>2
    <3> QED
      BY <1>5, <3>1
  <2> QED
    BY <2>1, <2>2
<1>11. m < k \/ (m = k /\ b <= j)
  BY <1>6, <1>10
<1> QED
  BY <1>6, <1>9, <1>11

\* The outer levels are nested, so every one of them lies in the region.
LEMMA LevelInRegion ==
  ASSUME NEW g, NEW cert, EnvironmentShape(g, cert), Len(cert.levels) \in Nat,
         NEW k \in 1..Len(cert.levels), NEW s \in cert.levels[k].z
  PROVE  s \in cert.inv
<1> DEFINE N == Len(cert.levels)
           MS == {m \in k..N : s \notin cert.levels[m].z}
<1>1. MS \in SUBSET Nat
  OBVIOUS
<1>2. ASSUME MS # {}  PROVE FALSE
  <2>1. PICK m \in MS : \A y \in MS : m <= y
    <3> HIDE DEF MS
    <3> QED
      BY <1>1, <1>2, LeastNatural
  <2>2. m # k /\ m \in 1..N /\ m > k
    BY <2>1
  <2>3. m - 1 \in k..N /\ ~(m <= m - 1)
    BY <2>2
  <2>4. m - 1 \notin MS
    BY <2>1, <2>3
  <2>5. s \in cert.levels[m - 1].z
    BY <2>3, <2>4
  <2>6. Before(cert, m) \subseteq cert.levels[m].z
    BY <2>2 DEF EnvironmentShape
  <2> QED
    BY <2>1, <2>2, <2>5, <2>6 DEF Before
<1>3. N \in k..N
  OBVIOUS
<1>4. s \in cert.levels[N].z
  BY <1>2, <1>3
<1> QED
  BY <1>4 DEF EnvironmentShape, LastOf
\* One round of an accepted policy of the environment, from the invariant: the
\* counter waits for assumption p, and a round that is not bad keeps the
\* obligation of the state's layer.
LEMMA EnvironmentRoundFacts ==
  ASSUME IInv, NEW c \in CMove, EnvironmentRound(c)
  PROVE  /\ plant \in Cert.inv /\ task' = task /\ bad' \in BOOLEAN
         /\ counter' \in Modes(NumFairs(G)) /\ Current(counter') \in 1..NumFairs(G)
         /\ \A k \in 1..Len(Cert.levels), j \in 1..NumGoals(G) :
              \A l \in 1..Len(Cert.levels[k].x[<<j, Current(counter')>>]) :
                plant \in DualLayer(G, Cert, k, j, l, Current(counter')) =>
                  /\ plant' \in State
                  /\ bad' \/ plant' \in DualProgress(G, Cert, k, j, l, Current(counter'))
<1>1. /\ task \in Candidates /\ task.environment /\ Accepted(task) /\ plant \in State
      /\ ~bad
  BY DEF IInv, TypeOK, EnvironmentRound
<1>2. plant \in Cert.inv /\ counter \in Modes(NumFairs(G))
  BY <1>1 DEF IInv, RegionKept, NumCounters
<1>3. /\ G \in Games /\ NumFairs(G) \in Nat /\ NumFairs(G) > 0
      /\ G.succ \in [Val -> State]
  BY <1>1, GameFacts, CandidatesFit DEF G
<1> DEFINE met == plant \in Fair(G, Current(counter))
           p == IF met THEN Cyclic(Current(counter), NumFairs(G)) ELSE Current(counter)
           v == <<plant, task.policy.out[<<plant, counter>>], c>>
<1>4. EnvironmentMode(G, task.policy, Cert, counter)
  BY <1>1, <1>2 DEF Accepted, G, Cert
<1>5. /\ task.policy.count[<<plant, counter>>] = Prescribed(counter, NumFairs(G), met)
      /\ \A k \in 1..Len(Cert.levels), j \in 1..NumGoals(G) :
           \A l \in 1..Len(Cert.levels[k].x[<<j, p>>]) :
             plant \in DualLayer(G, Cert, k, j, l, p) =>
               v \in BadOrInto(G, DualProgress(G, Cert, k, j, l, p))
  BY <1>2, <1>4 DEF EnvironmentMode
<1>6. /\ plant' = G.succ[v] /\ bad' = (bad \/ v \in G.bad) /\ task' = task
      /\ counter' = task.policy.count[<<plant, counter>>]
  BY DEF EnvironmentRound, Play
<1>7. counter' \in Modes(NumFairs(G)) /\ Current(counter') \in 1..NumFairs(G)
      /\ Current(counter') = p
  <2>1. met \in BOOLEAN
    OBVIOUS
  <2> HIDE DEF met
  <2>2. /\ Prescribed(counter, NumFairs(G), met) \in Modes(NumFairs(G))
        /\ Current(Prescribed(counter, NumFairs(G), met)) = p
    BY <1>2, <1>3, <2>1, ModeFacts
  <2>3. counter' \in Modes(NumFairs(G)) /\ Current(counter') = p
    BY <1>5, <1>6, <2>2
  <2>4. Current(counter') \in 1..NumFairs(G)
    BY <1>3, <2>3, ModeFacts
  <2> QED
    BY <2>3, <2>4
<1>8. bad' \in BOOLEAN /\ (v \in G.bad => bad')
  BY <1>1, <1>6
<1> HIDE DEF p, v
<1>9. ASSUME NEW k \in 1..Len(Cert.levels), NEW j \in 1..NumGoals(G),
             NEW l \in 1..Len(Cert.levels[k].x[<<j, p>>]),
             plant \in DualLayer(G, Cert, k, j, l, p)
      PROVE  /\ plant' \in State
             /\ bad' \/ plant' \in DualProgress(G, Cert, k, j, l, p)
  <2>1. v \in BadOrInto(G, DualProgress(G, Cert, k, j, l, p))
    BY <1>5, <1>9
  <2>2. v \in Val /\ (v \in G.bad \/ plant' \in DualProgress(G, Cert, k, j, l, p))
    BY <1>6, <2>1 DEF BadOrInto
  <2> QED
    BY <1>3, <1>6, <1>8, <2>2
<1> QED
  BY <1>2, <1>6, <1>7, <1>8, <1>9

\* Such a round descends, and stays in the region unless it is bad.
LEMMA EnvironmentStepDescends ==
  ASSUME IInv, NEW c \in CMove, EnvironmentRound(c)
  PROVE  /\ plant' \in State
         /\ bad' \/ (plant' \in Cert.inv /\ EnvironmentDescends)
<1> DEFINE p == Current(counter')
           K == 1..Len(Cert.levels)
           J == 1..NumGoals(G)
<1>1. task \in Candidates /\ task.environment /\ Accepted(task)
  BY DEF IInv, TypeOK, EnvironmentRound
<1>2. /\ G \in Games /\ NumGoals(G) \in Nat /\ NumFairs(G) \in Nat
      /\ EnvironmentShape(G, Cert)
      /\ Len(Cert.levels) \in Nat /\ Len(Cert.levels) > 0
      /\ \A k \in K, j \in J, i \in 1..NumFairs(G) :
           /\ Len(Cert.levels[k].x[<<j, i>>]) \in Nat
           /\ Len(Cert.levels[k].x[<<j, i>>]) > 0
  BY <1>1, EnvironmentFacts, GameFacts DEF G, Cert
<1>3. /\ plant \in Cert.inv /\ p \in 1..NumFairs(G)
      /\ \A k \in K, j \in J : \A l \in 1..Len(Cert.levels[k].x[<<j, p>>]) :
           plant \in DualLayer(G, Cert, k, j, l, p) =>
             /\ plant' \in State
             /\ bad' \/ plant' \in DualProgress(G, Cert, k, j, l, p)
  BY EnvironmentRoundFacts
<1> HIDE DEF p
<1>4. PICK k0 \in K, j0 \in J : plant \in Cert.levels[k0].y[j0]
  <2>1. Len(Cert.levels) \in K /\ plant \in Cert.levels[Len(Cert.levels)].z
    BY <1>2, <1>3 DEF EnvironmentShape, LastOf
  <2>2. \A m \in K : Cert.levels[m].z = UNION {Cert.levels[m].y[b] : b \in J}
    BY <1>2 DEF EnvironmentShape
  <2> QED
    BY <2>1, <2>2
<1>5. PICK k \in K, j \in J : Denied(Cert, plant, k, j)
  BY <1>2, <1>4, DeniedExists
<1>6. PICK l \in 1..Len(Cert.levels[k].x[<<j, p>>]) :
        plant \in DualLayer(G, Cert, k, j, l, p)
  <2> DEFINE X == Cert.levels[k].x[<<j, p>>]
             LS == {l \in 1..Len(X) : plant \in X[l]}
  <2>1. Len(X) \in Nat /\ Len(X) > 0
    BY <1>2, <1>3
  <2>2. plant \in X[Len(X)]
    <3>1. Cert.levels[k].y[j] = {s \in State : \A i \in 1..NumFairs(G) :
                                   s \in LastOf(Cert.levels[k].x[<<j, i>>])}
      BY <1>2 DEF EnvironmentShape
    <3> QED
      BY <1>3, <1>5, <3>1 DEF Denied, LastOf
  <2>3. LS \in SUBSET Nat /\ LS # {}
    <3> HIDE DEF X
    <3>1. Len(X) \in LS
      BY <2>1, <2>2
    <3> QED
      BY <3>1
  <2>4. PICK l \in LS : \A y \in LS : l <= y
    <3> HIDE DEF LS
    <3> QED
      BY <2>3, LeastNatural
  <2>5. ASSUME NEW m \in 1..(l - 1)  PROVE plant \notin X[m]
    <3>1. m \in 1..Len(X) /\ ~(l <= m)
      BY <2>1, <2>4
    <3>2. m \notin LS
      BY <2>4, <3>1
    <3> QED
      BY <3>1, <3>2
  <2>6. l \in 1..Len(X) /\ plant \in X[l]
    BY <2>4
  <2>7. plant \in DualLayer(G, Cert, k, j, l, p)
    BY <1>5, <2>5, <2>6 DEF DualLayer, Denied
  <2> QED
    BY <2>6, <2>7
<1>7. plant' \in State /\ (bad' \/ plant' \in DualProgress(G, Cert, k, j, l, p))
  BY <1>3, <1>6
<1>8. ASSUME plant' \in DualProgress(G, Cert, k, j, l, p)
      PROVE  plant' \in Cert.inv /\ EnvironmentDescends
  <2>1. /\ plant' \in Before(Cert, k) \/ plant' \notin G.goals[j]
        /\ plant' \in Cert.levels[k].y[j]
        /\ \/ plant' \in Fair(G, p)
           \/ l # 1 /\ plant' \in Cert.levels[k].x[<<j, p>>][l - 1]
    BY <1>8 DEF DualProgress
  <2>2. PICK m \in K, b \in J :
          Denied(Cert, plant', m, b) /\ (m < k \/ (m = k /\ b <= j))
    BY <1>2, <2>1, DeniedExists
  <2>3. plant' \in Cert.inv
    <3>1. plant' \in Cert.levels[k].z
      <4>1. Cert.levels[k].z = UNION {Cert.levels[k].y[e] : e \in J}
        BY <1>2 DEF EnvironmentShape
      <4> QED
        BY <2>1, <4>1
    <3> QED
      BY <1>2, <3>1, LevelInRegion
  <2>4. m < k \/ (m = k /\ b <= j /\ plant' \notin G.goals[j])
    BY <2>1, <2>2 DEF Denied
  <2>5. l # 1 => l > 1
    BY <1>2, <1>3
  <2>6. \/ plant' \in Fair(G, p)
        \/ \E e \in 1..Len(Cert.levels[k].x[<<j, p>>]) :
             /\ plant \in DualLayer(G, Cert, k, j, e, p)
             /\ e > 1 /\ plant' \in Cert.levels[k].x[<<j, p>>][e - 1]
    BY <1>6, <2>1, <2>5
  <2>7. EnvironmentDescends
    BY <1>5, <2>2, <2>4, <2>6 DEF EnvironmentDescends, p
  <2> QED
    BY <2>3, <2>7
<1> QED
  BY <1>7, <1>8
-----------------------------------------------------------------------------
LEMMA Inductive == Spec => []IInv
<1>1. Init => IInv
  <2> SUFFICES ASSUME Init PROVE IInv
    OBVIOUS
  <2>1. task \in Candidates /\ Accepted(task) /\ plant = G.reset /\ counter = {} /\ bad = FALSE
    BY DEF Init
  <2>2. G \in Games /\ G.reset \in State
    BY <2>1, CandidatesFit, GameFacts DEF G
  <2>3. plant \in Cert.inv
    BY <2>1 DEF Accepted, G, Cert
  <2> QED
    BY <2>1, <2>2, <2>3 DEF IInv, TypeOK, RegionKept, Modes
<1>2. IInv /\ [Round]_vars => IInv'
  <2> SUFFICES ASSUME IInv, [Round]_vars PROVE IInv'
    OBVIOUS
  <2>0. task \in Candidates /\ Accepted(task) /\ task.environment \in BOOLEAN /\ G \in Games
    BY CandidatesFit DEF IInv, TypeOK, G
  <2>1. ASSUME NEW u \in UMove, SystemRound(u)  PROVE IInv'
    <3>1. ~task.environment
      BY <2>1 DEF SystemRound
    <3>2. /\ task' = task /\ bad' = FALSE /\ plant' \in State /\ plant' \in Cert.inv
          /\ counter \in Modes(NumGoals(G))
          /\ counter' = Prescribed(counter, NumGoals(G), plant \in G.goals[Current(counter)])
      BY <2>1, SystemRoundFacts
    <3>3. NumGoals(G) \in Nat /\ NumGoals(G) > 0
      BY <2>0, <3>1, SystemFacts, GameFacts DEF G
    <3>4. (plant \in G.goals[Current(counter)]) \in BOOLEAN
      OBVIOUS
    <3>5. counter' \in Modes(NumGoals(G))
      BY <3>2, <3>3, <3>4, ModeFacts
    <3>6. counter' \in SUBSET (1..NumGoals(G))
      BY <3>3, <3>5, ModeFacts
    <3> QED
      BY <2>0, <3>1, <3>2, <3>5, <3>6
      DEF IInv, TypeOK, RegionKept, NumCounters, G, Cert, Accepted
  <2>2. ASSUME NEW c \in CMove, EnvironmentRound(c)  PROVE IInv'
    <3>1. task.environment
      BY <2>2 DEF EnvironmentRound
    <3>2. /\ task' = task /\ bad' \in BOOLEAN /\ counter' \in Modes(NumFairs(G))
      BY <2>2, EnvironmentRoundFacts
    <3>3. plant' \in State /\ (bad' \/ plant' \in Cert.inv)
      BY <2>2, EnvironmentStepDescends
    <3>4. NumFairs(G) \in Nat /\ NumFairs(G) > 0
      BY <2>0, GameFacts
    <3>5. counter' \in SUBSET (1..NumFairs(G))
      BY <3>2, <3>4, ModeFacts
    <3> QED
      BY <2>0, <3>1, <3>2, <3>3, <3>5
      DEF IInv, TypeOK, RegionKept, NumCounters, G, Cert, Accepted
  <2>3. CASE UNCHANGED vars
    BY <2>3 DEF vars, IInv, TypeOK, RegionKept, NumCounters, G, Cert, Accepted
  <2> QED
    BY <2>1, <2>2, <2>3 DEF Round
<1> QED
  BY <1>1, <1>2, PTL DEF Spec

\* The closed loop keeps its types.
THEOREM LoopTyping == Spec => []TypeOK
<1>1. IInv => TypeOK
  BY DEF IInv
<1> QED
  BY <1>1, Inductive, PTL

\* A policy accepted by its certificate stays in the certified region with a
\* one-hot counter, and the system's never plays a bad round: the obligations
\* that check_certificate_mode tests per state are enough for all plays.
THEOREM RegionSoundness == Spec => []RegionKept
<1>1. IInv => RegionKept
  BY DEF IInv
<1> QED
  BY <1>1, Inductive, PTL

\* Every round of an accepted policy of the system lets the rank of the current
\* goal descend.
THEOREM RankSoundness == Spec => RankDescends
<1>1. IInv /\ [Round]_vars => [~task.environment => SystemDescends]_vars
  <2> SUFFICES ASSUME IInv, [Round]_vars, ~task.environment, vars' # vars
               PROVE  SystemDescends
    OBVIOUS
  <2>1. PICK u \in UMove : SystemRound(u)
    BY DEF Round, EnvironmentRound, vars
  <2> QED
    BY <2>1, SystemStepDescends
<1> QED
  BY <1>1, Inductive, PTL DEF Spec, RankDescends

\* Every round of an accepted policy of the environment is bad for the system or
\* lets the level of the dual and the way to the awaited assumption descend.
THEOREM DualRankSoundness == Spec => DualRankDescends
<1>1. IInv /\ [Round]_vars => [task.environment => bad' \/ EnvironmentDescends]_vars
  <2> SUFFICES ASSUME IInv, [Round]_vars, task.environment, vars' # vars
               PROVE  bad' \/ EnvironmentDescends
    OBVIOUS
  <2>1. PICK c \in CMove : EnvironmentRound(c)
    BY DEF Round, SystemRound, vars
  <2> QED
    BY <2>1, EnvironmentStepDescends
<1> QED
  BY <1>1, Inductive, PTL DEF Spec, DualRankDescends

\* Either side's accepted policy goes down the ranks of its certificate: what
\* check_policy's obligations promise of every play, of any length.
THEOREM RankingSoundness == Spec => RanksDescend
BY RankSoundness, DualRankSoundness, PTL DEF RanksDescend

=============================================================================
