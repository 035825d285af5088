------------------------------ MODULE Gr1Loop -------------------------------
(***************************************************************************)
(* The GR(1) solver, then what it hands out in the loop with the game: the *)
(* controller against every environment, or the environment's policy       *)
(* against every controller.                                               *)
(***************************************************************************)
EXTENDS Gr1Solver

VARIABLES plant,     \* the state of the game
          memory,    \* the strategy AIG's copy of it
          counter,   \* the goal counter, or the policy's assumption counter
          bad        \* a bad round was played

loopVars == <<vars, plant, memory, counter, bad>>

LoopInit ==
  Init /\ plant = game.reset /\ memory = game.reset /\ counter = {} /\ bad = FALSE

Solve == Next /\ UNCHANGED <<plant, memory, counter, bad>>

Play(u, c) ==
  /\ plant' = game.succ[<<plant, u, c>>]
  /\ bad' = (bad \/ <<plant, u, c>> \in game.bad)
  /\ UNCHANGED vars

\* The controller answers u.
ControllerRound(u) ==
  /\ status = "REALIZABLE"
  /\ Play(u, strat.out[<<memory, counter, u>>])
  /\ memory' = strat.next[<<memory, counter, u>>]
  /\ counter' = strat.count[<<memory, counter>>]

\* The environment's policy moves, the controller answers c.  The policy is
\* combinational: it reads the game's state.
EnvironmentRound(c) ==
  /\ status = "UNREALIZABLE" /\ "policy" \in opts.exports /\ ~bad
  /\ Play(envStrat.out[<<plant, counter>>], c)
  /\ counter' = envStrat.count[<<plant, counter>>]
  /\ UNCHANGED memory

Round == \/ \E u \in UMove : ControllerRound(u)
         \/ \E c \in CMove : EnvironmentRound(c)

LoopNext == Solve \/ Round

\* The solver takes its steps, and a play goes on for ever.
LoopSpec ==
  LoopInit /\ [][LoopNext]_loopVars /\ WF_loopVars(Solve) /\ WF_loopVars(Round)

-----------------------------------------------------------------------------
\* Whichever strategy is played keeps its side's region.  The controller plays
\* no bad round and its latches follow the game; the environment's policy may
\* play one, and has then won.  A counter, zero at reset, never has two bits set
\* ("the one-hot property is maintained from step 1 onwards").
StrategySafe ==
  /\ status = "REALIZABLE" => ~bad /\ memory = plant /\ plant \in W
  /\ status = "UNREALIZABLE" /\ opts.exports # {} /\ ~bad => plant \in L
  /\ Cardinality(counter) <= 1

MaxGoals == {NumGoals(g) : g \in Games}
SomeGoal == 1..(CHOOSE n \in MaxGoals : \A k \in MaxGoals : k <= n)
MaxFairs == {NumFairs(g) : g \in Games}
SomeFair == 1..(CHOOSE n \in MaxFairs : \A k \in MaxFairs : k <= n)

HoldsFair(k) == k \in FairIx => plant \in Fair(game, k)
HoldsGoal(k) == k \in GoalIx => plant \in game.goals[k]

\* The controller wins: when every assumption recurs, every goal does.
GoalsRecur ==
  (/\ <>(status = "REALIZABLE")
   /\ \A k \in SomeFair : []<>HoldsFair(k))
  => \A k \in SomeGoal : []<>HoldsGoal(k)

\* The environment's policy wins: a round is bad, or every assumption recurs and
\* some goal is missed from some point on.
PolicyWins ==
  <>(status = "UNREALIZABLE" /\ "policy" \in opts.exports) =>
    \/ <>bad
    \/ /\ \A k \in SomeFair : []<>HoldsFair(k)
       /\ \E k \in SomeGoal : <>[](~HoldsGoal(k))

\* Whichever side is said to win, wins with what it is handed.
WinnerWins == GoalsRecur /\ PolicyWins

-----------------------------------------------------------------------------
(***************************************************************************)
(* Solver and checker together: the certificates and policies that         *)
(* gr1_oxidd.c exports, held against the obligations by which gr1_check.c  *)
(* accepts them.  The two programs share the file format and no code.      *)
(***************************************************************************)
\* export_certificate: the winning region, the goals and the levels of the last
\* outer round, all of them over the latches only.
SystemCertificate ==
  [none |-> FALSE, stateOnly |-> TRUE, inv |-> W, goals |-> game.goals,
   y |-> ys, x |-> xs]

\* export_policy: the Skolem functions and the goal counter.
SystemPolicyExport ==
  [none |-> FALSE, out |-> strat.out,
   count |-> [scu \in State \X (SUBSET GoalIx) \X UMove |->
                strat.count[<<scu[1], scu[2]>>]]]

\* The Y of the first outer level goes with every level.
FirstLevelsY ==
  [none |-> FALSE, stateOnly |-> TRUE, inv |-> L, goals |-> game.goals,
   fairs |-> game.fairs,
   levels |-> [k \in 1..Len(levels) |->
                 [levels[k] EXCEPT !.y = [g \in GoalIx |-> levels[1].y[g][1]]]]]

\* export_environment_certificate: the losing region, goals and assumptions, and
\* the dual's outer levels with the inner ranks of each.
EnvironmentCertificate ==
  [none |-> FALSE, stateOnly |-> TRUE, inv |-> L, goals |-> game.goals,
   fairs |-> game.fairs,
   levels |-> [k \in 1..Len(levels) |->
                 [levels[k] EXCEPT !.y = [g \in GoalIx |-> levels[k].y[g][1]]]]]

-----------------------------------------------------------------------------
\* What solve_gr1_oxidd exports with REALIZABLE, tlsf_gr1_check accepts by the
\* certificate method, and the certificate alone by the region method: every
\* goal has a level, the levels are well shaped and cover the winning region,
\* and each round keeps every mode's obligations.
ControllerCertified ==
  status = "REALIZABLE" /\ artifacts = {"certificate", "policy"} =>
    LET cert == SystemCertificate IN
      /\ \A g \in GoalIx : Len(cert.y[g]) > 0
      /\ SystemShape(game, cert) /\ Covered(game, cert)
      /\ game.reset \in cert.inv
      /\ \A mode \in Modes(NumGoals(game)) :
           /\ SystemMode(game, SystemPolicyExport, cert, mode)
           /\ RegionMode(game, cert, mode)

\* The same of the environment's certificate and policy, exported with
\* UNREALIZABLE.
CounterStrategyCertified ==
  status = "UNREALIZABLE" /\ artifacts = {"certificate", "policy"} =>
    LET cert == EnvironmentCertificate IN
      /\ Len(cert.levels) > 0
      /\ \A k \in 1..Len(cert.levels), ga \in GoalIx \X FairIx :
           Len(cert.levels[k].x[ga]) > 0
      /\ EnvironmentShape(game, cert)
      /\ game.reset \in cert.inv
      /\ \A mode \in Modes(NumFairs(game)) :
           EnvironmentMode(game, envStrat, cert, mode)

\* Whoever is said to win: what is exported with the verdict passes the checker.
Certified == ControllerCertified /\ CounterStrategyCertified
=============================================================================
