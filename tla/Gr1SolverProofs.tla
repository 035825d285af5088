-------------------------- MODULE Gr1SolverProofs ---------------------------
(***************************************************************************)
(* The GR(1) solver, for every game over every set of states: what it      *)
(* reports, that its two nested fixpoints are each other's complement,     *)
(* that what it exports passes the checker's obligations, and that the     *)
(* strategy it hands out keeps its side's region when it is played.        *)
(***************************************************************************)
EXTENDS Gr1Loop, FiniteSetTheorems, WellFoundedInduction, TLAPS

-----------------------------------------------------------------------------
\* Guards.
LEMMA FreshFacts ==
  Guarded!FreshGuard \in Guarded!Guards /\ ~Guarded!FreshGuard.failed
  /\ Guarded!FreshGuard.failure = "NONE"
BY DEF Guarded!FreshGuard, Guarded!Guards, Guarded!FailureKinds

\* A limit that strikes.
LEMMA StopFacts ==
  ASSUME NEW g \in Guarded!Guards, NEW k \in StopKinds
  PROVE  /\ Guarded!RunStops(g, k) \in Guarded!Guards /\ Guarded!RunStops(g, k).failed
         /\ g.failure # "INVALID" => Guarded!RunStops(g, k).failure # "INVALID"
BY OptionAssumption
DEF Guarded!Guards, Guarded!FailureKinds, Guarded!RunStops, Guarded!RecordFailure

\* A wrapped operation on valid operands.
LEMMA OperationFacts ==
  ASSUME NEW g \in Guarded!Guards, NEW h \in Guarded!Outcomes(g, TRUE)
  PROVE  /\ h \in Guarded!Guards
         /\ ~h.failed => h = g
         /\ g.failure # "INVALID" => h.failure # "INVALID"
<1>1. CASE h = g
  BY <1>1
<1>2. ASSUME NEW k \in StopKinds, h = Guarded!RunStops(g, k)
      PROVE  /\ h \in Guarded!Guards /\ h.failed
             /\ g.failure # "INVALID" => h.failure # "INVALID"
  BY <1>2, StopFacts
<1>3. CASE h = Guarded!OperationFails(g)
  <2>1. /\ Guarded!RecordFailure(g, "BDD") \in Guarded!Guards
        /\ g.failure # "INVALID" => Guarded!RecordFailure(g, "BDD").failure # "INVALID"
    BY DEF Guarded!Guards, Guarded!FailureKinds, Guarded!RecordFailure
  <2> QED
    BY <1>3, <2>1 DEF Guarded!Guards, Guarded!OperationFails
<1>4. h = g \/ h = Guarded!OperationFails(g) \/ \E k \in StopKinds : h = Guarded!RunStops(g, k)
  BY DEF Guarded!Outcomes
<1> QED
  BY <1>1, <1>2, <1>3, <1>4

LEMMA RecordFacts ==
  ASSUME NEW g \in Guarded!Guards, NEW k \in Guarded!FailureKinds
  PROVE  /\ Guarded!RecordFailure(g, k) \in Guarded!Guards
         /\ k # "NONE" => Guarded!RecordFailure(g, k).failure # "NONE"
         /\ k # "INVALID" /\ g.failure # "INVALID" =>
              Guarded!RecordFailure(g, k).failure # "INVALID"
BY DEF Guarded!Guards, Guarded!FailureKinds, Guarded!RecordFailure

-----------------------------------------------------------------------------
\* The game and its indices.
LEMMA GameFacts ==
  ASSUME game \in Games
  PROVE  /\ game \in GameRecords
         /\ NumGoals(game) \in Nat /\ NumFairs(game) \in Nat /\ NumFairs(game) >= 1
         /\ \A k \in GoalIx : game.goals[k] \subseteq State
         /\ \A a \in FairIx : Fair(game, a) \subseteq State
         /\ game.reset \in State
<1>1. game \in GameRecords
  BY Gr1Constants
<1>2. /\ game.goals \in Seq(SUBSET State) /\ game.fairs \in Seq(SUBSET State)
      /\ game.reset \in State
  BY <1>1 DEF GameRecords
<1>3. NumGoals(game) \in Nat /\ \A k \in GoalIx : game.goals[k] \subseteq State
  BY <1>2 DEF NumGoals, GoalIx
<1>4. /\ NumFairs(game) \in Nat /\ NumFairs(game) >= 1
      /\ \A a \in FairIx : Fair(game, a) \subseteq State
  <2>1. CASE Len(game.fairs) = 0
    BY <2>1 DEF NumFairs, Fair, FairIx
  <2>2. CASE Len(game.fairs) # 0
    BY <1>2, <2>2 DEF NumFairs, Fair, FairIx
  <2> QED BY <2>1, <2>2
<1> QED BY <1>1, <1>2, <1>3, <1>4

LEMMA PreTypes ==
  ASSUME NEW T
  PROVE  CPre(game, T) \subseteq State /\ DPre(game, T) \subseteq State
BY DEF CPre, DPre

\* Starting a goal, of the fixpoint or of its dual, keeps the types.
LEMMA StartTypes ==
  ASSUME TypeOK, NEW k \in GoalIx, NEW levelsY \in Levelled
  PROVE  /\ StartGoal(k, xs, levelsY) =>
              /\ j' = k /\ i' = 1 /\ j' \in GoalIx /\ i' \in FairIx
              /\ mid' = {} /\ gathered' = {} /\ inner' = State
              /\ xs' \in Ranked /\ ys' \in Levelled
         /\ StartDualGoal(k) =>
              /\ j' = k /\ i' = 1 /\ j' \in GoalIx /\ i' \in FairIx
              /\ mid' = State /\ gathered' = State /\ inner' = {}
<1>1. NumGoals(game) \in Nat /\ NumFairs(game) \in Nat /\ NumFairs(game) >= 1
  BY GameFacts DEF TypeOK
<1>2. 1 \in FairIx
  BY <1>1 DEF FairIx
<1>3. ASSUME StartGoal(k, xs, levelsY)
      PROVE  /\ j' = k /\ i' = 1 /\ j' \in GoalIx /\ i' \in FairIx
             /\ mid' = {} /\ gathered' = {} /\ inner' = State
             /\ xs' \in Ranked /\ ys' \in Levelled
  <2>1. xs' \in Ranked
    BY <1>3 DEF StartGoal, TypeOK, Ranked
  <2>2. ys' \in Levelled
    BY <1>3 DEF StartGoal, Levelled
  <2> QED BY <1>2, <1>3, <2>1, <2>2 DEF StartGoal
<1> QED BY <1>2, <1>3 DEF StartDualGoal

-----------------------------------------------------------------------------
\* The indices of the running fixpoints are goals and assumptions of the game,
\* and a game that gets past the entry has a goal.
Fixpoint == {"x", "y", "w"}
Dual == {"dx", "dy", "dz"}

Indices ==
  /\ pc \in Phases \ {"enter", "settle", "returned", "done"} => 1 \in GoalIx
  /\ pc \in Fixpoint \cup Dual => j \in GoalIx /\ i \in FairIx

\* No step changes the game or the options.
LEMMA InputsKept ==
  ASSUME [Next]_vars
  PROVE  /\ game' = game /\ opts' = opts
         /\ GoalIx' = GoalIx /\ FairIx' = FairIx
         /\ Ranked' = Ranked /\ Levelled' = Levelled
<1>1. game' = game /\ opts' = opts
  BY DEF Next, vars, BadBuffers, EarlyReturn, SetUp, SetUpFails, Construct,
         DescendX, SettleX, ClimbY, SettleY, DescendW, SettleW, FixpointFails,
         Verdict, VerdictFails, ClimbDualX, SettleDualX, DescendDualY,
         SettleDualY, ClimbDualZ, SettleDualZ, DualFails, CounterStrategy,
         Relation, Convert, ExtractionFails, Poll, Export, ExportFails, Settle,
         ReturnUnstaged, Publish, Withdraw
<1> QED BY <1>1 DEF GoalIx, FairIx, Ranked, Levelled

LEMMA EmptyLevels == NoLevels \in Ranked /\ NoSets \in Levelled
BY DEF NoLevels, NoSets, Ranked, Levelled

LEMMA AppendTyped ==
  ASSUME NEW T, NEW s \in Seq(T), NEW e \in T
  PROVE  Append(s, e) \in Seq(T)
OBVIOUS

LEMMA RankAppended ==
  ASSUME NEW g \in GoalIx, NEW a \in FairIx, NEW S \in SUBSET State,
         NEW f \in Ranked
  PROVE  [f EXCEPT ![<<g, a>>] = Append(@, S)] \in Ranked
<1>1. f[<<g, a>>] \in Seq(SUBSET State)
  BY DEF Ranked
<1>2. Append(f[<<g, a>>], S) \in Seq(SUBSET State)
  BY <1>1, AppendTyped
<1> QED BY <1>2 DEF Ranked

LEMMA RankCleared ==
  ASSUME NEW f \in Ranked, NEW ga
  PROVE  [f EXCEPT ![ga] = << >>] \in Ranked
<1>1. << >> \in Seq(SUBSET State)
  OBVIOUS
<1> QED BY <1>1 DEF Ranked

LEMMA LevelAppended ==
  ASSUME NEW g \in GoalIx, NEW S \in SUBSET State, NEW f \in Levelled
  PROVE  [f EXCEPT ![g] = Append(@, S)] \in Levelled
<1>1. f[g] \in Seq(SUBSET State)
  BY DEF Levelled
<1>2. Append(f[g], S) \in Seq(SUBSET State)
  BY <1>1, AppendTyped
<1> QED BY <1>2 DEF Levelled

-----------------------------------------------------------------------------
\* Types: of the guard, of the control and of the approximations.
ControlTyped ==
  /\ pc \in Phases
  /\ certFailed \in BOOLEAN /\ ok \in BOOLEAN /\ unreal \in BOOLEAN
  /\ strat.none \in BOOLEAN /\ envStrat.none \in BOOLEAN
  /\ artifacts \subseteq opts.exports
  /\ status \in {"none", "REALIZABLE", "UNREALIZABLE", "ERROR"}

LoopTyped ==
  /\ outer \subseteq State /\ combined \subseteq State /\ mid \subseteq State
  /\ gathered \subseteq State /\ inner \subseteq State
  /\ W \subseteq State /\ L \subseteq State
  /\ j \in 0..NumGoals(game) /\ i \in 0..NumFairs(game)
  /\ xs \in Ranked /\ ys \in Levelled
  /\ levels \in Seq([z : SUBSET State, y : Levelled, x : Ranked])

LEMMA TypeParts ==
  TypeOK <=> /\ game \in Games /\ opts \in Options
             /\ guard \in Guarded!Guards /\ ControlTyped /\ LoopTyped
BY DEF TypeOK, ControlTyped, LoopTyped

LEMMA GuardStep ==
  ASSUME TypeOK, [Next]_vars
  PROVE  guard' \in Guarded!Guards
<1>0. guard \in Guarded!Guards
  BY DEF TypeOK
<1>1. \A k \in {"INVALID", "CONFIGURATION", "NONE", "HOST", "CONVERSION",
                "ARTIFACT_LIMIT"} : Guarded!RecordFailure(guard, k) \in Guarded!Guards
  BY <1>0, RecordFacts DEF Guarded!FailureKinds
<1>2. \A h \in Guarded!Outcomes(guard, TRUE) : h \in Guarded!Guards
  BY <1>0, OperationFacts
<1>3. \A k \in StopKinds : Guarded!RunStops(guard, k) \in Guarded!Guards
  BY <1>0, StopFacts
<1> HIDE DEF Guarded!Guards
<1> QED
  BY <1>0, <1>1, <1>2, <1>3
     DEF Next, vars, BadBuffers, EarlyReturn, SetUp, SetUpFails, Construct,
         DescendX, SettleX, ClimbY, SettleY, DescendW, SettleW, FixpointFails,
         Verdict, VerdictFails, ClimbDualX, SettleDualX, DescendDualY,
         SettleDualY, ClimbDualZ, SettleDualZ, DualFails, CounterStrategy,
         Relation, Convert, ExtractionFails, Poll, Export, ExportFails, Settle,
         ReturnUnstaged, Publish, Withdraw, Succeeds, OperationFailed

LEMMA ControlStep ==
  ASSUME TypeOK, [Next]_vars
  PROVE  ControlTyped'
<1>0. ControlTyped /\ opts' = opts
  BY TypeParts, InputsKept
<1> USE <1>0 DEF ControlTyped, Phases, result, report
<1>1. CASE BadBuffers \/ EarlyReturn \/ SetUp \/ SetUpFails
  BY <1>1 DEF BadBuffers, EarlyReturn, SetUp, SetUpFails
<1>2. CASE Construct \/ DescendX \/ SettleX \/ ClimbY \/ SettleY \/ DescendW
           \/ SettleW \/ FixpointFails
  BY <1>2 DEF Construct, DescendX, SettleX, ClimbY, SettleY, DescendW, SettleW,
              FixpointFails
<1>3. CASE Verdict
  <2>1. /\ unreal' \in BOOLEAN /\ certFailed' \in BOOLEAN /\ ok' \in BOOLEAN
    BY <1>3, Zenon DEF Verdict
  <2>2. pc' \in Phases
    BY <1>3 DEF Verdict
  <2> QED BY <1>3, <2>1, <2>2 DEF Verdict
<1>4. CASE VerdictFails \/ ClimbDualX \/ SettleDualX \/ DescendDualY
           \/ SettleDualY \/ ClimbDualZ \/ SettleDualZ \/ DualFails
  BY <1>4 DEF VerdictFails, ClimbDualX, SettleDualX, DescendDualY, SettleDualY,
              ClimbDualZ, SettleDualZ, DualFails
<1>5. CASE CounterStrategy
  BY <1>5 DEF CounterStrategy
<1>6. CASE Relation \/ ExtractionFails
  BY <1>6 DEF Relation, ExtractionFails
<1>12. CASE Convert
  <2>1. strat'.none = FALSE
    BY <1>12 DEF Convert
  <2> QED BY <1>12, <2>1 DEF Convert
<1>7. CASE Poll("poll", "policy") \/ Poll("poll2", "settle")
  <2>1. ok' \in BOOLEAN
    BY <1>7, Zenon DEF Poll
  <2> QED BY <1>7, <2>1 DEF Poll
<1>8. CASE \E kind \in {"policy", "certificate"} : Export(kind) \/ ExportFails(kind)
  <2>1. PICK kind \in {"policy", "certificate"} : Export(kind) \/ ExportFails(kind)
    BY <1>8
  <2>2. CASE Export(kind)
    BY <2>2 DEF Export, NextExport
  <2>3. CASE ExportFails(kind)
    BY <2>3 DEF ExportFails, None
  <2> QED BY <2>1, <2>2, <2>3
<1>9. CASE Settle
  <2>1. unreal' \in BOOLEAN
    BY <1>9, Zenon DEF Settle
  <2> QED BY <1>9, <2>1 DEF Settle, None
<1>10. CASE ReturnUnstaged \/ Publish
  BY <1>10 DEF ReturnUnstaged, Publish, Reported
<1>13. CASE Withdraw
  BY <1>13 DEF Withdraw, None
<1>11. CASE UNCHANGED vars
  BY <1>11 DEF vars
<1> QED
  BY <1>1, <1>2, <1>3, <1>4, <1>5, <1>6, <1>7, <1>8, <1>9, <1>10, <1>11,
     <1>12, <1>13 DEF Next

\* The steps that leave the approximations alone.
LEMMA LoopKept ==
  ASSUME [Next]_vars,
         ~(\/ Construct \/ DescendX \/ SettleX \/ ClimbY \/ SettleY \/ DescendW
           \/ SettleW \/ Verdict \/ ClimbDualX \/ SettleDualX \/ DescendDualY
           \/ SettleDualY \/ ClimbDualZ \/ SettleDualZ)
  PROVE  UNCHANGED <<outer, combined, mid, gathered, inner, j, i, xs, ys, W,
                     levels, L>>
BY DEF Next, vars, BadBuffers, EarlyReturn, SetUp, SetUpFails, FixpointFails,
       VerdictFails, DualFails, CounterStrategy, Relation, Convert,
       ExtractionFails, Poll, Export, ExportFails, Settle, ReturnUnstaged,
       Publish, Withdraw, loop, result

LEMMA LoopStep ==
  ASSUME TypeOK, Indices, [Next]_vars
  PROVE  LoopTyped'
<1>0. /\ LoopTyped /\ game' = game /\ Ranked' = Ranked /\ Levelled' = Levelled
      /\ GoalIx' = GoalIx /\ FairIx' = FairIx
      /\ game \in Games
  BY TypeParts, InputsKept
<1>n. NumGoals(game) \in Nat /\ NumFairs(game) \in Nat /\ NumFairs(game) >= 1
  BY <1>0, GameFacts
<1>g. \A k \in GoalIx : k \in Nat /\ k \in 0..NumGoals(game)
  BY <1>n DEF GoalIx
<1>f. \A k \in FairIx : k \in Nat /\ k \in 0..NumFairs(game)
  BY <1>n DEF FairIx
<1>m. \A k \in GoalIx : k < NumGoals(game) => k + 1 \in GoalIx
  BY <1>n DEF GoalIx
<1>o. \A k \in FairIx : k < NumFairs(game) => k + 1 \in FairIx
  BY <1>n DEF FairIx
<1>e. NoLevels \in Ranked /\ NoSets \in Levelled
  BY EmptyLevels
<1> HIDE DEF Ranked, Levelled, GoalIx, FairIx
<1>1. CASE Construct
  <2>1. StartGoal(1, xs, ys) /\ 1 \in GoalIx
    BY <1>1 DEF Construct, Indices, Phases
  <2> QED
    BY <1>0, <1>1, <1>g, <1>f, <2>1, StartTypes DEF Construct, LoopTyped, result
<1>2. CASE DescendX
  BY <1>0, <1>2, PreTypes DEF DescendX, LoopTyped, result
<1>3. CASE SettleX
  <2>1. j \in GoalIx /\ i \in FairIx
    BY <1>3 DEF SettleX, Indices, Fixpoint
  <2>2. xs' \in Ranked
    BY <1>0, <1>3, <2>1, RankAppended DEF SettleX, LoopTyped
  <2>3. i' \in FairIx /\ inner' \subseteq State
    BY <1>0, <1>3, <1>o, <2>1 DEF SettleX, LoopTyped
  <2> QED
    BY <1>0, <1>3, <1>f, <2>2, <2>3 DEF SettleX, LoopTyped, result
<1>4. CASE ClimbY
  <2>1. j \in GoalIx
    BY <1>4 DEF ClimbY, Indices, Fixpoint
  <2>2. ys' \in Levelled
    BY <1>0, <1>4, <2>1, LevelAppended DEF ClimbY, LoopTyped
  <2> QED
    BY <1>0, <1>4, <1>n, <2>2 DEF ClimbY, LoopTyped, result
<1>5. CASE SettleY
  <2>1. j \in GoalIx
    BY <1>5 DEF SettleY, Indices, Fixpoint
  <2> DEFINE kept == [ys EXCEPT ![j] = Append(@, gathered)]
  <2>2. kept \in Levelled
    BY <1>0, <2>1, LevelAppended DEF LoopTyped
  <2>3. CASE j < NumGoals(game)
    <3>1. StartGoal(j + 1, xs, kept)
      BY <1>5, <2>3 DEF SettleY
    <3>2. j + 1 \in GoalIx
      BY <1>m, <2>1, <2>3
    <3> HIDE DEF kept
    <3>3. /\ j' \in GoalIx /\ i' \in FairIx
          /\ mid' = {} /\ gathered' = {} /\ inner' = State
          /\ xs' \in Ranked /\ ys' \in Levelled
      BY <2>2, <3>1, <3>2, StartTypes
    <3> QED
      BY <1>0, <1>5, <1>g, <1>f, <3>3 DEF SettleY, LoopTyped, result
  <2>4. CASE ~(j < NumGoals(game))
    BY <1>0, <1>5, <2>2, <2>4 DEF SettleY, LoopTyped, result
  <2> QED BY <2>3, <2>4
<1>6. CASE DescendW
  <2>1. StartGoal(1, xs, ys) /\ 1 \in GoalIx
    BY <1>6 DEF DescendW, Indices, Phases
  <2> QED
    BY <1>0, <1>6, <1>g, <1>f, <2>1, StartTypes DEF DescendW, LoopTyped, result
<1>7. CASE SettleW
  BY <1>0, <1>7 DEF SettleW, LoopTyped, loop
<1>8. CASE Verdict
  <2>1. CASE unreal' /\ ok'
    <3>1. StartDualGoal(1) /\ 1 \in GoalIx
      BY <1>8, <2>1 DEF Verdict, Indices, Phases
    <3>2. ys \in Levelled
      BY <1>0 DEF LoopTyped
    <3> QED
      BY <1>0, <1>8, <1>g, <1>f, <1>e, <2>1, <3>1, <3>2, StartTypes
         DEF Verdict, LoopTyped, result
  <2>2. CASE ~(unreal' /\ ok')
    BY <1>0, <1>8, <2>2 DEF Verdict, LoopTyped, loop, result
  <2> QED BY <2>1, <2>2
<1>9. CASE ClimbDualX
  <2>1. j \in GoalIx /\ i \in FairIx
    BY <1>9 DEF ClimbDualX, Indices, Dual
  <2>2. xs' \in Ranked
    BY <1>0, <1>9, <2>1, RankAppended, PreTypes DEF ClimbDualX, LoopTyped
  <2> QED
    BY <1>0, <1>9, <2>2, PreTypes DEF ClimbDualX, LoopTyped, result
<1>10. CASE SettleDualX
  <2>1. j \in GoalIx /\ i \in FairIx
    BY <1>10 DEF SettleDualX, Indices, Dual
  <2> DEFINE kept == [xs EXCEPT ![<<j, i>>] = Append(@, inner)]
  <2>2. kept \in Ranked
    BY <1>0, <2>1, RankAppended DEF LoopTyped
  <2>3. CASE i < NumFairs(game)
    <3>1. i + 1 \in FairIx
      BY <1>o, <2>1, <2>3
    <3>2. xs' = [kept EXCEPT ![<<j, i + 1>>] = << >>]
      BY <1>10, <2>3 DEF SettleDualX
    <3>3. xs' \in Ranked
      <4> HIDE DEF kept
      <4> QED BY <2>2, <3>2, RankCleared
    <3> QED
      BY <1>0, <1>10, <1>f, <2>3, <3>1, <3>3 DEF SettleDualX, LoopTyped, result
  <2>4. CASE ~(i < NumFairs(game))
    BY <1>0, <1>10, <2>2, <2>4 DEF SettleDualX, LoopTyped, result
  <2> QED BY <2>3, <2>4
<1>11. CASE DescendDualY
  <2>1. xs' \in Ranked
    BY <1>0, <1>11, RankCleared DEF DescendDualY, LoopTyped
  <2> QED
    BY <1>0, <1>11, <1>n, <2>1 DEF DescendDualY, LoopTyped, result
<1>12. CASE SettleDualY
  <2>1. j \in GoalIx
    BY <1>12 DEF SettleDualY, Indices, Dual
  <2>2. ys' \in Levelled
    <3>1. <<mid>> \in Seq(SUBSET State)
      BY <1>0 DEF LoopTyped
    <3> QED BY <1>0, <1>12, <3>1 DEF SettleDualY, Levelled, LoopTyped
  <2>3. CASE j < NumGoals(game)
    <3>1. StartDualGoal(j + 1) /\ j + 1 \in GoalIx
      BY <1>12, <1>m, <2>1, <2>3 DEF SettleDualY
    <3>2. /\ j' \in GoalIx /\ i' \in FairIx
          /\ mid' = State /\ gathered' = State /\ inner' = {}
      BY <1>0, <3>1, StartTypes DEF LoopTyped
    <3> QED
      BY <1>0, <1>12, <1>g, <1>f, <2>2, <3>2 DEF SettleDualY, LoopTyped, result
  <2>4. CASE ~(j < NumGoals(game))
    BY <1>0, <1>12, <2>2, <2>4 DEF SettleDualY, LoopTyped, result
  <2> QED BY <2>3, <2>4
<1>13. CASE ClimbDualZ
  <2>1. StartDualGoal(1) /\ 1 \in GoalIx
    BY <1>13 DEF ClimbDualZ, Indices, Phases
  <2>2. levels' \in Seq([z : SUBSET State, y : Levelled, x : Ranked])
    <3>1. [z |-> combined, y |-> ys, x |-> xs] \in
            [z : SUBSET State, y : Levelled, x : Ranked]
      BY <1>0 DEF LoopTyped
    <3> QED BY <1>0, <1>13, <3>1, AppendTyped DEF ClimbDualZ, LoopTyped
  <2>3. /\ j' \in GoalIx /\ i' \in FairIx
        /\ mid' = State /\ gathered' = State /\ inner' = {}
    BY <1>0, <2>1, StartTypes DEF LoopTyped
  <2> QED
    BY <1>0, <1>13, <1>g, <1>f, <1>e, <2>2, <2>3 DEF ClimbDualZ, LoopTyped
<1>14. CASE SettleDualZ
  BY <1>0, <1>14 DEF SettleDualZ, LoopTyped, loop
<1>15. CASE ~(\/ Construct \/ DescendX \/ SettleX \/ ClimbY \/ SettleY \/ DescendW
              \/ SettleW \/ Verdict \/ ClimbDualX \/ SettleDualX \/ DescendDualY
              \/ SettleDualY \/ ClimbDualZ \/ SettleDualZ)
  BY <1>0, <1>15, LoopKept DEF LoopTyped
<1> QED
  BY <1>1, <1>2, <1>3, <1>4, <1>5, <1>6, <1>7, <1>8, <1>9, <1>10, <1>11, <1>12,
     <1>13, <1>14, <1>15

LEMMA IndicesStep ==
  ASSUME TypeOK, Indices, [Next]_vars
  PROVE  Indices'
<1>0. /\ game \in Games /\ GoalIx' = GoalIx /\ FairIx' = FairIx
  BY InputsKept DEF TypeOK
<1>n. NumGoals(game) \in Nat /\ NumFairs(game) \in Nat /\ NumFairs(game) >= 1
  BY <1>0, GameFacts
<1>1. \A k \in GoalIx : k < NumGoals(game) => k + 1 \in GoalIx
  BY <1>n DEF GoalIx
<1>2. \A k \in FairIx : k < NumFairs(game) => k + 1 \in FairIx
  BY <1>n DEF FairIx
<1>3. 1 \in FairIx /\ (GoalIx # {} => 1 \in GoalIx)
  BY <1>n DEF FairIx, GoalIx
<1> HIDE DEF GoalIx, FairIx
<1>4. pc' \in Phases \ {"enter", "settle", "returned", "done"} => 1 \in GoalIx
  BY <1>3 DEF Indices, Phases, Next, vars, BadBuffers, EarlyReturn, SetUp, SetUpFails,
     Construct, DescendX, SettleX, ClimbY, SettleY, DescendW, SettleW,
     FixpointFails, Verdict, VerdictFails, ClimbDualX, SettleDualX, DescendDualY,
     SettleDualY, ClimbDualZ, SettleDualZ, DualFails, CounterStrategy,
     Relation, Convert, ExtractionFails, Poll, Export, ExportFails, Settle,
     ReturnUnstaged, Publish, Withdraw, NextExport
<1>5. ASSUME pc' \in Fixpoint \cup Dual
      PROVE  j' \in GoalIx /\ i' \in FairIx
  <2> USE <1>5 DEF Fixpoint, Dual
  <2>1. CASE Construct \/ DescendX \/ SettleX \/ ClimbY \/ SettleY \/ DescendW
             \/ SettleW \/ FixpointFails
    <3>1. 1 \in GoalIx /\ (pc \in Fixpoint => j \in GoalIx /\ i \in FairIx)
      BY <2>1 DEF Indices, Phases, Construct, DescendX, SettleX, ClimbY, SettleY,
                  DescendW, SettleW, FixpointFails
    <3> QED
      BY <1>1, <1>2, <1>3, <2>1, <3>1
         DEF Construct, DescendX, SettleX, ClimbY, SettleY, DescendW, SettleW,
             FixpointFails, StartGoal
  <2>2. CASE Verdict
    BY <1>3, <2>2 DEF Verdict, Indices, Phases, StartDualGoal
  <2>3. CASE ClimbDualX \/ SettleDualX \/ DescendDualY \/ SettleDualY
             \/ ClimbDualZ \/ SettleDualZ \/ DualFails
    <3>1. 1 \in GoalIx /\ (pc \in Dual => j \in GoalIx /\ i \in FairIx)
      BY <2>3 DEF Indices, Phases, ClimbDualX, SettleDualX, DescendDualY,
                  SettleDualY, ClimbDualZ, SettleDualZ, DualFails
    <3> QED
      BY <1>1, <1>2, <1>3, <2>3, <3>1
         DEF ClimbDualX, SettleDualX, DescendDualY, SettleDualY, ClimbDualZ,
             SettleDualZ, DualFails, StartDualGoal
  <2>4. CASE \/ BadBuffers \/ EarlyReturn \/ SetUp \/ SetUpFails \/ VerdictFails
             \/ CounterStrategy \/ Relation \/ Convert \/ ExtractionFails
             \/ Poll("poll", "policy") \/ Poll("poll2", "settle")
             \/ \E kind \in {"policy", "certificate"} : Export(kind) \/ ExportFails(kind)
             \/ Settle \/ ReturnUnstaged \/ Publish \/ Withdraw
    BY <2>4 DEF BadBuffers, EarlyReturn, SetUp, SetUpFails, VerdictFails,
         CounterStrategy, Relation, Convert, ExtractionFails, Poll, Export,
         ExportFails, Settle, ReturnUnstaged, Publish, Withdraw, NextExport
  <2>5. CASE UNCHANGED vars
    BY <2>5 DEF vars, loop, Indices
  <2> QED BY <2>1, <2>2, <2>3, <2>4, <2>5 DEF Next
<1> QED BY <1>0, <1>4, <1>5 DEF Indices

LEMMA TypesInit == Init => TypeOK /\ Indices
<1> SUFFICES ASSUME Init PROVE TypeOK /\ Indices
  OBVIOUS
<1>1. /\ game \in Games /\ opts \in Options /\ pc = "enter"
      /\ guard = Guarded!FreshGuard
  BY DEF Init
<1>2. NumGoals(game) \in Nat /\ NumFairs(game) \in Nat
  BY <1>1, GameFacts
<1>3. LoopTyped
  BY <1>2, EmptyLevels DEF Init, LoopTyped
<1>4. ControlTyped
  BY DEF Init, ControlTyped, Phases, None
<1> QED BY <1>1, <1>3, <1>4, TypeParts, FreshFacts DEF Indices, Fixpoint, Dual

LEMMA Typing == Spec => [](TypeOK /\ Indices)
<1>1. TypeOK /\ Indices /\ [Next]_vars => (TypeOK /\ Indices)'
  <2> SUFFICES ASSUME TypeOK, Indices, [Next]_vars PROVE (TypeOK /\ Indices)'
    OBVIOUS
  <2>1. /\ game' \in Games /\ opts' \in Options
    BY InputsKept DEF TypeOK
  <2>2. guard' \in Guarded!Guards /\ ControlTyped' /\ LoopTyped' /\ Indices'
    BY GuardStep, ControlStep, LoopStep, IndicesStep
  <2>3. TypeOK'
    <3> USE <2>1, <2>2
    <3> QED BY DEF TypeOK, ControlTyped, LoopTyped
  <2> QED BY <2>2, <2>3
<1> QED BY <1>1, TypesInit, PTL DEF Spec

-----------------------------------------------------------------------------
\* What each phase knows of the report to come.  A solve that is still under way
\* has recorded nothing; the verdict of a lost game is only worked on when an
\* export is wanted and the reduction was exact; what reaches the end with a
\* verdict has no failure on record.
Early == {"enter", "construct", "x", "y", "w", "reset", "relation", "skolem"}
Refuting == {"dx", "dy", "dz", "counterstrategy"}
Late == {"poll", "policy", "certificate", "poll2"}

Clean == guard.failure = "NONE" /\ ~certFailed

ReportInv ==
  /\ pc # "done" => status = "none"
  /\ pc = "enter" => artifacts = {}
  /\ pc \in Early \cup Refuting \cup Late => Clean /\ ok /\ ~guard.failed
  /\ pc \in Early => ~unreal
  /\ pc \in Early \cup Refuting => strat.none
  /\ pc \in Refuting \cup Late /\ unreal => ~opts.strict /\ opts.exports # {}
  /\ pc = "settle" /\ (ok \/ (unreal /\ opts.exports = {})) => Clean
  /\ pc = "settle" /\ ok /\ unreal => ~opts.strict
  /\ pc = "returned" /\ opts.exports = {} /\ (~strat.none \/ unreal) => Clean
  /\ pc = "returned" /\ unreal /\ opts.strict => opts.exports = {}
  /\ pc = "done" => HonestReport

LEMMA ReportStep ==
  ASSUME TypeOK, TypeOK', ReportInv, [Next]_vars
  PROVE  ReportInv'
<1>0. /\ opts' = opts /\ guard \in Guarded!Guards
      /\ certFailed \in BOOLEAN /\ ok \in BOOLEAN /\ unreal \in BOOLEAN
      /\ artifacts \subseteq opts.exports /\ artifacts' \subseteq opts.exports
  BY InputsKept DEF TypeOK
<1>x. opts.exports # {} => opts.staged
  BY OptionAssumption DEF TypeOK, OptionRecords
<1>s. Succeeds => guard' = guard
  BY <1>0, OperationFacts DEF Succeeds
<1>r. \A k \in {"INVALID", "CONFIGURATION", "HOST"} :
        Guarded!RecordFailure(guard, k).failure # "NONE"
  BY <1>0, RecordFacts DEF Guarded!FailureKinds
<1> USE <1>0 DEF ReportInv, Early, Refuting, Late, Clean, result, report
<1>1. CASE BadBuffers
  BY <1>1, <1>r DEF BadBuffers, HonestReport
<1>2. CASE EarlyReturn \/ SetUp \/ SetUpFails
  BY <1>2 DEF EarlyReturn, SetUp, SetUpFails
<1>3. CASE \/ Construct \/ DescendX \/ SettleX \/ ClimbY \/ SettleY \/ DescendW
           \/ SettleW
  BY <1>3, <1>s DEF Construct, DescendX, SettleX, ClimbY, SettleY, DescendW, SettleW
<1>4. CASE FixpointFails \/ VerdictFails \/ ExtractionFails
  BY <1>4 DEF FixpointFails, VerdictFails, ExtractionFails
<1>5. CASE Verdict
  <2>1. /\ certFailed' <=> (unreal' /\ opts.strict /\ opts.exports # {})
        /\ ok' <=> (unreal' => opts.exports # {} /\ ~opts.strict)
        /\ unreal' \in BOOLEAN /\ ok' \in BOOLEAN /\ certFailed' \in BOOLEAN
    BY <1>5, Zenon DEF Verdict
  <2>2. /\ pc = "reset" /\ UNCHANGED <<guard, strat, artifacts, status>>
        /\ pc' \in {"dx", "relation", "settle"}
        /\ pc' = "dx" => unreal' /\ ok'
        /\ pc' = "relation" => ok' /\ ~unreal'
        /\ pc' = "settle" => ~ok'
    BY <1>5, <2>1 DEF Verdict
  <2> QED BY <2>1, <2>2
<1>6. CASE \/ ClimbDualX \/ SettleDualX \/ DescendDualY \/ SettleDualY
           \/ ClimbDualZ \/ CounterStrategy
  BY <1>6, <1>s DEF ClimbDualX, SettleDualX, DescendDualY, SettleDualY,
                    ClimbDualZ, CounterStrategy
<1>7. CASE SettleDualZ
  BY <1>7 DEF SettleDualZ
<1>8. CASE DualFails
  BY <1>8 DEF DualFails
<1>9. CASE Relation \/ Convert
  BY <1>9, <1>s DEF Relation, Convert
<1>10. CASE Poll("poll", "policy") \/ Poll("poll2", "settle")
  <2>1. ok' \in BOOLEAN /\ (ok' <=> ~guard'.failed)
    BY <1>10, Zenon DEF Poll
  <2>2. ok' => guard' = guard
    BY <1>10, <2>1, StopFacts DEF Poll
  <2>3. /\ pc \in {"poll", "poll2"} /\ pc' \in {"policy", "settle"}
        /\ pc' # "settle" => ok'
        /\ UNCHANGED <<certFailed, unreal, strat, artifacts, status>>
    BY <1>10 DEF Poll
  <2> QED BY <2>1, <2>2, <2>3
<1>11. CASE \E kind \in {"policy", "certificate"} : Export(kind) \/ ExportFails(kind)
  <2>1. PICK kind \in {"policy", "certificate"} : Export(kind) \/ ExportFails(kind)
    BY <1>11
  <2>2. CASE Export(kind)
    BY <2>2 DEF Export, NextExport
  <2>3. CASE ExportFails(kind)
    BY <2>3 DEF ExportFails
  <2> QED BY <2>1, <2>2, <2>3
<1>12. CASE Settle
  <2>1. unreal' \in BOOLEAN /\ (unreal' <=> unreal /\ (ok \/ opts.exports = {}))
    BY <1>12, Zenon DEF Settle
  <2>2. /\ pc' = "returned" /\ status' = "none" /\ certFailed' = certFailed
        /\ ~ok => strat'.none
        /\ ~strat'.none \/ unreal' => guard' = guard
    BY <1>12, <2>1 DEF Settle, None
  <2> QED BY <1>12, <2>1, <2>2 DEF Settle
<1>13. CASE ReturnUnstaged
  <2>1. opts.exports = {} /\ artifacts = {} /\ ~opts.staged
    BY <1>13, <1>x DEF ReturnUnstaged
  <2>2. /\ UNCHANGED <<guard, certFailed, unreal, strat, artifacts>>
        /\ pc = "returned" /\ pc' = "done" /\ status' = Reported
    BY <1>13 DEF ReturnUnstaged
  <2> QED BY <2>1, <2>2 DEF Reported, HonestReport
<1>14. CASE Publish
  <2>1. /\ UNCHANGED <<guard, certFailed, unreal, strat, artifacts>>
        /\ pc = "returned" /\ pc' = "done" /\ status' = Reported
        /\ Clean /\ (~strat.none \/ unreal) /\ artifacts = opts.exports
    BY <1>14 DEF Publish, Complete
  <2> QED BY <2>1 DEF Reported, HonestReport
<1>15. CASE Withdraw
  BY <1>15, <1>r DEF Withdraw, HonestReport, None
<1>16. CASE UNCHANGED vars
  <2>1. UNCHANGED <<pc, guard, certFailed, ok, unreal, strat, artifacts, status>>
    BY <1>16 DEF vars
  <2> QED BY <2>1 DEF HonestReport
<1> QED
  BY <1>1, <1>2, <1>3, <1>4, <1>5, <1>6, <1>7, <1>8, <1>9, <1>10, <1>11, <1>12,
     <1>13, <1>14, <1>15, <1>16 DEF Next

LEMMA ReportInit == Init => ReportInv
BY FreshFacts DEF Init, ReportInv, Early, Refuting, Late, Clean, None

\* Whatever the solver tells its caller is honest (solve_gr1_oxidd): a verdict has
\* no failure on record and all its exports, an ERROR has a failure and none, and
\* no refutation of a strict reduction is exported.  For every game, every limit
\* and every choice of exports.
THEOREM ReportIsHonest == Spec => []HonestReport
<1>1. (TypeOK /\ Indices) /\ (TypeOK /\ Indices)' /\ ReportInv /\ [Next]_vars
        => ReportInv'
  BY ReportStep
<1>2. (TypeOK /\ Indices) /\ ReportInv => HonestReport
  BY DEF ReportInv, HonestReport
<1> QED BY <1>1, <1>2, Typing, ReportInit, PTL DEF Spec

-----------------------------------------------------------------------------
(***************************************************************************)
(* The three fixpoints as sets, by the theorem of Knaster and Tarski: a    *)
(* greatest fixpoint is the union of the sets inside their image, a least  *)
(* one the intersection of the sets that hold theirs.  State need not be   *)
(* finite.                                                                 *)
(***************************************************************************)
XTarget(g, k, a, Z, Y, X) == (Z \cap g.goals[k]) \cup Y \cup (X \ Fair(g, a))

NuX(g, k, a, Z, Y) ==
  UNION {X \in SUBSET State : X \subseteq CPre(g, XTarget(g, k, a, Z, Y, X))}

YRound(g, k, Z, Y) == UNION {NuX(g, k, a, Z, Y) : a \in 1..NumFairs(g)}

MuY(g, k, Z) ==
  {s \in State : \A Y \in SUBSET State : YRound(g, k, Z, Y) \subseteq Y => s \in Y}

ZRound(g, Z) == {s \in State : \A k \in 1..NumGoals(g) : s \in MuY(g, k, Z)}

Win(g) == UNION {Z \in SUBSET State : Z \subseteq ZRound(g, Z)}

LEMMA CPreMonotone ==
  ASSUME NEW g, NEW S, NEW T, S \subseteq T
  PROVE  CPre(g, S) \subseteq CPre(g, T)
BY DEF CPre, SafeInto

LEMMA NuXFixpoint ==
  ASSUME NEW g, NEW k, NEW a, NEW Z, NEW Y
  PROVE  /\ NuX(g, k, a, Z, Y) \subseteq State
         /\ NuX(g, k, a, Z, Y)
              \subseteq CPre(g, XTarget(g, k, a, Z, Y, NuX(g, k, a, Z, Y)))
         /\ \A X \in SUBSET State :
              X \subseteq CPre(g, XTarget(g, k, a, Z, Y, X)) => X \subseteq NuX(g, k, a, Z, Y)
<1> DEFINE N == NuX(g, k, a, Z, Y)
<1>1. N \subseteq State
  BY DEF NuX
<1>2. \A X \in SUBSET State :
        X \subseteq CPre(g, XTarget(g, k, a, Z, Y, X)) => X \subseteq N
  BY DEF NuX
<1>3. ASSUME NEW s \in N PROVE s \in CPre(g, XTarget(g, k, a, Z, Y, N))
  <2>1. PICK X \in SUBSET State :
          s \in X /\ X \subseteq CPre(g, XTarget(g, k, a, Z, Y, X))
    BY <1>3 DEF NuX
  <2>2. X \subseteq N
    BY <1>2, <2>1
  <2> HIDE DEF N
  <2>3. XTarget(g, k, a, Z, Y, X) \subseteq XTarget(g, k, a, Z, Y, N)
    BY <2>2 DEF XTarget
  <2> QED BY <2>1, <2>3, CPreMonotone
<1> QED BY <1>1, <1>2, <1>3

LEMMA NuXMonotone ==
  ASSUME NEW g, NEW k, NEW a, NEW Z1, NEW Z2, NEW Y1, NEW Y2,
         Z1 \subseteq Z2, Y1 \subseteq Y2
  PROVE  NuX(g, k, a, Z1, Y1) \subseteq NuX(g, k, a, Z2, Y2)
<1> DEFINE N == NuX(g, k, a, Z1, Y1)
<1>1. N \subseteq State /\ N \subseteq CPre(g, XTarget(g, k, a, Z1, Y1, N))
  BY NuXFixpoint
<1> HIDE DEF N
<1>2. XTarget(g, k, a, Z1, Y1, N) \subseteq XTarget(g, k, a, Z2, Y2, N)
  BY DEF XTarget
<1>3. N \subseteq CPre(g, XTarget(g, k, a, Z2, Y2, N))
  BY <1>1, <1>2, CPreMonotone
<1>4. N \subseteq NuX(g, k, a, Z2, Y2)
  BY <1>1, <1>3, NuXFixpoint
<1> QED BY <1>4 DEF N

LEMMA YRoundMonotone ==
  ASSUME NEW g, NEW k, NEW Z1, NEW Z2, NEW Y1, NEW Y2,
         Z1 \subseteq Z2, Y1 \subseteq Y2
  PROVE  YRound(g, k, Z1, Y1) \subseteq YRound(g, k, Z2, Y2)
<1> SUFFICES ASSUME NEW a \in 1..NumFairs(g)
             PROVE  NuX(g, k, a, Z1, Y1) \subseteq NuX(g, k, a, Z2, Y2)
  BY DEF YRound
<1> QED BY NuXMonotone

LEMMA MuYFixpoint ==
  ASSUME NEW g, NEW k, NEW Z
  PROVE  /\ MuY(g, k, Z) \subseteq State
         /\ YRound(g, k, Z, MuY(g, k, Z)) \subseteq MuY(g, k, Z)
         /\ \A Y \in SUBSET State : YRound(g, k, Z, Y) \subseteq Y => MuY(g, k, Z) \subseteq Y
<1> DEFINE M == MuY(g, k, Z)
<1>1. M \subseteq State
  BY DEF MuY
<1>2. \A Y \in SUBSET State : YRound(g, k, Z, Y) \subseteq Y => M \subseteq Y
  BY DEF MuY
<1>3. ASSUME NEW s \in YRound(g, k, Z, M) PROVE s \in M
  <2>1. s \in State
    BY <1>3, NuXFixpoint DEF YRound
  <2>2. ASSUME NEW Y \in SUBSET State, YRound(g, k, Z, Y) \subseteq Y
        PROVE  s \in Y
    <3>1. M \subseteq Y
      BY <1>2, <2>2
    <3> HIDE DEF M
    <3>2. YRound(g, k, Z, M) \subseteq YRound(g, k, Z, Y)
      BY <3>1, YRoundMonotone
    <3> QED BY <1>3, <2>2, <3>2
  <2> QED BY <2>1, <2>2 DEF MuY
<1> QED BY <1>1, <1>2, <1>3

LEMMA ZRoundMonotone ==
  ASSUME NEW g, NEW Z1, NEW Z2, Z1 \subseteq Z2
  PROVE  ZRound(g, Z1) \subseteq ZRound(g, Z2)
<1>1. ASSUME NEW k PROVE MuY(g, k, Z1) \subseteq MuY(g, k, Z2)
  <2> DEFINE M == MuY(g, k, Z2)
  <2>1. M \subseteq State /\ YRound(g, k, Z2, M) \subseteq M
    BY MuYFixpoint
  <2> HIDE DEF M
  <2>2. YRound(g, k, Z1, M) \subseteq YRound(g, k, Z2, M)
    BY YRoundMonotone
  <2>3. MuY(g, k, Z1) \subseteq M
    BY <2>1, <2>2, MuYFixpoint
  <2> QED BY <2>3 DEF M
<1> QED BY <1>1 DEF ZRound

LEMMA WinFixpoint ==
  ASSUME NEW g
  PROVE  /\ Win(g) \subseteq State /\ Win(g) \subseteq ZRound(g, Win(g))
         /\ \A Z \in SUBSET State : Z \subseteq ZRound(g, Z) => Z \subseteq Win(g)
<1>1. Win(g) \subseteq State
  BY DEF Win
<1>2. \A Z \in SUBSET State : Z \subseteq ZRound(g, Z) => Z \subseteq Win(g)
  BY DEF Win
<1>3. ASSUME NEW s \in Win(g) PROVE s \in ZRound(g, Win(g))
  <2>1. PICK Z \in SUBSET State : s \in Z /\ Z \subseteq ZRound(g, Z)
    BY <1>3 DEF Win
  <2>2. ZRound(g, Z) \subseteq ZRound(g, Win(g))
    BY <1>2, <2>1, ZRoundMonotone
  <2> QED BY <2>1, <2>2
<1> QED BY <1>1, <1>2, <1>3

-----------------------------------------------------------------------------
(***************************************************************************)
(* What the nested loop has computed, for outer approximation o, next one  *)
(* c, middle one m, next one d and inner one n; stated of values, because  *)
(* the dual loop is the same loop on the complements.                      *)
(***************************************************************************)
GoalsBefore(g, k, o) == {s \in State : \A e \in 1..(k - 1) : s \in MuY(g, e, o)}

FixY(g, k, o, c, m, d) ==
  /\ Win(g) \subseteq o
  /\ c = GoalsBefore(g, k, o)
  /\ m \subseteq MuY(g, k, o)
  /\ d = YRound(g, k, o, m)

FixX(g, k, a, o, c, m, d, n) ==
  /\ Win(g) \subseteq o
  /\ c = GoalsBefore(g, k, o)
  /\ m \subseteq MuY(g, k, o)
  /\ d = UNION {NuX(g, k, b, o, m) : b \in 1..(a - 1)}
  /\ NuX(g, k, a, o, m) \subseteq n

FixW(g, o, c) == Win(g) \subseteq o /\ c = ZRound(g, o)

LEMMA StartOuter ==
  ASSUME NEW g, NEW o, Win(g) \subseteq o
  PROVE  FixX(g, 1, 1, o, State, {}, {}, State)
BY NuXFixpoint DEF FixX, GoalsBefore

\* An inner round keeps the greatest fixpoint inside.
LEMMA InnerRound ==
  ASSUME NEW g, NEW k, NEW a, NEW o, NEW c, NEW m, NEW d, NEW n,
         FixX(g, k, a, o, c, m, d, n)
  PROVE  FixX(g, k, a, o, c, m, d, CPre(g, XTarget(g, k, a, o, m, n)))
<1> DEFINE N == NuX(g, k, a, o, m)
<1>1. N \subseteq n
  BY DEF FixX
<1>2. N \subseteq CPre(g, XTarget(g, k, a, o, m, N))
  BY NuXFixpoint
<1> HIDE DEF N
<1>3. XTarget(g, k, a, o, m, N) \subseteq XTarget(g, k, a, o, m, n)
  BY <1>1 DEF XTarget
<1>4. N \subseteq CPre(g, XTarget(g, k, a, o, m, n))
  BY <1>2, <1>3, CPreMonotone
<1> QED BY <1>4 DEF FixX, N

\* Once it converges it is the fixpoint, and the next assumption is taken.
LEMMA InnerSettled ==
  ASSUME NEW g, NEW k, NEW a \in 1..NumFairs(g), NEW o, NEW c, NEW m, NEW d,
         NEW n \in SUBSET State, NumFairs(g) \in Nat,
         FixX(g, k, a, o, c, m, d, n), CPre(g, XTarget(g, k, a, o, m, n)) = n
  PROVE  /\ a < NumFairs(g) => FixX(g, k, a + 1, o, c, m, d \cup n, State)
         /\ ~(a < NumFairs(g)) => FixY(g, k, o, c, m, d \cup n)
<1>1. n = NuX(g, k, a, o, m)
  BY NuXFixpoint DEF FixX
<1>2. d \cup n = UNION {NuX(g, k, b, o, m) : b \in 1..a}
  <2>1. 1..a = (1..(a - 1)) \cup {a}
    OBVIOUS
  <2> QED BY <1>1, <2>1 DEF FixX
<1>3. CASE a < NumFairs(g)
  <2>1. 1..((a + 1) - 1) = 1..a
    OBVIOUS
  <2> QED BY <1>2, <1>3, <2>1, NuXFixpoint DEF FixX
<1>4. CASE ~(a < NumFairs(g))
  <2>1. 1..NumFairs(g) = 1..a
    BY <1>4
  <2> QED BY <1>2, <1>4, <2>1 DEF FixX, FixY, YRound
<1> QED BY <1>3, <1>4

\* The middle round stays inside the least fixpoint.
LEMMA MiddleRound ==
  ASSUME NEW g, NEW k, NEW o, NEW c, NEW m, NEW d, FixY(g, k, o, c, m, d)
  PROVE  FixX(g, k, 1, o, c, d, {}, State)
<1>1. YRound(g, k, o, m) \subseteq YRound(g, k, o, MuY(g, k, o))
  BY YRoundMonotone DEF FixY
<1>2. d \subseteq MuY(g, k, o)
  BY <1>1, MuYFixpoint DEF FixY
<1> QED BY <1>2, NuXFixpoint DEF FixX, FixY

LEMMA MiddleSettled ==
  ASSUME NEW g, NEW k \in 1..NumGoals(g), NEW o, NEW c, NEW m \in SUBSET State,
         NumGoals(g) \in Nat, FixY(g, k, o, c, m, m)
  PROVE  /\ k < NumGoals(g) => FixX(g, k + 1, 1, o, c \cap m, {}, {}, State)
         /\ ~(k < NumGoals(g)) => FixW(g, o, c \cap m)
<1>1. m = MuY(g, k, o)
  BY MuYFixpoint DEF FixY
<1>2. c \cap m = {s \in State : \A e \in 1..k : s \in MuY(g, e, o)}
  <2>1. 1..k = (1..(k - 1)) \cup {k}
    OBVIOUS
  <2> QED BY <1>1, <2>1 DEF FixY, GoalsBefore
<1>3. CASE k < NumGoals(g)
  <2>1. 1..((k + 1) - 1) = 1..k
    OBVIOUS
  <2> QED BY <1>2, <1>3, <2>1, NuXFixpoint DEF FixX, FixY, GoalsBefore
<1>4. CASE ~(k < NumGoals(g))
  <2>1. 1..NumGoals(g) = 1..k
    BY <1>4
  <2> QED BY <1>2, <1>4, <2>1 DEF FixW, FixY, ZRound
<1> QED BY <1>3, <1>4

LEMMA OuterRound ==
  ASSUME NEW g, NEW o \in SUBSET State, NEW c, FixW(g, o, c)
  PROVE  Win(g) \subseteq c /\ (c = o => o = Win(g))
<1>1. ZRound(g, Win(g)) \subseteq ZRound(g, o)
  BY ZRoundMonotone DEF FixW
<1> QED BY <1>1, WinFixpoint DEF FixW

-----------------------------------------------------------------------------
\* The environment's predecessor is the complement of the controller's.
LEMMA PreDual ==
  ASSUME NEW g \in GameRecords, NEW T \in SUBSET State
  PROVE  State \ DPre(g, T) = CPre(g, State \ T)
<1>1. \A v \in Val : g.succ[v] \in State
  BY DEF GameRecords
<1>2. ASSUME NEW s \in State, NEW u \in UMove, NEW c \in CMove
      PROVE  <<s, u, c>> \in BadOrInto(g, T) <=> <<s, u, c>> \notin SafeInto(g, State \ T)
  <2>1. <<s, u, c>> \in Val
    BY DEF Val
  <2> QED BY <1>1, <2>1 DEF BadOrInto, SafeInto
<1> QED BY <1>2 DEF CPre, DPre

Co(S) == State \ S

\* One round of the dual's inner fixpoint, seen from the complements.
LEMMA DualRound ==
  ASSUME TypeOK, j \in GoalIx, i \in FairIx
  PROVE  Co(DPre(game, DualTarget)) =
           CPre(game, XTarget(game, j, i, Co(outer), Co(mid), Co(inner)))
<1>1. /\ game \in GameRecords /\ game.goals[j] \subseteq State
      /\ Fair(game, i) \subseteq State
  BY GameFacts DEF TypeOK
<1>2. outer \subseteq State /\ mid \subseteq State /\ inner \subseteq State
  BY DEF TypeOK
<1>3. DualTarget \subseteq State
  BY <1>2 DEF DualTarget
<1>4. State \ DualTarget = XTarget(game, j, i, Co(outer), Co(mid), Co(inner))
  BY <1>1, <1>2 DEF DualTarget, XTarget, Co
<1> QED BY <1>1, <1>3, <1>4, PreDual DEF Co

\* What the fixpoint has computed, and the dual on the complements; the region
\* they converge to, on both sides.
Decided == {"reset", "relation", "skolem"} \cup Refuting \cup Late

FixInv ==
  /\ pc = "x" => FixX(game, j, i, outer, combined, mid, gathered, inner)
  /\ pc = "y" => FixY(game, j, outer, combined, mid, gathered)
  /\ pc = "w" => FixW(game, outer, combined)
  /\ pc = "dx" => FixX(game, j, i, Co(outer), Co(combined), Co(mid), Co(gathered),
                       Co(inner))
  /\ pc = "dy" => FixY(game, j, Co(outer), Co(combined), Co(mid), Co(gathered))
  /\ pc = "dz" => FixW(game, Co(outer), Co(combined))
  /\ pc \in Decided => W = Win(game)
  /\ pc \in Refuting => game.reset \notin W
  /\ \/ pc = "counterstrategy"
     \/ pc \in Late /\ unreal
     => L = State \ W /\ game.reset \in L
  /\ pc = "settle" => guard.failure # "INVALID"

LEMMA FixStep ==
  ASSUME TypeOK, Indices, ReportInv, FixInv, [Next]_vars
  PROVE  FixInv'
<1>0. /\ game' = game /\ opts' = opts /\ guard \in Guarded!Guards /\ game \in Games
  BY InputsKept DEF TypeOK
<1>n. NumGoals(game) \in Nat /\ NumFairs(game) \in Nat
  BY <1>0, GameFacts
<1>t. /\ outer \in SUBSET State /\ combined \in SUBSET State /\ mid \in SUBSET State
      /\ gathered \in SUBSET State /\ inner \in SUBSET State
  BY DEF TypeOK
<1>j. pc \in Fixpoint \cup Dual => j \in 1..NumGoals(game) /\ i \in 1..NumFairs(game)
  BY DEF Indices, GoalIx, FairIx
<1>o. \A h \in Guarded!Outcomes(guard, TRUE) :
        guard.failure # "INVALID" => h.failure # "INVALID"
  BY <1>0, OperationFacts
<1>p. \A k \in StopKinds :
        guard.failure # "INVALID" => Guarded!RunStops(guard, k).failure # "INVALID"
  BY <1>0, StopFacts
<1>r. \A k \in {"HOST", "CONVERSION", "ARTIFACT_LIMIT"} :
        guard.failure # "INVALID" => Guarded!RecordFailure(guard, k).failure # "INVALID"
  BY <1>0, RecordFacts DEF Guarded!FailureKinds
<1>c. pc \in Early \cup Refuting \cup Late => guard.failure # "INVALID"
  BY DEF ReportInv, Clean
<1> USE <1>0
<1> USE DEF Decided, Refuting, Late, Early
<1>1. CASE Construct
  <2>1. pc' = "x" /\ j' = 1 /\ i' = 1 /\ outer' = State /\ combined' = State
        /\ mid' = {} /\ gathered' = {} /\ inner' = State
    BY <1>1 DEF Construct, StartGoal
  <2>2. FixX(game, 1, 1, State, State, {}, {}, State)
    BY StartOuter, WinFixpoint
  <2> QED BY <2>1, <2>2 DEF FixInv
<1>2. CASE DescendX
  <2>1. FixX(game, j, i, outer, combined, mid, gathered,
             CPre(game, XTarget(game, j, i, outer, mid, inner)))
    BY <1>2, InnerRound DEF DescendX, FixInv
  <2>2. /\ pc' = "x" /\ UNCHANGED <<outer, combined, mid, gathered, j, i>>
        /\ inner' = CPre(game, XTarget(game, j, i, outer, mid, inner))
    BY <1>2 DEF DescendX, Target, XTarget
  <2> QED BY <2>1, <2>2 DEF FixInv
<1>3. CASE SettleX
  <2>1. /\ pc = "x" /\ CPre(game, XTarget(game, j, i, outer, mid, inner)) = inner
        /\ UNCHANGED <<outer, combined, mid, j>> /\ gathered' = gathered \cup inner
    BY <1>3 DEF SettleX, Target, XTarget
  <2>2. /\ i < NumFairs(game) =>
             FixX(game, j, i + 1, outer, combined, mid, gathered \cup inner, State)
        /\ ~(i < NumFairs(game)) =>
             FixY(game, j, outer, combined, mid, gathered \cup inner)
    BY <1>j, <1>n, <1>t, <2>1, InnerSettled DEF FixInv, Fixpoint
  <2>3. \/ i < NumFairs(game) /\ i' = i + 1 /\ inner' = State /\ pc' = "x"
        \/ ~(i < NumFairs(game)) /\ pc' = "y"
    BY <1>3 DEF SettleX
  <2> QED BY <2>1, <2>2, <2>3 DEF FixInv
<1>4. CASE ClimbY
  <2>1. /\ pc' = "x" /\ UNCHANGED <<outer, combined, j>>
        /\ mid' = gathered /\ gathered' = {} /\ i' = 1 /\ inner' = State
    BY <1>4 DEF ClimbY
  <2>2. FixX(game, j, 1, outer, combined, gathered, {}, State)
    BY <1>4, MiddleRound DEF ClimbY, FixInv
  <2> QED BY <2>1, <2>2 DEF FixInv
<1>5. CASE SettleY
  <2>1. /\ pc = "y" /\ gathered = mid
        /\ outer' = outer /\ combined' = combined \cap mid
    BY <1>5 DEF SettleY
  <2>2. /\ j < NumGoals(game) =>
             FixX(game, j + 1, 1, outer, combined \cap mid, {}, {}, State)
        /\ ~(j < NumGoals(game)) => FixW(game, outer, combined \cap mid)
    BY <1>j, <1>n, <1>t, <2>1, MiddleSettled DEF FixInv, Fixpoint
  <2>3. \/ /\ j < NumGoals(game) /\ j' = j + 1 /\ i' = 1 /\ pc' = "x"
           /\ mid' = {} /\ gathered' = {} /\ inner' = State
        \/ ~(j < NumGoals(game)) /\ pc' = "w"
    BY <1>5 DEF SettleY, StartGoal
  <2> QED BY <2>1, <2>2, <2>3 DEF FixInv
<1>6. CASE DescendW
  <2>1. pc' = "x" /\ j' = 1 /\ i' = 1 /\ outer' = combined /\ combined' = State
        /\ mid' = {} /\ gathered' = {} /\ inner' = State
    BY <1>6 DEF DescendW, StartGoal
  <2>2. Win(game) \subseteq combined
    BY <1>6, <1>t, OuterRound DEF DescendW, FixInv
  <2>3. FixX(game, 1, 1, combined, State, {}, {}, State)
    BY <2>2, StartOuter
  <2> QED BY <2>1, <2>3 DEF FixInv
<1>7. CASE SettleW
  <2>1. outer = Win(game)
    BY <1>7, <1>t, OuterRound DEF SettleW, FixInv
  <2> QED BY <1>7, <2>1 DEF SettleW, FixInv
<1>8. CASE Verdict
  <2>1. W' = W /\ W = Win(game) /\ guard' = guard /\ pc = "reset"
    BY <1>8 DEF Verdict, FixInv, result
  <2>2. CASE unreal' /\ ok'
    <3>1. /\ pc' = "dx" /\ j' = 1 /\ i' = 1 /\ outer' = {} /\ combined' = {}
          /\ mid' = State /\ gathered' = State /\ inner' = {}
          /\ game.reset \notin W
      BY <1>8, <2>2 DEF Verdict, StartDualGoal
    <3>2. FixX(game, 1, 1, State, State, {}, {}, State)
      BY StartOuter, WinFixpoint
    <3>3. Co({}) = State /\ Co(State) = {}
      BY DEF Co
    <3> QED BY <2>1, <3>1, <3>2, <3>3 DEF FixInv
  <2>3. CASE ~(unreal' /\ ok')
    <3>1. pc' \in {"relation", "settle"}
      BY <1>8, <2>3 DEF Verdict
    <3> QED BY <1>c, <2>1, <3>1 DEF FixInv
  <2> QED BY <2>2, <2>3
<1>9. CASE ClimbDualX
  <2>0. pc = "dx" /\ j \in GoalIx /\ i \in FairIx
    BY <1>9 DEF ClimbDualX, Indices, Dual
  <2>1. FixX(game, j, i, Co(outer), Co(combined), Co(mid), Co(gathered),
             CPre(game, XTarget(game, j, i, Co(outer), Co(mid), Co(inner))))
    BY <2>0, InnerRound DEF FixInv
  <2>2. /\ pc' = "dx" /\ UNCHANGED <<outer, combined, mid, gathered, j, i, W>>
        /\ inner' = DPre(game, DualTarget)
    BY <1>9 DEF ClimbDualX, result
  <2>3. Co(inner') = CPre(game, XTarget(game, j, i, Co(outer), Co(mid), Co(inner)))
    BY <2>0, <2>2, DualRound
  <2> QED BY <2>0, <2>1, <2>2, <2>3 DEF FixInv
<1>10. CASE SettleDualX
  <2>0. pc = "dx" /\ j \in GoalIx /\ i \in FairIx
    BY <1>10 DEF SettleDualX, Indices, Dual
  <2>1. /\ CPre(game, XTarget(game, j, i, Co(outer), Co(mid), Co(inner))) = Co(inner)
        /\ UNCHANGED <<outer, combined, mid, j, W>>
        /\ gathered' = gathered \cap inner
    BY <1>10, <2>0, DualRound DEF SettleDualX, result
  <2>2. Co(gathered') = Co(gathered) \cup Co(inner)
    BY <2>1 DEF Co
  <2>3. Co(inner) \in SUBSET State
    BY DEF Co
  <2>4. /\ i < NumFairs(game) =>
             FixX(game, j, i + 1, Co(outer), Co(combined), Co(mid), Co(gathered'), State)
        /\ ~(i < NumFairs(game)) =>
             FixY(game, j, Co(outer), Co(combined), Co(mid), Co(gathered'))
    <3>1. /\ j \in 1..NumGoals(game) /\ i \in 1..NumFairs(game)
          /\ FixX(game, j, i, Co(outer), Co(combined), Co(mid), Co(gathered), Co(inner))
      BY <1>j, <2>0 DEF FixInv, Dual
    <3>2. /\ i < NumFairs(game) =>
               FixX(game, j, i + 1, Co(outer), Co(combined), Co(mid),
                    Co(gathered) \cup Co(inner), State)
          /\ ~(i < NumFairs(game)) =>
               FixY(game, j, Co(outer), Co(combined), Co(mid),
                    Co(gathered) \cup Co(inner))
      BY <1>n, <2>1, <2>3, <3>1, InnerSettled
    <3> QED BY <2>2, <3>2
  <2>5. \/ i < NumFairs(game) /\ i' = i + 1 /\ inner' = {} /\ pc' = "dx"
        \/ ~(i < NumFairs(game)) /\ pc' = "dy"
    BY <1>10 DEF SettleDualX
  <2>6. Co({}) = State
    BY DEF Co
  <2> QED BY <2>0, <2>1, <2>4, <2>5, <2>6 DEF FixInv
<1>11. CASE DescendDualY
  <2>1. /\ pc = "dy" /\ pc' = "dx" /\ UNCHANGED <<outer, combined, j, W>>
        /\ mid' = gathered /\ gathered' = State /\ i' = 1 /\ inner' = {}
    BY <1>11 DEF DescendDualY, result
  <2>2. FixX(game, j, 1, Co(outer), Co(combined), Co(gathered), {}, State)
    BY <2>1, MiddleRound DEF FixInv
  <2>3. Co({}) = State /\ Co(State) = {}
    BY DEF Co
  <2> QED BY <2>1, <2>2, <2>3 DEF FixInv
<1>12. CASE SettleDualY
  <2>1. /\ pc = "dy" /\ gathered = mid /\ W' = W
        /\ outer' = outer /\ combined' = combined \cup mid
    BY <1>12 DEF SettleDualY, result
  <2>2. Co(combined') = Co(combined) \cap Co(mid)
    BY <2>1 DEF Co
  <2>3. Co(mid) \in SUBSET State
    BY DEF Co
  <2>4. FixY(game, j, Co(outer), Co(combined), Co(mid), Co(mid))
    BY <2>1 DEF FixInv
  <2>5. /\ j < NumGoals(game) =>
             FixX(game, j + 1, 1, Co(outer), Co(combined'), {}, {}, State)
        /\ ~(j < NumGoals(game)) => FixW(game, Co(outer), Co(combined'))
    <3>1. j \in 1..NumGoals(game)
      BY <1>j, <2>1 DEF Dual
    <3>2. /\ j < NumGoals(game) =>
               FixX(game, j + 1, 1, Co(outer), Co(combined) \cap Co(mid), {}, {}, State)
          /\ ~(j < NumGoals(game)) => FixW(game, Co(outer), Co(combined) \cap Co(mid))
      BY <1>n, <2>3, <2>4, <3>1, MiddleSettled
    <3> QED BY <2>2, <3>2
  <2>6. \/ /\ j < NumGoals(game) /\ j' = j + 1 /\ i' = 1 /\ pc' = "dx"
           /\ mid' = State /\ gathered' = State /\ inner' = {}
        \/ ~(j < NumGoals(game)) /\ pc' = "dz"
    BY <1>12 DEF SettleDualY, StartDualGoal
  <2>7. Co({}) = State /\ Co(State) = {}
    BY DEF Co
  <2> QED BY <2>1, <2>5, <2>6, <2>7 DEF FixInv
<1>13. CASE ClimbDualZ
  <2>1. /\ pc = "dz" /\ pc' = "dx" /\ j' = 1 /\ i' = 1 /\ outer' = combined
        /\ combined' = {} /\ mid' = State /\ gathered' = State /\ inner' = {}
        /\ W' = W
    BY <1>13 DEF ClimbDualZ, StartDualGoal
  <2>2. Co(outer) \in SUBSET State
    BY DEF Co
  <2>3. Win(game) \subseteq Co(combined)
    BY <2>1, <2>2, OuterRound DEF FixInv
  <2>4. FixX(game, 1, 1, Co(combined), State, {}, {}, State)
    BY <2>3, StartOuter
  <2>5. Co({}) = State /\ Co(State) = {}
    BY DEF Co
  <2> QED BY <2>1, <2>4, <2>5 DEF FixInv
<1>14. CASE SettleDualZ
  <2>1. /\ pc = "dz" /\ combined = outer /\ L' = outer /\ W' = W
    BY <1>14 DEF SettleDualZ
  <2>2. Co(outer) \in SUBSET State
    BY DEF Co
  <2>3. Co(outer) = Win(game)
    BY <2>1, <2>2, OuterRound DEF FixInv
  <2>4. outer = State \ W /\ game.reset \in outer
    <3>1. W = Win(game) /\ game.reset \notin W
      BY <2>1 DEF FixInv
    <3> QED BY <1>t, <2>3, <3>1, GameFacts DEF Co
  <2>5. pc' = "counterstrategy"
    BY <1>14, <2>4 DEF SettleDualZ
  <2> QED BY <2>1, <2>4, <2>5 DEF FixInv
<1>15. CASE \/ FixpointFails \/ VerdictFails \/ DualFails \/ ExtractionFails
  <2>1. pc' = "settle" /\ pc \in Early \cup Refuting
    BY <1>15 DEF FixpointFails, VerdictFails, DualFails, ExtractionFails
  <2>2. guard'.failure # "INVALID"
    <3>1. \/ guard' \in Guarded!Outcomes(guard, TRUE)
          \/ guard' = guard
          \/ \E k \in {"HOST", "CONVERSION"} : guard' = Guarded!RecordFailure(guard, k)
      BY <1>15
         DEF FixpointFails, VerdictFails, DualFails, ExtractionFails, OperationFailed
    <3> QED BY <1>o, <1>r, <1>c, <2>1, <3>1
  <2> QED BY <2>1, <2>2 DEF FixInv
<1>16. CASE CounterStrategy \/ Relation \/ Convert
  <2>1. UNCHANGED <<W, L, unreal>>
    BY <1>16 DEF CounterStrategy, Relation, Convert
  <2>2. \/ pc = "counterstrategy" /\ pc' = "poll"
        \/ pc = "relation" /\ pc' = "skolem"
        \/ pc = "skolem" /\ pc' = "poll" /\ ~unreal'
    BY <1>16, <2>1 DEF CounterStrategy, Relation, Convert, ReportInv
  <2> QED BY <2>1, <2>2 DEF FixInv
<1>17. CASE Poll("poll", "policy") \/ Poll("poll2", "settle")
  <2>1. /\ UNCHANGED <<W, L, unreal>>
        /\ pc \in Late /\ pc' \in {"policy", "settle"}
    BY <1>17 DEF Poll, result
  <2>2. guard'.failure # "INVALID"
    BY <1>17, <1>p, <1>c, <2>1 DEF Poll
  <2> QED BY <2>1, <2>2 DEF FixInv
<1>18. CASE \E kind \in {"policy", "certificate"} : Export(kind) \/ ExportFails(kind)
  <2>1. PICK kind \in {"policy", "certificate"} : Export(kind) \/ ExportFails(kind)
    BY <1>18
  <2>2. CASE Export(kind)
    BY <2>2 DEF Export, NextExport, FixInv, result
  <2>3. CASE ExportFails(kind)
    <3>1. pc \in Late /\ pc' = "settle"
      BY <2>3 DEF ExportFails
    <3>2. guard'.failure # "INVALID"
      BY <2>3, <1>p, <1>r, <1>c, <3>1 DEF ExportFails
    <3> QED BY <3>1, <3>2 DEF FixInv
  <2> QED BY <2>1, <2>2, <2>3
<1>19. CASE \/ BadBuffers \/ EarlyReturn \/ SetUp \/ SetUpFails \/ Settle
            \/ ReturnUnstaged \/ Publish \/ Withdraw
  <2>1. pc' \in {"construct", "returned", "done"}
    BY <1>19 DEF BadBuffers, EarlyReturn, SetUp, SetUpFails, Settle,
                 ReturnUnstaged, Publish, Withdraw
  <2> QED BY <2>1 DEF FixInv
<1>20. CASE UNCHANGED vars
  BY <1>20 DEF vars, loop, result, FixInv
<1> QED
  BY <1>1, <1>2, <1>3, <1>4, <1>5, <1>6, <1>7, <1>8, <1>9, <1>10, <1>11, <1>12,
     <1>13, <1>14, <1>15, <1>16, <1>17, <1>18, <1>19, <1>20 DEF Next

LEMMA FixHolds == Spec => [](TypeOK /\ Indices /\ ReportInv /\ FixInv)
<1>1. Init => FixInv
  BY DEF Init, FixInv, Decided, Refuting, Late
<1>2. (TypeOK /\ Indices) /\ (TypeOK /\ Indices)' /\ ReportInv /\ FixInv
        /\ [Next]_vars => ReportInv' /\ FixInv'
  BY ReportStep, FixStep
<1> QED BY <1>1, <1>2, Typing, ReportInit, PTL DEF Spec

\* The dual loop computes the complement of the winning region, for every game
\* over every set of states (extract_environment_counterstrategy starts from it):
\* a reset state the controller loses is always in it, so the solver never
\* records "reset_not_environment_winning".
THEOREM DualExact == Spec => []DualIsComplement
<1>1. ReportInv /\ FixInv => DualIsComplement
  BY DEF FixInv, DualIsComplement, Late
<1> QED BY <1>1, FixHolds, PTL

-----------------------------------------------------------------------------
(***************************************************************************)
(* The levels the controller is read off: Y's approximations of the last   *)
(* outer round, and the X of every assumption that made each of them.      *)
(***************************************************************************)
Prev(s, k) == IF k = 1 THEN {} ELSE s[k - 1]

LevelAt(g, e, o, fx, fy, k) ==
  /\ fy[e][k] = YRound(g, e, o, Prev(fy[e], k))
  /\ Prev(fy[e], k) \subseteq fy[e][k] /\ fy[e][k] \subseteq MuY(g, e, o)
  /\ \A a \in 1..NumFairs(g) : fx[<<e, a>>][k] = NuX(g, e, a, o, Prev(fy[e], k))

\* Goal e is done: its levels lead up to the least fixpoint.
GoalLevels(g, e, o, fx, fy) ==
  /\ Len(fy[e]) > 0 /\ fy[e][Len(fy[e])] = MuY(g, e, o)
  /\ \A a \in 1..NumFairs(g) : Len(fx[<<e, a>>]) = Len(fy[e])
  /\ \A k \in 1..Len(fy[e]) : LevelAt(g, e, o, fx, fy, k)

\* Goal e is under way: m is its last level, and the assumptions before b have
\* their X of the next one.
GoalUnderWay(g, e, b, o, m, fx, fy) ==
  /\ m = Prev(fy[e], Len(fy[e]) + 1) /\ m \subseteq YRound(g, e, o, m)
  /\ \A k \in 1..Len(fy[e]) : LevelAt(g, e, o, fx, fy, k)
  /\ \A a \in 1..NumFairs(g) :
       /\ a < b => /\ Len(fx[<<e, a>>]) = Len(fy[e]) + 1
                   /\ fx[<<e, a>>][Len(fy[e]) + 1] = NuX(g, e, a, o, m)
       /\ ~(a < b) => Len(fx[<<e, a>>]) = Len(fy[e])

LevelInv ==
  /\ pc \in {"x", "y"} => \A e \in 1..(j - 1) : GoalLevels(game, e, outer, xs, ys)
  /\ pc = "x" => GoalUnderWay(game, j, i, outer, mid, xs, ys)
  /\ pc = "y" => GoalUnderWay(game, j, NumFairs(game) + 1, outer, mid, xs, ys)
  /\ pc = "w" => \A e \in GoalIx : GoalLevels(game, e, outer, xs, ys)
  /\ pc \in {"reset", "relation", "skolem"} =>
       \A e \in GoalIx : GoalLevels(game, e, W, xs, ys)

LEMMA LevelsKept ==
  ASSUME NEW e, NEW o, NEW fx, NEW fy, NEW gx, NEW gy, fy[e] = gy[e],
         \A a \in 1..NumFairs(game) : fx[<<e, a>>] = gx[<<e, a>>],
         GoalLevels(game, e, o, fx, fy)
  PROVE  GoalLevels(game, e, o, gx, gy)
BY DEF GoalLevels, LevelAt

LEMMA AppendFacts ==
  ASSUME NEW T, NEW s \in Seq(T), NEW e
  PROVE  /\ Len(s) \in Nat /\ Len(Append(s, e)) = Len(s) + 1
         /\ Append(s, e)[Len(s) + 1] = e
         /\ \A k \in 1..Len(s) : Append(s, e)[k] = s[k]
OBVIOUS

\* A goal starts with no level.
LEMMA GoalStarts ==
  ASSUME NEW e \in GoalIx, NEW o, NEW fx \in Ranked, NEW fy \in Levelled,
         game \in Games,
         fy[e] = << >>, \A a \in 1..NumFairs(game) : fx[<<e, a>>] = << >>
  PROVE  GoalUnderWay(game, e, 1, o, {}, fx, fy)
<1>1. \A a \in 1..NumFairs(game) : ~(a < 1)
  BY GameFacts DEF FairIx
<1> QED BY <1>1 DEF GoalUnderWay, Prev

\* Assumption a's X is kept.
LEMMA RankKept ==
  ASSUME NEW e \in GoalIx, NEW b \in 1..NumFairs(game), NEW o, NEW m, NEW n,
         NEW fx \in Ranked, NEW fy \in Levelled, game \in Games,
         GoalUnderWay(game, e, b, o, m, fx, fy), n = NuX(game, e, b, o, m)
  PROVE  GoalUnderWay(game, e, b + 1, o, m, [fx EXCEPT ![<<e, b>>] = Append(@, n)], fy)
<1> DEFINE gx == [fx EXCEPT ![<<e, b>>] = Append(@, n)]
<1>0. /\ fx[<<e, b>>] \in Seq(SUBSET State) /\ Len(fy[e]) \in Nat
      /\ NumFairs(game) \in Nat /\ <<e, b>> \in DOMAIN fx
  BY GameFacts DEF Ranked, Levelled, FairIx
<1>1. gx[<<e, b>>] = Append(fx[<<e, b>>], n)
  BY <1>0
<1>2. \A a \in 1..NumFairs(game) : a # b => gx[<<e, a>>] = fx[<<e, a>>]
  BY <1>0 DEF Ranked
<1>3. Len(fx[<<e, b>>]) = Len(fy[e])
  <2>1. ~(b < b)
    BY <1>0 DEF FairIx
  <2> QED BY <2>1 DEF GoalUnderWay
<1>4. /\ Len(gx[<<e, b>>]) = Len(fy[e]) + 1 /\ gx[<<e, b>>][Len(fy[e]) + 1] = n
      /\ \A k \in 1..Len(fy[e]) : gx[<<e, b>>][k] = fx[<<e, b>>][k]
  BY <1>0, <1>1, <1>3, AppendFacts
<1> HIDE DEF gx
<1>5. \A a \in 1..NumFairs(game) : (a < b + 1 <=> a < b \/ a = b)
  BY <1>0 DEF FairIx
<1>6. \A k \in 1..Len(fy[e]) : LevelAt(game, e, o, gx, fy, k)
  BY <1>2, <1>4 DEF GoalUnderWay, LevelAt
<1>7. ASSUME NEW a \in 1..NumFairs(game)
      PROVE  /\ a < b + 1 => /\ Len(gx[<<e, a>>]) = Len(fy[e]) + 1
                             /\ gx[<<e, a>>][Len(fy[e]) + 1] = NuX(game, e, a, o, m)
             /\ ~(a < b + 1) => Len(gx[<<e, a>>]) = Len(fy[e])
  <2>1. CASE a = b
    BY <1>4, <1>5, <2>1
  <2>2. CASE a # b
    BY <1>2, <1>5, <2>2 DEF GoalUnderWay
  <2> QED BY <2>1, <2>2
<1>8. GoalUnderWay(game, e, b + 1, o, m, gx, fy)
  BY <1>6, <1>7 DEF GoalUnderWay
<1> QED BY <1>8 DEF gx

\* Every assumption has its X: the level is kept.
LEMMA LevelKept ==
  ASSUME NEW e \in GoalIx, NEW o, NEW m, NEW d, NEW fx \in Ranked,
         NEW fy \in Levelled, NEW gy, game \in Games,
         GoalUnderWay(game, e, NumFairs(game) + 1, o, m, fx, fy),
         d = YRound(game, e, o, m), gy = [fy EXCEPT ![e] = Append(@, d)]
  PROVE  /\ GoalUnderWay(game, e, 1, o, d, fx, gy)
         /\ d = MuY(game, e, o) => GoalLevels(game, e, o, fx, gy)
<1>0. /\ fy[e] \in Seq(SUBSET State) /\ Len(fy[e]) \in Nat
      /\ NumFairs(game) \in Nat /\ e \in DOMAIN fy
  BY GameFacts DEF Levelled
<1> DEFINE n == Len(fy[e])
<1>1. /\ gy[e] = Append(fy[e], d) /\ Len(gy[e]) = n + 1 /\ gy[e][n + 1] = d
      /\ \A k \in 1..n : gy[e][k] = fy[e][k]
  BY <1>0, AppendFacts
<1>2. \A a \in 1..NumFairs(game) : /\ a < NumFairs(game) + 1 /\ ~(a < 1)
                        /\ Len(fx[<<e, a>>]) = n + 1
                        /\ fx[<<e, a>>][n + 1] = NuX(game, e, a, o, m)
  <2>1. \A a \in 1..NumFairs(game) : a < NumFairs(game) + 1 /\ ~(a < 1)
    BY <1>0 DEF FairIx
  <2> QED BY <2>1 DEF GoalUnderWay
<1>3. \A k \in 1..n : Prev(gy[e], k) = Prev(fy[e], k)
  <2> SUFFICES ASSUME NEW k \in 1..n, k # 1 PROVE gy[e][k - 1] = fy[e][k - 1]
    BY DEF Prev
  <2>1. k - 1 \in 1..n
    BY <1>0
  <2> QED BY <1>1, <2>1
<1>4. Prev(gy[e], n + 1) = m
  <2>0. m = Prev(fy[e], n + 1)
    BY DEF GoalUnderWay
  <2>1. CASE n = 0
    BY <2>0, <2>1 DEF Prev
  <2>2. CASE n # 0
    <3>1. n \in 1..n /\ n + 1 # 1 /\ (n + 1) - 1 = n
      BY <1>0, <2>2
    <3> QED BY <1>1, <2>0, <3>1 DEF Prev
  <2> QED BY <2>1, <2>2
<1>5. Prev(gy[e], (n + 1) + 1) = d
  <2>1. (n + 1) + 1 # 1 /\ ((n + 1) + 1) - 1 = n + 1
    BY <1>0
  <2> QED BY <1>1, <2>1 DEF Prev
<1>6. \A k \in 1..n : LevelAt(game, e, o, fx, gy, k)
  BY <1>1, <1>3 DEF GoalUnderWay, LevelAt
<1>7. LevelAt(game, e, o, fx, gy, n + 1)
  <2>1. m \subseteq d
    BY DEF GoalUnderWay
  <2>2. m \subseteq MuY(game, e, o)
    <3>1. CASE n = 0
      BY <3>1 DEF GoalUnderWay, Prev
    <3>2. CASE n # 0
      <4>1. n \in 1..n /\ n + 1 # 1 /\ (n + 1) - 1 = n
        BY <1>0, <3>2
      <4> QED BY <4>1 DEF GoalUnderWay, LevelAt, Prev
    <3> QED BY <3>1, <3>2
  <2>3. d \subseteq MuY(game, e, o)
    BY <2>2, YRoundMonotone, MuYFixpoint
  <2> QED BY <1>1, <1>2, <1>4, <2>1, <2>3 DEF LevelAt
<1>8. \A k \in 1..(n + 1) : LevelAt(game, e, o, fx, gy, k)
  <2>1. 1..(n + 1) = (1..n) \cup {n + 1}
    BY <1>0
  <2> QED BY <1>6, <1>7, <2>1
<1>9. d \subseteq YRound(game, e, o, d)
  <2>1. m \subseteq d
    BY DEF GoalUnderWay
  <2> QED BY <2>1, YRoundMonotone
<1>10. GoalUnderWay(game, e, 1, o, d, fx, gy)
  BY <1>1, <1>2, <1>5, <1>8, <1>9 DEF GoalUnderWay
<1>11. n + 1 > 0
  BY <1>0
<1>12. d = MuY(game, e, o) => GoalLevels(game, e, o, fx, gy)
  BY <1>1, <1>2, <1>8, <1>11 DEF GoalLevels
<1> QED BY <1>10, <1>12

\* Starting goal k: it has no level, the goals before it keep theirs.
LEMMA StartLevels ==
  ASSUME TypeOK, NEW k \in GoalIx, NEW fy \in Levelled, NEW o, StartGoal(k, xs, fy)
  PROVE  /\ GoalUnderWay(game, k, 1, o, {}, xs', ys')
         /\ \A e \in 1..(k - 1) :
              GoalLevels(game, e, o, xs, fy) => GoalLevels(game, e, o, xs', ys')
<1>0. /\ xs \in Ranked /\ game \in Games /\ NumGoals(game) \in Nat
  BY GameFacts DEF TypeOK
<1>1. xs' \in Ranked /\ ys' \in Levelled
  BY StartTypes
<1>2. ys'[k] = << >> /\ \A a \in 1..NumFairs(game) : xs'[<<k, a>>] = << >>
  BY DEF StartGoal, Levelled, FairIx
<1>3. GoalUnderWay(game, k, 1, o, {}, xs', ys')
  BY <1>0, <1>1, <1>2, GoalStarts
<1>4. ASSUME NEW e \in 1..(k - 1)
      PROVE  GoalLevels(game, e, o, xs, fy) => GoalLevels(game, e, o, xs', ys')
  <2>1. e \in GoalIx /\ e # k
    BY <1>0 DEF GoalIx
  <2>2. fy[e] = ys'[e] /\ \A a \in 1..NumFairs(game) : xs[<<e, a>>] = xs'[<<e, a>>]
    BY <2>1 DEF StartGoal, Levelled, FairIx
  <2> QED BY <2>2, LevelsKept
<1> QED BY <1>3, <1>4

LEMMA LevelStep ==
  ASSUME TypeOK, Indices, FixInv, LevelInv, [Next]_vars
  PROVE  LevelInv'
<1>0. /\ game' = game /\ GoalIx' = GoalIx /\ FairIx' = FairIx /\ game \in Games
      /\ xs \in Ranked /\ ys \in Levelled
  BY InputsKept DEF TypeOK
<1>n. NumGoals(game) \in Nat /\ NumFairs(game) \in Nat
  BY <1>0, GameFacts
<1>t. /\ outer \in SUBSET State /\ combined \in SUBSET State /\ mid \in SUBSET State
      /\ gathered \in SUBSET State /\ inner \in SUBSET State
  BY DEF TypeOK
<1>e. \A k \in GoalIx : \A e \in 1..(k - 1) : e \in GoalIx /\ e # k
  BY <1>n DEF GoalIx
<1>j. pc \in Fixpoint => j \in GoalIx /\ i \in 1..NumFairs(game) /\ i \in FairIx
  BY DEF Indices, FairIx
<1>1. CASE Construct
  <2>1. StartGoal(1, xs, ys) /\ 1 \in GoalIx /\ pc' = "x" /\ j' = 1 /\ i' = 1 /\ mid' = {}
    BY <1>1 DEF Construct, Indices, Phases, StartGoal
  <2>2. GoalUnderWay(game, 1, 1, outer', {}, xs', ys')
    BY <1>0, <2>1, StartLevels
  <2>3. 1..(1 - 1) = {}
    OBVIOUS
  <2> QED BY <1>0, <2>1, <2>2, <2>3 DEF LevelInv
<1>2. CASE DescendX
  BY <1>0, <1>2 DEF DescendX, LevelInv
<1>3. CASE SettleX
  <2>0. /\ pc = "x" /\ UNCHANGED <<outer, mid, j, ys>>
        /\ xs' = [xs EXCEPT ![<<j, i>>] = Append(@, inner)]
        /\ CPre(game, XTarget(game, j, i, outer, mid, inner)) = inner
    BY <1>3 DEF SettleX, Target, XTarget
  <2>1. inner = NuX(game, j, i, outer, mid)
    BY <1>t, <2>0, NuXFixpoint DEF FixInv, FixX
  <2>2. GoalUnderWay(game, j, i + 1, outer, mid, xs', ys)
    BY <1>0, <1>j, <2>0, <2>1, RankKept DEF LevelInv, Fixpoint
  <2>3. \/ pc' = "x" /\ i' = i + 1
        \/ pc' = "y" /\ i + 1 = NumFairs(game) + 1
    BY <1>3, <1>j, <1>n DEF SettleX, Fixpoint
  <2>4. \A e \in 1..(j - 1) : GoalLevels(game, e, outer, xs', ys)
    <3> SUFFICES ASSUME NEW e \in 1..(j - 1)
                 PROVE  GoalLevels(game, e, outer, xs', ys)
      OBVIOUS
    <3>1. e # j /\ e \in GoalIx
      BY <1>e, <1>j, <2>0 DEF Fixpoint
    <3>2. \A a \in 1..NumFairs(game) : xs[<<e, a>>] = xs'[<<e, a>>]
      BY <1>0, <2>0, <3>1 DEF Ranked, FairIx
    <3>3. GoalLevels(game, e, outer, xs, ys)
      BY <2>0 DEF LevelInv
    <3> QED BY <3>2, <3>3, LevelsKept
  <2> QED BY <1>0, <2>0, <2>2, <2>3, <2>4 DEF LevelInv
<1>4. CASE ClimbY
  <2>0. /\ pc = "y" /\ pc' = "x" /\ UNCHANGED <<outer, j, xs>>
        /\ ys' = [ys EXCEPT ![j] = Append(@, gathered)]
        /\ mid' = gathered /\ i' = 1 /\ j \in GoalIx
    BY <1>4, <1>j DEF ClimbY, Fixpoint
  <2>1. gathered = YRound(game, j, outer, mid)
    BY <2>0 DEF FixInv, FixY
  <2>2. GoalUnderWay(game, j, 1, outer, gathered, xs, ys')
    BY <1>0, <2>0, <2>1, LevelKept DEF LevelInv
  <2>3. \A e \in 1..(j - 1) : GoalLevels(game, e, outer, xs, ys')
    <3> SUFFICES ASSUME NEW e \in 1..(j - 1)
                 PROVE  GoalLevels(game, e, outer, xs, ys')
      OBVIOUS
    <3>1. e # j /\ e \in GoalIx
      BY <1>e, <2>0
    <3>2. ys[e] = ys'[e]
      BY <1>0, <2>0, <3>1 DEF Levelled
    <3>3. GoalLevels(game, e, outer, xs, ys)
      BY <2>0 DEF LevelInv
    <3> QED BY <3>2, <3>3, LevelsKept
  <2> QED BY <1>0, <2>0, <2>2, <2>3 DEF LevelInv
<1>5. CASE SettleY
  <2> DEFINE kept == [ys EXCEPT ![j] = Append(@, gathered)]
  <2>0. /\ pc = "y" /\ outer' = outer /\ gathered = mid /\ j \in GoalIx
    BY <1>5, <1>j DEF SettleY, Fixpoint
  <2>1. gathered = YRound(game, j, outer, mid) /\ gathered = MuY(game, j, outer)
    BY <1>t, <2>0, MuYFixpoint DEF FixInv, FixY
  <2>2. GoalLevels(game, j, outer, xs, kept)
    BY <1>0, <2>0, <2>1, LevelKept DEF LevelInv
  <2>3. \A e \in 1..(j - 1) : GoalLevels(game, e, outer, xs, kept)
    <3> SUFFICES ASSUME NEW e \in 1..(j - 1)
                 PROVE  GoalLevels(game, e, outer, xs, kept)
      OBVIOUS
    <3>1. e # j /\ e \in GoalIx
      BY <1>e, <2>0
    <3>2. ys[e] = kept[e]
      BY <1>0, <2>0, <3>1 DEF Levelled
    <3> HIDE DEF kept
    <3>3. GoalLevels(game, e, outer, xs, ys)
      BY <2>0 DEF LevelInv
    <3> QED BY <3>2, <3>3, LevelsKept
  <2>4. kept \in Levelled
    BY <1>0, <1>t, <2>0, LevelAppended
  <2>5. \/ j < NumGoals(game) /\ StartGoal(j + 1, xs, kept) /\ pc' = "x"
        \/ ~(j < NumGoals(game)) /\ ys' = kept /\ pc' = "w" /\ xs' = xs
    BY <1>5 DEF SettleY
  <2> HIDE DEF kept
  <2>6. \A e \in 1..j : GoalLevels(game, e, outer, xs, kept)
    <3>1. 1..j = (1..(j - 1)) \cup {j}
      BY <1>n, <2>0 DEF GoalIx
    <3> QED BY <2>2, <2>3, <3>1
  <2>7. CASE j < NumGoals(game)
    <3>1. StartGoal(j + 1, xs, kept) /\ pc' = "x"
      BY <2>5, <2>7
    <3>2. j + 1 \in GoalIx /\ (j + 1) - 1 = j
      BY <1>n, <2>0, <2>7 DEF GoalIx
    <3>3. /\ GoalUnderWay(game, j + 1, 1, outer, {}, xs', ys')
          /\ \A e \in 1..((j + 1) - 1) :
               GoalLevels(game, e, outer, xs, kept) => GoalLevels(game, e, outer, xs', ys')
      BY <2>4, <3>1, <3>2, StartLevels
    <3>4. j' = j + 1 /\ i' = 1 /\ mid' = {}
      BY <3>1 DEF StartGoal
    <3> QED BY <1>0, <2>0, <2>6, <3>1, <3>2, <3>3, <3>4 DEF LevelInv
  <2>8. CASE ~(j < NumGoals(game))
    <3>1. GoalIx = 1..j
      BY <1>n, <2>0, <2>8 DEF GoalIx
    <3> QED BY <1>0, <2>0, <2>5, <2>6, <2>8, <3>1 DEF LevelInv
  <2> QED BY <2>7, <2>8
<1>6. CASE DescendW
  <2>1. StartGoal(1, xs, ys) /\ 1 \in GoalIx /\ pc' = "x" /\ j' = 1 /\ i' = 1 /\ mid' = {}
    BY <1>6 DEF DescendW, Indices, Phases, StartGoal
  <2>2. GoalUnderWay(game, 1, 1, outer', {}, xs', ys')
    BY <1>0, <2>1, StartLevels
  <2>3. 1..(1 - 1) = {}
    OBVIOUS
  <2> QED BY <1>0, <2>1, <2>2, <2>3 DEF LevelInv
<1>7. CASE SettleW
  <2>1. pc = "w" /\ pc' = "reset" /\ W' = outer /\ UNCHANGED <<xs, ys>>
    BY <1>7 DEF SettleW, loop
  <2> QED BY <1>0, <2>1 DEF LevelInv
<1>8. CASE Verdict
  <2>1. /\ pc = "reset" /\ W' = W /\ pc' \in {"dx", "relation", "settle"}
        /\ pc' = "relation" => UNCHANGED <<xs, ys>>
    BY <1>8 DEF Verdict, loop, result
  <2> QED BY <1>0, <2>1 DEF LevelInv
<1>9. CASE Relation
  <2>1. pc = "relation" /\ pc' = "skolem" /\ UNCHANGED <<W, xs, ys>>
    BY <1>9 DEF Relation, loop
  <2> QED BY <1>0, <2>1 DEF LevelInv
<1>10. CASE UNCHANGED vars
  BY <1>0, <1>10 DEF vars, loop, result, LevelInv
<1>11. CASE \/ BadBuffers \/ EarlyReturn \/ SetUp \/ SetUpFails \/ FixpointFails
            \/ VerdictFails \/ ClimbDualX \/ SettleDualX \/ DescendDualY
            \/ SettleDualY \/ ClimbDualZ \/ SettleDualZ \/ DualFails
            \/ CounterStrategy \/ Convert \/ ExtractionFails
            \/ Poll("poll", "policy") \/ Poll("poll2", "settle")
            \/ \E kind \in {"policy", "certificate"} : Export(kind) \/ ExportFails(kind)
            \/ Settle \/ ReturnUnstaged \/ Publish \/ Withdraw
  <2>1. pc' \notin {"x", "y", "w", "reset", "relation", "skolem"}
    BY <1>11 DEF BadBuffers, EarlyReturn, SetUp, SetUpFails, FixpointFails,
         VerdictFails, ClimbDualX, SettleDualX, DescendDualY, SettleDualY,
         ClimbDualZ, SettleDualZ, DualFails, CounterStrategy, Convert,
         ExtractionFails, Poll, Export, ExportFails, NextExport, Settle,
         ReturnUnstaged, Publish, Withdraw
  <2> QED BY <2>1 DEF LevelInv
<1> QED
  BY <1>1, <1>2, <1>3, <1>4, <1>5, <1>6, <1>7, <1>8, <1>9, <1>10, <1>11 DEF Next

-----------------------------------------------------------------------------
\* A state from which the controller forces goal e, or dodges an assumption, is
\* a winning one: at the winning region every goal's least fixpoint is the region.
LEMMA WinIsEveryGoal ==
  ASSUME NEW g, NEW e \in 1..NumGoals(g)
  PROVE  MuY(g, e, Win(g)) = Win(g)
<1> DEFINE V == MuY(g, e, Win(g))
           R == Win(g)
<1>1. /\ R \subseteq State /\ R \subseteq ZRound(g, R)
      /\ \A Z \in SUBSET State : Z \subseteq ZRound(g, Z) => Z \subseteq R
  BY WinFixpoint
<1>2. R \subseteq V
  BY <1>1 DEF ZRound
<1>3. V \subseteq State
  BY MuYFixpoint
<1>4. ASSUME NEW k \in 1..NumGoals(g) PROVE V \subseteq MuY(g, k, V)
  <2> SUFFICES ASSUME NEW T \in SUBSET State, YRound(g, k, V, T) \subseteq T
               PROVE  V \subseteq T
    BY <1>3 DEF MuY
  <2>1. R \subseteq T
    <3>1. R \subseteq ZRound(g, V)
      BY <1>1, <1>2, ZRoundMonotone
    <3>2. R \subseteq MuY(g, k, V)
      BY <3>1, <1>4 DEF ZRound
    <3> QED BY <3>2, MuYFixpoint
  <2> HIDE DEF R, V
  <2>2. ASSUME NEW a \in 1..NumFairs(g) PROVE NuX(g, e, a, R, T) \subseteq T
    <3> DEFINE N == NuX(g, e, a, R, T)
    <3>1. N \subseteq State /\ N \subseteq CPre(g, XTarget(g, e, a, R, T, N))
      BY NuXFixpoint
    <3> HIDE DEF N
    <3>2. XTarget(g, e, a, R, T, N) \subseteq XTarget(g, k, a, V, T, N)
      BY <2>1 DEF XTarget
    <3>3. N \subseteq CPre(g, XTarget(g, k, a, V, T, N))
      BY <3>1, <3>2, CPreMonotone
    <3>4. N \subseteq NuX(g, k, a, V, T)
      BY <3>1, <3>3, NuXFixpoint
    <3>5. N \subseteq YRound(g, k, V, T)
      BY <2>2, <3>4 DEF YRound
    <3> QED BY <3>5 DEF N
  <2>3. YRound(g, e, R, T) \subseteq T
    BY <2>2 DEF YRound
  <2>4. MuY(g, e, R) \subseteq T
    BY <2>3, MuYFixpoint
  <2> QED BY <2>4 DEF V, R
<1>5. V \subseteq ZRound(g, V)
  BY <1>3, <1>4 DEF ZRound
<1> QED BY <1>1, <1>2, <1>3, <1>5

\* Every non-empty set of naturals has a least element.
LEMMA LeastNatural ==
  ASSUME NEW T \in SUBSET Nat, T # {}
  PROVE  \E x \in T : \A y \in T : x <= y
<1> DEFINE R == {ss \in Nat \X Nat : ss[1] < ss[2]}
<1>1. IsWellFoundedOn(R, Nat)
  BY NatLessThanWellFounded, Zenon DEF OpToRel
<1>2. \A x, y \in Nat : ~(<<y, x>> \in R) => x <= y
  OBVIOUS
<1> HIDE DEF R
<1>3. \E x \in T : \A y \in T : ~(<<y, x>> \in R)
  BY <1>1, WFMin, Zenon
<1> QED
  BY <1>2, <1>3, Zenon

\* Skolemisation picks a move wherever there is one.
LEMMA GreatestIsAMove ==
  ASSUME NEW n \in Nat, NEW S \in SUBSET (0..(2^n - 1)), S # {}
  PROVE  Greatest(S) \in S
<1> DEFINE N == 2^n - 1
<1>0. N \in Int /\ S \subseteq 0..N
  <2>1. n \in Int /\ 2 \in Int
    OBVIOUS
  <2>2. 2^n \in Int
    BY <2>1
  <2>3. N \in Int
    BY <2>2
  <2>4. S \subseteq 0..N
    OBVIOUS
  <2> QED BY <2>3, <2>4
<1> HIDE DEF N
<1>1. N \in Nat /\ S \subseteq Nat
  <2>1. PICK c \in S : TRUE
    OBVIOUS
  <2>2. c \in 0..N
    BY <1>0, <2>1
  <2>3. N \in Nat
    BY <1>0, <2>2
  <2> QED BY <1>0, <2>3
<1> DEFINE B == {m \in Nat : \A c \in S : c <= m}
<1>2. B \subseteq Nat /\ N \in B
  BY <1>0, <1>1
<1> HIDE DEF B
<1>3. PICK m \in B : \A y \in B : m <= y
  BY <1>2, LeastNatural
<1>4. m \in Nat /\ \A c \in S : c <= m
  BY <1>3 DEF B
<1>5. m \in S
  <2> SUFFICES ASSUME m \notin S PROVE FALSE
    OBVIOUS
  <2>1. PICK c \in S : TRUE
    OBVIOUS
  <2>2. m - 1 \in Nat /\ \A d \in S : d <= m - 1
    BY <1>1, <1>4
  <2>3. m - 1 \in B
    BY <2>2 DEF B
  <2> QED BY <1>3, <1>4, <2>3
<1>6. \E c \in S : \A d \in S : d <= c
  BY <1>4, <1>5
<1> QED BY <1>6 DEF Greatest

-----------------------------------------------------------------------------
\* The controller's relation, read off the levels of the winning region.
Ready == W = Win(game) /\ \A e \in GoalIx : GoalLevels(game, e, W, xs, ys)

\* Where the relation sends a state of level k, assumption a.
Ahead(g, k, a) == Strict(g, k) \cup (xs[<<g, a>>][k] \ Fair(game, a))

LEMMA LevelFacts ==
  ASSUME TypeOK, Ready, NEW g \in GoalIx
  PROVE  /\ Len(ys[g]) \in Nat /\ Len(ys[g]) > 0 /\ Len(ys[g]) \in 1..Len(ys[g])
         /\ ys[g][Len(ys[g])] = W
         /\ \A k \in 1..Len(ys[g]) :
              /\ ys[g][k] \subseteq W
              /\ Prev(ys[g], k) \subseteq ys[g][k]
              /\ ys[g][k] = UNION {xs[<<g, a>>][k] : a \in FairIx}
              /\ \A a \in FairIx :
                   xs[<<g, a>>][k] \subseteq CPre(game, Ahead(g, k, a))
<1>0. Len(ys[g]) \in Nat
  BY DEF TypeOK, Levelled
<1>1. GoalLevels(game, g, W, xs, ys) /\ MuY(game, g, W) = W
  BY WinIsEveryGoal DEF Ready, GoalIx
<1>2. Len(ys[g]) > 0 /\ Len(ys[g]) \in 1..Len(ys[g]) /\ ys[g][Len(ys[g])] = W
  BY <1>0, <1>1 DEF GoalLevels
<1>3. ASSUME NEW k \in 1..Len(ys[g])
      PROVE  /\ ys[g][k] \subseteq W
             /\ Prev(ys[g], k) \subseteq ys[g][k]
             /\ ys[g][k] = UNION {xs[<<g, a>>][k] : a \in FairIx}
             /\ \A a \in FairIx :
                  xs[<<g, a>>][k] \subseteq CPre(game, Ahead(g, k, a))
  <2>1. LevelAt(game, g, W, xs, ys, k)
    BY <1>1 DEF GoalLevels
  <2>2. ys[g][k] \subseteq W /\ Prev(ys[g], k) \subseteq ys[g][k]
    BY <1>1, <2>1 DEF LevelAt
  <2>3. ys[g][k] = UNION {xs[<<g, a>>][k] : a \in FairIx}
    BY <2>1 DEF LevelAt, YRound, FairIx
  <2>4. ASSUME NEW a \in FairIx
        PROVE  xs[<<g, a>>][k] \subseteq CPre(game, Ahead(g, k, a))
    <3>1. xs[<<g, a>>][k] = NuX(game, g, a, W, Prev(ys[g], k))
      BY <2>1, <2>4 DEF LevelAt, FairIx
    <3>2. Ahead(g, k, a) = XTarget(game, g, a, W, Prev(ys[g], k), xs[<<g, a>>][k])
      BY DEF Ahead, XTarget, Strict, AtGoal, Prev
    <3> QED BY <3>1, <3>2, NuXFixpoint
  <2> QED BY <2>2, <2>3, <2>4
<1> QED BY <1>0, <1>2, <1>3

LEMMA AheadInside ==
  ASSUME TypeOK, Ready, NEW g \in GoalIx, NEW k \in 1..Len(ys[g]), NEW a \in FairIx
  PROVE  Ahead(g, k, a) \subseteq W
<1>1. Prev(ys[g], k) \subseteq W /\ xs[<<g, a>>][k] \subseteq W
  BY LevelFacts
<1> QED BY <1>1 DEF Ahead, Strict, AtGoal, Prev

\* Every winning state that is not at the goal has one first level.
LEMMA FirstLevelExists ==
  ASSUME TypeOK, Ready, NEW g \in GoalIx, NEW s \in W, s \notin AtGoal(g)
  PROVE  \E k \in 1..Len(ys[g]), a \in FairIx : FirstLevel(g, k, a, s)
<1> DEFINE In(k) == {a \in FairIx : s \in xs[<<g, a>>][k]}
           K == {k \in 1..Len(ys[g]) : In(k) # {}}
<1>1. FairIx \subseteq Nat
  BY GameFacts DEF TypeOK, FairIx
<1>2. K \subseteq Nat
  BY LevelFacts
<1>3. K # {}
  <2>1. PICK a \in FairIx : s \in xs[<<g, a>>][Len(ys[g])]
    <3>1. s \in UNION {xs[<<g, a>>][Len(ys[g])] : a \in FairIx}
      BY LevelFacts
    <3> QED BY <3>1
  <2>2. Len(ys[g]) \in 1..Len(ys[g])
    BY LevelFacts
  <2> QED BY <2>1, <2>2
<1>4. PICK k \in K : \A m \in K : k <= m
  BY <1>2, <1>3, LeastNatural
<1>5. PICK a \in In(k) : \A b \in In(k) : a <= b
  <2>1. In(k) \subseteq Nat /\ In(k) # {}
    BY <1>1, <1>4
  <2> HIDE DEF In
  <2> QED BY <2>1, LeastNatural
<1>6. \A e \in 1..(k - 1), b \in FairIx : s \notin xs[<<g, b>>][e]
  <2> SUFFICES ASSUME NEW e \in 1..(k - 1), NEW b \in FairIx, s \in xs[<<g, b>>][e]
               PROVE  FALSE
    OBVIOUS
  <2>1. e \in 1..Len(ys[g]) /\ ~(k <= e)
    BY <1>4, LevelFacts
  <2> QED BY <1>4, <2>1
<1>7. \A b \in 1..(a - 1) : s \notin xs[<<g, b>>][k]
  <2> SUFFICES ASSUME NEW b \in 1..(a - 1), s \in xs[<<g, b>>][k] PROVE FALSE
    OBVIOUS
  <2>1. b \in FairIx /\ ~(a <= b)
    BY <1>5, GameFacts DEF FairIx, TypeOK
  <2> QED BY <1>5, <2>1
<1> QED BY <1>4, <1>5, <1>6, <1>7 DEF FirstLevel

LEMMA FirstLevelUnique ==
  ASSUME TypeOK, Ready, NEW g \in GoalIx, NEW s,
         NEW k \in 1..Len(ys[g]), NEW a \in FairIx, FirstLevel(g, k, a, s),
         NEW l \in 1..Len(ys[g]), NEW b \in FairIx, FirstLevel(g, l, b, s)
  PROVE  k = l /\ a = b
<1>0. k \in Nat /\ l \in Nat /\ a \in Nat /\ b \in Nat /\ k >= 1 /\ l >= 1 /\ a >= 1 /\ b >= 1
  BY LevelFacts, GameFacts DEF FairIx, TypeOK
<1>1. ~(k < l)
  <2>1. k < l => k \in 1..(l - 1)
    BY <1>0
  <2> QED BY <2>1 DEF FirstLevel
<1>2. ~(l < k)
  <2>1. l < k => l \in 1..(k - 1)
    BY <1>0
  <2> QED BY <2>1 DEF FirstLevel
<1>3. k = l
  BY <1>0, <1>1, <1>2
<1>4. ~(a < b)
  <2>1. a < b => a \in 1..(b - 1)
    BY <1>0
  <2> QED BY <1>3, <2>1 DEF FirstLevel
<1>5. ~(b < a)
  <2>1. b < a => b \in 1..(a - 1)
    BY <1>0
  <2> QED BY <1>3, <2>1 DEF FirstLevel
<1> QED BY <1>0, <1>3, <1>4, <1>5

\* In a winning state the relation of every goal offers a move against every u;
\* whatever it offers stays inside, and makes the progress of the first level.
LEMMA RelationFacts ==
  ASSUME TypeOK, Ready, NEW g \in GoalIx, NEW s \in W, NEW u \in UMove
  PROVE  /\ \E c \in CMove : <<s, u, c>> \in GoalMoves(g)
         /\ \A c \in CMove : <<s, u, c>> \in GoalMoves(g) =>
              /\ <<s, u, c>> \in SafeInto(game, W)
              /\ \A k \in 1..Len(ys[g]), a \in FairIx :
                   FirstLevel(g, k, a, s) => <<s, u, c>> \in SafeInto(game, Ahead(g, k, a))
<1>0. s \in State
  BY DEF TypeOK
<1>v. \A c \in CMove : <<s, u, c>> \in Val /\ <<s, u, c>>[1] = s
  BY <1>0 DEF Val
<1>m. \A S, T : S \subseteq T => SafeInto(game, S) \subseteq SafeInto(game, T)
  BY DEF SafeInto
<1>d. \A c \in CMove : <<s, u, c>> \in GoalMoves(g) <=>
        \/ s \in AtGoal(g) /\ <<s, u, c>> \in SafeInto(game, W)
        \/ \E k \in 1..Len(ys[g]), a \in FairIx :
             FirstLevel(g, k, a, s) /\ <<s, u, c>> \in SafeInto(game, Ahead(g, k, a))
  BY <1>v DEF GoalMoves, Ahead
<1>1. CASE s \in AtGoal(g)
  <2>1. PICK k \in 1..Len(ys[g]), a \in FairIx : s \in xs[<<g, a>>][k]
    <3>1. /\ Len(ys[g]) \in 1..Len(ys[g])
          /\ s \in UNION {xs[<<g, a>>][Len(ys[g])] : a \in FairIx}
      BY LevelFacts
    <3> QED BY <3>1
  <2>2. PICK c \in CMove : <<s, u, c>> \in SafeInto(game, Ahead(g, k, a))
    <3>1. s \in CPre(game, Ahead(g, k, a))
      BY <2>1, LevelFacts
    <3> QED BY <3>1 DEF CPre
  <2>3. <<s, u, c>> \in SafeInto(game, W)
    BY <1>m, <2>2, AheadInside
  <2>4. \A l \in 1..Len(ys[g]), b \in FairIx : ~FirstLevel(g, l, b, s)
    BY <1>1 DEF FirstLevel
  <2> QED BY <1>1, <1>d, <2>3, <2>4
<1>2. CASE s \notin AtGoal(g)
  <2>1. PICK k \in 1..Len(ys[g]), a \in FairIx : FirstLevel(g, k, a, s)
    BY <1>2, FirstLevelExists
  <2>2. \A l \in 1..Len(ys[g]), b \in FairIx : FirstLevel(g, l, b, s) => l = k /\ b = a
    BY <2>1, FirstLevelUnique
  <2>3. PICK c \in CMove : <<s, u, c>> \in SafeInto(game, Ahead(g, k, a))
    <3>1. s \in xs[<<g, a>>][k]
      BY <2>1 DEF FirstLevel
    <3> QED BY <3>1, LevelFacts DEF CPre
  <2>4. \A d \in CMove :
          <<s, u, d>> \in GoalMoves(g) => <<s, u, d>> \in SafeInto(game, Ahead(g, k, a))
    BY <1>2, <1>d, <2>2
  <2>5. SafeInto(game, Ahead(g, k, a)) \subseteq SafeInto(game, W)
    BY <1>m, AheadInside
  <2> QED BY <1>d, <2>1, <2>2, <2>3, <2>4, <2>5
<1> QED BY <1>1, <1>2

-----------------------------------------------------------------------------
\* A one-hot counter, or the zero it starts from, is in effect one index, and its
\* next value is the one the format prescribes.
LEMMA ModeFacts ==
  ASSUME NEW n \in Nat, n > 0, NEW mode \in Modes(n), NEW met \in BOOLEAN
  PROVE  /\ mode \in SUBSET (1..n) /\ Current(mode) \in 1..n
         /\ Effective(mode) = {Current(mode)}
         /\ Prescribed(mode, n, met) \in Modes(n)
         /\ Cardinality(mode) <= 1
<1>1. CASE mode = {}
  <2>1. Current(mode) = 1 /\ Effective(mode) = {1}
    BY <1>1 DEF Current, Effective
  <2>2. Prescribed(mode, n, met) \in Modes(n)
    BY <2>1 DEF Prescribed, Modes, Cyclic
  <2>3. Cardinality(mode) = 0
    BY <1>1, FS_EmptySet
  <2> QED BY <1>1, <2>1, <2>2, <2>3
<1>2. ASSUME NEW k \in 1..n, mode = {k} PROVE
         /\ mode \in SUBSET (1..n) /\ Current(mode) \in 1..n
         /\ Effective(mode) = {Current(mode)}
         /\ Prescribed(mode, n, met) \in Modes(n)
         /\ Cardinality(mode) <= 1
  <2>1. Current(mode) = k /\ Effective(mode) = {k}
    BY <1>2 DEF Current, Effective
  <2>2. Prescribed(mode, n, met) \in Modes(n)
    BY <1>2, <2>1 DEF Prescribed, Modes, Cyclic
  <2>3. Cardinality(mode) = 1
    BY <1>2, FS_Singleton
  <2> QED BY <1>2, <2>1, <2>2, <2>3
<1> QED BY <1>1, <1>2 DEF Modes

\* What a round of controller st does, in a winning state.
RoundKept(st, mode, s, u) ==
  LET c == st.out[<<s, mode, u>>]
      g == Current(mode)
  IN  /\ c \in CMove /\ st.next[<<s, mode, u>>] = game.succ[<<s, u, c>>]
      /\ <<s, u, c>> \in SafeInto(game, W)
      /\ \A k \in 1..Len(ys[g]), a \in FairIx :
           FirstLevel(g, k, a, s) => <<s, u, c>> \in SafeInto(game, Ahead(g, k, a))

ControllerKeeps(st) ==
  \A mode \in Modes(NumGoals(game)), s \in W :
    /\ st.count[<<s, mode>>] =
         Prescribed(mode, NumGoals(game), s \in game.goals[Current(mode)])
    /\ \A u \in UMove : RoundKept(st, mode, s, u)

ControllerGood ==
  Ready /\ game.reset \in W /\ GoalIx # {} /\ ControllerKeeps(strat)

LEMMA ConvertKeeps ==
  ASSUME TypeOK, Ready, GoalIx # {}, moves = [g \in GoalIx |-> GoalMoves(g)], Convert
  PROVE  ControllerKeeps(strat')
<1>n. NumGoals(game) \in Nat /\ NumGoals(game) > 0
  BY GameFacts DEF TypeOK, GoalIx
<1>w. W \subseteq State
  BY DEF TypeOK
<1> SUFFICES ASSUME NEW mode \in Modes(NumGoals(game)), NEW s \in W
             PROVE  /\ strat'.count[<<s, mode>>] =
                         Prescribed(mode, NumGoals(game), s \in game.goals[Current(mode)])
                    /\ \A u \in UMove : RoundKept(strat', mode, s, u)
  BY DEF ControllerKeeps
<1> DEFINE g == Current(mode)
<1>1. /\ mode \in SUBSET GoalIx /\ g \in GoalIx /\ Effective(mode) = {g}
  BY <1>n, ModeFacts DEF GoalIx
<1>2. s \in State
  BY <1>w
<1>3. strat'.count[<<s, mode>>] = NextCounter(s, mode)
  BY <1>1, <1>2 DEF Convert
<1>4. NextCounter(s, mode) =
        Prescribed(mode, NumGoals(game), s \in game.goals[Current(mode)])
  <2>1. s \in AtGoal(g) <=> s \in game.goals[g]
    BY DEF AtGoal
  <2>2. Cyclic(g, NumGoals(game)) \in GoalIx
    BY <1>1, <1>n DEF Cyclic, GoalIx
  <2>3. CASE s \in AtGoal(g)
    <3>1. NextCounter(s, mode) = {Cyclic(g, NumGoals(game))}
      BY <1>1, <2>2, <2>3 DEF NextCounter
    <3> QED BY <2>1, <2>3, <3>1 DEF Prescribed
  <2>4. CASE s \notin AtGoal(g)
    <3>1. NextCounter(s, mode) = {g}
      BY <1>1, <2>4 DEF NextCounter
    <3> QED BY <2>1, <2>4, <3>1 DEF Prescribed
  <2> QED BY <2>3, <2>4
<1>5. ASSUME NEW u \in UMove PROVE RoundKept(strat', mode, s, u)
  <2>1. <<s, mode, u>> \in State \X (SUBSET GoalIx) \X UMove
    BY <1>1, <1>2
  <2>2. /\ strat'.out[<<s, mode, u>>] = Chosen(s, mode, u)
        /\ strat'.next[<<s, mode, u>>] = game.succ[<<s, u, Chosen(s, mode, u)>>]
    BY <2>1 DEF Convert
  <2> DEFINE S == {c \in CMove : <<s, u, c>> \in GoalMoves(g)}
  <2>3. Chosen(s, mode, u) = Greatest(S)
    BY <1>1 DEF Chosen
  <2>4. S # {}
    BY <1>1, <1>5, RelationFacts
  <2>5. Greatest(S) \in S
    BY <2>4, GreatestIsAMove, Gr1Constants DEF CMove
  <2>6. Chosen(s, mode, u) \in CMove /\ <<s, u, Chosen(s, mode, u)>> \in GoalMoves(g)
    BY <2>3, <2>5
  <2> HIDE DEF S
  <2>7. /\ <<s, u, Chosen(s, mode, u)>> \in SafeInto(game, W)
        /\ \A k \in 1..Len(ys[g]), a \in FairIx : FirstLevel(g, k, a, s) =>
             <<s, u, Chosen(s, mode, u)>> \in SafeInto(game, Ahead(g, k, a))
    BY <1>1, <1>5, <2>6, RelationFacts
  <2> QED BY <2>2, <2>6, <2>7 DEF RoundKept
<1> QED BY <1>3, <1>4, <1>5

\* What is known of the levels, of the relation and of the controller says
\* nothing of the other variables.
LEMMA ReadyKept ==
  ASSUME UNCHANGED <<game, W, xs, ys>>
  PROVE  Ready' <=> Ready
BY DEF Ready, GoalIx

LEMMA RelationKept ==
  ASSUME UNCHANGED <<game, W, xs, ys>>
  PROVE  [g \in GoalIx |-> GoalMoves(g)]' = [g \in GoalIx |-> GoalMoves(g)]
BY DEF GoalIx, FairIx, GoalMoves, AtGoal, FirstLevel, Strict

LEMMA ControllerKept ==
  ASSUME UNCHANGED <<game, W, xs, ys>>, ControllerKeeps(strat')
  PROVE  ControllerKeeps(strat)'
<1>1. /\ FairIx' = FairIx
      /\ \A g, k, a : Ahead(g, k, a)' = Ahead(g, k, a)
  BY DEF FairIx, Ahead, Strict, AtGoal
<1>2. \A g, k, a, s : FirstLevel(g, k, a, s)' <=> FirstLevel(g, k, a, s)
  BY DEF FirstLevel, FairIx, AtGoal
<1>3. \A mode, s, u : RoundKept(strat', mode, s, u) => RoundKept(strat, mode, s, u)'
  BY <1>1, <1>2 DEF RoundKept
<1> QED BY <1>3 DEF ControllerKeeps, Prescribed

\* The relation is the one read off the levels, and a controller that exists keeps
\* the winning region and makes progress, until the solver returns.
StrategyInv ==
  /\ pc \in {"relation", "skolem"} => game.reset \in W
  /\ pc = "skolem" => moves = [g \in GoalIx |-> GoalMoves(g)]
  /\ ~strat.none => /\ pc \in Late \cup {"settle", "returned", "done"}
                    /\ ControllerGood

LEMMA StrategyStep ==
  ASSUME TypeOK, Indices, FixInv, LevelInv, StrategyInv, [Next]_vars
  PROVE  StrategyInv'
<1>0. game' = game /\ GoalIx' = GoalIx
  BY InputsKept
<1>g. ASSUME UNCHANGED <<W, xs, ys>>, strat' = strat, ControllerGood
      PROVE  ControllerGood'
  <2>1. UNCHANGED <<game, W, xs, ys>>
    BY <1>0, <1>g
  <2>2. Ready'
    BY <1>g, <2>1, ReadyKept DEF ControllerGood
  <2>3. ControllerKeeps(strat)'
    BY <1>g, <2>1, ControllerKept DEF ControllerGood
  <2> QED BY <1>0, <1>g, <2>2, <2>3 DEF ControllerGood
<1> USE DEF Late
<1>1. CASE Verdict
  <2>1. /\ pc = "reset" /\ pc' \in {"dx", "relation", "settle"}
        /\ UNCHANGED <<W, strat>> /\ (pc' = "relation" => game.reset \in W)
    BY <1>1 DEF Verdict, result
  <2>2. strat.none
    BY <2>1 DEF StrategyInv
  <2> QED BY <1>0, <2>1, <2>2 DEF StrategyInv
<1>2. CASE Relation
  <2>1. /\ pc = "relation" /\ pc' = "skolem" /\ UNCHANGED <<W, xs, ys, strat>>
        /\ moves' = [g \in GoalIx |-> GoalMoves(g)]
    BY <1>2 DEF Relation, loop
  <2>2. [g \in GoalIx |-> GoalMoves(g)]' = [g \in GoalIx |-> GoalMoves(g)]
    BY <1>0, <2>1, RelationKept
  <2>3. strat.none
    BY <2>1 DEF StrategyInv
  <2> QED BY <1>0, <2>1, <2>2, <2>3 DEF StrategyInv
<1>3. CASE Convert
  <2>1. /\ pc = "skolem" /\ pc' = "poll" /\ UNCHANGED <<W, xs, ys>>
    BY <1>3 DEF Convert, loop
  <2>2. Ready
    BY <2>1 DEF Ready, FixInv, LevelInv, Decided
  <2>3. GoalIx # {}
    BY <2>1 DEF Indices, Phases
  <2>4. ControllerKeeps(strat')
    BY <1>3, <2>1, <2>2, <2>3, ConvertKeeps DEF StrategyInv
  <2>5. UNCHANGED <<game, W, xs, ys>>
    BY <1>0, <2>1
  <2>6. Ready' /\ ControllerKeeps(strat)'
    BY <2>2, <2>4, <2>5, ReadyKept, ControllerKept
  <2>7. game'.reset \in W'
    BY <1>0, <2>1 DEF StrategyInv
  <2>8. ControllerGood'
    BY <1>0, <2>3, <2>6, <2>7 DEF ControllerGood
  <2> QED BY <2>1, <2>8 DEF StrategyInv
<1>4. CASE \/ BadBuffers \/ EarlyReturn \/ SetUp \/ SetUpFails \/ Construct
           \/ DescendX \/ SettleX \/ ClimbY \/ SettleY \/ DescendW \/ SettleW
           \/ FixpointFails \/ VerdictFails \/ ClimbDualX \/ SettleDualX
           \/ DescendDualY \/ SettleDualY \/ ClimbDualZ \/ SettleDualZ
           \/ DualFails \/ CounterStrategy \/ ExtractionFails
  <2>1. pc \notin Late \cup {"settle", "returned", "done"} /\ strat' = strat
    BY <1>4 DEF BadBuffers, EarlyReturn, SetUp, SetUpFails, Construct, DescendX,
         SettleX, ClimbY, SettleY, DescendW, SettleW, FixpointFails, VerdictFails,
         ClimbDualX, SettleDualX, DescendDualY, SettleDualY, ClimbDualZ,
         SettleDualZ, DualFails, CounterStrategy, ExtractionFails, result
  <2>2. pc' \notin {"relation", "skolem"}
    BY <1>4 DEF BadBuffers, EarlyReturn, SetUp, SetUpFails, Construct, DescendX,
         SettleX, ClimbY, SettleY, DescendW, SettleW, FixpointFails, VerdictFails,
         ClimbDualX, SettleDualX, DescendDualY, SettleDualY, ClimbDualZ,
         SettleDualZ, DualFails, CounterStrategy, ExtractionFails
  <2> QED BY <2>1, <2>2 DEF StrategyInv
<1>5. CASE \/ Poll("poll", "policy") \/ Poll("poll2", "settle")
           \/ \E kind \in {"policy", "certificate"} : Export(kind) \/ ExportFails(kind)
           \/ Settle \/ ReturnUnstaged \/ Publish \/ Withdraw
  <2>1. /\ pc' \in Late \cup {"settle", "returned", "done"}
        /\ UNCHANGED <<W, xs, ys>> /\ (strat' = strat \/ strat' = None)
    BY <1>5 DEF Poll, Export, ExportFails, NextExport, Settle, ReturnUnstaged,
                Publish, Withdraw, loop, result
  <2>2. strat' = None => strat'.none
    BY DEF None
  <2> QED BY <1>g, <2>1, <2>2 DEF StrategyInv
<1>6. CASE UNCHANGED vars
  <2>1. UNCHANGED <<pc, W, xs, ys, strat, moves>>
    BY <1>6 DEF vars, loop, result
  <2>2. [g \in GoalIx |-> GoalMoves(g)]' = [g \in GoalIx |-> GoalMoves(g)]
    BY <1>0, <2>1, RelationKept
  <2> QED BY <1>0, <1>g, <2>1, <2>2 DEF StrategyInv
<1> QED BY <1>1, <1>2, <1>3, <1>4, <1>5, <1>6 DEF Next

\* The controller's half of what the checker accepts.
LEMMA ControllerAccepted ==
  ASSUME TypeOK, ~strat.none, ControllerGood
  PROVE  LET cert == SystemCertificate IN
           /\ \A g \in GoalIx : Len(cert.y[g]) > 0
           /\ SystemShape(game, cert) /\ Covered(game, cert)
           /\ game.reset \in cert.inv
           /\ \A mode \in Modes(NumGoals(game)) :
                /\ SystemMode(game, SystemPolicyExport, cert, mode)
                /\ RegionMode(game, cert, mode)
<1> DEFINE cert == SystemCertificate
<1>0. /\ Ready /\ game.reset \in W /\ ControllerKeeps(strat)
  BY DEF ControllerGood
<1>n. /\ NumGoals(game) \in Nat /\ NumFairs(game) \in Nat /\ NumFairs(game) >= 1
      /\ GoalIx = 1..NumGoals(game) /\ FairIx = 1..NumFairs(game)
      /\ NumGoals(game) > 0
  BY GameFacts DEF TypeOK, GoalIx, FairIx, ControllerGood
<1>c. cert.inv = W /\ cert.y = ys /\ cert.x = xs /\ cert.stateOnly = TRUE
  BY DEF SystemCertificate
<1>w. W \subseteq State
  BY DEF TypeOK
<1> HIDE DEF cert
<1>1. \A g \in GoalIx : Len(cert.y[g]) > 0
  BY <1>0, <1>c, LevelFacts
<1>2. SystemShape(game, cert)
  <2>1. cert.stateOnly
    BY <1>c, Zenon
  <2>2. ASSUME NEW g \in 1..NumGoals(game), NEW k \in 1..Len(ys[g])
        PROVE  /\ ys[g][k] = UNION {xs[<<g, a>>][k] : a \in 1..NumFairs(game)}
               /\ k > 1 => ys[g][k - 1] \subseteq ys[g][k]
    <3>1. g \in GoalIx
      BY <1>n
    <3>2. /\ ys[g][k] = UNION {xs[<<g, a>>][k] : a \in FairIx}
          /\ Prev(ys[g], k) \subseteq ys[g][k]
      BY <1>0, <3>1, LevelFacts
    <3>3. k > 1 => k # 1
      OBVIOUS
    <3> QED BY <3>2, <3>3 DEF Prev, FairIx
  <2>3. ASSUME NEW g \in 1..NumGoals(game), NEW k \in 1..Len(cert.y[g])
        PROVE  /\ cert.y[g][k] = UNION {cert.x[<<g, a>>][k] : a \in 1..NumFairs(game)}
               /\ k > 1 => cert.y[g][k - 1] \subseteq cert.y[g][k]
    <3>1. k \in 1..Len(ys[g]) /\ cert.y[g] = ys[g]
      BY <1>c
    <3>2. {cert.x[<<g, a>>][k] : a \in 1..NumFairs(game)}
            = {xs[<<g, a>>][k] : a \in 1..NumFairs(game)}
      BY <1>c, Zenon
    <3> QED BY <2>2, <3>1, <3>2
  <2> QED BY <2>1, <2>3, Zenon DEF SystemShape
<1>3. Covered(game, cert)
  <2> SUFFICES ASSUME NEW g \in GoalIx, NEW s \in W
               PROVE  \E a \in FairIx, k \in 1..Len(ys[g]) : s \in xs[<<g, a>>][k]
    BY <1>n, <1>c DEF Covered
  <2>1. /\ Len(ys[g]) \in 1..Len(ys[g])
        /\ s \in UNION {xs[<<g, a>>][Len(ys[g])] : a \in FairIx}
    BY <1>0, LevelFacts
  <2> QED BY <2>1
<1>l. ASSUME NEW g \in GoalIx, NEW k \in 1..Len(ys[g]), NEW a \in FairIx,
             NEW s \in RankLayer(game, cert, g, k, a)
      PROVE  FirstLevel(g, k, a, s)
  <2>1. /\ s \in W /\ s \notin game.goals[g] /\ s \in xs[<<g, a>>][k]
        /\ \A b \in FairIx, m \in 1..k : (m < k \/ b < a) => s \notin xs[<<g, b>>][m]
    BY <1>l, <1>n, <1>c DEF RankLayer
  <2>2. k \in Nat /\ k >= 1 /\ a \in Nat /\ k \in 1..k
    BY <1>l, <1>n, <1>0, LevelFacts
  <2>3. \A e \in 1..(k - 1), b \in FairIx : s \notin xs[<<g, b>>][e]
    <3> SUFFICES ASSUME NEW e \in 1..(k - 1), NEW b \in FairIx PROVE s \notin xs[<<g, b>>][e]
      OBVIOUS
    <3>1. e \in 1..k /\ e < k
      BY <2>2
    <3> QED BY <2>1, <3>1
  <2>4. \A b \in 1..(a - 1) : s \notin xs[<<g, b>>][k]
    <3> SUFFICES ASSUME NEW b \in 1..(a - 1) PROVE s \notin xs[<<g, b>>][k]
      OBVIOUS
    <3>1. b \in FairIx /\ b < a
      BY <1>n, <2>2
    <3> QED BY <2>1, <2>2, <3>1
  <2> QED BY <2>1, <2>3, <2>4 DEF FirstLevel, AtGoal
<1>p. ASSUME NEW g \in GoalIx, NEW k \in 1..Len(ys[g]), NEW a \in FairIx
      PROVE  Progress(game, cert, g, k, a) = Ahead(g, k, a)
  BY <1>c DEF Progress, Ahead, Strict, AtGoal
<1>4. ASSUME NEW mode \in Modes(NumGoals(game))
      PROVE  SystemMode(game, SystemPolicyExport, cert, mode)
  <2> SUFFICES ASSUME NEW s \in W, NEW u \in UMove
               PROVE  RoundOK(game, SystemPolicyExport, cert, mode, s, u)
    BY <1>c DEF SystemMode
  <2> DEFINE g == Current(mode)
             v == <<s, u, strat.out[<<s, mode, u>>]>>
  <2>1. mode \in SUBSET GoalIx /\ g \in GoalIx
    BY <1>n, <1>4, ModeFacts
  <2>2. /\ RoundKept(strat, mode, s, u)
        /\ strat.count[<<s, mode>>] =
             Prescribed(mode, NumGoals(game), s \in game.goals[Current(mode)])
    BY <1>0, <1>4, Zenon DEF ControllerKeeps
  <2>3. SystemPolicyExport.out = strat.out
    BY DEF SystemPolicyExport
  <2>4. SystemPolicyExport.count[<<s, mode, u>>] = strat.count[<<s, mode>>]
    <3>1. <<s, mode, u>> \in State \X (SUBSET GoalIx) \X UMove
      BY <1>w, <2>1
    <3> QED BY <3>1 DEF SystemPolicyExport
  <2>5. v \in SafeInto(game, W)
    BY <2>2 DEF RoundKept
  <2>6. ASSUME NEW k \in 1..Len(ys[g]), NEW a \in FairIx,
               s \in RankLayer(game, cert, g, k, a)
        PROVE  game.succ[v] \in Progress(game, cert, g, k, a)
    <3>1. FirstLevel(g, k, a, s)
      BY <1>l, <2>1, <2>6
    <3>2. v \in SafeInto(game, Ahead(g, k, a))
      BY <2>2, <2>6, <3>1 DEF RoundKept
    <3>3. game.succ[v] \in Ahead(g, k, a)
      BY <3>2 DEF SafeInto
    <3> QED BY <1>p, <2>1, <2>6, <3>3
  <2> QED
    BY <1>c, <1>n, <2>2, <2>3, <2>4, <2>5, <2>6, Zenon DEF RoundOK
<1>5. ASSUME NEW mode \in Modes(NumGoals(game))
      PROVE  RegionMode(game, cert, mode)
  <2> DEFINE g == Current(mode)
  <2>1. g \in GoalIx
    BY <1>n, <1>5, ModeFacts
  <2>2. ASSUME NEW s \in W \cap game.goals[g], NEW u \in UMove
        PROVE  \E c \in CMove : <<s, u, c>> \in SafeInto(game, W)
    <3>1. s \in W
      BY <2>2
    <3> QED BY <1>0, <2>1, <2>2, <3>1, RelationFacts
  <2>3. ASSUME NEW k \in 1..Len(ys[g]), NEW a \in FairIx,
               NEW s \in RankLayer(game, cert, g, k, a), NEW u \in UMove
        PROVE  \E c \in CMove :
                 <<s, u, c>> \in SafeInto(game, W \cap Progress(game, cert, g, k, a))
    <3>1. FirstLevel(g, k, a, s) /\ s \in W
      BY <1>l, <1>c, <2>1, <2>3 DEF RankLayer
    <3>2. PICK c \in CMove : <<s, u, c>> \in GoalMoves(g)
      BY <1>0, <2>1, <2>3, <3>1, RelationFacts
    <3>3. <<s, u, c>> \in SafeInto(game, W) /\ <<s, u, c>> \in SafeInto(game, Ahead(g, k, a))
      BY <1>0, <2>1, <2>3, <3>1, <3>2, RelationFacts
    <3>4. Progress(game, cert, g, k, a) = Ahead(g, k, a)
      BY <1>p, <2>1, <2>3
    <3> QED BY <3>3, <3>4 DEF SafeInto
  <2> QED BY <1>c, <1>n, <2>2, <2>3 DEF RegionMode
<1>6. game.reset \in cert.inv
  BY <1>0, <1>c
<1> QED BY <1>1, <1>2, <1>3, <1>4, <1>5, <1>6 DEF cert

-----------------------------------------------------------------------------
(***************************************************************************)
(* The levels the counter-strategy is read off: for each outer level and   *)
(* each goal the Y it ended with, and for each assumption the ranks of the *)
(* last inner fixpoint.                                                    *)
(***************************************************************************)
DTarget(g, e, a, Z, Y, X) ==
  (Z \cup (State \ g.goals[e])) \cap Y \cap (X \cup Fair(g, a))

\* Each rank is the predecessor of the one before it, and grows.
Ranks(g, e, a, Z, Y, s) ==
  \A l \in 1..Len(s) : /\ s[l] = DPre(g, DTarget(g, e, a, Z, Y, Prev(s, l)))
                       /\ Prev(s, l) \subseteq s[l]

\* The ranks of the assumptions before b are complete, and d is where they meet.
RanksDone(g, e, b, Z, Y, d, fx) ==
  /\ \A a \in 1..NumFairs(g) : a < b =>
       Len(fx[<<e, a>>]) > 0 /\ Ranks(g, e, a, Z, Y, fx[<<e, a>>])
  /\ d = {s \in State : \A a \in 1..NumFairs(g) : a < b => s \in LastOf(fx[<<e, a>>])}

\* Those of assumption b are under way, up to n.
RanksUnderWay(g, e, b, Z, Y, n, s) ==
  /\ Ranks(g, e, b, Z, Y, s) /\ n = Prev(s, Len(s) + 1)
  /\ n \subseteq DPre(g, DTarget(g, e, b, Z, Y, n))

DenialDone(g, e, Z, fx, fy) ==
  RanksDone(g, e, NumFairs(g) + 1, Z, fy[e][1], fy[e][1], fx)

\* A complete outer level above Z.
OuterDone(g, Z, level) ==
  /\ \A e \in 1..NumGoals(g) : DenialDone(g, e, Z, level.x, level.y)
  /\ level.z = UNION {level.y[e][1] : e \in 1..NumGoals(g)}
  /\ Z \subseteq level.z

\* The outer levels so far, the last of which is o.
Outers(g, ls, o) ==
  /\ o = IF Len(ls) = 0 THEN {} ELSE ls[Len(ls)].z
  /\ \A k \in 1..Len(ls) :
       /\ OuterDone(g, IF k = 1 THEN {} ELSE ls[k - 1].z, ls[k])
       /\ \A m \in k..Len(ls) : ls[k].z \subseteq ls[m].z

DualInv ==
  /\ pc \in Early => levels = << >>
  /\ pc \in Dual => /\ Outers(game, levels, outer)
                    /\ ZRound(game, Co(outer)) \subseteq Co(outer)
  /\ pc \in {"dx", "dy"} =>
       /\ \A e \in 1..(j - 1) : DenialDone(game, e, outer, xs, ys)
       /\ combined = UNION {ys[e][1] : e \in 1..(j - 1)}
       /\ \A e \in 1..NumGoals(game), a \in 1..NumFairs(game) :
            j < e => xs[<<e, a>>] = << >>
  /\ pc = "dx" =>
       /\ RanksDone(game, j, i, outer, mid, gathered, xs)
       /\ RanksUnderWay(game, j, i, outer, mid, inner, xs[<<j, i>>])
  /\ pc = "dy" => RanksDone(game, j, NumFairs(game) + 1, outer, mid, gathered, xs)
  /\ pc = "dz" =>
       /\ \A e \in 1..NumGoals(game) : DenialDone(game, e, outer, xs, ys)
       /\ combined = UNION {ys[e][1] : e \in 1..NumGoals(game)}
  /\ pc = "counterstrategy" => Outers(game, levels, L) /\ game.reset \in L

LEMMA DPreMonotone ==
  ASSUME NEW g, NEW S, NEW T, S \subseteq T
  PROVE  DPre(g, S) \subseteq DPre(g, T)
BY DEF DPre, BadOrInto

LEMMA RanksStart ==
  ASSUME NEW g, NEW e, NEW b, NEW Z, NEW Y
  PROVE  RanksUnderWay(g, e, b, Z, Y, {}, << >>)
BY DEF RanksUnderWay, Ranks, Prev

\* A rank is added: another one, or the last one again.
LEMMA RankAdded ==
  ASSUME NEW g, NEW e, NEW b, NEW Z, NEW Y, NEW n, NEW s \in Seq(SUBSET State), NEW x,
         RanksUnderWay(g, e, b, Z, Y, n, s), x = DPre(g, DTarget(g, e, b, Z, Y, n))
  PROVE  /\ RanksUnderWay(g, e, b, Z, Y, x, Append(s, x))
         /\ Ranks(g, e, b, Z, Y, Append(s, x))
         /\ Len(Append(s, x)) > 0 /\ LastOf(Append(s, x)) = x
<1> DEFINE t == Append(s, x)
           m == Len(s)
<1>0. m \in Nat
  OBVIOUS
<1>1. /\ Len(t) = m + 1 /\ t[m + 1] = x /\ \A l \in 1..m : t[l] = s[l]
  BY AppendFacts
<1> HIDE DEF t
<1>2. n \subseteq x
  BY DEF RanksUnderWay
<1>3. \A l \in 1..m : Prev(t, l) = Prev(s, l)
  <2> SUFFICES ASSUME NEW l \in 1..m, l # 1 PROVE t[l - 1] = s[l - 1]
    BY DEF Prev
  <2>1. l - 1 \in 1..m
    BY <1>0
  <2> QED BY <1>1, <2>1
<1>4. Prev(t, m + 1) = n
  <2>0. n = Prev(s, m + 1)
    BY DEF RanksUnderWay
  <2>1. CASE m = 0
    BY <2>0, <2>1 DEF Prev
  <2>2. CASE m # 0
    <3>1. m \in 1..m /\ m + 1 # 1 /\ (m + 1) - 1 = m
      BY <1>0, <2>2
    <3> QED BY <1>1, <2>0, <3>1 DEF Prev
  <2> QED BY <2>1, <2>2
<1>5. Prev(t, (m + 1) + 1) = x
  <2>1. (m + 1) + 1 # 1 /\ ((m + 1) + 1) - 1 = m + 1
    BY <1>0
  <2> QED BY <1>1, <2>1 DEF Prev
<1>6. Ranks(g, e, b, Z, Y, t)
  <2> SUFFICES ASSUME NEW l \in 1..(m + 1)
               PROVE  /\ t[l] = DPre(g, DTarget(g, e, b, Z, Y, Prev(t, l)))
                      /\ Prev(t, l) \subseteq t[l]
    BY <1>1 DEF Ranks
  <2>1. CASE l = m + 1
    BY <1>1, <1>2, <1>4, <2>1
  <2>2. CASE l # m + 1
    <3>1. l \in 1..m
      BY <1>0, <2>2
    <3> QED BY <1>1, <1>3, <3>1 DEF RanksUnderWay, Ranks
  <2> QED BY <2>1, <2>2
<1>7. x \subseteq DPre(g, DTarget(g, e, b, Z, Y, x))
  <2>1. DTarget(g, e, b, Z, Y, n) \subseteq DTarget(g, e, b, Z, Y, x)
    BY <1>2 DEF DTarget
  <2> QED BY <2>1, DPreMonotone
<1>8. RanksUnderWay(g, e, b, Z, Y, x, t)
  BY <1>1, <1>5, <1>6, <1>7 DEF RanksUnderWay
<1>9. Len(t) > 0 /\ LastOf(t) = x
  BY <1>0, <1>1 DEF LastOf
<1> QED BY <1>6, <1>8, <1>9 DEF t

LEMMA NoRanksDone ==
  ASSUME NEW g, NEW e, NEW Z, NEW Y, NEW fx, NumFairs(g) \in Nat
  PROVE  RanksDone(g, e, 1, Z, Y, State, fx)
<1>1. \A a \in 1..NumFairs(g) : ~(a < 1)
  OBVIOUS
<1> QED BY <1>1 DEF RanksDone

\* The ranks of assumption b are complete.
LEMMA RanksMeet ==
  ASSUME NEW g, NEW e, NEW b \in 1..NumFairs(g), NEW Z, NEW Y, NEW d,
         NEW n \in SUBSET State, NEW fx, NEW hx, NumFairs(g) \in Nat,
         RanksDone(g, e, b, Z, Y, d, fx),
         \A a \in 1..NumFairs(g) : a < b => hx[<<e, a>>] = fx[<<e, a>>],
         Len(hx[<<e, b>>]) > 0, Ranks(g, e, b, Z, Y, hx[<<e, b>>]),
         LastOf(hx[<<e, b>>]) = n
  PROVE  RanksDone(g, e, b + 1, Z, Y, d \cap n, hx)
<1>1. \A a \in 1..NumFairs(g) : a < b + 1 <=> a < b \/ a = b
  OBVIOUS
<1>2. \A a \in 1..NumFairs(g) : a < b + 1 =>
        Len(hx[<<e, a>>]) > 0 /\ Ranks(g, e, a, Z, Y, hx[<<e, a>>])
  BY <1>1 DEF RanksDone
<1>3. d \cap n =
        {s \in State : \A a \in 1..NumFairs(g) : a < b + 1 => s \in LastOf(hx[<<e, a>>])}
  BY <1>1 DEF RanksDone
<1> QED BY <1>2, <1>3 DEF RanksDone

LEMMA DenialKept ==
  ASSUME NEW g, NEW e, NEW Z, NEW fx, NEW hx, NEW fy, NEW hy, fy[e][1] = hy[e][1],
         \A a \in 1..NumFairs(g) : fx[<<e, a>>] = hx[<<e, a>>],
         DenialDone(g, e, Z, fx, fy)
  PROVE  DenialDone(g, e, Z, hx, hy)
BY DEF DenialDone, RanksDone

\* An outer level is added.
LEMMA OuterAdded ==
  ASSUME NEW g, NEW T, NEW ls \in Seq(T), NEW o, NEW level, Outers(g, ls, o),
         OuterDone(g, o, level)
  PROVE  Outers(g, Append(ls, level), level.z)
<1> DEFINE ks == Append(ls, level)
           n == Len(ls)
<1>0. n \in Nat
  OBVIOUS
<1>1. /\ Len(ks) = n + 1 /\ ks[n + 1] = level /\ \A k \in 1..n : ks[k] = ls[k]
  BY AppendFacts
<1> HIDE DEF ks
<1>2. ASSUME NEW k \in 1..n PROVE ls[k].z \subseteq o
  <2>1. n # 0 /\ n \in k..n
    BY <1>0, <1>2
  <2> QED BY <1>2, <2>1 DEF Outers
<1>3. o \subseteq level.z
  BY DEF OuterDone
<1>4. ASSUME NEW k \in 1..(n + 1)
      PROVE  OuterDone(g, IF k = 1 THEN {} ELSE ks[k - 1].z, ks[k])
  <2>1. CASE k \in 1..n
    <3>1. k # 1 => k - 1 \in 1..n
      BY <1>0, <2>1
    <3>2. (IF k = 1 THEN {} ELSE ks[k - 1].z) = (IF k = 1 THEN {} ELSE ls[k - 1].z)
      BY <1>1, <3>1
    <3> QED BY <1>1, <2>1, <3>2 DEF Outers
  <2>2. CASE k = n + 1
    <3>1. (IF k = 1 THEN {} ELSE ks[k - 1].z) = o
      <4>1. CASE n = 0
        BY <2>2, <4>1 DEF Outers
      <4>2. CASE n # 0
        <5>1. k # 1 /\ k - 1 = n /\ n \in 1..n
          BY <1>0, <2>2, <4>2
        <5> QED BY <1>1, <4>2, <5>1 DEF Outers
      <4> QED BY <4>1, <4>2
    <3> QED BY <1>1, <2>2, <3>1
  <2>3. k \in 1..n \/ k = n + 1
    BY <1>0
  <2> QED BY <2>1, <2>2, <2>3
<1>5. ASSUME NEW k \in 1..(n + 1), NEW m \in k..(n + 1)
      PROVE  ks[k].z \subseteq ks[m].z
  <2>1. CASE m = n + 1 /\ k = n + 1
    BY <2>1
  <2>2. CASE m = n + 1 /\ k # n + 1
    <3>1. k \in 1..n
      BY <1>0, <2>2
    <3> QED BY <1>1, <1>2, <1>3, <2>2, <3>1
  <2>3. CASE m # n + 1
    <3>1. k \in 1..n /\ m \in k..n /\ m \in 1..n
      BY <1>0, <2>3
    <3> QED BY <1>1, <3>1 DEF Outers
  <2> QED BY <2>1, <2>2, <2>3
<1>6. Len(ks) # 0 /\ ks[Len(ks)].z = level.z
  BY <1>0, <1>1
<1>7. Outers(g, ks, level.z)
  BY <1>1, <1>4, <1>5, <1>6 DEF Outers
<1> QED BY <1>7 DEF ks

LEMMA DualStep ==
  ASSUME TypeOK, Indices, FixInv, DualInv, [Next]_vars
  PROVE  DualInv'
<1>0. /\ game' = game /\ GoalIx' = GoalIx /\ FairIx' = FairIx /\ game \in Games
      /\ xs \in Ranked /\ ys \in Levelled
  BY InputsKept DEF TypeOK
<1>n. /\ NumGoals(game) \in Nat /\ NumFairs(game) \in Nat /\ NumFairs(game) >= 1
      /\ GoalIx = 1..NumGoals(game) /\ FairIx = 1..NumFairs(game)
  BY <1>0, GameFacts DEF GoalIx, FairIx
<1>t. /\ outer \in SUBSET State /\ combined \in SUBSET State /\ mid \in SUBSET State
      /\ gathered \in SUBSET State /\ inner \in SUBSET State
  BY DEF TypeOK
<1>j. pc \in Dual => j \in 1..NumGoals(game) /\ i \in 1..NumFairs(game)
  BY <1>n DEF Indices
<1>x. pc = "dx" => /\ xs[<<j, i>>] \in Seq(SUBSET State) /\ <<j, i>> \in DOMAIN xs
                   /\ DualTarget = DTarget(game, j, i, outer, mid, inner)
  BY <1>0, <1>n, <1>j DEF Ranked, Dual, DualTarget, DTarget
<1>e. \A k \in 1..NumGoals(game) : \A e \in 1..(k - 1) :
        e \in 1..NumGoals(game) /\ e # k /\ ~(k < e)
  BY <1>n
<1>d. DOMAIN xs = (1..NumGoals(game)) \X (1..NumFairs(game)) /\ DOMAIN ys = 1..NumGoals(game)
  BY <1>0, <1>n DEF Ranked, Levelled
<1> USE DEF Dual, Early
<1>1. CASE Verdict
  <2>0. pc = "reset" /\ levels' = levels /\ levels = << >>
    BY <1>1 DEF Verdict, result, DualInv
  <2>1. CASE unreal' /\ ok'
    <3>1. /\ pc' = "dx" /\ outer' = {} /\ combined' = {} /\ j' = 1 /\ i' = 1
          /\ mid' = State /\ gathered' = State /\ inner' = {} /\ xs' = NoLevels
      BY <1>1, <2>1 DEF Verdict, StartDualGoal
    <3>2. Outers(game, << >>, {})
      BY DEF Outers
    <3>3. ZRound(game, Co({})) \subseteq Co({})
      BY DEF ZRound, Co
    <3>4. /\ \A e \in 1..NumGoals(game), a \in 1..NumFairs(game) : xs'[<<e, a>>] = << >>
          /\ 1 \in 1..NumGoals(game) /\ 1 \in 1..NumFairs(game)
      <4>1. 1 \in GoalIx
        BY <2>0 DEF Indices, Phases
      <4> QED BY <1>n, <3>1, <4>1 DEF NoLevels
    <3>5. /\ RanksDone(game, 1, 1, {}, State, State, xs')
          /\ RanksUnderWay(game, 1, 1, {}, State, {}, xs'[<<1, 1>>])
      BY <1>n, <3>4, NoRanksDone, RanksStart
    <3>6. 1..(1 - 1) = {} /\ UNION {ys'[e][1] : e \in {}} = {}
      OBVIOUS
    <3> QED BY <1>0, <2>0, <3>1, <3>2, <3>3, <3>4, <3>5, <3>6 DEF DualInv
  <2>2. CASE ~(unreal' /\ ok')
    BY <1>1, <2>0, <2>2 DEF Verdict, DualInv
  <2> QED BY <2>1, <2>2
<1>2. CASE ClimbDualX
  <2>0. /\ pc = "dx" /\ pc' = "dx" /\ inner' = DPre(game, DualTarget)
        /\ xs' = [xs EXCEPT ![<<j, i>>] = Append(@, inner')]
        /\ UNCHANGED <<outer, combined, mid, gathered, j, i, ys, levels>>
    BY <1>2 DEF ClimbDualX, result
  <2>1. /\ j \in 1..NumGoals(game) /\ i \in 1..NumFairs(game)
        /\ xs'[<<j, i>>] = Append(xs[<<j, i>>], inner')
    BY <1>j, <1>x, <2>0
  <2>2. RanksUnderWay(game, j, i, outer, mid, inner', xs'[<<j, i>>])
    <3>1. RanksUnderWay(game, j, i, outer, mid, inner, xs[<<j, i>>])
      BY <2>0 DEF DualInv
    <3>2. inner' = DPre(game, DTarget(game, j, i, outer, mid, inner))
      BY <1>x, <2>0
    <3> QED BY <1>x, <2>0, <2>1, <3>1, <3>2, RankAdded
  <2>3. \A e \in 1..NumGoals(game), a \in 1..NumFairs(game) :
          e # j \/ a # i => xs'[<<e, a>>] = xs[<<e, a>>]
    BY <1>d, <2>0
  <2>4. \A e \in 1..(j - 1) : DenialDone(game, e, outer, xs', ys)
    <3> SUFFICES ASSUME NEW e \in 1..(j - 1) PROVE DenialDone(game, e, outer, xs', ys)
      OBVIOUS
    <3>1. DenialDone(game, e, outer, xs, ys)
      BY <2>0 DEF DualInv
    <3>2. \A a \in 1..NumFairs(game) : xs[<<e, a>>] = xs'[<<e, a>>]
      BY <1>e, <2>1, <2>3
    <3> QED BY <3>1, <3>2, DenialKept
  <2>5. RanksDone(game, j, i, outer, mid, gathered, xs')
    <3>1. \A a \in 1..NumFairs(game) : a < i => xs'[<<j, a>>] = xs[<<j, a>>]
      BY <2>1, <2>3
    <3>2. RanksDone(game, j, i, outer, mid, gathered, xs)
      BY <2>0 DEF DualInv
    <3> QED BY <3>1, <3>2 DEF RanksDone
  <2>6. \A e \in 1..NumGoals(game), a \in 1..NumFairs(game) :
          j < e => xs'[<<e, a>>] = << >>
    <3>1. \A e \in 1..NumGoals(game) : j < e => e # j
      BY <2>1
    <3> QED BY <2>0, <2>3, <3>1 DEF DualInv
  <2> QED BY <1>0, <2>0, <2>2, <2>4, <2>5, <2>6 DEF DualInv
<1>3. CASE SettleDualX
  <2> DEFINE kept == [xs EXCEPT ![<<j, i>>] = Append(@, inner)]
  <2>0. /\ pc = "dx" /\ DPre(game, DualTarget) = inner
        /\ gathered' = gathered \cap inner
        /\ UNCHANGED <<outer, combined, mid, j, ys, levels>>
        /\ \/ /\ i < NumFairs(game) /\ i' = i + 1 /\ inner' = {} /\ pc' = "dx"
              /\ xs' = [kept EXCEPT ![<<j, i + 1>>] = << >>]
           \/ ~(i < NumFairs(game)) /\ xs' = kept /\ pc' = "dy"
    BY <1>3 DEF SettleDualX, result
  <2>1. /\ j \in 1..NumGoals(game) /\ i \in 1..NumFairs(game)
        /\ kept[<<j, i>>] = Append(xs[<<j, i>>], inner)
    BY <1>j, <1>x, <2>0
  <2>2. \A e \in 1..NumGoals(game), a \in 1..NumFairs(game) :
          e # j \/ a # i => kept[<<e, a>>] = xs[<<e, a>>]
    BY <1>d
  <2>k. DOMAIN kept = (1..NumGoals(game)) \X (1..NumFairs(game))
    BY <1>d
  <2> HIDE DEF kept
  <2>3. /\ Ranks(game, j, i, outer, mid, kept[<<j, i>>])
        /\ Len(kept[<<j, i>>]) > 0 /\ LastOf(kept[<<j, i>>]) = inner
    <3>1. RanksUnderWay(game, j, i, outer, mid, inner, xs[<<j, i>>])
      BY <2>0 DEF DualInv
    <3>2. inner = DPre(game, DTarget(game, j, i, outer, mid, inner))
      BY <1>x, <2>0
    <3> QED BY <1>x, <2>0, <2>1, <3>1, <3>2, RankAdded
  <2>4. \A e \in 1..NumGoals(game), a \in 1..NumFairs(game) :
          e # j \/ a < i + 1 => xs'[<<e, a>>] = kept[<<e, a>>]
    <3>1. \A a \in 1..NumFairs(game) : a < i + 1 => a # i + 1
      BY <2>1
    <3> QED BY <2>0, <2>k, <3>1
  <2>5. RanksDone(game, j, i + 1, outer, mid, gathered', xs')
    <3>1. RanksDone(game, j, i, outer, mid, gathered, xs)
      BY <2>0 DEF DualInv
    <3>2. \A a \in 1..NumFairs(game) : a < i => a # i /\ a < i + 1
      BY <2>1
    <3>3. \A a \in 1..NumFairs(game) : a < i => xs'[<<j, a>>] = xs[<<j, a>>]
      BY <2>1, <2>2, <2>4, <3>2
    <3>4. xs'[<<j, i>>] = kept[<<j, i>>]
      <4>1. i < i + 1
        BY <2>1
      <4> QED BY <2>1, <2>4, <4>1
    <3>5. RanksDone(game, j, i + 1, outer, mid, gathered \cap inner, xs')
      BY <1>n, <1>t, <2>1, <2>3, <3>1, <3>3, <3>4, RanksMeet
    <3> QED BY <2>0, <3>5
  <2>6. \A e \in 1..(j - 1) : DenialDone(game, e, outer, xs', ys)
    <3> SUFFICES ASSUME NEW e \in 1..(j - 1) PROVE DenialDone(game, e, outer, xs', ys)
      OBVIOUS
    <3>1. DenialDone(game, e, outer, xs, ys)
      BY <2>0 DEF DualInv
    <3>2. \A a \in 1..NumFairs(game) : xs[<<e, a>>] = xs'[<<e, a>>]
      BY <1>e, <2>1, <2>2, <2>4
    <3> QED BY <3>1, <3>2, DenialKept
  <2>7. \A e \in 1..NumGoals(game), a \in 1..NumFairs(game) :
          j < e => xs'[<<e, a>>] = << >>
    <3>1. \A e \in 1..NumGoals(game) : j < e => e # j
      BY <2>1
    <3> QED BY <2>0, <2>2, <2>4, <3>1 DEF DualInv
  <2>8. CASE i < NumFairs(game)
    <3>1. i + 1 \in 1..NumFairs(game)
      BY <1>n, <2>1, <2>8
    <3>2. /\ pc' = "dx" /\ i' = i + 1 /\ inner' = {} /\ xs'[<<j, i + 1>>] = << >>
      BY <2>0, <2>1, <2>8, <2>k, <3>1
    <3>3. RanksUnderWay(game, j, i + 1, outer, mid, {}, << >>)
      BY RanksStart
    <3> QED BY <1>0, <2>0, <2>5, <2>6, <2>7, <3>2, <3>3 DEF DualInv
  <2>9. CASE ~(i < NumFairs(game))
    <3>1. i + 1 = NumFairs(game) + 1 /\ pc' = "dy"
      BY <1>n, <2>0, <2>1, <2>9
    <3> QED BY <1>0, <2>0, <2>5, <2>6, <2>7, <3>1 DEF DualInv
  <2> QED BY <2>8, <2>9
<1>4. CASE DescendDualY
  <2>0. /\ pc = "dy" /\ pc' = "dx" /\ mid' = gathered /\ gathered' = State
        /\ i' = 1 /\ inner' = {} /\ xs' = [xs EXCEPT ![<<j, 1>>] = << >>]
        /\ UNCHANGED <<outer, combined, j, ys, levels>>
    BY <1>4 DEF DescendDualY, result
  <2>1. /\ j \in 1..NumGoals(game) /\ 1 \in 1..NumFairs(game)
        /\ xs'[<<j, 1>>] = << >>
    BY <1>j, <1>n, <1>d, <2>0
  <2>2. \A e \in 1..NumGoals(game), a \in 1..NumFairs(game) :
          e # j => xs'[<<e, a>>] = xs[<<e, a>>]
    BY <1>d, <2>0
  <2>3. \A e \in 1..(j - 1) : DenialDone(game, e, outer, xs', ys)
    <3> SUFFICES ASSUME NEW e \in 1..(j - 1) PROVE DenialDone(game, e, outer, xs', ys)
      OBVIOUS
    <3>1. DenialDone(game, e, outer, xs, ys)
      BY <2>0 DEF DualInv
    <3>2. \A a \in 1..NumFairs(game) : xs[<<e, a>>] = xs'[<<e, a>>]
      BY <1>e, <2>1, <2>2
    <3> QED BY <3>1, <3>2, DenialKept
  <2>4. \A e \in 1..NumGoals(game), a \in 1..NumFairs(game) :
          j < e => xs'[<<e, a>>] = << >>
    <3>1. \A e \in 1..NumGoals(game) : j < e => e # j
      BY <2>1
    <3> QED BY <2>0, <2>2, <3>1 DEF DualInv
  <2>5. /\ RanksDone(game, j, 1, outer, gathered, State, xs')
        /\ RanksUnderWay(game, j, 1, outer, gathered, {}, << >>)
    BY <1>n, NoRanksDone, RanksStart
  <2> QED BY <1>0, <2>0, <2>1, <2>3, <2>4, <2>5 DEF DualInv
<1>5. CASE SettleDualY
  <2>0. /\ pc = "dy" /\ gathered = mid /\ ys' = [ys EXCEPT ![j] = <<mid>>]
        /\ combined' = combined \cup mid
        /\ UNCHANGED <<outer, xs, levels>>
        /\ \/ j < NumGoals(game) /\ StartDualGoal(j + 1) /\ pc' = "dx"
           \/ ~(j < NumGoals(game)) /\ pc' = "dz"
    BY <1>5 DEF SettleDualY, result
  <2>1. j \in 1..NumGoals(game) /\ ys'[j][1] = mid
    BY <1>j, <1>d, <2>0
  <2>2. \A e \in 1..NumGoals(game) : e # j => ys'[e] = ys[e]
    BY <1>d, <2>0
  <2>3. DenialDone(game, j, outer, xs, ys')
    BY <2>0, <2>1 DEF DualInv, DenialDone
  <2>4. \A e \in 1..j : DenialDone(game, e, outer, xs, ys')
    <3> SUFFICES ASSUME NEW e \in 1..j, e # j PROVE DenialDone(game, e, outer, xs, ys')
      BY <2>3
    <3>1. e \in 1..(j - 1) /\ e \in 1..NumGoals(game)
      BY <1>n, <2>1
    <3>2. DenialDone(game, e, outer, xs, ys)
      BY <2>0, <3>1 DEF DualInv
    <3> QED BY <2>2, <3>1, <3>2, DenialKept
  <2>5. combined' = UNION {ys'[e][1] : e \in 1..j}
    <3>1. \A e \in 1..(j - 1) : ys'[e] = ys[e]
      BY <1>e, <2>1, <2>2
    <3>2. 1..j = (1..(j - 1)) \cup {j}
      BY <2>1
    <3>3. combined = UNION {ys[e][1] : e \in 1..(j - 1)}
      BY <2>0 DEF DualInv
    <3> QED BY <2>0, <2>1, <3>1, <3>2, <3>3
  <2>6. CASE j < NumGoals(game)
    <3>1. /\ pc' = "dx" /\ j' = j + 1 /\ i' = 1 /\ mid' = State /\ gathered' = State
          /\ inner' = {}
      BY <2>0, <2>6 DEF StartDualGoal
    <3>2. /\ j + 1 \in 1..NumGoals(game) /\ (j + 1) - 1 = j /\ j < j + 1
          /\ 1 \in 1..NumFairs(game)
          /\ \A e \in 1..NumGoals(game) : j + 1 < e => j < e
      BY <1>n, <2>1, <2>6
    <3>3. xs[<<j + 1, 1>>] = << >>
      BY <2>0, <3>2 DEF DualInv
    <3>4. /\ RanksDone(game, j + 1, 1, outer, State, State, xs)
          /\ RanksUnderWay(game, j + 1, 1, outer, State, {}, xs[<<j + 1, 1>>])
      BY <1>n, <3>3, NoRanksDone, RanksStart
    <3>5. \A e \in 1..NumGoals(game), a \in 1..NumFairs(game) :
            j + 1 < e => xs[<<e, a>>] = << >>
      BY <2>0, <3>2 DEF DualInv
    <3> QED BY <1>0, <2>0, <2>4, <2>5, <3>1, <3>2, <3>4, <3>5 DEF DualInv
  <2>7. CASE ~(j < NumGoals(game))
    <3>1. j = NumGoals(game)
      BY <1>n, <2>1, <2>7
    <3> QED BY <1>0, <2>0, <2>4, <2>5, <2>7, <3>1 DEF DualInv
  <2> QED BY <2>6, <2>7
<1>6. CASE ClimbDualZ
  <2>0. /\ pc = "dz" /\ pc' = "dx" /\ outer' = combined /\ combined' = {}
        /\ levels' = Append(levels, [z |-> combined, y |-> ys, x |-> xs])
        /\ j' = 1 /\ i' = 1 /\ mid' = State /\ gathered' = State /\ inner' = {}
        /\ xs' = NoLevels
    BY <1>6 DEF ClimbDualZ, StartDualGoal
  <2> DEFINE level == [z |-> combined, y |-> ys, x |-> xs]
  <2>1. level.z = combined /\ level.y = ys /\ level.x = xs
    OBVIOUS
  <2>2. /\ Co(combined) = ZRound(game, Co(outer))
        /\ ZRound(game, Co(outer)) \subseteq Co(outer)
    BY <2>0 DEF FixInv, FixW, DualInv
  <2>3. outer \subseteq combined
    BY <1>t, <2>2 DEF Co
  <2>4. OuterDone(game, outer, level)
    <3>1. /\ \A e \in 1..NumGoals(game) : DenialDone(game, e, outer, xs, ys)
          /\ combined = UNION {ys[e][1] : e \in 1..NumGoals(game)}
      BY <2>0 DEF DualInv
    <3> QED BY <2>1, <2>3, <3>1 DEF OuterDone
  <2> HIDE DEF level
  <2>5. Outers(game, levels', combined)
    <3>1. Outers(game, levels, outer) /\ levels' = Append(levels, level)
      BY <2>0 DEF DualInv, level
    <3>2. levels \in Seq([z : SUBSET State, y : Levelled, x : Ranked])
      BY DEF TypeOK
    <3> QED BY <2>1, <2>4, <3>1, <3>2, OuterAdded
  <2>6. ZRound(game, Co(combined)) \subseteq Co(combined)
    BY <2>2, ZRoundMonotone
  <2>7. /\ \A e \in 1..NumGoals(game), a \in 1..NumFairs(game) : xs'[<<e, a>>] = << >>
        /\ 1 \in 1..NumGoals(game) /\ 1 \in 1..NumFairs(game)
    <3>1. 1 \in GoalIx
      BY <2>0 DEF Indices, Phases
    <3> QED BY <1>n, <2>0, <3>1 DEF NoLevels
  <2>8. /\ RanksDone(game, 1, 1, combined, State, State, xs')
        /\ RanksUnderWay(game, 1, 1, combined, State, {}, xs'[<<1, 1>>])
    BY <1>n, <2>7, NoRanksDone, RanksStart
  <2>9. 1..(1 - 1) = {} /\ UNION {ys'[e][1] : e \in {}} = {}
    OBVIOUS
  <2> QED BY <1>0, <2>0, <2>5, <2>6, <2>7, <2>8, <2>9 DEF DualInv
<1>7. CASE SettleDualZ
  <2>1. /\ pc = "dz" /\ L' = outer /\ levels' = levels
        /\ \/ pc' = "counterstrategy" /\ game.reset \in outer
           \/ pc' = "settle"
    BY <1>7 DEF SettleDualZ
  <2> QED BY <1>0, <2>1 DEF DualInv
<1>8. CASE \/ BadBuffers \/ EarlyReturn \/ SetUp \/ SetUpFails \/ Construct
           \/ DescendX \/ SettleX \/ ClimbY \/ SettleY \/ DescendW \/ SettleW
           \/ Relation
  <2>1. /\ pc \in Early /\ levels' = levels
        /\ pc' \in (Early \cup {"returned", "done"}) \ Dual
    BY <1>8 DEF BadBuffers, EarlyReturn, SetUp, SetUpFails, Construct, DescendX,
         SettleX, ClimbY, SettleY, DescendW, SettleW, Relation, result
  <2> QED BY <2>1 DEF DualInv
<1>9. CASE \/ FixpointFails \/ VerdictFails \/ DualFails \/ CounterStrategy
           \/ Convert \/ ExtractionFails
           \/ Poll("poll", "policy") \/ Poll("poll2", "settle")
           \/ \E kind \in {"policy", "certificate"} : Export(kind) \/ ExportFails(kind)
           \/ Settle \/ ReturnUnstaged \/ Publish \/ Withdraw
  <2>1. pc' \in Late \cup {"settle", "returned", "done"}
    BY <1>9 DEF FixpointFails, VerdictFails, DualFails, CounterStrategy, Convert,
         ExtractionFails, Poll, Export, ExportFails, NextExport, Settle,
         ReturnUnstaged, Publish, Withdraw, Late
  <2> QED BY <2>1 DEF DualInv, Late
<1>10. CASE UNCHANGED vars
  <2>1. UNCHANGED <<pc, game, outer, combined, mid, gathered, inner, j, i, xs, ys,
                    levels, L>>
    BY <1>10 DEF vars, loop, result
  <2> QED BY <2>1 DEF DualInv
<1> QED
  BY <1>1, <1>2, <1>3, <1>4, <1>5, <1>6, <1>7, <1>8, <1>9, <1>10 DEF Next


-----------------------------------------------------------------------------
\* The counter-strategy, read off the outer levels.
Lost == Outers(game, levels, L) /\ game.reset \in L

LEMMA OuterFacts ==
  ASSUME TypeOK, Outers(game, levels, L), NEW k \in 1..Len(levels)
  PROVE  /\ LowerZ(k) \subseteq levels[k].z /\ levels[k].z \subseteq L
         /\ levels[k].z = UNION {levels[k].y[g][1] : g \in GoalIx}
         /\ \A g \in GoalIx :
              levels[k].y[g][1] =
                {s \in State : \A a \in FairIx : s \in LastOf(levels[k].x[<<g, a>>])}
         /\ \A g \in GoalIx, a \in FairIx :
              /\ Len(levels[k].x[<<g, a>>]) \in Nat \ {0}
              /\ \A l \in 1..Len(levels[k].x[<<g, a>>]) :
                   /\ levels[k].x[<<g, a>>][l] = DPre(game, RankTarget(k, g, a, l))
                   /\ Prev(levels[k].x[<<g, a>>], l) \subseteq levels[k].x[<<g, a>>][l]
<1>0. Len(levels) \in Nat /\ k \in Nat /\ k >= 1 /\ k <= Len(levels)
  BY DEF TypeOK
<1>n. /\ NumFairs(game) \in Nat /\ NumFairs(game) >= 1
      /\ GoalIx = 1..NumGoals(game) /\ FairIx = 1..NumFairs(game)
  BY GameFacts DEF TypeOK, GoalIx, FairIx
<1>1. OuterDone(game, LowerZ(k), levels[k])
  BY DEF Outers, LowerZ
<1>2. levels[k].z \subseteq L
  <2>1. Len(levels) # 0 /\ Len(levels) \in k..Len(levels)
    BY <1>0
  <2> QED BY <2>1 DEF Outers
<1>3. LowerZ(k) \subseteq levels[k].z /\ levels[k].z = UNION {levels[k].y[g][1] : g \in GoalIx}
  BY <1>1, <1>n DEF OuterDone
<1>4. ASSUME NEW g \in GoalIx
      PROVE  RanksDone(game, g, NumFairs(game) + 1, LowerZ(k), levels[k].y[g][1],
                       levels[k].y[g][1], levels[k].x)
  BY <1>1, <1>4, <1>n DEF OuterDone, DenialDone
<1>5. \A a \in FairIx : a < NumFairs(game) + 1
  BY <1>n
<1>6. ASSUME NEW g \in GoalIx
      PROVE  levels[k].y[g][1] =
                {s \in State : \A a \in FairIx : s \in LastOf(levels[k].x[<<g, a>>])}
  <2>1. levels[k].y[g][1] =
          {s \in State : \A a \in 1..NumFairs(game) :
             a < NumFairs(game) + 1 => s \in LastOf(levels[k].x[<<g, a>>])}
    BY <1>4, <1>6 DEF RanksDone
  <2> QED BY <1>5, <1>n, <2>1
<1>7. ASSUME NEW g \in GoalIx, NEW a \in FairIx
      PROVE  /\ Len(levels[k].x[<<g, a>>]) \in Nat \ {0}
             /\ \A l \in 1..Len(levels[k].x[<<g, a>>]) :
                   /\ levels[k].x[<<g, a>>][l] = DPre(game, RankTarget(k, g, a, l))
                   /\ Prev(levels[k].x[<<g, a>>], l) \subseteq levels[k].x[<<g, a>>][l]
  <2> DEFINE s == levels[k].x[<<g, a>>]
  <2>1. s \in Seq(SUBSET State)
    <3> DEFINE Level == [z : SUBSET State, y : Levelled, x : Ranked]
    <3>1. levels \in Seq(Level)
      BY DEF TypeOK
    <3> HIDE DEF Level
    <3>2. levels[k] \in Level
      BY <3>1
    <3>3. levels[k].x \in Ranked
      BY <3>2 DEF Level
    <3> QED BY <3>3, <1>7 DEF Ranked
  <2>2. Len(s) > 0 /\ Ranks(game, g, a, LowerZ(k), levels[k].y[g][1], s)
    BY <1>4, <1>5, <1>7, <1>n DEF RanksDone
  <2>3. \A l \in 1..Len(s) :
          RankTarget(k, g, a, l) =
            DTarget(game, g, a, LowerZ(k), levels[k].y[g][1], Prev(s, l))
    BY DEF RankTarget, DTarget, Prev
  <2>4. Len(s) \in Nat
    BY <2>1
  <2> HIDE DEF s
  <2>5. \A l \in 1..Len(s) : /\ s[l] = DPre(game, RankTarget(k, g, a, l))
                             /\ Prev(s, l) \subseteq s[l]
    BY <2>2, <2>3 DEF Ranks
  <2> QED BY <2>2, <2>4, <2>5 DEF s
<1> QED BY <1>2, <1>3, <1>6, <1>7

\* Every lost state is denied one goal, at one outer level.
LEMMA DenialExists ==
  ASSUME TypeOK, Outers(game, levels, L), NEW s \in L
  PROVE  \E k \in 1..Len(levels), g \in GoalIx : Denies(k, g, s)
<1>0. Len(levels) \in Nat /\ GoalIx \subseteq Nat /\ L \subseteq State
  BY GameFacts DEF TypeOK, GoalIx
<1> DEFINE K == {k \in 1..Len(levels) : s \in levels[k].z}
<1>1. K \subseteq Nat /\ K # {}
  <2>1. Len(levels) # 0 /\ s \in levels[Len(levels)].z
    BY DEF Outers
  <2>2. Len(levels) \in 1..Len(levels)
    BY <1>0, <2>1
  <2> QED BY <1>0, <2>1, <2>2
<1>2. PICK k \in K : \A m \in K : k <= m
  BY <1>1, LeastNatural
<1> DEFINE G == {g \in GoalIx : s \in levels[k].y[g][1]}
<1>3. G \subseteq Nat /\ G # {}
  <2>1. s \in UNION {levels[k].y[g][1] : g \in GoalIx}
    BY <1>2, OuterFacts
  <2> QED BY <1>0, <2>1
<1>4. PICK g \in G : \A e \in G : g <= e
  BY <1>3, LeastNatural
<1>5. s \notin LowerZ(k)
  <2> SUFFICES ASSUME k # 1, s \in levels[k - 1].z PROVE FALSE
    BY DEF LowerZ
  <2>1. k - 1 \in 1..Len(levels) /\ ~(k <= k - 1)
    BY <1>0, <1>2
  <2> QED BY <1>2, <2>1
<1>6. \A e \in 1..(g - 1) : s \notin levels[k].y[e][1]
  <2> SUFFICES ASSUME NEW e \in 1..(g - 1), s \in levels[k].y[e][1] PROVE FALSE
    OBVIOUS
  <2>1. e \in GoalIx /\ ~(g <= e)
    BY <1>4, GameFacts DEF GoalIx, TypeOK
  <2> QED BY <1>4, <2>1
<1> QED BY <1>2, <1>4, <1>5, <1>6 DEF Denies

LEMMA DenialUnique ==
  ASSUME TypeOK, Outers(game, levels, L), NEW s,
         NEW k \in 1..Len(levels), NEW g \in GoalIx, Denies(k, g, s),
         NEW m \in 1..Len(levels), NEW e \in GoalIx, Denies(m, e, s)
  PROVE  k = m /\ g = e
<1>0. /\ k \in Nat /\ m \in Nat /\ g \in Nat /\ e \in Nat
      /\ k >= 1 /\ m >= 1 /\ g >= 1 /\ e >= 1
      /\ k <= Len(levels) /\ m <= Len(levels) /\ Len(levels) \in Nat
  BY GameFacts DEF GoalIx, TypeOK
<1>1. ASSUME NEW a \in 1..Len(levels), NEW b \in 1..Len(levels), a < b,
             s \in levels[a].z
      PROVE  s \in LowerZ(b)
  <2>1. b # 1 /\ b - 1 \in a..Len(levels)
    BY <1>0, <1>1
  <2>2. levels[a].z \subseteq levels[b - 1].z
    BY <1>1, <2>1 DEF Outers
  <2> QED BY <1>1, <2>1, <2>2 DEF LowerZ
<1>2. ~(k < m) /\ ~(m < k)
  BY <1>1 DEF Denies
<1>3. k = m
  BY <1>0, <1>2
<1>4. ~(g < e)
  <2>1. g < e => g \in 1..(e - 1)
    BY <1>0
  <2> QED BY <1>3, <2>1 DEF Denies
<1>5. ~(e < g)
  <2>1. e < g => e \in 1..(g - 1)
    BY <1>0
  <2> QED BY <1>3, <2>1 DEF Denies
<1> QED BY <1>0, <1>3, <1>4, <1>5

\* and has one rank for every assumption.
LEMMA RankExists ==
  ASSUME TypeOK, Outers(game, levels, L), NEW k \in 1..Len(levels), NEW g \in GoalIx,
         NEW a \in FairIx, NEW s \in levels[k].y[g][1]
  PROVE  \E l \in 1..Len(levels[k].x[<<g, a>>]) : HasRank(k, g, a, l, s)
<1> DEFINE ranks == levels[k].x[<<g, a>>]
           R == {l \in 1..Len(ranks) : s \in ranks[l]}
<1>0. Len(ranks) \in Nat \ {0} /\ s \in ranks[Len(ranks)]
  BY OuterFacts DEF LastOf
<1> HIDE DEF ranks
<1>1. R \subseteq Nat /\ R # {}
  <2>1. Len(ranks) \in 1..Len(ranks)
    BY <1>0
  <2> QED BY <1>0, <2>1
<1>2. PICK l \in R : \A m \in R : l <= m
  BY <1>1, LeastNatural
<1>3. \A m \in 1..(l - 1) : s \notin ranks[m]
  <2> SUFFICES ASSUME NEW m \in 1..(l - 1), s \in ranks[m] PROVE FALSE
    OBVIOUS
  <2>1. m \in 1..Len(ranks) /\ ~(l <= m)
    BY <1>0, <1>2
  <2> QED BY <1>2, <2>1
<1> QED BY <1>2, <1>3 DEF HasRank, ranks

LEMMA RankUnique ==
  ASSUME NEW k, NEW g, NEW a, NEW s, NEW l \in Nat \ {0}, NEW m \in Nat \ {0},
         HasRank(k, g, a, l, s), HasRank(k, g, a, m, s)
  PROVE  l = m
<1>1. l < m => l \in 1..(m - 1)
  OBVIOUS
<1>2. m < l => m \in 1..(l - 1)
  OBVIOUS
<1>3. ~(l < m) /\ ~(m < l)
  BY <1>1, <1>2 DEF HasRank
<1> QED BY <1>3


\* In a lost state the relation of every assumption offers a move that no c
\* answers; whatever it offers is bad or goes where the state's rank sends it.
LEMMA EnvMoveFacts ==
  ASSUME TypeOK, Outers(game, levels, L), NEW a \in FairIx, NEW s \in L
  PROVE  /\ \E u \in UMove : \A c \in CMove : <<s, u, c>> \in EnvMoves(a)
         /\ \A u \in UMove, c \in CMove : <<s, u, c>> \in EnvMoves(a) =>
              \A k \in 1..Len(levels), g \in GoalIx :
                \A l \in 1..Len(levels[k].x[<<g, a>>]) :
                  Denies(k, g, s) /\ HasRank(k, g, a, l, s)
                    => <<s, u, c>> \in BadOrInto(game, RankTarget(k, g, a, l))
<1>0. s \in State
  BY DEF TypeOK
<1>v. \A u \in UMove, c \in CMove : <<s, u, c>> \in Val /\ <<s, u, c>>[1] = s
  BY <1>0 DEF Val
<1>d. \A u \in UMove, c \in CMove : <<s, u, c>> \in EnvMoves(a) <=>
        \E k \in 1..Len(levels), g \in GoalIx :
          /\ Denies(k, g, s)
          /\ \E l \in 1..Len(levels[k].x[<<g, a>>]) :
               /\ HasRank(k, g, a, l, s)
               /\ <<s, u, c>> \in BadOrInto(game, RankTarget(k, g, a, l))
  BY <1>v DEF EnvMoves
<1>1. PICK k \in 1..Len(levels), g \in GoalIx : Denies(k, g, s)
  BY DenialExists
<1>2. \A m \in 1..Len(levels), e \in GoalIx : Denies(m, e, s) => m = k /\ e = g
  BY <1>1, DenialUnique
<1>3. PICK l \in 1..Len(levels[k].x[<<g, a>>]) : HasRank(k, g, a, l, s)
  BY <1>1, RankExists DEF Denies
<1>4. \A m \in 1..Len(levels[k].x[<<g, a>>]) : HasRank(k, g, a, m, s) => m = l
  <2>1. Len(levels[k].x[<<g, a>>]) \in Nat
    BY OuterFacts
  <2>2. \A m \in 1..Len(levels[k].x[<<g, a>>]) : m \in Nat \ {0}
    BY <2>1
  <2> QED BY <1>3, <2>2, RankUnique
<1>5. \A u \in UMove, c \in CMove :
        <<s, u, c>> \in EnvMoves(a) <=> <<s, u, c>> \in BadOrInto(game, RankTarget(k, g, a, l))
  BY <1>d, <1>1, <1>2, <1>3, <1>4
<1>6. PICK u \in UMove : \A c \in CMove :
        <<s, u, c>> \in BadOrInto(game, RankTarget(k, g, a, l))
  <2>1. s \in levels[k].x[<<g, a>>][l]
    BY <1>3 DEF HasRank
  <2>2. s \in DPre(game, RankTarget(k, g, a, l))
    BY <2>1, OuterFacts
  <2> QED BY <2>2 DEF DPre
<1> QED BY <1>2, <1>4, <1>5, <1>6

\* The assumption a counter waits for in s.
Awaited(mode, s) ==
  IF s \in Fair(game, Current(mode)) THEN Cyclic(Current(mode), NumFairs(game))
  ELSE Current(mode)

EnvRoundKept(st, mode, s) ==
  LET u == st.out[<<s, mode>>]
      a == Awaited(mode, s)
  IN  /\ u \in UMove
      /\ \A c \in CMove, k \in 1..Len(levels), g \in GoalIx :
           \A l \in 1..Len(levels[k].x[<<g, a>>]) :
             Denies(k, g, s) /\ HasRank(k, g, a, l, s)
               => <<s, u, c>> \in BadOrInto(game, RankTarget(k, g, a, l))

EnvKeeps(st) ==
  \A mode \in Modes(NumFairs(game)), s \in L :
    st.count[<<s, mode>>] = {Awaited(mode, s)} /\ EnvRoundKept(st, mode, s)

EnvGood == Lost /\ EnvKeeps(envStrat)

LEMMA AwaitedFacts ==
  ASSUME TypeOK, NEW mode \in Modes(NumFairs(game)), NEW s
  PROVE  /\ mode \in SUBSET FairIx /\ Awaited(mode, s) \in FairIx
         /\ Phase(s, mode) = {Awaited(mode, s)}
         /\ {Awaited(mode, s)} \in Modes(NumFairs(game))
         /\ Cardinality(mode) <= 1
<1>n. NumFairs(game) \in Nat /\ NumFairs(game) > 0 /\ FairIx = 1..NumFairs(game)
  BY GameFacts DEF TypeOK, FairIx
<1> DEFINE p == Current(mode)
<1>1. /\ mode \in SUBSET FairIx /\ p \in FairIx /\ Effective(mode) = {p}
      /\ Cardinality(mode) <= 1
  BY <1>n, ModeFacts
<1>2. Cyclic(p, NumFairs(game)) \in FairIx
  BY <1>n, <1>1 DEF Cyclic
<1> HIDE DEF p
<1>3. Awaited(mode, s) =
        IF s \in Fair(game, p) THEN Cyclic(p, NumFairs(game)) ELSE p
  BY DEF Awaited, p
<1>4. CASE s \in Fair(game, p)
  <2>1. Phase(s, mode) = {Cyclic(p, NumFairs(game))}
    BY <1>1, <1>2, <1>4 DEF Phase
  <2> QED BY <1>n, <1>1, <1>2, <1>3, <1>4, <2>1 DEF Modes
<1>5. CASE s \notin Fair(game, p)
  <2>1. Phase(s, mode) = {p}
    BY <1>1, <1>5 DEF Phase
  <2> QED BY <1>n, <1>1, <1>3, <1>5, <2>1 DEF Modes
<1> QED BY <1>4, <1>5

LEMMA CounterStrategyKeeps ==
  ASSUME TypeOK, Outers(game, levels, L), CounterStrategy
  PROVE  EnvKeeps(envStrat')
<1>w. L \subseteq State
  BY DEF TypeOK
<1> SUFFICES ASSUME NEW mode \in Modes(NumFairs(game)), NEW s \in L
             PROVE  /\ envStrat'.count[<<s, mode>>] = {Awaited(mode, s)}
                    /\ EnvRoundKept(envStrat', mode, s)
  BY DEF EnvKeeps
<1> DEFINE a == Awaited(mode, s)
           S == {u \in UMove : \A c \in CMove : <<s, u, c>> \in EnvMoves(a)}
<1>1. mode \in SUBSET FairIx /\ a \in FairIx /\ Phase(s, mode) = {a}
  BY AwaitedFacts
<1>2. <<s, mode>> \in State \X (SUBSET FairIx)
  BY <1>1, <1>w
<1>3. moves' = [b \in FairIx |-> EnvMoves(b)]
  BY DEF CounterStrategy
<1>4. /\ envStrat'.count[<<s, mode>>] = Phase(s, mode)
      /\ envStrat'.out[<<s, mode>>] =
           Greatest({u \in UMove : \A c \in CMove :
             \E b \in Phase(s, mode) : <<s, u, c>> \in moves'[b]})
  BY <1>2 DEF CounterStrategy
<1> HIDE DEF a
<1>5. {u \in UMove : \A c \in CMove : \E b \in Phase(s, mode) : <<s, u, c>> \in moves'[b]} = S
  BY <1>1, <1>3
<1>6. S # {}
  BY <1>1, EnvMoveFacts
<1>7. Greatest(S) \in S
  BY <1>6, GreatestIsAMove, Gr1Constants DEF UMove
<1> DEFINE o == envStrat'.out[<<s, mode>>]
<1>8. o \in UMove /\ \A c \in CMove : <<s, o, c>> \in EnvMoves(a)
  BY <1>4, <1>5, <1>7
<1> HIDE DEF S, o
<1>9. \A c \in CMove, k \in 1..Len(levels), g \in GoalIx :
        \A l \in 1..Len(levels[k].x[<<g, a>>]) :
          Denies(k, g, s) /\ HasRank(k, g, a, l, s)
            => <<s, o, c>> \in BadOrInto(game, RankTarget(k, g, a, l))
  BY <1>1, <1>8, EnvMoveFacts
<1> QED BY <1>1, <1>4, <1>8, <1>9 DEF EnvRoundKept, a, o

\* What is known of the counter-strategy says nothing of the other variables.
LEMMA EnvKept ==
  ASSUME UNCHANGED <<game, levels, L>>, EnvKeeps(envStrat')
  PROVE  EnvKeeps(envStrat)'
<1>1. /\ GoalIx' = GoalIx
      /\ \A mode, s : Awaited(mode, s)' = Awaited(mode, s)
  BY DEF GoalIx, Awaited
<1>2. \A k : LowerZ(k)' = LowerZ(k)
  BY DEF LowerZ
<1>3. \A k, g, s : Denies(k, g, s)' <=> Denies(k, g, s)
  BY <1>2 DEF Denies
<1>4. \A k, g, a, l, s : HasRank(k, g, a, l, s)' <=> HasRank(k, g, a, l, s)
  BY DEF HasRank
<1>5. \A k, g, a, l : RankTarget(k, g, a, l)' = RankTarget(k, g, a, l)
  BY <1>2 DEF RankTarget
<1>6. \A mode, s : EnvRoundKept(envStrat', mode, s) => EnvRoundKept(envStrat, mode, s)'
  BY <1>1, <1>3, <1>4, <1>5 DEF EnvRoundKept
<1> QED BY <1>1, <1>6 DEF EnvKeeps


\* A verdict has the strategy that goes with it, and a counter-strategy that
\* exists keeps the losing region, until the solver returns.
OutcomeInv ==
  /\ unreal /\ pc \in Late => ~envStrat.none
  /\ unreal /\ pc = "settle" /\ ok => ~envStrat.none
  /\ unreal /\ pc = "returned" /\ opts.exports # {} => ~envStrat.none
  /\ status = "UNREALIZABLE" /\ opts.exports # {} => ~envStrat.none
  /\ status = "REALIZABLE" => ~strat.none
  /\ ~envStrat.none => /\ pc \in Late \cup {"settle", "returned", "done"}
                       /\ EnvGood


LEMMA OutcomeStep ==
  ASSUME TypeOK, ReportInv, DualInv, OutcomeInv, [Next]_vars
  PROVE  OutcomeInv'
<1>0. game' = game /\ opts' = opts
  BY InputsKept
<1>b. ok \in BOOLEAN /\ unreal \in BOOLEAN
  BY DEF TypeOK
<1>g. ASSUME UNCHANGED <<levels, L, envStrat>>, EnvGood
      PROVE  EnvGood'
  <2>1. UNCHANGED <<game, levels, L>>
    BY <1>0, <1>g
  <2>2. EnvKeeps(envStrat)'
    BY <1>g, <2>1, EnvKept DEF EnvGood
  <2> QED BY <1>g, <2>1, <2>2 DEF EnvGood, Lost
<1>n. None.none
  BY DEF None
<1> USE DEF Late
<1>1. CASE CounterStrategy
  <2>1. /\ pc = "counterstrategy" /\ pc' = "poll" /\ UNCHANGED <<levels, L, status>>
        /\ ~envStrat'.none
    BY <1>1 DEF CounterStrategy, report
  <2>2. status = "none" /\ Lost
    BY <2>1 DEF ReportInv, DualInv, Lost
  <2>3. EnvKeeps(envStrat')
    BY <1>1, <2>2, CounterStrategyKeeps DEF Lost
  <2>4. UNCHANGED <<game, levels, L>>
    BY <1>0, <2>1
  <2>5. EnvKeeps(envStrat)'
    BY <2>3, <2>4, EnvKept
  <2>6. EnvGood'
    BY <2>2, <2>4, <2>5 DEF EnvGood, Lost
  <2> QED BY <2>1, <2>2, <2>6 DEF OutcomeInv
<1>2. CASE Convert
  <2>1. /\ pc = "skolem" /\ pc' = "poll" /\ UNCHANGED <<envStrat, status, unreal>>
    BY <1>2 DEF Convert, report
  <2>2. status = "none" /\ ~unreal /\ envStrat.none
    BY <2>1 DEF ReportInv, OutcomeInv, Early
  <2> QED BY <2>1, <2>2 DEF OutcomeInv
<1>3. CASE Verdict
  <2>1. /\ pc = "reset" /\ pc' \in {"dx", "relation", "settle"}
        /\ UNCHANGED <<envStrat, status>>
    BY <1>3 DEF Verdict, result, report
  <2>2. pc' = "settle" => ~(ok' /\ unreal')
    BY <1>3 DEF Verdict
  <2>3. status = "none" /\ envStrat.none
    BY <2>1 DEF ReportInv, OutcomeInv
  <2> QED BY <2>1, <2>2, <2>3 DEF OutcomeInv
<1>4. CASE \/ EarlyReturn \/ SetUp \/ SetUpFails \/ Construct
           \/ DescendX \/ SettleX \/ ClimbY \/ SettleY \/ DescendW \/ SettleW
           \/ FixpointFails \/ VerdictFails \/ ClimbDualX \/ SettleDualX
           \/ DescendDualY \/ SettleDualY \/ ClimbDualZ \/ SettleDualZ
           \/ DualFails \/ Relation \/ ExtractionFails
  <2>1. /\ pc \notin Late \cup {"settle", "returned", "done"}
        /\ UNCHANGED <<envStrat, status>>
    BY <1>4 DEF EarlyReturn, SetUp, SetUpFails, Construct, DescendX,
         SettleX, ClimbY, SettleY, DescendW, SettleW, FixpointFails, VerdictFails,
         ClimbDualX, SettleDualX, DescendDualY, SettleDualY, ClimbDualZ,
         SettleDualZ, DualFails, Relation, ExtractionFails, result, report
  <2>2. /\ pc' \notin Late /\ (pc' = "settle" => ~ok')
        /\ (pc' = "returned" => pc = "enter" /\ unreal' = unreal)
    BY <1>4 DEF EarlyReturn, SetUp, SetUpFails, Construct, DescendX,
         SettleX, ClimbY, SettleY, DescendW, SettleW, FixpointFails, VerdictFails,
         ClimbDualX, SettleDualX, DescendDualY, SettleDualY, ClimbDualZ,
         SettleDualZ, DualFails, Relation, ExtractionFails
  <2>3. status = "none" /\ envStrat.none /\ (pc = "enter" => ~unreal)
    BY <2>1 DEF ReportInv, OutcomeInv, Early
  <2> QED BY <2>1, <2>2, <2>3 DEF OutcomeInv
<1>5. CASE BadBuffers
  <2>1. pc = "enter" /\ pc' = "done" /\ status' = "ERROR" /\ envStrat' = envStrat
    BY <1>5 DEF BadBuffers, result
  <2> QED BY <2>1 DEF OutcomeInv
<1>6. CASE Poll("poll", "policy") \/ Poll("poll2", "settle")
  <2>1. /\ pc \in Late /\ pc' \in Late \cup {"settle"}
        /\ UNCHANGED <<levels, L, envStrat, status, unreal>>
    BY <1>6 DEF Poll, result, report
  <2>2. status = "none"
    BY <2>1 DEF ReportInv
  <2> QED BY <1>g, <2>1, <2>2 DEF OutcomeInv
<1>7. ASSUME NEW kind \in {"policy", "certificate"}, Export(kind) \/ ExportFails(kind)
      PROVE  OutcomeInv'
  <2>1. /\ pc \in Late /\ pc' \in Late \cup {"settle"}
        /\ UNCHANGED <<levels, L, envStrat, status, unreal>>
    BY <1>7 DEF Export, ExportFails, NextExport, result, report
  <2>2. status = "none"
    BY <2>1 DEF ReportInv
  <2> QED BY <1>g, <2>1, <2>2 DEF OutcomeInv
<1>8. CASE Settle
  <2>1. /\ pc = "settle" /\ pc' = "returned"
        /\ UNCHANGED <<levels, L, envStrat, status>>
        /\ unreal' = (unreal /\ (ok \/ opts.exports = {}))
    BY <1>8 DEF Settle, report
  <2>2. status = "none"
    BY <2>1 DEF ReportInv
  <2>3. unreal' /\ opts.exports # {} => unreal /\ ok
    BY <2>1
  <2> QED BY <1>0, <1>g, <2>1, <2>2, <2>3 DEF OutcomeInv
<1>9. CASE ReturnUnstaged \/ Publish
  <2>1. /\ pc = "returned" /\ pc' = "done" /\ status' = Reported
        /\ UNCHANGED <<levels, L, envStrat, strat, unreal>>
    BY <1>9 DEF ReturnUnstaged, Publish, result
  <2>2. status' = "REALIZABLE" => ~strat.none
    BY <2>1 DEF Reported
  <2>3. status' = "UNREALIZABLE" => unreal
    BY <2>1 DEF Reported
  <2> QED BY <1>0, <1>g, <2>1, <2>2, <2>3 DEF OutcomeInv
<1>10. CASE Withdraw
  <2>1. pc' = "done" /\ status' = "ERROR" /\ envStrat' = None
    BY <1>10 DEF Withdraw
  <2> QED BY <1>n, <2>1 DEF OutcomeInv
<1>11. CASE UNCHANGED vars
  <2>1. UNCHANGED <<pc, ok, unreal, levels, L, envStrat, strat, status>>
    BY <1>11 DEF vars, result, report
  <2> QED BY <1>0, <1>g, <2>1 DEF OutcomeInv
<1> QED
  BY <1>1, <1>2, <1>3, <1>4, <1>5, <1>6, <1>7, <1>8, <1>9, <1>10, <1>11 DEF Next

\* The environment's half of what the checker accepts.
LEMMA EnvironmentAccepted ==
  ASSUME TypeOK, EnvGood
  PROVE  LET cert == EnvironmentCertificate IN
           /\ Len(cert.levels) > 0
           /\ \A k \in 1..Len(cert.levels), ga \in GoalIx \X FairIx :
                Len(cert.levels[k].x[ga]) > 0
           /\ EnvironmentShape(game, cert)
           /\ game.reset \in cert.inv
           /\ \A mode \in Modes(NumFairs(game)) :
                EnvironmentMode(game, envStrat, cert, mode)
<1> DEFINE cert == EnvironmentCertificate
           n == Len(levels)
<1>0. Outers(game, levels, L) /\ game.reset \in L /\ EnvKeeps(envStrat)
  BY DEF EnvGood, Lost
<1>n. /\ NumFairs(game) \in Nat /\ NumFairs(game) >= 1 /\ n \in Nat
      /\ GoalIx = 1..NumGoals(game) /\ FairIx = 1..NumFairs(game)
  BY GameFacts DEF TypeOK, GoalIx, FairIx
<1>p. n > 0 /\ L = levels[n].z /\ n \in 1..n
  <2>1. n # 0 /\ L = levels[n].z
    BY <1>0 DEF Outers
  <2> QED BY <1>n, <2>1
<1>c. cert.inv = L /\ cert.stateOnly = TRUE /\ Len(cert.levels) = n
  BY <1>n DEF EnvironmentCertificate
<1>l. ASSUME NEW k \in 1..n
      PROVE  /\ cert.levels[k].z = levels[k].z
             /\ cert.levels[k].x = levels[k].x
             /\ \A g \in GoalIx : cert.levels[k].y[g] = levels[k].y[g][1]
  <2> DEFINE Level == [z : SUBSET State, y : Levelled, x : Ranked]
             Y == [g \in GoalIx |-> levels[k].y[g][1]]
  <2>1. levels \in Seq(Level)
    BY DEF TypeOK
  <2> HIDE DEF Level
  <2>2. levels[k] \in Level
    BY <1>l, <2>1
  <2>3. cert.levels[k] = [levels[k] EXCEPT !.y = Y]
    BY <1>l DEF EnvironmentCertificate
  <2> HIDE DEF Y
  <2>4. /\ [levels[k] EXCEPT !.y = Y].z = levels[k].z
        /\ [levels[k] EXCEPT !.y = Y].x = levels[k].x
        /\ [levels[k] EXCEPT !.y = Y].y = Y
    BY <2>2 DEF Level
  <2>5. \A g \in GoalIx : Y[g] = levels[k].y[g][1]
    BY DEF Y
  <2> QED BY <2>3, <2>4, <2>5
<1> HIDE DEF cert
<1>z. ASSUME NEW k \in 1..n PROVE Before(cert, k) = LowerZ(k)
  <2>1. k # 1 => k - 1 \in 1..n
    BY <1>z, <1>n
  <2>2. k # 1 => cert.levels[k - 1].z = levels[k - 1].z
    BY <1>l, <2>1
  <2> QED BY <2>2 DEF Before, LowerZ
<1> HIDE DEF n
<1>1. Len(cert.levels) > 0
  BY <1>p, <1>c
<1>2. \A k \in 1..Len(cert.levels), ga \in GoalIx \X FairIx :
        Len(cert.levels[k].x[ga]) > 0
  <2> SUFFICES ASSUME NEW k \in 1..n, NEW g \in GoalIx, NEW a \in FairIx
               PROVE  Len(cert.levels[k].x[<<g, a>>]) > 0
    BY <1>c
  <2>1. Len(levels[k].x[<<g, a>>]) \in Nat \ {0}
    BY <1>0, OuterFacts DEF n
  <2>2. cert.levels[k].x = levels[k].x
    BY <1>l
  <2> QED BY <2>1, <2>2
<1>3. EnvironmentShape(game, cert)
  <2>1. cert.stateOnly
    BY <1>c, Zenon
  <2>2. ASSUME NEW k \in 1..n, NEW g \in GoalIx, NEW a \in FairIx,
               NEW l \in 2..Len(cert.levels[k].x[<<g, a>>])
        PROVE  cert.levels[k].x[<<g, a>>][l - 1] \subseteq cert.levels[k].x[<<g, a>>][l]
    <3> DEFINE s == levels[k].x[<<g, a>>]
    <3>1. Len(s) \in Nat /\ \A m \in 1..Len(s) : Prev(s, m) \subseteq s[m]
      BY <1>0, <2>2, OuterFacts DEF n
    <3>2. cert.levels[k].x[<<g, a>>] = s
      BY <1>l, <2>2
    <3> HIDE DEF s
    <3>3. l \in 1..Len(s) /\ l # 1
      BY <2>2, <3>1, <3>2
    <3> QED BY <3>1, <3>2, <3>3 DEF Prev
  <2>3. ASSUME NEW k \in 1..n, NEW g \in GoalIx
        PROVE  cert.levels[k].y[g] =
                 {s \in State : \A a \in FairIx : s \in LastOf(cert.levels[k].x[<<g, a>>])}
    <3>1. levels[k].y[g][1] =
            {s \in State : \A a \in FairIx : s \in LastOf(levels[k].x[<<g, a>>])}
      BY <1>0, <2>3, OuterFacts DEF n
    <3>2. cert.levels[k].x = levels[k].x /\ cert.levels[k].y[g] = levels[k].y[g][1]
      BY <1>l, <2>3
    <3> QED BY <3>1, <3>2, Zenon
  <2>4. ASSUME NEW k \in 1..n
        PROVE  /\ cert.levels[k].z = UNION {cert.levels[k].y[g] : g \in GoalIx}
               /\ Before(cert, k) \subseteq cert.levels[k].z
    <3>1. /\ levels[k].z = UNION {levels[k].y[g][1] : g \in GoalIx}
          /\ LowerZ(k) \subseteq levels[k].z
      BY <1>0, <2>4, OuterFacts DEF n
    <3>2. {levels[k].y[g][1] : g \in GoalIx} = {cert.levels[k].y[g] : g \in GoalIx}
      BY <1>l, <2>4
    <3>3. cert.levels[k].z = levels[k].z /\ Before(cert, k) = LowerZ(k)
      BY <1>l, <1>z, <2>4
    <3> QED BY <3>1, <3>2, <3>3
  <2>5. cert.inv = LastOf(cert.levels).z
    BY <1>c, <1>p, <1>l DEF LastOf
  <2>6. ASSUME NEW k \in 1..Len(cert.levels)
        PROVE  LET level == cert.levels[k] IN
                 /\ \A g \in 1..NumGoals(game), a \in 1..NumFairs(game) :
                      \A l \in 2..Len(level.x[<<g, a>>]) :
                        level.x[<<g, a>>][l - 1] \subseteq level.x[<<g, a>>][l]
                 /\ \A g \in 1..NumGoals(game) :
                      level.y[g] = {s \in State : \A a \in 1..NumFairs(game) :
                                                    s \in LastOf(level.x[<<g, a>>])}
                 /\ level.z = UNION {level.y[g] : g \in 1..NumGoals(game)}
                 /\ Before(cert, k) \subseteq level.z
    <3>1. k \in 1..n
      BY <1>c, <2>6
    <3>2. /\ \A g \in 1..NumGoals(game), a \in 1..NumFairs(game) :
                \A l \in 2..Len(cert.levels[k].x[<<g, a>>]) :
                  cert.levels[k].x[<<g, a>>][l - 1] \subseteq cert.levels[k].x[<<g, a>>][l]
      BY <1>n, <2>2, <3>1
    <3>3. \A g \in 1..NumGoals(game) : cert.levels[k].y[g] =
             {s \in State : \A a \in 1..NumFairs(game) :
                              s \in LastOf(cert.levels[k].x[<<g, a>>])}
      BY <2>3, <3>1, Zenon DEF GoalIx, FairIx
    <3>4. /\ cert.levels[k].z = UNION {cert.levels[k].y[g] : g \in 1..NumGoals(game)}
          /\ Before(cert, k) \subseteq cert.levels[k].z
      BY <1>n, <2>4, <3>1, Zenon
    <3> QED BY <3>2, <3>3, <3>4, Zenon
  <2> QED BY <2>1, <2>5, <2>6, Zenon DEF EnvironmentShape
<1>4. ASSUME NEW mode \in Modes(NumFairs(game)), NEW s \in L
      PROVE  LET met == s \in Fair(game, Current(mode))
                 phase == IF met THEN Cyclic(Current(mode), NumFairs(game))
                          ELSE Current(mode)
             IN  /\ envStrat.count[<<s, mode>>] = Prescribed(mode, NumFairs(game), met)
                 /\ \A k \in 1..Len(cert.levels), g \in 1..NumGoals(game) :
                      \A l \in 1..Len(cert.levels[k].x[<<g, phase>>]) :
                        s \in DualLayer(game, cert, k, g, l, phase) =>
                          \A c \in CMove :
                            <<s, envStrat.out[<<s, mode>>], c>> \in
                              BadOrInto(game, DualProgress(game, cert, k, g, l, phase))
  <2> DEFINE a == Awaited(mode, s)
             o == envStrat.out[<<s, mode>>]
  <2>1. a \in FairIx
    BY <1>4, AwaitedFacts
  <2>2. /\ envStrat.count[<<s, mode>>] = {a}
        /\ \A c \in CMove, k \in 1..Len(levels), g \in GoalIx :
             \A l \in 1..Len(levels[k].x[<<g, a>>]) :
               Denies(k, g, s) /\ HasRank(k, g, a, l, s)
                 => <<s, o, c>> \in BadOrInto(game, RankTarget(k, g, a, l))
    BY <1>0, <1>4 DEF EnvKeeps, EnvRoundKept
  <2> HIDE DEF a, o
  <2>3. ASSUME NEW k \in 1..Len(cert.levels), NEW g \in 1..NumGoals(game),
               NEW l \in 1..Len(cert.levels[k].x[<<g, a>>]), NEW c \in CMove,
               s \in DualLayer(game, cert, k, g, l, a)
        PROVE  <<s, o, c>> \in BadOrInto(game, DualProgress(game, cert, k, g, l, a))
    <3>0. k \in 1..n /\ k \in 1..Len(levels) /\ g \in GoalIx
      BY <1>c, <1>n, <2>3 DEF n
    <3>1. /\ cert.levels[k].z = levels[k].z /\ cert.levels[k].x = levels[k].x
          /\ Before(cert, k) = LowerZ(k)
          /\ \A e \in GoalIx : cert.levels[k].y[e] = levels[k].y[e][1]
      BY <1>l, <1>z, <3>0
    <3>2. \A e \in 1..(g - 1) : e \in GoalIx
      BY <1>n, <3>0, GameFacts DEF TypeOK
    <3>3. Denies(k, g, s)
      BY <2>3, <3>0, <3>1, <3>2 DEF DualLayer, Denies
    <3>4. HasRank(k, g, a, l, s)
      BY <2>3, <3>1 DEF DualLayer, HasRank
    <3>5. DualProgress(game, cert, k, g, l, a) = RankTarget(k, g, a, l)
      BY <3>0, <3>1 DEF DualProgress, RankTarget
    <3>6. l \in 1..Len(levels[k].x[<<g, a>>])
      BY <2>3, <3>1
    <3> QED BY <2>2, <2>3, <3>0, <3>3, <3>4, <3>5, <3>6
  <2>4. a = IF s \in Fair(game, Current(mode)) THEN Cyclic(Current(mode), NumFairs(game))
            ELSE Current(mode)
    BY DEF a, Awaited
  <2>5. {a} = Prescribed(mode, NumFairs(game), s \in Fair(game, Current(mode)))
    BY <2>4, Zenon DEF Prescribed
  <2> QED BY <2>2, <2>3, <2>4, <2>5, Zenon DEF o
<1>5. ASSUME NEW mode \in Modes(NumFairs(game))
      PROVE  EnvironmentMode(game, envStrat, cert, mode)
  BY <1>c, <1>4, <1>5, Zenon DEF EnvironmentMode
<1>6. game.reset \in cert.inv
  BY <1>0, <1>c
<1> QED BY <1>1, <1>2, <1>3, <1>5, <1>6, Zenon DEF cert

StrategyInvs ==
  /\ TypeOK /\ Indices /\ ReportInv /\ FixInv
  /\ LevelInv /\ StrategyInv /\ DualInv /\ OutcomeInv

LEMMA StrategyHolds == Spec => []StrategyInvs
<1>1. Init => LevelInv /\ StrategyInv /\ DualInv /\ OutcomeInv
  BY DEF Init, None, LevelInv, StrategyInv, DualInv, OutcomeInv, Decided, Refuting,
         Late, Early, Dual, Fixpoint
<1>2. (TypeOK /\ Indices /\ ReportInv /\ FixInv) /\ LevelInv /\ StrategyInv
        /\ DualInv /\ OutcomeInv /\ [Next]_vars
        => LevelInv' /\ StrategyInv' /\ DualInv' /\ OutcomeInv'
  BY LevelStep, StrategyStep, DualStep, OutcomeStep
<1> QED BY <1>1, <1>2, FixHolds, PTL DEF Spec, StrategyInvs

\* Whatever solve_gr1_oxidd exports with a verdict, tlsf_gr1_check accepts: the
\* controller's certificate and policy with REALIZABLE, the environment's with
\* UNREALIZABLE, for every game over every set of latch valuations and any number
\* of inputs, goals and assumptions.
THEOREM ExportsPass == Spec => []Certified
<1>1. StrategyInvs => ControllerCertified
  <2> SUFFICES ASSUME StrategyInvs, status = "REALIZABLE" PROVE ControllerCertified
    BY DEF ControllerCertified
  <2>1. TypeOK /\ ~strat.none /\ ControllerGood
    BY DEF StrategyInvs, StrategyInv, OutcomeInv
  <2> QED BY <2>1, ControllerAccepted, Zenon DEF ControllerCertified
<1>2. StrategyInvs => CounterStrategyCertified
  <2> SUFFICES ASSUME StrategyInvs, status = "UNREALIZABLE",
                      artifacts = {"certificate", "policy"}
               PROVE  CounterStrategyCertified
    BY Zenon DEF CounterStrategyCertified
  <2>1. TypeOK /\ opts.exports # {}
    BY DEF StrategyInvs, TypeOK
  <2>2. EnvGood
    BY <2>1 DEF StrategyInvs, OutcomeInv
  <2> QED BY <2>1, <2>2, EnvironmentAccepted, Zenon DEF CounterStrategyCertified
<1>3. StrategyInvs => Certified
  BY <1>1, <1>2 DEF Certified
<1> QED BY <1>3, StrategyHolds, PTL

-----------------------------------------------------------------------------
\* Before the verdict nobody plays; after it the play stays inside the region
\* of the side that wins, and the counter is one-hot or still zero.
PlayInv ==
  /\ status \notin {"REALIZABLE", "UNREALIZABLE"} =>
       plant = game.reset /\ memory = game.reset /\ counter = {} /\ ~bad
  /\ status = "REALIZABLE" =>
       ~bad /\ memory = plant /\ plant \in W /\ counter \in Modes(NumGoals(game))
  /\ status = "UNREALIZABLE" =>
       /\ counter \in Modes(NumFairs(game))
       /\ opts.exports # {} /\ ~bad => plant \in L


LEMMA PlayStep ==
  ASSUME StrategyInvs, StrategyInvs', PlayInv, [LoopNext]_loopVars
  PROVE  PlayInv'
<1>t. TypeOK /\ ReportInv
  BY DEF StrategyInvs
<1>m. \A n : {} \in Modes(n)
  BY DEF Modes
<1>1. CASE Solve
  <2>1. /\ pc # "done" /\ [Next]_vars
        /\ UNCHANGED <<plant, memory, counter, bad>>
    BY <1>1 DEF Solve, Next, BadBuffers, EarlyReturn, SetUp, SetUpFails, Construct,
         DescendX, SettleX, ClimbY, SettleY, DescendW, SettleW, FixpointFails,
         Verdict, VerdictFails, ClimbDualX, SettleDualX, DescendDualY,
         SettleDualY, ClimbDualZ, SettleDualZ, DualFails, CounterStrategy,
         Relation, Convert, ExtractionFails, Poll, Export, ExportFails, Settle,
         ReturnUnstaged, Publish, Withdraw
  <2>2. plant' = game.reset /\ memory' = game.reset /\ counter' = {} /\ ~bad'
    BY <1>t, <2>1 DEF ReportInv, PlayInv
  <2>3. game' = game /\ opts' = opts
    BY <2>1, InputsKept
  <2>4. status' = "REALIZABLE" => game'.reset \in W'
    BY DEF StrategyInvs, OutcomeInv, StrategyInv, ControllerGood
  <2>5. status' = "UNREALIZABLE" /\ opts'.exports # {} => game'.reset \in L'
    BY DEF StrategyInvs, OutcomeInv, EnvGood, Lost
  <2> QED BY <1>m, <2>2, <2>3, <2>4, <2>5 DEF PlayInv
<1>2. ASSUME NEW u \in UMove, ControllerRound(u) PROVE PlayInv'
  <2>0. status = "REALIZABLE" /\ UNCHANGED vars
    BY <1>2 DEF ControllerRound, Play
  <2>1. UNCHANGED <<status, game, W>>
    BY <2>0 DEF vars, result, report
  <2>2. ~bad /\ memory = plant /\ plant \in W /\ counter \in Modes(NumGoals(game))
    BY <2>0 DEF PlayInv
  <2>3. ControllerGood
    BY <2>0 DEF StrategyInvs, OutcomeInv, StrategyInv
  <2>4. /\ RoundKept(strat, counter, plant, u)
        /\ strat.count[<<plant, counter>>] =
             Prescribed(counter, NumGoals(game), plant \in game.goals[Current(counter)])
    BY <1>2, <2>2, <2>3, Zenon DEF ControllerGood, ControllerKeeps
  <2> DEFINE c == strat.out[<<plant, counter, u>>]
  <2>5. /\ strat.next[<<plant, counter, u>>] = game.succ[<<plant, u, c>>]
        /\ <<plant, u, c>> \in SafeInto(game, W)
    BY <2>4 DEF RoundKept
  <2>6. /\ plant' = game.succ[<<plant, u, c>>]
        /\ bad' = (bad \/ <<plant, u, c>> \in game.bad)
        /\ memory' = strat.next[<<plant, counter, u>>]
        /\ counter' = strat.count[<<plant, counter>>]
    BY <1>2, <2>2 DEF ControllerRound, Play
  <2>7. ~bad' /\ plant' \in W /\ memory' = plant'
    BY <2>2, <2>5, <2>6 DEF SafeInto
  <2>8. counter' \in Modes(NumGoals(game))
    <3>1. NumGoals(game) \in Nat /\ NumGoals(game) > 0
      BY <1>t, <2>3, GameFacts DEF TypeOK, ControllerGood, GoalIx
    <3>2. \A met \in BOOLEAN :
            Prescribed(counter, NumGoals(game), met) \in Modes(NumGoals(game))
      BY <2>2, <3>1, ModeFacts
    <3>3. \/ Prescribed(counter, NumGoals(game), plant \in game.goals[Current(counter)])
               = Prescribed(counter, NumGoals(game), TRUE)
          \/ Prescribed(counter, NumGoals(game), plant \in game.goals[Current(counter)])
               = Prescribed(counter, NumGoals(game), FALSE)
      BY Zenon DEF Prescribed
    <3> QED BY <2>4, <2>6, <3>2, <3>3, Zenon
  <2> QED BY <2>0, <2>1, <2>7, <2>8 DEF PlayInv
<1>3. ASSUME NEW c \in CMove, EnvironmentRound(c) PROVE PlayInv'
  <2>0. status = "UNREALIZABLE" /\ opts.exports # {} /\ ~bad /\ UNCHANGED vars
    BY <1>3 DEF EnvironmentRound, Play
  <2>1. UNCHANGED <<status, game, opts, L>>
    BY <2>0 DEF vars, result, report
  <2>2. plant \in L /\ counter \in Modes(NumFairs(game))
    BY <2>0 DEF PlayInv
  <2>3. Outers(game, levels, L) /\ EnvKeeps(envStrat)
    BY <2>0 DEF StrategyInvs, OutcomeInv, EnvGood, Lost
  <2> DEFINE a == Awaited(counter, plant)
             u == envStrat.out[<<plant, counter>>]
  <2>4. a \in FairIx /\ {a} \in Modes(NumFairs(game))
    BY <1>t, <2>2, AwaitedFacts
  <2>5. /\ envStrat.count[<<plant, counter>>] = {a}
        /\ \A k \in 1..Len(levels), g \in GoalIx :
             \A l \in 1..Len(levels[k].x[<<g, a>>]) :
               Denies(k, g, plant) /\ HasRank(k, g, a, l, plant)
                 => <<plant, u, c>> \in BadOrInto(game, RankTarget(k, g, a, l))
    BY <1>3, <2>2, <2>3 DEF EnvKeeps, EnvRoundKept
  <2>6. /\ plant' = game.succ[<<plant, u, c>>]
        /\ bad' = (bad \/ <<plant, u, c>> \in game.bad)
        /\ counter' = envStrat.count[<<plant, counter>>]
    BY <1>3 DEF EnvironmentRound, Play
  <2> HIDE DEF a, u
  <2>7. PICK k \in 1..Len(levels), g \in GoalIx : Denies(k, g, plant)
    BY <1>t, <2>2, <2>3, DenialExists
  <2>8. PICK l \in 1..Len(levels[k].x[<<g, a>>]) : HasRank(k, g, a, l, plant)
    BY <1>t, <2>3, <2>4, <2>7, RankExists DEF Denies
  <2>9. <<plant, u, c>> \in BadOrInto(game, RankTarget(k, g, a, l))
    BY <2>5, <2>7, <2>8
  <2>10. ~bad' => plant' \in RankTarget(k, g, a, l)
    BY <2>6, <2>9 DEF BadOrInto
  <2>11. RankTarget(k, g, a, l) \subseteq levels[k].y[g][1]
    BY DEF RankTarget
  <2>12. levels[k].y[g][1] \subseteq L
    <3>1. levels[k].z \subseteq L /\ levels[k].z = UNION {levels[k].y[e][1] : e \in GoalIx}
      BY <1>t, <2>3, <2>7, OuterFacts
    <3> QED BY <2>7, <3>1
  <2>13. counter' \in Modes(NumFairs(game))
    BY <2>4, <2>5, <2>6
  <2> QED BY <2>0, <2>1, <2>10, <2>11, <2>12, <2>13 DEF PlayInv
<1>4. CASE UNCHANGED loopVars
  BY <1>4 DEF loopVars, vars, result, report, PlayInv
<1> QED BY <1>1, <1>2, <1>3, <1>4 DEF LoopNext, Round

\* The strategy that is handed out keeps its side's region whatever the other side
\* plays: the controller plays no bad round, its latches follow the game and its
\* goal counter stays one-hot; the environment's policy keeps the controller
\* losing until a round is bad.
THEOREM StrategyKeepsRegion == LoopSpec => []StrategySafe
<1>1. LoopInit => Init /\ PlayInv
  BY DEF LoopInit, Init, PlayInv
<1>2. [LoopNext]_loopVars => [Next]_vars
  <2>1. Solve => Next
    BY DEF Solve
  <2>2. Round => UNCHANGED vars
    BY DEF Round, ControllerRound, EnvironmentRound, Play
  <2>3. UNCHANGED loopVars => UNCHANGED vars
    BY DEF loopVars
  <2> QED BY <2>1, <2>2, <2>3 DEF LoopNext
<1>3. LoopSpec => []StrategyInvs
  BY <1>1, <1>2, StrategyHolds, PTL DEF LoopSpec, Spec
<1>4. StrategyInvs /\ StrategyInvs' /\ PlayInv /\ [LoopNext]_loopVars => PlayInv'
  BY PlayStep
<1>5. StrategyInvs /\ PlayInv => StrategySafe
  <2> SUFFICES ASSUME StrategyInvs, PlayInv PROVE StrategySafe
    OBVIOUS
  <2>n. TypeOK /\ game \in Games
    BY DEF StrategyInvs, TypeOK
  <2>1. CASE status = "REALIZABLE"
    <3>1. /\ ~bad /\ memory = plant /\ plant \in W
          /\ counter \in Modes(NumGoals(game))
      BY <2>1 DEF PlayInv
    <3>2. NumGoals(game) \in Nat /\ NumGoals(game) > 0
      BY <2>1, <2>n, GameFacts
         DEF StrategyInvs, OutcomeInv, StrategyInv, ControllerGood, GoalIx
    <3>3. Cardinality(counter) <= 1
      BY <3>1, <3>2, ModeFacts
    <3> QED BY <2>1, <3>1, <3>3 DEF StrategySafe
  <2>2. CASE status = "UNREALIZABLE"
    <3>1. /\ counter \in Modes(NumFairs(game))
          /\ opts.exports # {} /\ ~bad => plant \in L
      BY <2>2 DEF PlayInv
    <3>2. Cardinality(counter) <= 1
      BY <2>n, <3>1, AwaitedFacts
    <3> QED BY <2>2, <3>1, <3>2 DEF StrategySafe
  <2>3. CASE status \notin {"REALIZABLE", "UNREALIZABLE"}
    <3>1. counter = {}
      BY <2>3 DEF PlayInv
    <3>2. Cardinality(counter) <= 1
      BY <3>1, FS_EmptySet
    <3> QED BY <2>3, <3>2 DEF StrategySafe
  <2> QED BY <2>1, <2>2, <2>3
<1> QED BY <1>1, <1>3, <1>4, <1>5, PTL DEF LoopSpec
=============================================================================
